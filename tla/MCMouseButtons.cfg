SPECIFICATION FairSpec
CONSTANTS
  Half = 4
  MaxMove = 1
  Buttons = {0, 1}
  BatchSizes = {2, 3}
  FastThreshold = 2
  HostEvents = {}
PROPERTIES
  ButtonsArrive
