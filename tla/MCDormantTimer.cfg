SPECIFICATION QuietSpec
CONSTANTS
  InputTasks = {}
  Settings <- LightOnly
  EnvEvents = {}
  SleepThreshold = 2
  FailingInit = {}
  FailingDeinit = {}
PROPERTIES
  LightSleepComes
