SPECIFICATION WebFairSpec
CONSTANTS
  Nets = {"home", "cafe"}
  Works = {"home"}
  NoNet = "none"
  MaxRetry = 2
  MaxEvents = 2
PROPERTY
  InactivityStopsWifi
