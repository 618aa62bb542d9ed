SPECIFICATION FairSpec
CONSTANTS
  InputTasks = {}
  Settings <- LightOrDeep
  EnvEvents = {"psu", "hostLeaves"}
  SleepThreshold = 3
  FailingInit = {}
  FailingDeinit = {"controller_enable"}
INVARIANTS
  InitOnlyWhenDown
PROPERTIES
  ImplementsSwitch
  PausedWakes
  IdleDeviceSleeps
