SPECIFICATION Spec
CONSTANTS
  InputTasks = {}
  Settings <- HeldOnly
  EnvEvents = {}
  SleepThreshold = 2
  FailingInit = {}
  FailingDeinit = {}
INVARIANTS
  NoSleepModeHolds
