SPECIFICATION Spec
CONSTANTS
  InputTasks = {}
  Settings <- FactoryOnly
  EnvEvents = {}
  SleepThreshold = 2
  FailingInit = {}
  FailingDeinit = {}
PROPERTIES
  DeinitReturns
