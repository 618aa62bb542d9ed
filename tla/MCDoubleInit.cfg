SPECIFICATION Spec
CONSTANTS
  InputTasks = {"buttons"}
  Settings <- FactoryOnly
  EnvEvents = {}
  SleepThreshold = 2
  FailingInit = {}
  FailingDeinit = {}
INVARIANTS
  InitOnlyWhenDown
