SPECIFICATION Spec
CONSTANTS
  InputTasks = {"buttons"}
  Settings <- AllSettings
  EnvEvents = {"psu", "wifi", "hostLeaves", "batteryDead"}
  SleepThreshold = 2
  FailingInit = {"bluedroid_enable"}
  FailingDeinit = {"controller_enable"}
INVARIANTS
  TypeOK
  MutexProtectsLifecycle
  MutexHeldByWorker
  ActiveMeansUp
  TimersDeletedOnlyForSleep
