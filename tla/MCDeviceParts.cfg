SPECIFICATION PartsSpec
CONSTANTS
  Samples = {0, 2, 3, 5}
  Dead = 1
  Warning = 2
  Normal = 3
  Full = 5
  Tasks = {"buttons", "encoder"}
  Names = {"KC_A", "KC_B", "KC_MEDIA_FAST_FORWARD", "KC_NONE"}
  Long = {"KC_MEDIA_FAST_FORWARD"}
  Unknown = {"KC_NONE"}
  Slots = 2
  ActionTasks = {"buttons", "encoder"}
  Kinds = {"keyboard", "mouse"}
  MaxTimers = 2
  Senders = {"bridge", "buttons"}
  TableIds = {1, 4, 6}
  Low = {1}
  NoId = 0
  LruSize = 2
  Searched = 1
  DeviceKinds = {"keyboard", "combo", "gamepad"}
  Ifaces = {0, 1}
  Declared <- MCDeclared
  NoKind = "none"
  FirstBytes = {0, 1, 2, 3}
  TableSize = 3
  QueueSize = 2
  MaxPlugs = 3
  Usages = {"x", "y"}
  NoUsage = "none"
  Padding = "pad"
  Ranged = "range"
  ReportIds = {1, 2}
  Sizes = {2}
  Counts = {1, 2}
  MaxFields = 4
  MaxReports = 3
  MaxItems = 6
  ByteBits = 3
  Bytes = 3
  MaxBits = 8
INVARIANTS
  PartsTypeOK
  ChargerFollowsPhase
  SlowPhaseIsLimited
  UnplugClears
  CacheAnswersRightly
  NoStuckAction
  ReportsKeepTheirHandle
  ReadWithOwnMap
  NoInterfaceForgotten
  AxesWhereDeclared
  FieldReadRightly
PROPERTY
  WarningsStay
CHECK_DEADLOCK FALSE
