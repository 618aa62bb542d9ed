SPECIFICATION ServicesSpec
CONSTANTS
  Threshold = 5
  Debounce = 2
  MaxGap = 3
  HoldTime = 4
  MaxBlock = 2
  Hosts = {"a", "b"}
  NoHost = "none"
  KindOf <- MCKindOf
  PublicKind = "public"
  NoKind = "nokind"
  Docs = {"d"}
  Default = "default"
  NoDoc = "none"
  Paths = {"p", "q"}
  Readers = {"led", "buttons"}
  Places = 1
  Length <- MCLength
  RowSize = 3
  BufferSize = 2
  Nets = {"home", "cafe"}
  Works = {"home"}
  NoNet = "none"
  MaxRetry = 2
  MaxEvents = 2
  Broadcasters = {"ping", "server"}
  Sockets = {1, 2}
  NoSocket = 0
  MaxFailed = 2
  Slots = {"a", "b"}
  Chunks = 3
INVARIANTS
  ServicesTypeOK
  PressAnswered
  HeldAtBootIsSilent
  RestartNeedsHold
  NeverMixed
  SavedSettingsSurvive
  GettersAnswerRightly
  SavedCredentialsWorked
  FlagIsForOneBoot
  LiveClientsAreServed
  DeviceStaysBootable
PROPERTIES
  ReleaseIsSeen
  HoldRestarts
  KnowsLastHost
  HandlerReturns
CHECK_DEADLOCK FALSE
