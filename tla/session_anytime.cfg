CONSTANTS
  Apps = {app}
  Reader = reader
  Requests = {"ChangePW", "GetNextExpired"}
  SpotCounts = {1, 2}
  DefaultSpots = 2
  UnsetFlag = {FALSE, TRUE}
  LoginReplies = {"Success", "WrongPW", "UsernameNotFound"}
  ConnectFailures = {"socket", "connect"}
  ConnectionFails = TRUE
  AppMay <- Anytime
  HandlerMay <- Handlers
  MaxCalls = 4
  MaxExtras = 1
SPECIFICATION Spec
INVARIANTS
  TypeOK
  OneSession
  NoStaleRequest
  Conversation
  NoEventWithoutCall
  OneSocket
CHECK_DEADLOCK FALSE
