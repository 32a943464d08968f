CONSTANTS
  Apps = {app}
  Reader = reader
  Requests = {"ChangePW", "GetNextExpired"}
  SpotCounts = {1, 2}
  DefaultSpots = 2
  UnsetFlag = {FALSE}
  LoginReplies = {"Success", "WrongPW", "UsernameNotFound"}
  ConnectFailures = {}
  ConnectionFails = FALSE
  AppMay <- Starter
  HandlerMay <- Handlers
  MaxCalls = 6
  MaxExtras = 1
SPECIFICATION Spec
INVARIANTS
  RequestsOnlyInSession
PROPERTIES
  KeepsPromise
CHECK_DEADLOCK FALSE
