CONSTANTS
  Apps = {app}
  Reader = reader
  Requests = {"ChangePW"}
  SpotCounts = {1}
  DefaultSpots = 1
  UnsetFlag = {FALSE}
  LoginReplies = {"Success", "WrongPW"}
  ConnectFailures = {"connect"}
  ConnectionFails = FALSE
  AppMay <- Documented
  HandlerMay <- Never
  MaxCalls = 5
  MaxExtras = 0
SPECIFICATION Spec
INVARIANTS
  NoDeletedThread
CHECK_DEADLOCK FALSE
