CONSTANTS
  Apps = {app}
  Reader = reader
  Requests = {"ChangePW", "GetNextExpired"}
  SpotCounts = {1, 2}
  DefaultSpots = 2
  UnsetFlag = {FALSE}
  LoginReplies = {"Success", "WrongPW", "UsernameNotFound"}
  ConnectFailures = {}
  ConnectionFails = FALSE
  AppMay <- Careful
  HandlerMay <- Never
  MaxCalls = 4
  MaxExtras = 1
SPECIFICATION FairSpec
PROPERTIES
  Answered
  CallsReturn
CHECK_DEADLOCK FALSE
