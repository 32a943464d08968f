SPECIFICATION FairSpec
CONSTANTS
  Users = {u1, u2}
  Patient = TRUE
  MaxReported = 3
  MaxCalls = 4
  MaxSessions = 3
INVARIANTS PreparedAsReported ListUsedByOne
PROPERTY ChainEnds
CHECK_DEADLOCK FALSE
