SPECIFICATION FairSpec
CONSTANTS
  MAX_REQUEST = 2
  numThread = 2
  CRASH = TRUE
  AcceptMayFail = FALSE
  ClientsLeave = FALSE
  MaxFd = 4
  MaxConn = 2
PROPERTY CrashedAreReplaced
CHECK_DEADLOCK FALSE
