SPECIFICATION Spec
CONSTANTS
  MAX_REQUEST = 2
  numThread = 2
  CRASH = FALSE
  AcceptMayFail = FALSE
  ClientsLeave = FALSE
  MaxFd = 4
  MaxConn = 3
PROPERTY EachRequestTakenOnce
CHECK_DEADLOCK FALSE
