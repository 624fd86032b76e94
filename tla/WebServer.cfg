SPECIFICATION FairSpec
CONSTANTS
  MAX_REQUEST = 2
  numThread = 2
  CRASH = TRUE
  AcceptMayFail = TRUE
  ClientsLeave = TRUE
  MaxFd = 4
  MaxConn = 3
INVARIANT TypeOK
INVARIANT TokenConservation
INVARIANT SlotInBounds
INVARIANT NoCircularWait
PROPERTY ListenerReturns
PROPERTY BufferDrains
CHECK_DEADLOCK FALSE
