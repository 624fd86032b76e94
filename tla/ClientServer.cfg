SPECIFICATION FairSpec
CONSTANTS
  nthread = 4
  Backlog = 1
  CRASH = TRUE
  CallsMayFail = TRUE
  MaxFailed = 2
INVARIANT TypeOK
INVARIANT NoneForgotten
INVARIANT PrintIsTrue
PROPERTY RecvReturns
PROPERTY ServerComesBack
PROPERTY ClientEnds
CHECK_DEADLOCK FALSE
