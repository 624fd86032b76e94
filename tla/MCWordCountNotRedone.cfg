SPECIFICATION Spec
CONSTANTS
  nChildProc = 3
  Files <- OneFile
  INT_MAX = 127
  MaxKills = 1
  MaxFailures = 1
INVARIANT KilledAreRedone
CHECK_DEADLOCK FALSE
