SPECIFICATION FairSpec
CONSTANTS
  nChildProc = 3
  Files <- TextFiles
  INT_MAX = 127
  MaxKills = 2
  MaxFailures = 1
INVARIANT TypeOK
INVARIANT TotalIsWholeFile
INVARIANT OneCountPerPipe
INVARIANT EveryChildIsReaped
PROPERTY OnlyKilledAreRedone
PROPERTY PrintsLikeWc
PROPERTY Terminates
CHECK_DEADLOCK FALSE
