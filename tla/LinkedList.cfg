SPECIFICATION Spec
CONSTANTS
  Frame = {1, 2, 3}
  MaxNodes = 4
INVARIANT CallsKeepPromise
INVARIANT DoublyLinked
INVARIANT NoNullDereference
PROPERTY EveryStepCounts
PROPERTY CallsReturn
CHECK_DEADLOCK FALSE
