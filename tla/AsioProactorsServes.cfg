SPECIFICATION Spec
CONSTANTS
  MinSize = 1
  MaxSize = 2
CHECK_DEADLOCK FALSE
INVARIANTS PoolServes
