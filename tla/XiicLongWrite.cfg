\* A long write that another message follows, refused by the slave on any byte.
CONSTANTS
  DEPTH = 16
  BLOCK_MAX = 32
  DYNAMIC_MAX = 255
  Workloads <- MCLongWrite
  MAX_MOVED = 45
SPECIFICATION Spec
INVARIANTS StatusTruthful
CHECK_DEADLOCK FALSE
