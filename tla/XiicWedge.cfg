\* A reset of the core fails at the start of a transfer, and another follows.
CONSTANTS
  DEPTH = 16
  BLOCK_MAX = 32
  DYNAMIC_MAX = 255
  Workloads <- MCFailingReset
  MAX_MOVED = 45
SPECIFICATION Spec
PROPERTIES RefusedOnlyWhileBusy
CHECK_DEADLOCK FALSE
