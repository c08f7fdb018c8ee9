\* One transfer of every read length without faults, and two in a row with every
\* fault, at the real FIFO depth.
CONSTANTS
  DEPTH = 16
  BLOCK_MAX = 32
  DYNAMIC_MAX = 255
  Workloads <- MCTransfers
  MAX_MOVED = 45
SPECIFICATION FairSpec
INVARIANTS TypeOK StatusTruthful BufferBounded HandlerOnLiveMessages MoreOrWakeup WokenBySelf NeverHangs
PROPERTIES XferSucceeds
CHECK_DEADLOCK FALSE
