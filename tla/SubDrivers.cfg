\* Two ports, one of them without a low-power pin and with an inverted reset.
CONSTANTS
  Device <- MCDevices
  Kinds <- MCKinds
  Thread = {"t1", "t2"}
  CellOf <- MCCells
  ActiveHigh = {"B"}
  NoLpMode = {"B"}
  Nobody = Nobody
\* A thread that used a NULL pointer stays in its callback for ever.
CHECK_DEADLOCK FALSE
SPECIFICATION FairSpec
INVARIANTS CallbacksFindData
PROPERTIES ImplementsSignals UnbindEnds
