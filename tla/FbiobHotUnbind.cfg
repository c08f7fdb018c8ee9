\* Two FPGAs that may be unbound at any time compete for one minor number
\* while a user thread works on them.
CONSTANTS
  fpga1 = fpga1
  fpga2 = fpga2
  t1 = t1
  t2 = t2
  Nobody = Nobody
  FPGA = {fpga1, fpga2}
  Thread = {t1}
  Key = {"mux.0"}
  MAX_DEVICES = 1
  NodeName <- MCDistinctNames
  HOT_UNBIND = TRUE
SPECIFICATION FairSpec
INVARIANTS TypeOK
PROPERTIES RemovalCompletes
