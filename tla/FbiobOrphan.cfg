\* One FPGA that may be unbound while two user threads work on it.
CONSTANTS
  fpga1 = fpga1
  fpga2 = fpga2
  t1 = t1
  t2 = t2
  Nobody = Nobody
  FPGA = {fpga1}
  Thread = {t1, t2}
  Key = {"mux.0", "mux.1"}
  MAX_DEVICES = 1
  NodeName <- MCDistinctNames
  HOT_UNBIND = TRUE
SPECIFICATION Spec
INVARIANTS NoOrphans
