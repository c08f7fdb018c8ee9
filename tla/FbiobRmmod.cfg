\* Two FPGAs, two user threads, one device name; only rmmod unbinds.
CONSTANTS
  fpga1 = fpga1
  fpga2 = fpga2
  t1 = t1
  t2 = t2
  Nobody = Nobody
  FPGA = {fpga1, fpga2}
  Thread = {t1, t2}
  Key = {"mux.0"}
  MAX_DEVICES = 2
  NodeName <- MCDistinctNames
  HOT_UNBIND = FALSE
SPECIFICATION FairSpec
INVARIANTS MinorsExact BarOutlivesChips ListsMatchBus NoOrphans FilesOnBoundFpgas
PROPERTIES IoctlsReturn ImplementsRegistry
