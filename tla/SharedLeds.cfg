\* A status LED and both colors of a port, in one register or in two.
CONSTANTS
  Led <- MCLeds
  Core <- MCCore
  Platform = {"m4340nhp", "split"}
  Layout <- MCLayout
  MAX_STORES = 3
  Nobody = Nobody
SPECIFICATION FairSpec
INVARIANTS PortExclusive CacheMatches
PROPERTIES SettersReturn ImplementsAtomic
CHECK_DEADLOCK FALSE
