\* Two trays, two storing threads, writes to the class devices besides.
CONSTANTS
  tray1 = tray1
  tray2 = tray2
  t1 = t1
  t2 = t2
  Fan = {tray1, tray2}
  Thread = {t1, t2}
  Probe = Probe
  Nobody = Nobody
  MAX_STORES = 2
SPECIFICATION FairSpec
INVARIANTS TypeOK OneColor WrongColorNeverStays
PROPERTIES NoLostUpdate ComesToRest
CHECK_DEADLOCK FALSE
