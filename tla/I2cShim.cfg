\* All three threads overlap: xiic and the mux are bound and unbound at any time.
CONSTANTS
  CHANNELS = 2
  BusNumber <- MCBuses
  ClientId <- MCClients
  MAX_FAULTS = 1
SPECIFICATION FairSpec
INVARIANTS TypeOK UnregistersOwnClient LinksLive TreeComplete NothingLeft
PROPERTIES RemoveEnds
