\* No call fails, and xiic is unbound while the shim is removed.
CONSTANTS
  CHANNELS = 2
  BusNumber <- MCBuses
  ClientId <- MCClients
  MAX_FAULTS = 0
SPECIFICATION Spec
INVARIANTS UnregistersNoFreedClient
