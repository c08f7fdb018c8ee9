\* One mux of five channels, a sibling driver and a direct user of it.
CONSTANTS
  Nobody = Nobody
  Mux = {"mux"}
  Sibling = {"psu"}
  Direct = {"i2cdev"}
  CHANNELS <- MCFive
  MAX_UNLINKED = 1
SPECIFICATION FairSpec
INVARIANTS TypeOK TransferOnLiveChannel ChannelSelected ListedMuxIsComplete
PROPERTIES RemovalsAndCallsEnd
