------------------------------ MODULE MCFpgaMux ------------------------------
(* FpgaMux with muxes of five channels, as on cf2.                           *)
EXTENDS FpgaMux, MasterIrq, TLC

MCFive == [m \in Mux |-> 5]

\* No platform has a larger mux.
ASSUME MCLargest ==
  \A p \in I2cPlatforms : \A r \in MuxTable[p], m \in Mux : r.num_channels <= MCFive[m]
=============================================================================
