------------------------------- MODULE MCFbiob -------------------------------
(* Fbiob on two FPGAs and two user threads.                                 *)
EXTENDS Fbiob, TLC
CONSTANTS fpga1, fpga2, t1, t2

\* Two FPGAs with different PCI ids, as on the dual-FPGA platform.
MCDistinctNames == [f \in FPGA |-> f]
=============================================================================
