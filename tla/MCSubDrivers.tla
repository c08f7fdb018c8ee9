---------------------------- MODULE MCSubDrivers ----------------------------
(* SubDrivers for TLC: two devices of every pair of drivers that differ in    *)
(* what they share.  Transceivers are the management ports of m4340nhp.      *)
EXTENDS SubDrivers, PlatformTables, TLC

MCDevices == {"A", "B"}
MCPair(a, b) == [d \in MCDevices |-> IF d = "A" THEN a ELSE b]
MCKinds == {MCPair("xcvr", "xcvr"), MCPair("info", "psu"), MCPair("asic_temp", "psu")}
MCPort == MCPair(65, 66)
MCCells ==
  MCPair([reset |-> <<136, 12>>, low_power |-> <<136, 14>>],
         [reset |-> <<136, 8>>, low_power |-> <<136, 10>>])
ASSUME MCCellsOK ==
  \A d \in MCDevices, s \in Control : MCCells[d][s] = XcvrCell("m4340nhp", MCPort[d], s)
=============================================================================
