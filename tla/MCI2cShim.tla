------------------------------ MODULE MCI2cShim ------------------------------
(* I2cShim for TLC: three client structs are enough to keep a freed one apart *)
(* from the registered one and from the one another thread unregisters.      *)
EXTENDS I2cShim, TLC

MCClients == {11, 12, 13}
MCBuses == {1, 2}
=============================================================================
