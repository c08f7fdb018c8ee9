------------------------------ MODULE MCFanLeds ------------------------------
(* FanLeds on two trays.                                                    *)
EXTENDS FanLeds, TLC
CONSTANTS tray1, tray2, t1, t2
=============================================================================
