---------------------------- MODULE MCSharedLeds ----------------------------
(* SharedLeds for TLC: the PSU LED of register 0x9C and the management port  *)
(* that shares it on m4340nhp; and a single-bit-per-port design, which        *)
(* nh_fpga_port_led.h describes, with a register for each color.             *)
EXTENDS SharedLeds, PlatformLeds, TLC

MCLeds == {"psu", "blue", "amber"}
MCCore == {"psu"}

Psu == [field |-> {<<156, 0>>}, lit |-> <<156, 0>>, blink |-> <<156, 2>>]

PortIn(blue, amber) == [l \in MCLeds |->
  CASE l = "psu" -> Psu
    [] l = "blue" -> [lit |-> blue, other |-> amber]
    [] l = "amber" -> [lit |-> amber, other |-> blue]]

MCLayout == [p \in {"m4340nhp", "split"} |->
  PortIn(<<156, 16>>, IF p = "split" THEN <<160, 16>> ELSE <<156, 17>>)]

\* The layout of m4340nhp is the one its tables give.
ASSUME MCLayoutOK ==
  LET p == "m4340nhp" IN
    /\ Psu.field = CoreField(p, 0, Blue) /\ Psu.blink = CoreBlink(p, 0)
    /\ MCLayout[p]["blue"] = [lit |-> PortBit(p, Blue, 65), other |-> PortBit(p, Amber, 65)]
=============================================================================
