---------------------------- MODULE PlatformTables ----------------------------
(***************************************************************************)
(* The tables of one FPGA together.  The LED drivers, the transceiver driver  *)
(* and the fan driver change registers of the same FPGA by read-modify-write,  *)
(* each under a lock of its own: led_reg_lock, xcvr_reg_lock and the lock of   *)
(* the fan controller.  Their offsets count from the same base.              *)
(***************************************************************************)
EXTENDS PlatformLeds, PlatformXcvrs, FanCards

\* The registers that each driver writes on platform p.
LedRegisters(p) ==
  {PortBit(p, c[1], c[2])[1] : c \in PortCells(p)}
    \cup {f[1] : f \in UNION {CoreField(p, t, Amber) : t \in CoreTypes(p)}}
XcvrRegisters(p) == {XcvrCell(p, id, s)[1] : id \in Served(p), s \in {"reset", "low_power"}}
FanRegisters(p) ==
  IF p \in DOMAIN Cards
    THEN {CtrlOffset} \cup {Cards[p].fans[i].pwm_offset : i \in DOMAIN Cards[p].fans} ELSE {}

\* No register is changed under two locks.
ASSUME LocksApart ==
  \A p \in Platforms :
    /\ LedRegisters(p) \cap XcvrRegisters(p) = {}
    /\ LedRegisters(p) \cap FanRegisters(p) = {}
    /\ XcvrRegisters(p) \cap FanRegisters(p) = {}
=============================================================================
