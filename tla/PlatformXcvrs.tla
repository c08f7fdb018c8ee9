---------------------------- MODULE PlatformXcvrs ----------------------------
(***************************************************************************)
(* The transceiver and PSU tables of platform/*.c and the lookups of         *)
(* nh_xcvr_ctrl and nh_fpga_psu in them: from the id of a transceiver, which  *)
(* user space gives with NEW_DEVICE, to the register bit of each of its       *)
(* signals; from a PSU to its presence bit and its channel of an I2C mux.     *)
(***************************************************************************)
EXTENDS Integers, Sequences

Muxes == INSTANCE MasterIrq

XcvrSignal == {"reset", "low_power", "present"}

\* A struct xcvr_port_group.  window is the csrOffset that the platform manager
\* gives the devices of the group.
GroupType == [start_port : Nat, end_port : Nat, window : Nat, offset : [XcvrSignal -> Nat],
              fixed_bits : BOOLEAN, bit : [XcvrSignal -> Nat]]

\* Slots in three registers in a row, a bit for each slot.
Osfp(start_port, window, reset) ==
  [start_port |-> start_port, end_port |-> start_port + 31, window |-> window,
   offset |-> [reset |-> reset, low_power |-> reset + 4, present |-> reset + 8],
   fixed_bits |-> FALSE, bit |-> [s \in XcvrSignal |-> 0]]

\* A management port: control register 0x88 and status register 0x8C.
Mgmt(port, reset_bit, lp_mode_bit, present_bit) ==
  [start_port |-> port, end_port |-> port, window |-> 0,
   offset |-> [reset |-> 136, low_power |-> 136, present |-> 140],
   fixed_bits |-> TRUE,
   bit |-> [reset |-> reset_bit, low_power |-> lp_mode_bit, present |-> present_bit]]

m4061nhp_xcvr_groups == <<Osfp(1, 48, 0), Osfp(33, 64, 0), Mgmt(65, 8, 10, 17)>>
m4340nhp_xcvr_groups ==
  <<Osfp(1, 48, 0), Osfp(33, 64, 0), Mgmt(65, 12, 14, 22), Mgmt(66, 8, 10, 17)>>
m4062nhp_fpga0_xcvr_groups == <<Mgmt(129, 1, 2, 4)>>
m4062nhp_fpga1_xcvr_groups == <<Osfp(1, 0, 108), Osfp(33, 0, 48), Osfp(65, 0, 68), Osfp(97, 0, 88)>>

\* xcvr_cfg by platform.
Groups ==
  [m4061nhp |-> m4061nhp_xcvr_groups, m4340nhp |-> m4340nhp_xcvr_groups,
   m4062nhp_fpga0 |-> m4062nhp_fpga0_xcvr_groups,
   m4062nhp_fpga1 |-> m4062nhp_fpga1_xcvr_groups]

XcvrPlatforms == DOMAIN Groups

\* Of eight consecutive ids the first two are in the window of slots 1-32, four
\* in 33-96, and two in 97-128.
m4062nhp_xcvr_id_to_slot ==
  [id \in 0 .. 128 |->
     LET n == (id - 1) \div 8
         k == (id - 1) % 8
     IN IF id = 0 THEN 0
        ELSE IF k < 2 THEN 2 * n + k + 1
        ELSE IF k < 6 THEN 4 * n + k + 31
        ELSE 2 * n + k + 91]

\* LEDs 32 q + 1 .. 32 q + 32 stand by pairs next to ids of one column.
m4062nhp_led_to_id ==
  [led \in 1 .. 128 |->
     LET k == (led - 1) % 32 IN
     8 * (k \div 2) + (k % 2) + <<3, 5, 7, 1>>[(led - 1) \div 32 + 1]]

\* xcvr_ctrl_slot_for_port()
SlotForPort(p, id) ==
  IF p = "m4062nhp_fpga1" /\ id <= 128 THEN m4062nhp_xcvr_id_to_slot[id] ELSE id

\* xcvr_ctrl_find_port_group(): the first group that covers the slot, 0 if none.
Hits(gs, slot) == {i \in DOMAIN gs : gs[i].start_port <= slot /\ slot <= gs[i].end_port}
FindPortGroup(gs, slot) ==
  IF Hits(gs, slot) = {} THEN 0
  ELSE CHOOSE i \in Hits(gs, slot) : \A j \in Hits(gs, slot) : i <= j

\* The check that probe makes of every group of the platform.
WellFormed(g) == g.start_port <= g.end_port /\ g.end_port - g.start_port < 32

\* The register and bit of a signal that probe computes for a slot of group g.
CellIn(g, slot, s) ==
  <<g.window + g.offset[s], IF g.fixed_bits THEN g.bit[s] ELSE slot - g.start_port>>

\* Probe refuses an id that no group covers.
Served(p) == {id \in 0 .. 130 : FindPortGroup(Groups[p], SlotForPort(p, id)) # 0}
XcvrCell(p, id, s) ==
  LET slot == SlotForPort(p, id) IN CellIn(Groups[p][FindPortGroup(Groups[p], slot)], slot, s)
-----------------------------------------------------------------------------
(* PSUs.                                                                    *)

PSU_FW_MAX_READ_LEN == 8
PSU_FW_VERSION_BYTES == 3

\* The bits of present_masks, and the fw_cfg they go with; the presence bits are
\* active low, and the mux is that of the first I2C controller.
Psu(present_bits, mux_channels) ==
  [present_bits |-> present_bits, logical_master |-> 0, mux_channels |-> mux_channels,
   read_len |-> 8, payload_offset |-> 1]

m4061nhp_psu == Psu(<<2, 6, 10, 14>>, <<0, 1, 2, 3>>)
m4340nhp_psu == Psu(<<14, 10, 6, 2>>, <<3, 2, 1, 0>>)
m4062nhp_fpga0_psu == Psu(<<9, 13, 1, 5>>, <<0, 1, 2, 3>>)

Psus == [m4061nhp |-> m4061nhp_psu, m4340nhp |-> m4340nhp_psu, m4062nhp_fpga0 |-> m4062nhp_fpga0_psu]

\* nh_fpga_psu_check_fw_cfg()
CheckFwCfg(c) ==
  /\ c.read_len <= PSU_FW_MAX_READ_LEN
  /\ c.read_len >= c.payload_offset + PSU_FW_VERSION_BYTES
-----------------------------------------------------------------------------
\* Groups of a platform do not share a register bit: signals of one group, or of
\* two, are in different registers or at different fixed bits.
GroupsApart(gs) ==
  \A i, j \in DOMAIN gs : \A s, r \in XcvrSignal :
    <<i, s>> # <<j, r>> =>
      \/ gs[i].window + gs[i].offset[s] # gs[j].window + gs[j].offset[r]
      \/ gs[i].fixed_bits /\ gs[j].fixed_bits /\ gs[i].bit[s] # gs[j].bit[r]

\* A group with fixed bits has one port.
FixedIsSingle(gs) == \A i \in DOMAIN gs : gs[i].fixed_bits => gs[i].start_port = gs[i].end_port

\* No slot is in two groups.
RangesApart(gs) ==
  \A i, j \in DOMAIN gs :
    i # j => gs[i].end_port < gs[j].start_port \/ gs[j].end_port < gs[i].start_port

TableOK(gs) == GroupsApart(gs) /\ FixedIsSingle(gs) /\ RangesApart(gs)

\* The tables pass the check of probe, their ranges do not overlap, and every id
\* that the comments announce is served.
ASSUME XcvrTablesOK ==
  /\ \A p \in XcvrPlatforms :
       /\ Groups[p] \in Seq(GroupType)
       /\ TableOK(Groups[p])
       /\ \A i \in DOMAIN Groups[p] : WellFormed(Groups[p][i])
       /\ \A id \in Served(p), s \in XcvrSignal : XcvrCell(p, id, s)[2] \in 0 .. 31
  /\ Served("m4061nhp") = 1 .. 65 /\ Served("m4340nhp") = 1 .. 66
  /\ Served("m4062nhp_fpga0") = {129} /\ Served("m4062nhp_fpga1") = 1 .. 128

\* "Permutation of 1..128", both.
ASSUME PermutationsOK ==
  /\ {m4062nhp_xcvr_id_to_slot[id] : id \in 1 .. 128} = 1 .. 128
  /\ {m4062nhp_led_to_id[led] : led \in 1 .. 128} = 1 .. 128

\* Each PSU has a presence bit and a channel of its own, the mux has the channel,
\* and the firmware read passes the check of probe; where the comments number
\* the slots, presence bit and channel are those of the same slot.
ASSUME PsuTablesOK ==
  \A p \in DOMAIN Psus :
    LET c == Psus[p] IN
    /\ CheckFwCfg(c)
    /\ Len(c.present_bits) = Len(c.mux_channels)
    /\ \A i, j \in DOMAIN c.present_bits : i # j =>
         c.present_bits[i] # c.present_bits[j] /\ c.mux_channels[i] # c.mux_channels[j]
    /\ \A i \in DOMAIN c.mux_channels : \E r \in Muxes!MuxTable[p] :
         r.logical_master = c.logical_master /\ c.mux_channels[i] < r.num_channels
    /\ p \in {"m4061nhp", "m4340nhp"} =>
         \A i \in DOMAIN c.mux_channels : c.present_bits[i] = 4 * c.mux_channels[i] + 2
=============================================================================
