----------------------------- MODULE PlatformLeds -----------------------------
(***************************************************************************)
(* The LED tables of platform/*.c, as far as they place LEDs in registers,   *)
(* and nh_port_led_get_bit_and_offset(), which looks a port up in them.      *)
(***************************************************************************)
EXTENDS Integers, Sequences

Platforms == {"m4340nhp", "m4061nhp", "m4062nhp_fpga0", "m4062nhp_fpga1"}

\* { start_port, end_port, offset, bits_per_port, color_bit_offset }
Range(start_port, end_port, offset, color_bit_offset) ==
  [start_port |-> start_port, end_port |-> end_port, offset |-> offset,
   bits_per_port |-> 4, color_bit_offset |-> color_bit_offset]

\* n ranges of eight ports in consecutive registers.
Block(start_port, n, offset, color_bit_offset) ==
  [i \in 1 .. n |-> Range(start_port + 8 * (i - 1), start_port + 8 * i - 1,
                          offset + 4 * (i - 1), color_bit_offset)]

m4340nhp_ranges(color) ==
  Block(1, 8, 96, color) \o <<Range(65, 66, 156, 17 - color)>>

m4061nhp_ranges(color) ==
  Block(1, 8, 96, color) \o <<Range(65, 65, 156, 20 + color)>>

m4062nhp_fpga0_ranges(color) == Block(33, 8, 96, color)

m4062nhp_fpga1_ranges(color) == Block(1, 4, 144, color) \o Block(97, 4, 128, color)

PortRanges(p, color) ==
  CASE p = "m4340nhp" -> m4340nhp_ranges(color)
    [] p = "m4061nhp" -> m4061nhp_ranges(color)
    [] p = "m4062nhp_fpga0" -> m4062nhp_fpga0_ranges(color)
    [] p = "m4062nhp_fpga1" -> m4062nhp_fpga1_ranges(color)

Amber == 0   \* the color's bit within the field of a front-panel port
Blue == 1

NumPorts(p) ==
  CASE p = "m4340nhp" -> 66 [] p = "m4061nhp" -> 65 [] OTHER -> 128

Covers(r, port) == r.start_port <= port /\ port <= r.end_port

\* The first range that covers the port decides; -EINVAL if none does.
PortBit(p, color, port) ==
  LET ranges == PortRanges(p, color)
      hit == {i \in DOMAIN ranges : Covers(ranges[i], port)}
  IN  IF hit = {} THEN <<>>
      ELSE LET r == ranges[CHOOSE i \in hit : \A j \in hit : i <= j] IN
           <<r.offset, (port - r.start_port) * r.bits_per_port + r.color_bit_offset>>

\* Probe refuses a port that a color's ranges do not cover.
Ports(p) ==
  {port \in 1 .. NumPorts(p) : PortBit(p, Amber, port) # <<>> /\ PortBit(p, Blue, port) # <<>>}

\* led_info[type][color] of the types PSU, FAN, SYS and MGMT_QSFP that a platform
\* lists.  The entry of another type is zeroed: a field of no bits, and the blink bit
\* 0 of another LED.  Probe would take such a type, which user space must not create.
CoreTypes(p) ==
  CASE p \in {"m4340nhp", "m4061nhp"} -> 0 .. 2
    [] p = "m4062nhp_fpga0" -> 0 .. 3
    [] OTHER -> {}

FirstBit(type) == IF type = 3 THEN 16 ELSE 4 * type

CoreInfo(p, type, color) ==
  [color_offset |-> FirstBit(type) + (IF p = "m4062nhp_fpga0" THEN color ELSE 1 - color),
   color_field_width |-> 1, blink_bit |-> FirstBit(type) + 2]

ControlOffset == 156

CoreField(p, type, color) ==
  {<<ControlOffset, CoreInfo(p, type, color).color_offset + i>> :
     i \in 0 .. CoreInfo(p, type, color).color_field_width - 1}
CoreBlink(p, type) == <<ControlOffset, CoreInfo(p, type, Blue).blink_bit>>

-----------------------------------------------------------------------------
\* What the drivers' correctness rests on: on every platform each bit is in
\* its register, and no two LEDs, whichever driver they belong to, share one
\* but for the blink bit of the two colors of a core LED.
PortCells(p) == {<<color, port>> : color \in {Amber, Blue}, port \in Ports(p)}
Occupied(p, type) == CoreField(p, type, Amber) \cup CoreField(p, type, Blue) \cup {CoreBlink(p, type)}

ASSUME TablesDisjoint ==
  \A p \in Platforms :
    /\ \A c \in PortCells(p) : PortBit(p, c[1], c[2])[2] \in 0 .. 31
    /\ \A c, d \in PortCells(p) : c # d => PortBit(p, c[1], c[2]) # PortBit(p, d[1], d[2])
    /\ \A t \in CoreTypes(p) :
         /\ CoreField(p, t, Amber) \cap CoreField(p, t, Blue) = {}
         /\ CoreBlink(p, t) \notin CoreField(p, t, Amber) \cup CoreField(p, t, Blue)
         /\ \A u \in CoreTypes(p) \ {t} : Occupied(p, t) \cap Occupied(p, u) = {}
         /\ \A c \in PortCells(p) : PortBit(p, c[1], c[2]) \notin Occupied(p, t)

\* The ports each platform serves are the ones its descriptor announces.
ASSUME TablesComplete ==
  /\ Ports("m4340nhp") = 1 .. 66 /\ Ports("m4061nhp") = 1 .. 65
  /\ Ports("m4062nhp_fpga0") = 33 .. 96
  /\ Ports("m4062nhp_fpga1") = 1 .. 32 \cup 97 .. 128
=============================================================================
