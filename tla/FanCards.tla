------------------------------- MODULE FanCards -------------------------------
(***************************************************************************)
(* The sensors of nh_fpga_fan: the fan tables of platform/*.c and what the    *)
(* hwmon attributes compute from registers.  A register is a natural number,   *)
(* a mask a field of it.                                                     *)
(***************************************************************************)
EXTENDS Integers, Sequences

\* The field of a mask: its lowest bit has the value unit, and it has size values.
Bits(lo, n) == [unit |-> 2 ^ lo, size |-> 2 ^ n]

\* (reg & mask) >> __ffs(mask), and reg with the field f replaced by v.
Get(reg, f) == (reg \div f.unit) % f.size
Put(reg, f, v) == reg + (v - Get(reg, f)) * f.unit

Fan(status_offset, id_bit, led_bit, pwm_offset, tach_offset) ==
  [status_offset |-> status_offset, module_id |-> Bits(id_bit, 4), pwrgood |-> Bits(id_bit + 4, 1),
   ctrl_fail_led_bit |-> led_bit, ctrl_good_led_bit |-> led_bit + 1,
   pwm_offset |-> pwm_offset, tach_offset |-> tach_offset]

\* One card of five trays, and two cards of four.
RaptorFans ==
  [i \in 1 .. 5 |->
     Fan(IF i <= 3 THEN 164 ELSE 168, IF i <= 3 THEN 8 * i ELSE 8 * (i - 4),
         2 * (i - 1), 576 + 4 * (i - 1), 180 + 4 * (i - 1))]
m4340nhp_fans == RaptorFans
m4061nhp_fans == RaptorFans
m4062nhp_fpga1_fans ==
  [i \in 1 .. 8 |->
     IF i <= 4 THEN Fan(168, 7 * i - 3, 14 + 2 * i, 588 + 4 * i, 196 + 4 * i)
     ELSE Fan(164, 7 * (i - 4) - 3, 2 * (i - 5), 556 + 4 * i, 160 + 4 * i)]

CtrlOffset == 160
PwmMask == Bits(0, 8)
InnerTachMask == Bits(0, 16)
OuterTachMask == Bits(16, 16)

FAN_TACH_TIME_UNIT_NS == 3920
FAN_MODULE_ID_DUAL_ROTOR == 7

\* fan_cfg by platform; a time unit of 0 selects the default.
FanCard(fans, tach_time_unit_ns) ==
  [fans |-> fans, tach_time_unit_ns |-> tach_time_unit_ns, num_rotors |-> 2]
Cards ==
  [m4340nhp |-> FanCard(m4340nhp_fans, 5840), m4061nhp |-> FanCard(m4061nhp_fans, 5840),
   m4062nhp_fpga1 |-> FanCard(m4062nhp_fpga1_fans, 0)]

\* A minute is 60e9 ns; both are counted in units of 80 ns, of which every time
\* unit is a multiple, so that the quotient is the same.
RpmBase == 750000000

\* nh_fpga_fan_tach_to_rpm()
TachToRpm(tach_cycles, tach_time_unit_ns) ==
  LET unit == IF tach_time_unit_ns = 0 THEN FAN_TACH_TIME_UNIT_NS ELSE tach_time_unit_ns IN
  IF tach_cycles \in {0, 65535} THEN 0
  ELSE RpmBase \div (tach_cycles * (unit \div 80))

\* nh_fpga_fan_get_status() of the status register
Present(fan, status) == Get(status, fan.module_id) = FAN_MODULE_ID_DUAL_ROTOR

NumTach(card) == Len(card.fans) * card.num_rotors

\* The tray and rotor a hwmon fan channel reads, and those its label names.
ReadTray(channel, num_rotors) == channel \div num_rotors
ReadInner(channel, num_rotors) == channel % num_rotors = 0
Label(channel, num_rotors) ==
  [tray |-> channel \div num_rotors + 1,
   rotor |-> IF num_rotors <= 1 THEN "only"
             ELSE IF channel % num_rotors = 0 THEN "inner" ELSE "outer"]

Refused == "refused"

\* fanN_input: ENODEV while the tray is absent.
FanInput(card, channel, status, tach) ==
  LET fan == card.fans[ReadTray(channel, card.num_rotors) + 1] IN
  IF ~ Present(fan, status) THEN Refused
  ELSE TachToRpm(Get(tach, IF ReadInner(channel, card.num_rotors)
                             THEN InnerTachMask ELSE OuterTachMask),
                 card.tach_time_unit_ns)

\* pwmN: what a show of an absent tray or a store out of range gets is an error.
PwmRead(card, channel, status, reg) ==
  IF Present(card.fans[channel + 1], status) THEN Get(reg, PwmMask) ELSE Refused
PwmWrite(card, channel, status, reg, value) ==
  IF Present(card.fans[channel + 1], status) /\ value \in 0 .. PwmMask.size - 1
    THEN Put(reg, PwmMask, value) ELSE reg

\* Probe accepts the number of trays that user space gives if the table has them.
ProbeAccepts(card, num_fans) == card.num_rotors # 0 /\ num_fans # 0 /\ num_fans <= Len(card.fans)
-----------------------------------------------------------------------------
Overlap(f, g) == f.unit < g.unit * g.size /\ g.unit < f.unit * f.size

\* The trays of a card have registers, status fields and LED bits of their own;
\* no field reaches into the next, nor into the type of the card in bits 2:0.
ASSUME FanTablesOK ==
  \A p \in DOMAIN Cards :
    LET fans == Cards[p].fans IN
    \A i, j \in DOMAIN fans :
      /\ ~ Overlap(fans[i].module_id, fans[i].pwrgood)
      /\ i = 1 \/ fans[i].status_offset = fans[1].status_offset =>
           ~ Overlap(fans[i].module_id, Bits(0, 3))
      /\ i # j =>
           /\ fans[i].pwm_offset # fans[j].pwm_offset
           /\ fans[i].tach_offset # fans[j].tach_offset
           /\ {fans[i].ctrl_fail_led_bit, fans[i].ctrl_good_led_bit}
                \cap {fans[j].ctrl_fail_led_bit, fans[j].ctrl_good_led_bit} = {}
           /\ fans[i].status_offset = fans[j].status_offset =>
                \A f \in {fans[i].module_id, fans[i].pwrgood} :
                  \A g \in {fans[j].module_id, fans[j].pwrgood} : ~ Overlap(f, g)

\* A period that the counter can hold is never shown as a stopped fan, and the
\* time units are multiples of 80 ns.
ASSUME RpmOK ==
  \A p \in DOMAIN Cards :
    /\ Cards[p].tach_time_unit_ns % 80 = 0
    /\ TachToRpm(65534, Cards[p].tach_time_unit_ns) > 0

\* Channels that are shown, and a status register with every tray present.
Channels(card) == 0 .. NumTach(card) - 1
AllPresent(fan) == FAN_MODULE_ID_DUAL_ROTOR * fan.module_id.unit

\* "The channel-to-tray mapping here must match the read path": each channel reads
\* a tray of the table, no two have one label, and when only one of the rotors of
\* a tray stands still, the channel that reads 0 is the one that is labelled so.
ASSUME ChannelsOK ==
  \A p \in DOMAIN Cards :
    LET card == Cards[p] IN
    /\ ProbeAccepts(card, Len(card.fans)) /\ ~ ProbeAccepts(card, Len(card.fans) + 1)
    /\ \A c \in Channels(card) :
         LET tray == Label(c, card.num_rotors).tray
             status == AllPresent(card.fans[tray])
         IN
         /\ tray \in DOMAIN card.fans
         /\ FanInput(card, c, 0, 1000) = Refused
         /\ FanInput(card, c, status, 1000 * OuterTachMask.unit) = 0
              <=> Label(c, card.num_rotors).rotor = "inner"
         /\ FanInput(card, c, status, 1000 * InnerTachMask.unit) = 0
              <=> Label(c, card.num_rotors).rotor = "outer"
    /\ \A c, d \in Channels(card) :
         c # d => Label(c, card.num_rotors) # Label(d, card.num_rotors)

\* A duty cycle that was stored reads back, a store out of range or to an absent
\* tray changes nothing, and no store reaches the bits above the duty cycle.
ASSUME PwmOK ==
  \A p \in DOMAIN Cards : \A c \in {0, Len(Cards[p].fans) - 1} :
    LET card == Cards[p]
        present == AllPresent(card.fans[c + 1])
    IN \A reg \in {0, 255, 256, 8388863}, value \in {-1, 0, 1, 255, 256} :
         LET new == PwmWrite(card, c, present, reg, value) IN
         /\ new \div PwmMask.size = reg \div PwmMask.size
         /\ PwmRead(card, c, present, new) =
              IF value \in 0 .. 255 THEN value ELSE PwmRead(card, c, present, reg)
         /\ PwmWrite(card, c, 0, reg, value) = reg /\ PwmRead(card, c, 0, reg) = Refused
=============================================================================
