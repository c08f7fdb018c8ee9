------------------------------ MODULE SharedLeds ------------------------------
(***************************************************************************)
(* nh_fpga_led_core_main.c and nh_fpga_port_led_main.c: status LEDs and port *)
(* LEDs live in registers that several devices of both drivers share, changed *)
(* by read-modify-write under the FPGA's led_reg_lock.                       *)
(*                                                                          *)
(* The LED core is external: a store to "brightness" leaves the value to a   *)
(* work item of that LED, which calls the driver's brightness_set_blocking   *)
(* and may run beside the work items of other LEDs; a later store replaces   *)
(* the value that the work has not taken yet.  blink_set is called by the    *)
(* thread that stores "trigger".                                            *)
(***************************************************************************)
EXTENDS Naturals, FiniteSets

CONSTANTS
  Led,       (* LED class devices                                            *)
  Core,      (* those of nh_fpga_led; the others are port LEDs               *)
  Platform,  (* platform descriptors                                         *)
  Layout,    (* Layout[p][l]: bits of LED l, as <<register, bit>>            *)
  MAX_STORES,(* bound: stores to brightness and trigger                      *)
  Nobody     (* no lock holder                                               *)

\* A core LED has a field and a blink bit, a port LED one bit per color, and the
\* placeholder is no setter.
ASSUME LayoutOK ==
  /\ Core \subseteq Led
  /\ MAX_STORES \in Nat
  /\ Nobody \notin Led \X {"set", "blink"}
  /\ \A p \in Platform :
       /\ \A l \in Core : Layout[p][l].lit \in Layout[p][l].field
       /\ \A l \in Led \ Core : Layout[p][l].lit # Layout[p][l].other

\* The bits of a core LED are in one register; no LED is at the bit of another, but
\* for the two colors of a port, which clear each other, and two colors of a core
\* LED may have one blink bit.  The tables of every platform place their LEDs so.
Apart(At, leds, core) ==
  /\ \A l \in core :
       /\ \A b \in At[l].field \cup {At[l].blink} : b[1] = At[l].lit[1]
       /\ \A m \in leds : At[m].lit # At[l].blink
  /\ \A l, m \in leds : l # m =>
       /\ At[l].lit # At[m].lit
       /\ l \in core => At[m].lit \notin At[l].field
       /\ l \notin core /\ At[m].lit = At[l].other => m \notin core /\ At[m].other = At[l].lit
  /\ \A l \in leds \ core, m \in core : At[l].other # At[m].blink /\ At[l].other # At[m].lit

ASSUME LayoutApart == \A p \in Platform : Apart(Layout[p], Led, Core)

VARIABLES
  platform,    \* nh_get_platform() of the FPGA
  value,       \* register bits that are 1
  lock,        \* led_reg_lock
  brightness,  \* led_cdev->brightness, the LED core's idea of each LED
  want,        \* values left to the work items
  pc,          \* control point of each setter
  arg,         \* its argument: on or off
  local,       \* the register it has read
  stores       \* stores so far

vars == <<platform, value, lock, brightness, want, pc, arg, local, stores>>

On == "on"
Off == "off"
Nothing == "nothing"

\* Each LED's work item, and for core LEDs the thread in blink_set.
Setter == (Led \X {"set"}) \cup (Core \X {"blink"})

Cells(l) == LET b == Layout[platform][l] IN
  IF l \in Core THEN b.field \cup {b.lit, b.blink} ELSE {b.lit, b.other}
Cell == UNION {Cells(l) : l \in Led}
Register(r) == {b \in Cell : b[1] = r}

\* Type invariant of the registers, the LED cache and the setters.
TypeOK ==
  /\ platform \in Platform
  /\ value \subseteq Cell
  /\ lock \in Setter \cup {Nobody}
  /\ brightness \in [Led -> {On, Off}]
  /\ want \in [Led -> {On, Off, Nothing}]
  /\ pc \in [Setter -> {"idle", "lock", "read_other", "write_other", "read", "write"}]
  /\ arg \in [Setter -> {On, Off}]
  /\ local \in [Setter -> SUBSET Cell]
  /\ \A a \in Setter : lock = a <=> pc[a] \notin {"idle", "lock"}
  /\ stores \in 0 .. MAX_STORES

\* The registers are as an earlier binding or the power-up has left them, no port
\* with both colors lit (which no driver would undo); registering the class devices
\* fills the LED core's cache by brightness_get.
Init ==
  /\ platform \in Platform
  /\ value \in {v \in SUBSET Cell : \A l \in Led \ Core : ~ Cells(l) \subseteq v}
  /\ lock = Nobody
  /\ brightness = [l \in Led |-> IF Layout[platform][l].lit \in value THEN On ELSE Off]
  /\ want = [l \in Led |-> Nothing]
  /\ pc = [a \in Setter |-> "idle"]
  /\ arg = [a \in Setter |-> Off]
  /\ local = [a \in Setter |-> {}]
  /\ stores = 0

Go(a, where) == pc' = [pc EXCEPT ![a] = where]

\* A setter returns; what it had in hand is gone.
Return(a) ==
  /\ Go(a, "idle")
  /\ arg' = [arg EXCEPT ![a] = Off]
  /\ local' = [local EXCEPT ![a] = {}]
-----------------------------------------------------------------------------
(* Bits of an LED on this platform.                                          *)

LitOn(p, l) == {Layout[p][l].lit}

\* Bits a set clears before it lights: the field, or the port's other color.
DarkOn(p, l) == IF l \in Core THEN Layout[p][l].field ELSE {Layout[p][l].other}

BlinkOn(p, l) == IF l \in Core THEN {Layout[p][l].blink} ELSE {}

Lit(l) == LitOn(platform, l)
Dark(l) == DarkOn(platform, l)
Blink(l) == BlinkOn(platform, l)

RegisterOf(l) == Layout[platform][l].lit[1]

\* A port's other color in a register of its own is cleared there first.
ClearsOther(a) ==
  /\ a[2] = "set" /\ a[1] \notin Core /\ arg[a] = On
  /\ Layout[platform][a[1]].other[1] # RegisterOf(a[1])

\* The value a setter writes back, from the register it has read.
Modified(a, read) ==
  LET l == a[1] IN
  CASE a[2] = "blink" /\ arg[a] = On -> read \cup Blink(l)
    [] a[2] = "blink" /\ arg[a] = Off -> read \ Blink(l)
    [] a[2] = "set" /\ arg[a] = On -> (read \ Dark(l)) \cup Lit(l)
    [] a[2] = "set" /\ arg[a] = Off -> read \ Lit(l)

\* The registers after register r has been written with the bits b.
Written(r, b) == (value \ Register(r)) \cup b
-----------------------------------------------------------------------------
(* The LED core.                                                             *)

\* led_set_brightness()
Store(l, v) ==
  /\ stores < MAX_STORES /\ stores' = stores + 1
  /\ brightness' = [brightness EXCEPT ![l] = v]
  /\ want' = [want EXCEPT ![l] = v]
  /\ UNCHANGED <<platform, value, lock, pc, arg, local>>

\* The work item takes the value and calls brightness_set_blocking.
RunWork(l) ==
  /\ want[l] # Nothing
  /\ pc[<<l, "set">>] = "idle"
  /\ arg' = [arg EXCEPT ![<<l, "set">>] = want[l]]
  /\ want' = [want EXCEPT ![l] = Nothing]
  /\ Go(<<l, "set">>, "lock")
  /\ UNCHANGED <<platform, value, lock, brightness, local, stores>>

\* trigger_store(): blink_set with the delays, which are both 0 or not.
StoreTrigger(l, v) ==
  /\ stores < MAX_STORES /\ stores' = stores + 1
  /\ pc[<<l, "blink">>] = "idle"
  /\ arg' = [arg EXCEPT ![<<l, "blink">>] = v]
  /\ Go(<<l, "blink">>, "lock")
  /\ UNCHANGED <<platform, value, lock, brightness, want, local>>
-----------------------------------------------------------------------------
(* nh_led_brightness_set(), nh_led_blink_set(), nh_port_led_brightness_set(). *)
(* The last returns an error for a port its tables do not cover, which probe  *)
(* has refused (TablesComplete in PlatformLeds).                             *)

\* Faulty variant of Lock: the setters do not exclude each other.
LockNothing(a) ==
  /\ pc[a] = "lock"
  /\ lock' = a
  /\ Go(a, IF ClearsOther(a) THEN "read_other" ELSE "read")
  /\ UNCHANGED <<platform, value, brightness, want, arg, local, stores>>

Lock(a) ==
  /\ pc[a] = "lock"
  /\ lock = Nobody
  /\ lock' = a
  /\ Go(a, IF ClearsOther(a) THEN "read_other" ELSE "read")
  /\ UNCHANGED <<platform, value, brightness, want, arg, local, stores>>

ReadOther(a) ==
  /\ pc[a] = "read_other"
  /\ local' = [local EXCEPT ![a] =
       (value \cap Register(Layout[platform][a[1]].other[1])) \ Dark(a[1])]
  /\ Go(a, "write_other")
  /\ UNCHANGED <<platform, value, lock, brightness, want, arg, stores>>

WriteOther(a) ==
  /\ pc[a] = "write_other"
  /\ value' = Written(Layout[platform][a[1]].other[1], local[a])
  /\ Go(a, "read")
  /\ UNCHANGED <<platform, lock, brightness, want, arg, local, stores>>

Read(a) ==
  /\ pc[a] = "read"
  /\ local' = [local EXCEPT ![a] = value \cap Register(RegisterOf(a[1]))]
  /\ Go(a, "write")
  /\ UNCHANGED <<platform, value, lock, brightness, want, arg, stores>>

\* Faulty variants of Write: the other color is left alone; what was read of the
\* register is not written back; the unlock is forgotten.
WriteKeepsOther(a) ==
  /\ pc[a] = "write"
  /\ value' = Written(RegisterOf(a[1]),
       IF arg[a] = On /\ a[2] = "set" THEN local[a] \cup Lit(a[1]) ELSE Modified(a, local[a]))
  /\ lock' = Nobody
  /\ Return(a)
  /\ UNCHANGED <<platform, brightness, want, stores>>

WriteOnlyOwnBits(a) ==
  /\ pc[a] = "write"
  /\ value' = Written(RegisterOf(a[1]), Modified(a, {}))
  /\ lock' = Nobody
  /\ Return(a)
  /\ UNCHANGED <<platform, brightness, want, stores>>

WriteKeepsLock(a) ==
  /\ pc[a] = "write"
  /\ value' = Written(RegisterOf(a[1]), Modified(a, local[a]))
  /\ Return(a)
  /\ UNCHANGED <<platform, lock, brightness, want, stores>>

\* The write, and the unlock.
Write(a) ==
  /\ pc[a] = "write"
  /\ value' = Written(RegisterOf(a[1]), Modified(a, local[a]))
  /\ lock' = Nobody
  /\ Return(a)
  /\ UNCHANGED <<platform, brightness, want, stores>>

SetterStep(a) == Lock(a) \/ ReadOther(a) \/ WriteOther(a) \/ Read(a) \/ Write(a)

Next ==
  \/ \E l \in Led : RunWork(l) \/ \E v \in {On, Off} : Store(l, v)
  \/ \E l \in Core, v \in {On, Off} : StoreTrigger(l, v)
  \/ \E a \in Setter : SetterStep(a)

\* Work items run, and every waiter for the mutex gets it in the end.
Fairness ==
  /\ \A l \in Led : WF_vars(RunWork(l))
  /\ \A a \in Setter : SF_vars(SetterStep(a))

Spec == Init /\ [][Next]_vars
FairSpec == Spec /\ Fairness
-----------------------------------------------------------------------------
(* Properties.                                                              *)

\* "LEDs should be mutually exclusive": never are both colors of a port lit,
\* not even between the two writes where each color has its own register.
PortExclusive ==
  \A l \in Led \ Core : Lit(l) \subseteq value => Dark(l) \cap value = {}

\* A core LED whose last store has been carried out shows what was stored,
\* whatever was written to its register for other LEDs in between.
CacheMatches ==
  \A l \in Core :
    want[l] = Nothing /\ pc[<<l, "set">>] = "idle" =>
      (Lit(l) \subseteq value <=> brightness[l] = On)

\* Every brightness_set and blink_set call returns: led_reg_lock is never left
\* held.
SettersReturn == \A a \in Setter : pc[a] # "idle" ~> pc[a] = "idle"

Atomic == INSTANCE AtomicLeds

\* The read-modify-writes of both drivers under led_reg_lock implement atomic
\* changes of the bits of single LEDs: no update is lost.
ImplementsAtomic == Atomic!Spec
=============================================================================
