------------------------------- MODULE FanLeds -------------------------------
(***************************************************************************)
(* nh_fpga_fan_main.c: the two-color LED of each fan tray.  All trays share   *)
(* the fan card's control register, changed by read-modify-write under        *)
(* controller->lock by three parties: probe, a store to fanN_led, and the     *)
(* works of the LED class devices.                                          *)
(*                                                                          *)
(* The LED core is external, as in SharedLeds: led_set_brightness() leaves a  *)
(* value to the LED's work item, a later value replaces one not yet taken,    *)
(* and the works of different LEDs may run concurrently.                      *)
(***************************************************************************)
EXTENDS Naturals, FiniteSets

CONSTANTS
  Fan,         (* num_fan_trays trays                                       *)
  Thread,      (* user threads that store to fanN_led                       *)
  Probe,       (* the thread that runs nh_fpga_fan_probe()                  *)
  Nobody,      (* no lock holder                                            *)
  MAX_STORES   (* bound: stores to fanN_led and to brightness               *)

Color == {"good", "fail"}

\* LED class devices; each stands for its bit of the control register as well.
Led == Fan \X Color
Setter == Led \cup Thread \cup {Probe}

\* The actors differ, and nobody is one of them.
ASSUME ActorsOK ==
  /\ Led \cap Thread = {} /\ Probe \notin Led \cup Thread
  /\ Nobody \notin Setter
  /\ MAX_STORES \in Nat

VARIABLES
  value,       \* LED bits of the control register that are 1
  registered,  \* class devices that are registered
  lock,        \* controller->lock
  pc,          \* control point of each setter
  arg,         \* the bits it will set and clear
  local,       \* the register as it has read it
  want,        \* values left to the works
  asked,       \* what was asked of a tray by the latest stores that overlap
  stores       \* stores so far

vars == <<value, registered, lock, pc, arg, local, want, asked, stores>>

On == "on"
Off == "off"
Nothing == "nothing"

Bits(f) == {f} \X Color
Sibling(l) == Bits(l[1]) \ {l}

\* "FBOSS standard: 1 = good, 0 = fail, 2 = off"
Shows(f, c) == Bits(f) \cap (Fan \X {c})
Asks(f, c) == [set |-> Shows(f, c), clear |-> Bits(f) \ Shows(f, c)]

NoArg == [set |-> {}, clear |-> {}]
Mask(a) == arg[a].set \cup arg[a].clear

\* What fanN_led reads: one color alone, else off.
Shown(f) ==
  IF value \cap Bits(f) = Shows(f, "good") THEN "good"
  ELSE IF value \cap Bits(f) = Shows(f, "fail") THEN "fail" ELSE "off"

Critical == {"read", "write"}
Point == {"hwmon", "idle", "lock", "good", "fail", "register", "bound"} \cup Critical

\* Type invariant; the mutex excludes.
TypeOK ==
  /\ value \subseteq Led /\ registered \subseteq Led
  /\ lock \in Setter \cup {Nobody}
  /\ pc \in [Setter -> Point]
  /\ arg \in [Setter -> [set : SUBSET Led, clear : SUBSET Led]]
  /\ local \in [Setter -> SUBSET Led]
  /\ want \in [Led -> {On, Off, Nothing}]
  /\ asked \in [Fan -> SUBSET {"good", "fail", "off", "other"}]
  /\ stores \in 0 .. MAX_STORES
  /\ \A a \in Setter : lock = a <=> pc[a] \in Critical

\* The FPGA powers up with every fail bit set; an earlier binding of the driver
\* leaves each tray with one color or none.
Init ==
  /\ value \in {v \in SUBSET Led : \A f \in Fan : ~ Bits(f) \subseteq v}
  /\ registered = {}
  /\ lock = Nobody
  /\ pc = [a \in Setter |-> IF a = Probe THEN "hwmon" ELSE "idle"]
  /\ arg = [a \in Setter |-> NoArg]
  /\ local = [a \in Setter |-> {}]
  /\ want = [l \in Led |-> Nothing]
  /\ asked = [f \in Fan |-> {}]
  /\ stores = 0

Go(a, where) == pc' = [pc EXCEPT ![a] = where]
Request(a, r) == arg' = [arg EXCEPT ![a] = r]
-----------------------------------------------------------------------------
(* The read-modify-write, the same in led_set, init_leds and the store.      *)

\* Faulty variant of Lock: the mutex is not taken.
LockNothing(a) ==
  /\ pc[a] = "lock"
  /\ lock' = a
  /\ Go(a, "read")
  /\ UNCHANGED <<value, registered, arg, local, want, asked, stores>>

Lock(a) ==
  /\ pc[a] = "lock"
  /\ lock = Nobody
  /\ lock' = a
  /\ Go(a, "read")
  /\ UNCHANGED <<value, registered, arg, local, want, asked, stores>>

Read(a) ==
  /\ pc[a] = "read"
  /\ local' = [local EXCEPT ![a] = value]
  /\ Go(a, "write")
  /\ UNCHANGED <<value, registered, lock, arg, want, asked, stores>>

\* Where a setter goes on: a store tells the class devices, probe registers
\* them, a work is done.
After(a) == IF a \in Led THEN "idle" ELSE IF a = Probe THEN "register" ELSE "good"

\* Faulty variant of Write: the unlock is forgotten.
WriteKeepsLock(a) ==
  /\ pc[a] = "write"
  /\ value' = (local[a] \ arg[a].clear) \cup arg[a].set
  /\ Go(a, After(a))
  /\ Request(a, IF a \in Thread THEN arg[a] ELSE NoArg)
  /\ local' = [local EXCEPT ![a] = {}]
  /\ UNCHANGED <<registered, lock, want, asked, stores>>

Write(a) ==
  /\ pc[a] = "write"
  /\ value' = (local[a] \ arg[a].clear) \cup arg[a].set
  /\ lock' = Nobody
  /\ Go(a, After(a))
  /\ Request(a, IF a \in Thread THEN arg[a] ELSE NoArg)
  /\ local' = [local EXCEPT ![a] = {}]
  /\ UNCHANGED <<registered, want, asked, stores>>
-----------------------------------------------------------------------------
(* Probe.                                                                   *)

\* The hwmon device is registered, and with it the fanN_led attributes; then
\* init_leds clears every LED bit.
ProbeHwmon ==
  /\ pc[Probe] = "hwmon"
  /\ Go(Probe, "lock")
  /\ Request(Probe, [set |-> {}, clear |-> Led])
  /\ UNCHANGED <<value, registered, lock, local, want, asked, stores>>

\* devm_led_classdev_register(): good before fail of each tray; in which order
\* the trays come does not matter.  When it fails probe gives up and devres takes
\* all away, which is left out as the unbinding is.
RegisterLed(l) ==
  /\ pc[Probe] = "register"
  /\ l \notin registered
  /\ l[2] = "fail" => <<l[1], "good">> \in registered
  /\ registered' = registered \cup {l}
  /\ Go(Probe, IF registered' = Led THEN "bound" ELSE "register")
  /\ UNCHANGED <<value, lock, arg, local, want, asked, stores>>
-----------------------------------------------------------------------------
(* fan_led_simple_store().                                                  *)

\* Another store to the same tray is under way.
Storing(f) == \E t \in Thread : pc[t] # "idle" /\ Mask(t) = Bits(f)

\* What has been asked of the tray, to be compared with what it shows. Nothing
\* is claimed of a tray that has been stored to before probe was through.
Asked(f, c) ==
  [asked EXCEPT ![f] =
     (IF Storing(f) THEN @ ELSE {}) \cup {IF pc[Probe] = "bound" THEN c ELSE "other"}]

\* The checks; one that fails changes nothing, nor does the fan going away
\* after it. Values other than 0 and 1 mean off.
BeginStore(t, f, c) ==
  /\ stores < MAX_STORES /\ stores' = stores + 1
  /\ pc[Probe] # "hwmon"
  /\ pc[t] = "idle"
  /\ Request(t, Asks(f, c))
  /\ Go(t, "lock")
  /\ asked' = Asked(f, c)
  /\ UNCHANGED <<value, registered, lock, local, want>>

\* led_set_brightness() of one of the tray's class devices. Before the device
\* is registered its work item does not exist and the value is lost.
SetBrightness(t, c) ==
  want' = [l \in Led |->
    IF l \in Mask(t) /\ l[2] = c /\ l \in registered
    THEN IF l \in arg[t].set THEN On ELSE Off
    ELSE want[l]]

\* Faulty variant of SyncGood: the good device is not told.
SyncGoodSkipped(t) ==
  /\ pc[t] = "good"
  /\ Go(t, "fail")
  /\ UNCHANGED <<value, registered, lock, arg, local, want, asked, stores>>

SyncGood(t) ==
  /\ pc[t] = "good"
  /\ SetBrightness(t, "good")
  /\ Go(t, "fail")
  /\ UNCHANGED <<value, registered, lock, arg, local, asked, stores>>

SyncFail(t) ==
  /\ pc[t] = "fail"
  /\ SetBrightness(t, "fail")
  /\ Go(t, "idle")
  /\ Request(t, NoArg)
  /\ UNCHANGED <<value, registered, lock, local, asked, stores>>
-----------------------------------------------------------------------------
(* The LED class devices.                                                    *)

\* A store to "brightness" of a class device.
ClassStore(l, v) ==
  /\ stores < MAX_STORES /\ stores' = stores + 1
  /\ l \in registered
  /\ want' = [want EXCEPT ![l] = v]
  /\ asked' = [asked EXCEPT ![l[1]] = @ \cup {"other"}]
  /\ UNCHANGED <<value, registered, lock, pc, arg, local>>

\* Faulty variant of LedSet: the sibling is left alone.
LedSetKeepsSibling(l, v) ==
  [set |-> IF v = On THEN {l} ELSE {}, clear |-> IF v = On THEN {} ELSE {l}]

\* nh_fpga_fan_led_set(): on clears the sibling, off clears only the own bit.
LedSet(l, v) ==
  [set |-> IF v = On THEN {l} ELSE {}, clear |-> IF v = On THEN Sibling(l) ELSE {l}]

\* The work takes the value and calls brightness_set_blocking.
RunWork(l) ==
  /\ want[l] # Nothing
  /\ pc[l] = "idle"
  /\ Request(l, LedSet(l, want[l]))
  /\ want' = [want EXCEPT ![l] = Nothing]
  /\ Go(l, "lock")
  /\ UNCHANGED <<value, registered, lock, local, asked, stores>>
-----------------------------------------------------------------------------
SetterStep(a) == Lock(a) \/ Read(a) \/ Write(a)
SyncStep(t) == SyncGood(t) \/ SyncFail(t)

\* What goes on without user space.
Internal ==
  \/ ProbeHwmon
  \/ \E l \in Led : RegisterLed(l) \/ RunWork(l)
  \/ \E a \in Setter : SetterStep(a)
  \/ \E t \in Thread : SyncStep(t)

Next ==
  \/ Internal
  \/ \E l \in Led, v \in {On, Off} : ClassStore(l, v)
  \/ \E t \in Thread, f \in Fan, c \in {"good", "fail", "off"} : BeginStore(t, f, c)

\* Some thread or work that can go on does.
Fairness == WF_vars(Internal)

Spec == Init /\ [][Next]_vars
FairSpec == Spec /\ Fairness
-----------------------------------------------------------------------------
(* Properties.                                                              *)

\* "enforce mutual exclusion here: asserting one color clears its sibling": no
\* interleaving of probe, stores and works lights both colors of a tray.
OneColor == \A f \in Fan : ~ Bits(f) \subseteq value

\* A write changes no bit but those it was asked to: what others have written
\* to the shared register since it was read is not lost.
NoLostUpdate ==
  [][\A a \in Setter : pc[a] = "write" /\ pc'[a] # "write" =>
        \A l \in Led \ Mask(a) : l \in value' <=> l \in value]_vars

\* All is carried out that was asked of the tray.
Quiet(f) ==
  /\ \A t \in Thread : pc[t] # "idle" => Mask(t) # Bits(f)
  /\ \A l \in Bits(f) : want[l] = Nothing /\ pc[l] = "idle"

\* The color opposite to the one that was stored last does not stay: of stores
\* of one color no late work leaves the tray showing the other one.
WrongColorNeverStays ==
  \A f \in Fan : Quiet(f) =>
    /\ asked[f] = {"good"} => Shown(f) # "fail"
    /\ asked[f] = {"fail"} => Shown(f) # "good"
    /\ asked[f] = {"off"} => Shown(f) = "off"

\* When the stores end, all comes to rest: no store or work waits for ever for
\* the lock, and probe ends.
ComesToRest == <>[](pc[Probe] = "bound" /\ \A f \in Fan : Quiet(f))
=============================================================================
