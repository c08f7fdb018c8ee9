------------------------------ MODULE FanProofs ------------------------------
(***************************************************************************)
(* Theorems about FanLeds for any number of trays and storing threads, and    *)
(* about what FanCards computes from any value of the registers.             *)
(***************************************************************************)
EXTENDS FanLeds, Integers, Sequences, TLAPS

\* A request never asks for both colors of a tray, and whoever asks for one
\* decides about the other.
Exclusive(r) ==
  \A f \in Fan :
    /\ ~ Bits(f) \subseteq r.set
    /\ Bits(f) \cap r.set # {} => Bits(f) \subseteq r.set \cup r.clear

RequestInv == \A a \in Setter : Exclusive(arg[a])

\* The register does not change between the read and the write of the one who
\* holds the lock.
LocalInv == \A a \in Setter : pc[a] = "write" => local[a] = value

\* The inductive invariant.
IInv == TypeOK /\ RequestInv /\ LocalInv /\ OneColor

-----------------------------------------------------------------------------
(* The requests.                                                            *)

LEMMA BitsFact ==
  \A f \in Fan : /\ Bits(f) = {<<f, "good">>, <<f, "fail">>}
                 /\ Bits(f) \subseteq Led
                 /\ <<f, "good">> # <<f, "fail">>
  BY DEF Bits, Led, Color

LEMMA NoArgExclusive ==
  /\ NoArg \in [set : SUBSET Led, clear : SUBSET Led]
  /\ Exclusive(NoArg)
  BY BitsFact DEF NoArg, Exclusive

LEMMA ProbeExclusive ==
  /\ [set |-> {}, clear |-> Led] \in [set : SUBSET Led, clear : SUBSET Led]
  /\ Exclusive([set |-> {}, clear |-> Led])
  BY BitsFact DEF Exclusive

\* The request of a store concerns exactly the bits of its tray.
LEMMA AsksExclusive ==
  ASSUME NEW f \in Fan, NEW c \in {"good", "fail", "off"}
  PROVE  /\ Asks(f, c) \in [set : SUBSET Led, clear : SUBSET Led]
         /\ Exclusive(Asks(f, c))
<1>1. Shows(f, c) = IF c = "off" THEN {} ELSE {<<f, c>>}
  BY BitsFact DEF Shows
<1>2. Asks(f, c) \in [set : SUBSET Led, clear : SUBSET Led]
  BY <1>1, BitsFact DEF Asks
<1>3. ASSUME NEW g \in Fan
      PROVE  /\ ~ Bits(g) \subseteq Shows(f, c)
             /\ Bits(g) \cap Shows(f, c) # {} =>
                  Bits(g) \subseteq Shows(f, c) \cup (Bits(f) \ Shows(f, c))
  <2>1. ~ Bits(g) \subseteq Shows(f, c)
    BY <1>1, BitsFact
  <2>2. Bits(g) \cap Shows(f, c) # {} => g = f
    BY <1>1, BitsFact
  <2> QED BY <2>1, <2>2
<1> QED BY <1>2, <1>3 DEF Exclusive, Asks

\* nh_fpga_fan_led_set() clears the sibling of what it sets.
LEMMA LedSetExclusive ==
  ASSUME NEW l \in Led, NEW v \in {On, Off}
  PROVE  /\ LedSet(l, v) \in [set : SUBSET Led, clear : SUBSET Led]
         /\ Exclusive(LedSet(l, v))
<1>1. PICK f \in Fan, c \in Color : l = <<f, c>>
  BY DEF Led
<1>2. Sibling(l) = Bits(f) \ {l}
  BY <1>1 DEF Sibling
<1>3. LedSet(l, v) \in [set : SUBSET Led, clear : SUBSET Led]
  BY <1>2, BitsFact DEF LedSet
<1>4. ASSUME NEW g \in Fan
      PROVE  /\ ~ Bits(g) \subseteq {l}
             /\ l \in Bits(g) => Bits(g) \subseteq {l} \cup Sibling(l)
  <2>1. ~ Bits(g) \subseteq {l}
    BY BitsFact
  <2>2. l \in Bits(g) => g = f
    BY <1>1, BitsFact
  <2> QED BY <2>1, <2>2, <1>2
<1>5. CASE v = On
  <2>1. LedSet(l, v) = [set |-> {l}, clear |-> Sibling(l)]
    BY <1>5 DEF LedSet, On, Off
  <2> QED BY <2>1, <1>3, <1>4 DEF Exclusive
<1>6. CASE v = Off
  <2>1. LedSet(l, v) = [set |-> {}, clear |-> {l}]
    BY <1>6 DEF LedSet, On, Off
  <2>2. \A g \in Fan : ~ Bits(g) \subseteq {}
    BY BitsFact
  <2> QED BY <2>1, <2>2, <1>3 DEF Exclusive
<1> QED BY <1>5, <1>6

\* Carrying out such a request never lights both colors of a tray.
LEMMA ExclusiveUpdate ==
  ASSUME NEW v, NEW r, Exclusive(r), \A f \in Fan : ~ Bits(f) \subseteq v
  PROVE  \A f \in Fan : ~ Bits(f) \subseteq (v \ r.clear) \cup r.set
<1> SUFFICES ASSUME NEW f \in Fan, Bits(f) \subseteq (v \ r.clear) \cup r.set
             PROVE  FALSE
  OBVIOUS
<1>1. CASE Bits(f) \cap r.set = {}
  BY <1>1
<1>2. CASE Bits(f) \cap r.set # {}
  <2>1. Bits(f) \subseteq r.set \cup r.clear
    BY <1>2 DEF Exclusive
  <2>2. Bits(f) \subseteq r.set
    BY <2>1
  <2> QED BY <2>2 DEF Exclusive
<1> QED BY <1>1, <1>2

-----------------------------------------------------------------------------
(* Types.                                                                   *)

LEMMA AfterType ==
  \A a \in Setter : After(a) \in Point \ Critical
  BY DEF After, Point, Critical

LEMMA InitType == Init => TypeOK
<1> SUFFICES ASSUME Init PROVE TypeOK
  OBVIOUS
<1> USE DEF Init
<1>1. value \subseteq Led /\ registered \subseteq Led
  BY DEF Led, Color
<1>2. pc \in [Setter -> Point]
  BY DEF Point, Critical
<1>3. arg \in [Setter -> [set : SUBSET Led, clear : SUBSET Led]]
  BY NoArgExclusive
<1>4. /\ lock \in Setter \cup {Nobody}
      /\ local \in [Setter -> SUBSET Led]
      /\ want \in [Led -> {On, Off, Nothing}]
      /\ asked \in [Fan -> SUBSET {"good", "fail", "off", "other"}]
  OBVIOUS
<1>5. stores \in 0 .. MAX_STORES
  BY ActorsOK
<1>6. \A a \in Setter : lock = a <=> pc[a] \in Critical
  BY ActorsOK DEF Critical
<1> QED BY <1>1, <1>2, <1>3, <1>4, <1>5, <1>6 DEF TypeOK

LEMMA StoresGrow ==
  stores \in 0 .. MAX_STORES /\ stores < MAX_STORES => stores + 1 \in 0 .. MAX_STORES
  BY ActorsOK

\* Each step keeps the types.
LEMMA NextType == TypeOK /\ [Next]_vars => TypeOK'
<1> SUFFICES ASSUME TypeOK, [Next]_vars PROVE TypeOK'
  OBVIOUS
<1> USE DEF TypeOK
<1>1. CASE ProbeHwmon
  <2>1. Probe \in Setter
    BY DEF Setter
  <2>2. pc' \in [Setter -> Point] /\ \A a \in Setter : lock' = a <=> pc'[a] \in Critical
    BY <1>1, <2>1 DEF ProbeHwmon, Go, Point, Critical
  <2>3. arg' \in [Setter -> [set : SUBSET Led, clear : SUBSET Led]]
    BY <1>1, ProbeExclusive DEF ProbeHwmon, Request
  <2> QED BY <1>1, <2>2, <2>3 DEF ProbeHwmon
<1>2. ASSUME NEW l \in Led, RegisterLed(l)
      PROVE  TypeOK'
  <2>1. Probe \in Setter
    BY DEF Setter
  <2>2. pc' \in [Setter -> Point] /\ \A a \in Setter : lock' = a <=> pc'[a] \in Critical
    BY <1>2, <2>1 DEF RegisterLed, Go, Point, Critical
  <2> QED BY <1>2, <2>2 DEF RegisterLed
<1>3. ASSUME NEW l \in Led, RunWork(l)
      PROVE  TypeOK'
  <2>1. l \in Setter
    BY DEF Setter
  <2>2. pc' \in [Setter -> Point] /\ \A a \in Setter : lock' = a <=> pc'[a] \in Critical
    BY <1>3, <2>1 DEF RunWork, Go, Point, Critical
  <2>3. want[l] \in {On, Off}
    BY <1>3 DEF RunWork
  <2>4. arg' \in [Setter -> [set : SUBSET Led, clear : SUBSET Led]]
    BY <1>3, <2>3, LedSetExclusive DEF RunWork, Request
  <2> QED BY <1>3, <2>2, <2>4 DEF RunWork
<1>4. ASSUME NEW a \in Setter, Lock(a)
      PROVE  TypeOK'
  <2>1. pc' \in [Setter -> Point]
    BY <1>4 DEF Lock, Go, Point, Critical
  <2>2. ASSUME NEW b \in Setter
        PROVE  lock' = b <=> pc'[b] \in Critical
    BY <1>4, ActorsOK DEF Lock, Go, Critical
  <2> QED BY <1>4, <2>1, <2>2 DEF Lock
<1>5. ASSUME NEW a \in Setter, Read(a)
      PROVE  TypeOK'
  <2>1. pc' \in [Setter -> Point] /\ \A b \in Setter : lock' = b <=> pc'[b] \in Critical
    BY <1>5 DEF Read, Go, Point, Critical
  <2> QED BY <1>5, <2>1 DEF Read
<1>6. ASSUME NEW a \in Setter, Write(a)
      PROVE  TypeOK'
  <2>1. pc' \in [Setter -> Point]
    BY <1>6, AfterType DEF Write, Go
  <2>2. lock = a
    BY <1>6 DEF Write, Critical
  <2>3. ASSUME NEW b \in Setter
        PROVE  lock' = b <=> pc'[b] \in Critical
    BY <1>6, <2>2, AfterType, ActorsOK DEF Write, Go
  <2>4. arg' \in [Setter -> [set : SUBSET Led, clear : SUBSET Led]]
    BY <1>6, NoArgExclusive DEF Write, Request
  <2>5. value' \subseteq Led
    BY <1>6 DEF Write
  <2> QED BY <1>6, <2>1, <2>3, <2>4, <2>5 DEF Write
<1>7. ASSUME NEW t \in Thread, SyncStep(t)
      PROVE  TypeOK'
  <2>1. t \in Setter
    BY DEF Setter
  <2>2. pc' \in [Setter -> Point] /\ \A b \in Setter : lock' = b <=> pc'[b] \in Critical
    BY <1>7, <2>1 DEF SyncStep, SyncGood, SyncFail, Go, Point, Critical
  <2>3. want' \in [Led -> {On, Off, Nothing}]
    BY <1>7 DEF SyncStep, SyncGood, SyncFail, SetBrightness
  <2>4. arg' \in [Setter -> [set : SUBSET Led, clear : SUBSET Led]]
    BY <1>7, NoArgExclusive DEF SyncStep, SyncGood, SyncFail, Request
  <2> QED BY <1>7, <2>2, <2>3, <2>4 DEF SyncStep, SyncGood, SyncFail
<1>8. ASSUME NEW l \in Led, NEW v \in {On, Off}, ClassStore(l, v)
      PROVE  TypeOK'
  <2>1. l[1] \in Fan
    BY DEF Led
  <2>2. want' \in [Led -> {On, Off, Nothing}]
    BY <1>8 DEF ClassStore
  <2>3. asked' \in [Fan -> SUBSET {"good", "fail", "off", "other"}]
    BY <1>8, <2>1 DEF ClassStore
  <2> QED BY <1>8, <2>2, <2>3, StoresGrow DEF ClassStore
<1>9. ASSUME NEW t \in Thread, NEW f \in Fan, NEW c \in {"good", "fail", "off"},
             BeginStore(t, f, c)
      PROVE  TypeOK'
  <2>1. t \in Setter
    BY DEF Setter
  <2>2. pc' \in [Setter -> Point] /\ \A b \in Setter : lock' = b <=> pc'[b] \in Critical
    BY <1>9, <2>1 DEF BeginStore, Go, Point, Critical
  <2>3. arg' \in [Setter -> [set : SUBSET Led, clear : SUBSET Led]]
    BY <1>9, AsksExclusive DEF BeginStore, Request
  <2>4. asked' \in [Fan -> SUBSET {"good", "fail", "off", "other"}]
    BY <1>9 DEF BeginStore, Asked
  <2> QED BY <1>9, <2>2, <2>3, <2>4, StoresGrow DEF BeginStore
<1>10. CASE UNCHANGED vars
  BY <1>10 DEF vars
<1> QED
  BY <1>1, <1>2, <1>3, <1>4, <1>5, <1>6, <1>7, <1>8, <1>9, <1>10
  DEF Next, Internal, SetterStep

\* The registers, requests and control points keep their types, and at most one
\* setter is between lock and unlock, for any number of trays and threads.
THEOREM FanTypeCorrect == Spec => []TypeOK
<1> QED BY InitType, NextType, PTL DEF Spec

-----------------------------------------------------------------------------
(* The inductive invariant.                                                  *)

LEMMA InitInv == Init => RequestInv /\ LocalInv /\ OneColor
<1> SUFFICES ASSUME Init PROVE RequestInv /\ LocalInv /\ OneColor
  OBVIOUS
<1>1. RequestInv
  BY NoArgExclusive DEF Init, RequestInv
<1>2. LocalInv
  BY DEF Init, LocalInv
<1>3. OneColor
  BY BitsFact DEF Init, OneColor
<1> QED BY <1>1, <1>2, <1>3

\* Whoever writes holds the lock, alone.
LEMMA OneWriter ==
  TypeOK => \A a, b \in Setter : pc[a] \in Critical /\ pc[b] \in Critical => a = b
  BY DEF TypeOK

LEMMA NextRequest == IInv /\ [Next]_vars => RequestInv'
<1> SUFFICES ASSUME IInv, [Next]_vars PROVE RequestInv'
  OBVIOUS
<1> USE DEF IInv, TypeOK, RequestInv
<1>1. ASSUME NEW a \in Setter, NEW r, Exclusive(r), Request(a, r)
      PROVE  RequestInv'
  <2>1. \A b \in Setter : arg'[b] = r \/ arg'[b] = arg[b]
    BY <1>1 DEF Request
  <2> QED BY <2>1, <1>1 DEF Exclusive
<1>2. ASSUME arg' = arg
      PROVE  RequestInv'
  BY <1>2 DEF Exclusive
<1>3. CASE ProbeHwmon
  BY <1>1, <1>3, ProbeExclusive DEF ProbeHwmon, Setter
<1>4. ASSUME NEW l \in Led, RunWork(l)
      PROVE  RequestInv'
  <2>1. want[l] \in {On, Off} /\ l \in Setter
    BY <1>4 DEF RunWork, Setter
  <2> QED BY <2>1, <1>1, <1>4, LedSetExclusive DEF RunWork
<1>5. ASSUME NEW a \in Setter, Write(a)
      PROVE  RequestInv'
  BY <1>1, <1>5, NoArgExclusive DEF Write
<1>6. ASSUME NEW t \in Thread, SyncStep(t)
      PROVE  RequestInv'
  <2>1. t \in Setter
    BY DEF Setter
  <2> QED BY <2>1, <1>1, <1>2, <1>6, NoArgExclusive DEF SyncStep, SyncGood, SyncFail
<1>7. ASSUME NEW t \in Thread, NEW f \in Fan, NEW c \in {"good", "fail", "off"},
             BeginStore(t, f, c)
      PROVE  RequestInv'
  BY <1>1, <1>7, AsksExclusive DEF BeginStore, Setter
<1>8. ASSUME NEW l \in Led, NEW v \in {On, Off}, RegisterLed(l) \/ ClassStore(l, v)
      PROVE  RequestInv'
  BY <1>2, <1>8 DEF RegisterLed, ClassStore
<1>9. ASSUME NEW a \in Setter, Lock(a) \/ Read(a)
      PROVE  RequestInv'
  BY <1>2, <1>9 DEF Lock, Read
<1>10. CASE UNCHANGED vars
  BY <1>2, <1>10 DEF vars
<1> QED
  BY <1>3, <1>4, <1>5, <1>6, <1>7, <1>8, <1>9, <1>10 DEF Next, Internal, SetterStep, On

LEMMA NextLocal == IInv /\ [Next]_vars => LocalInv'
<1> SUFFICES ASSUME IInv, [Next]_vars PROVE LocalInv'
  OBVIOUS
<1> USE DEF IInv, TypeOK, LocalInv
\* A step that leaves the registers alone and lets nobody go to the write.
<1>1. ASSUME value' = value, local' = local,
             \A b \in Setter : pc'[b] = "write" => pc[b] = "write"
      PROVE  LocalInv'
  BY <1>1
<1>2. CASE ProbeHwmon
  BY <1>1, <1>2 DEF ProbeHwmon, Go, Setter
<1>3. ASSUME NEW l \in Led, NEW v \in {On, Off},
             RegisterLed(l) \/ RunWork(l) \/ ClassStore(l, v)
      PROVE  LocalInv'
  BY <1>1, <1>3 DEF RegisterLed, RunWork, ClassStore, Go, Setter
<1>4. ASSUME NEW t \in Thread, SyncStep(t)
      PROVE  LocalInv'
  BY <1>1, <1>4 DEF SyncStep, SyncGood, SyncFail, Go, Setter
<1>5. ASSUME NEW t \in Thread, NEW f \in Fan, NEW c \in {"good", "fail", "off"},
             BeginStore(t, f, c)
      PROVE  LocalInv'
  BY <1>1, <1>5 DEF BeginStore, Go, Setter
<1>6. ASSUME NEW a \in Setter, Lock(a)
      PROVE  LocalInv'
  BY <1>1, <1>6 DEF Lock, Go
<1>7. ASSUME NEW a \in Setter, Read(a)
      PROVE  LocalInv'
  <2>1. \A b \in Setter \ {a} : pc[b] # "write"
    BY <1>7, OneWriter DEF Read, Critical
  <2> QED BY <1>7, <2>1 DEF Read, Go
<1>8. ASSUME NEW a \in Setter, Write(a)
      PROVE  LocalInv'
  <2>1. \A b \in Setter \ {a} : pc[b] # "write"
    BY <1>8, OneWriter DEF Write, Critical
  <2>2. pc'[a] # "write"
    BY <1>8, AfterType DEF Write, Go, Critical
  <2> QED BY <1>8, <2>1, <2>2 DEF Write, Go
<1>9. CASE UNCHANGED vars
  BY <1>1, <1>9 DEF vars
<1> QED
  BY <1>2, <1>3, <1>4, <1>5, <1>6, <1>7, <1>8, <1>9 DEF Next, Internal, SetterStep, On

LEMMA NextOneColor == IInv /\ [Next]_vars => OneColor'
<1> SUFFICES ASSUME IInv, [Next]_vars PROVE OneColor'
  OBVIOUS
<1> USE DEF IInv, OneColor
<1>1. ASSUME value' = value
      PROVE  OneColor'
  BY <1>1
<1>2. ASSUME NEW a \in Setter, Write(a)
      PROVE  OneColor'
  <2>1. local[a] = value
    BY <1>2 DEF Write, LocalInv
  <2>2. Exclusive(arg[a])
    BY DEF RequestInv
  <2>3. value' = (value \ arg[a].clear) \cup arg[a].set
    BY <1>2, <2>1 DEF Write
  <2>4. \A f \in Fan : ~ Bits(f) \subseteq (value \ arg[a].clear) \cup arg[a].set
    BY <2>2, ExclusiveUpdate
  <2> QED BY <2>3, <2>4
<1> QED
  BY <1>1, <1>2
  DEF Next, Internal, SetterStep, SyncStep, ProbeHwmon, RegisterLed, RunWork, Lock, Read,
      SyncGood, SyncFail, ClassStore, BeginStore, vars

LEMMA IInvCorrect == Spec => []IInv
<1>1. Init => IInv
  BY InitType, InitInv DEF IInv
<1>2. IInv /\ [Next]_vars => IInv'
  BY NextType, NextRequest, NextLocal, NextOneColor DEF IInv
<1> QED BY <1>1, <1>2, PTL DEF Spec

\* "enforce mutual exclusion here": no interleaving of probe, stores and LED
\* works lights both colors of a tray.
THEOREM OneColorCorrect == Spec => []OneColor
<1>1. IInv => OneColor
  BY DEF IInv
<1> QED BY <1>1, IInvCorrect, PTL

\* Every write to the shared control register changes the bits it was asked to
\* and leaves those of the other trays as they are at that moment.
THEOREM NoLostUpdateCorrect == Spec => NoLostUpdate
<1> DEFINE Kept ==
      \A a \in Setter : pc[a] = "write" /\ pc'[a] # "write" =>
        \A l \in Led \ Mask(a) : l \in value' <=> l \in value
<1>1. IInv /\ [Next]_vars => [Kept]_vars
  <2> SUFFICES ASSUME IInv, Next, NEW a \in Setter, pc[a] = "write", pc'[a] # "write",
                      NEW l \in Led \ Mask(a)
               PROVE  l \in value' <=> l \in value
    OBVIOUS
  <2> USE DEF IInv, TypeOK
  <2>1. ASSUME NEW b \in Setter, Write(b)
        PROVE  l \in value' <=> l \in value
    <3>1. a = b
      BY <2>1, OneWriter DEF Write, Critical
    <3>2. local[a] = value
      BY DEF LocalInv
    <3> QED BY <2>1, <3>1, <3>2 DEF Write, Mask
  <2> QED
    BY <2>1
    DEF Next, Internal, SetterStep, SyncStep, ProbeHwmon, RegisterLed, RunWork, Lock, Read,
        SyncGood, SyncFail, ClassStore, BeginStore
<1> QED BY <1>1, IInvCorrect, PTL DEF Spec, NoLostUpdate

-----------------------------------------------------------------------------
(* No late work leaves the wrong color.                                      *)

Stored == {"good", "fail", "off"}

\* A storing thread carries the request of a store that asked still knows of.
StoreInv ==
  \A t \in Thread :
    /\ pc[t] \in {"idle", "lock", "good", "fail"} \cup Critical
    /\ pc[t] # "idle" =>
         \E f \in Fan, c \in Stored :
           arg[t] = Asks(f, c) /\ (c \in asked[f] \/ "other" \in asked[f])

\* A work sets at most its own bit; init_leds sets none.
WorkInv ==
  /\ \A l \in Led : pc[l] \in {"idle", "lock"} \cup Critical /\ arg[l].set \subseteq {l}
  /\ arg[Probe].set = {}

\* What is claimed of a tray is asked of a fan whose probe is through.
BoundInv ==
  /\ pc[Probe] \in {"hwmon", "lock", "register", "bound"} \cup Critical
  /\ pc[Probe] = "bound" => registered = Led
  /\ \A f \in Fan : asked[f] # {} /\ "other" \notin asked[f] => pc[Probe] = "bound"

\* A store to the tray that has not told the device of color d yet.
WillTell(f, d) ==
  \E t \in Thread :
    /\ Mask(t) = Bits(f)
    /\ \/ pc[t] \in {"lock", "good"} \cup Critical
       \/ d = "fail" /\ pc[t] = "fail"

\* The bit l is off, or the work that clears it is under way with none after it.
Darkens(l) ==
  \/ want[l] = Off
  \/ want[l] = Nothing /\ pc[l] # "idle" /\ arg[l] = [set |-> {}, clear |-> {l}]
  \/ want[l] = Nothing /\ pc[l] = "idle" /\ l \notin value

\* The color that was not asked for goes out, whatever is still under way.
DarkInv ==
  \A f \in Fan, c \in Stored, d \in Color :
    asked[f] = {c} /\ d # c => WillTell(f, d) \/ Darkens(<<f, d>>)

ColorInv == IInv /\ StoreInv /\ WorkInv /\ BoundInv /\ DarkInv

\* A store decides about both bits of its tray and sets the asked color alone.
LEMMA AsksFact ==
  ASSUME NEW f \in Fan, NEW c \in Stored
  PROVE  /\ Asks(f, c).set = IF c = "off" THEN {} ELSE {<<f, c>>}
         /\ Asks(f, c).set \cup Asks(f, c).clear = Bits(f)
  BY BitsFact DEF Asks, Shows, Stored

LEMMA LedSetFact ==
  ASSUME NEW l \in Led, NEW v \in {On, Off}
  PROVE  /\ LedSet(l, v).set \subseteq {l}
         /\ LedSet(l, Off) = [set |-> {}, clear |-> {l}]
  BY DEF LedSet, On, Off

\* The color that is not asked for is set by no thread.
LEMMA OthersColor ==
  ASSUME StoreInv, NEW f \in Fan, NEW c \in Stored, NEW d \in Color, asked[f] = {c}, d # c,
         NEW t \in Thread, pc[t] # "idle"
  PROVE  <<f, d>> \notin arg[t].set
<1>1. PICK g \in Fan, e \in Stored : arg[t] = Asks(g, e) /\ (e \in asked[g] \/ "other" \in asked[g])
  BY DEF StoreInv
<1>2. c # "other"
  BY DEF Stored
<1>3. <<f, d>> \in arg[t].set => g = f /\ e = d
  <2>1. arg[t].set = IF e = "off" THEN {} ELSE {<<g, e>>}
    BY <1>1, AsksFact
  <2> QED BY <2>1
<1> QED BY <1>1, <1>2, <1>3

LEMMA InitColor == Init => StoreInv /\ WorkInv /\ BoundInv /\ DarkInv
<1> SUFFICES ASSUME Init PROVE StoreInv /\ WorkInv /\ BoundInv /\ DarkInv
  OBVIOUS
<1> USE ActorsOK DEF Init
<1>1. StoreInv
  BY DEF StoreInv, Setter
<1>2. WorkInv
  BY DEF WorkInv, Setter, NoArg
<1>3. BoundInv
  BY DEF BoundInv, Setter
<1>4. DarkInv
  BY DEF DarkInv
<1> QED BY <1>1, <1>2, <1>3, <1>4

LEMMA NextStore == TypeOK /\ StoreInv /\ [Next]_vars => StoreInv'
<1> SUFFICES ASSUME TypeOK, StoreInv, [Next]_vars PROVE StoreInv'
  OBVIOUS
<1> USE DEF TypeOK
<1>t. Thread \subseteq Setter /\ Led \subseteq Setter /\ Probe \in Setter
  BY DEF Setter
\* A step in which the threads go on as they were or end.
<1>1. ASSUME \A f \in Fan : asked[f] \subseteq asked'[f],
             \A t \in Thread : /\ pc'[t] \in {"idle", "lock", "good", "fail"} \cup Critical
                               /\ pc'[t] # "idle" => pc[t] # "idle" /\ arg'[t] = arg[t]
      PROVE  StoreInv'
  <2> SUFFICES ASSUME NEW t \in Thread, pc'[t] # "idle"
               PROVE  \E f \in Fan, c \in Stored :
                        arg'[t] = Asks(f, c) /\ (c \in asked'[f] \/ "other" \in asked'[f])
    BY <1>1 DEF StoreInv
  <2>1. PICK f \in Fan, c \in Stored : arg[t] = Asks(f, c) /\ (c \in asked[f] \/ "other" \in asked[f])
    BY <1>1 DEF StoreInv
  <2> QED BY <1>1, <2>1
<1>2. CASE ProbeHwmon
  BY <1>1, <1>2, <1>t, ActorsOK DEF ProbeHwmon, Go, Request, StoreInv
<1>3. ASSUME NEW l \in Led, RegisterLed(l) \/ RunWork(l)
      PROVE  StoreInv'
  BY <1>1, <1>3, <1>t, ActorsOK DEF RegisterLed, RunWork, Go, Request, StoreInv
<1>4. ASSUME NEW a \in Setter, Lock(a) \/ Read(a)
      PROVE  StoreInv'
  BY <1>1, <1>4, <1>t DEF Lock, Read, Go, Critical, StoreInv
<1>5. ASSUME NEW a \in Setter, Write(a)
      PROVE  StoreInv'
  <2>1. a \in Thread => After(a) = "good"
    BY ActorsOK DEF After
  <2> QED BY <1>1, <1>5, <2>1, <1>t DEF Write, Go, Request, StoreInv
<1>6. ASSUME NEW t \in Thread, SyncStep(t)
      PROVE  StoreInv'
  BY <1>1, <1>6, <1>t DEF SyncStep, SyncGood, SyncFail, Go, Request, StoreInv
<1>7. ASSUME NEW l \in Led, NEW v \in {On, Off}, ClassStore(l, v)
      PROVE  StoreInv'
  <2>1. \A f \in Fan : asked[f] \subseteq asked'[f]
    BY <1>7 DEF ClassStore
  <2> QED BY <1>1, <1>7, <2>1, <1>t DEF ClassStore, StoreInv
<1>8. ASSUME NEW t \in Thread, NEW f \in Fan, NEW c \in Stored, BeginStore(t, f, c)
      PROVE  StoreInv'
  <2>1. c \in asked'[f] \/ "other" \in asked'[f]
    BY <1>8 DEF BeginStore, Asked
  <2>2. arg'[t] = Asks(f, c) /\ pc'[t] = "lock"
    BY <1>8, <1>t DEF BeginStore, Go, Request
  <2>3. ASSUME NEW u \in Thread, u # t
        PROVE  /\ pc'[u] \in {"idle", "lock", "good", "fail"} \cup Critical
               /\ pc'[u] # "idle" =>
                    \E g \in Fan, e \in Stored :
                      arg'[u] = Asks(g, e) /\ (e \in asked'[g] \/ "other" \in asked'[g])
    <3>1. pc'[u] = pc[u] /\ arg'[u] = arg[u]
      BY <1>8, <2>3, <1>t DEF BeginStore, Go, Request
    <3>2. ASSUME NEW g \in Fan, NEW e \in Stored, arg[u] = Asks(g, e), pc[u] # "idle"
          PROVE  asked[g] \subseteq asked'[g]
      <4>1. g = f => Storing(f)
        BY <3>2, AsksFact DEF Storing, Mask
      <4> QED BY <1>8, <4>1 DEF BeginStore, Asked
    <3> QED BY <3>1, <3>2 DEF StoreInv
  <2> QED BY <2>1, <2>2, <2>3 DEF StoreInv
<1>9. CASE UNCHANGED vars
  BY <1>1, <1>9 DEF vars, StoreInv
<1> QED
  BY <1>2, <1>3, <1>4, <1>5, <1>6, <1>7, <1>8, <1>9 DEF Next, Internal, SetterStep, Stored

LEMMA NextWork == TypeOK /\ WorkInv /\ [Next]_vars => WorkInv'
<1> SUFFICES ASSUME TypeOK, WorkInv, [Next]_vars PROVE WorkInv'
  OBVIOUS
<1> USE DEF TypeOK, WorkInv
<1>t. Thread \subseteq Setter /\ Led \subseteq Setter /\ Probe \in Setter
  BY DEF Setter
<1>1. CASE ProbeHwmon
  BY <1>1, <1>t, ActorsOK DEF ProbeHwmon, Go, Request
<1>2. ASSUME NEW l \in Led, RegisterLed(l)
      PROVE  WorkInv'
  BY <1>2, <1>t, ActorsOK DEF RegisterLed, Go
<1>3. ASSUME NEW l \in Led, RunWork(l)
      PROVE  WorkInv'
  <2>1. LedSet(l, want[l]).set \subseteq {l}
    BY <1>3, LedSetFact DEF RunWork
  <2> QED BY <1>3, <2>1, <1>t, ActorsOK DEF RunWork, Go, Request
<1>4. ASSUME NEW a \in Setter, Lock(a) \/ Read(a)
      PROVE  WorkInv'
  BY <1>4, <1>t DEF Lock, Read, Go, Critical
<1>5. ASSUME NEW a \in Setter, Write(a)
      PROVE  WorkInv'
  <2>1. \A l \in Led : arg'[l].set \subseteq {l}
    BY <1>5, <1>t DEF Write, Request, NoArg
  <2>2. arg'[Probe].set = {}
    BY <1>5, <1>t DEF Write, Request, NoArg
  <2>3. \A l \in Led : pc'[l] \in {"idle", "lock"} \cup Critical
    BY <1>5, <1>t DEF Write, Go, After
  <2> QED BY <2>1, <2>2, <2>3
<1>6. ASSUME NEW t \in Thread, SyncStep(t)
      PROVE  WorkInv'
  BY <1>6, <1>t, ActorsOK DEF SyncStep, SyncGood, SyncFail, Go, Request
<1>7. ASSUME NEW l \in Led, NEW v \in {On, Off}, ClassStore(l, v)
      PROVE  WorkInv'
  BY <1>7 DEF ClassStore
<1>8. ASSUME NEW t \in Thread, NEW f \in Fan, NEW c \in Stored, BeginStore(t, f, c)
      PROVE  WorkInv'
  BY <1>8, <1>t, ActorsOK DEF BeginStore, Go, Request
<1>9. CASE UNCHANGED vars
  BY <1>9 DEF vars
<1> QED
  BY <1>1, <1>2, <1>3, <1>4, <1>5, <1>6, <1>7, <1>8, <1>9
  DEF Next, Internal, SetterStep, Stored

LEMMA NextBound == TypeOK /\ BoundInv /\ [Next]_vars => BoundInv'
<1> SUFFICES ASSUME TypeOK, BoundInv, [Next]_vars PROVE BoundInv'
  OBVIOUS
<1> USE DEF TypeOK, BoundInv
<1>t. Thread \subseteq Setter /\ Led \subseteq Setter /\ Probe \in Setter
  BY DEF Setter
<1>1. CASE ProbeHwmon
  BY <1>1, <1>t DEF ProbeHwmon, Go
<1>2. ASSUME NEW l \in Led, RegisterLed(l)
      PROVE  BoundInv'
  BY <1>2, <1>t DEF RegisterLed, Go, Critical
<1>3. ASSUME NEW l \in Led, RunWork(l)
      PROVE  BoundInv'
  BY <1>3, <1>t, ActorsOK DEF RunWork, Go
<1>4. ASSUME NEW a \in Setter, Lock(a) \/ Read(a)
      PROVE  BoundInv'
  BY <1>4, <1>t DEF Lock, Read, Go, Critical
<1>5. ASSUME NEW a \in Setter, Write(a)
      PROVE  BoundInv'
  <2>1. a = Probe => After(a) = "register"
    BY ActorsOK DEF After
  <2> QED BY <1>5, <2>1, <1>t DEF Write, Go
<1>6. ASSUME NEW t \in Thread, SyncStep(t)
      PROVE  BoundInv'
  BY <1>6, <1>t, ActorsOK DEF SyncStep, SyncGood, SyncFail, Go
<1>7. ASSUME NEW l \in Led, NEW v \in {On, Off}, ClassStore(l, v)
      PROVE  BoundInv'
  BY <1>7 DEF ClassStore
<1>8. ASSUME NEW t \in Thread, NEW f \in Fan, NEW c \in Stored, BeginStore(t, f, c)
      PROVE  BoundInv'
  <2>1. pc'[Probe] = pc[Probe]
    BY <1>8, <1>t, ActorsOK DEF BeginStore, Go
  <2>2. asked'[f] # {} /\ "other" \notin asked'[f] => pc[Probe] = "bound"
    BY <1>8 DEF BeginStore, Asked
  <2>3. \A g \in Fan \ {f} : asked'[g] = asked[g]
    BY <1>8 DEF BeginStore, Asked
  <2> QED BY <1>8, <2>1, <2>2, <2>3 DEF BeginStore
<1>9. CASE UNCHANGED vars
  BY <1>9 DEF vars
<1> QED
  BY <1>1, <1>2, <1>3, <1>4, <1>5, <1>6, <1>7, <1>8, <1>9
  DEF Next, Internal, SetterStep, Stored

LEMMA NextDark == ColorInv /\ [Next]_vars => DarkInv'
<1> SUFFICES ASSUME ColorInv, [Next]_vars,
                    NEW f \in Fan, NEW c \in Stored, NEW d \in Color,
                    asked'[f] = {c}, d # c
             PROVE  WillTell(f, d)' \/ Darkens(<<f, d>>)'
  BY DEF DarkInv
<1> DEFINE l == <<f, d>>
<1> USE DEF ColorInv, IInv, TypeOK
<1>t. /\ Thread \subseteq Setter /\ Led \subseteq Setter /\ Probe \in Setter
      /\ l \in Led /\ l \in Bits(f) /\ c # "other"
  BY DEF Setter, Led, Bits, Stored
\* What a step must keep where nothing new is asked of the tray.
<1>1. ASSUME asked'[f] = asked[f],
             \A t \in Thread : pc[t] # "idle" => pc'[t] = pc[t] /\ arg'[t] = arg[t],
             Darkens(l) => Darkens(l)'
      PROVE  WillTell(f, d)' \/ Darkens(l)'
  <2>1. WillTell(f, d) \/ Darkens(l)
    BY <1>1 DEF DarkInv
  <2>2. WillTell(f, d) => WillTell(f, d)'
    BY <1>1 DEF WillTell, Mask, Critical
  <2> QED BY <1>1, <2>1, <2>2
<1>2. CASE ProbeHwmon
  <2>1. Darkens(l) => Darkens(l)'
    BY <1>2, <1>t, ActorsOK DEF ProbeHwmon, Go, Request, Darkens
  <2> QED BY <1>1, <1>2, <2>1, <1>t, ActorsOK DEF ProbeHwmon, Go, Request
<1>3. ASSUME NEW k \in Led, RegisterLed(k)
      PROVE  WillTell(f, d)' \/ Darkens(l)'
  <2>1. Darkens(l) => Darkens(l)'
    BY <1>3, <1>t, ActorsOK DEF RegisterLed, Go, Darkens
  <2> QED BY <1>1, <1>3, <2>1, <1>t, ActorsOK DEF RegisterLed, Go
<1>4. ASSUME NEW k \in Led, RunWork(k)
      PROVE  WillTell(f, d)' \/ Darkens(l)'
  <2>1. CASE k # l
    <3>1. Darkens(l) => Darkens(l)'
      BY <1>4, <2>1, <1>t DEF RunWork, Go, Request, Darkens
    <3> QED BY <1>1, <1>4, <3>1, <1>t, ActorsOK DEF RunWork, Go, Request
  \* The value it takes is the off that was left to it.
  <2>2. CASE k = l
    <3>1. ASSUME Darkens(l) PROVE Darkens(l)'
      <4>1. want[l] = Off
        BY <1>4, <2>2, <3>1 DEF RunWork, Darkens
      <4>2. arg'[l] = [set |-> {}, clear |-> {l}] /\ pc'[l] = "lock" /\ want'[l] = Nothing
        BY <1>4, <2>2, <4>1, <1>t, LedSetFact DEF RunWork, Go, Request
      <4> QED BY <4>2 DEF Darkens
    <3> QED BY <1>1, <1>4, <3>1, <1>t, ActorsOK DEF RunWork, Go, Request
  <2> QED BY <2>1, <2>2
<1>5. ASSUME NEW a \in Setter, Lock(a) \/ Read(a)
      PROVE  WillTell(f, d)' \/ Darkens(l)'
  <2>1. asked' = asked /\ arg' = arg /\ want' = want /\ value' = value
    BY <1>5 DEF Lock, Read
  <2>2. \A b \in Setter : \/ pc'[b] = pc[b]
                          \/ pc[b] \in {"lock", "read"} /\ pc'[b] \in Critical
    BY <1>5 DEF Lock, Read, Go, Critical
  <2>3. WillTell(f, d) => WillTell(f, d)'
    BY <2>1, <2>2, <1>t DEF WillTell, Mask, Critical
  <2>4. Darkens(l) => Darkens(l)'
    BY <2>1, <2>2, <1>t DEF Darkens, Critical
  <2> QED BY <2>1, <2>3, <2>4 DEF DarkInv
<1>6. ASSUME NEW a \in Setter, Write(a)
      PROVE  WillTell(f, d)' \/ Darkens(l)'
  <2>1. /\ asked' = asked /\ want' = want
        /\ value' = (value \ arg[a].clear) \cup arg[a].set
        /\ \A b \in Setter \ {a} : pc'[b] = pc[b] /\ arg'[b] = arg[b]
        /\ pc[a] = "write" /\ pc'[a] = After(a)
    BY <1>6 DEF Write, LocalInv, Go, Request
  <2>2. pc[Probe] = "bound"
    BY <2>1, <1>t DEF BoundInv
  <2>3. CASE a \in Thread
    <3>1. pc'[a] = "good" /\ arg'[a] = arg[a] /\ a \notin Led
      BY <2>3, <1>6, <2>1, ActorsOK DEF After, Write, Request
    <3>2. WillTell(f, d) => WillTell(f, d)'
      BY <2>1, <2>3, <3>1, <1>t DEF WillTell, Mask
    <3>3. l \notin arg[a].set
      BY <2>1, <2>3, OthersColor
    <3>4. Darkens(l) => Darkens(l)'
      BY <2>1, <3>1, <3>3, <1>t DEF Darkens
    <3> QED BY <2>1, <3>2, <3>4 DEF DarkInv
  <2>4. CASE a \in Led /\ a # l
    <3>1. l \notin arg[a].set
      BY <2>4 DEF WorkInv
    <3>2. Darkens(l) => Darkens(l)'
      BY <2>1, <2>4, <3>1, <1>t DEF Darkens
    <3> QED BY <1>1, <2>1, <2>4, <3>2, <1>t, ActorsOK
  <2>5. CASE a = l
    <3>1. pc'[l] = "idle"
      BY <2>1, <2>5, <1>t DEF After
    <3>2. Darkens(l) => Darkens(l)'
      BY <2>1, <2>5, <3>1 DEF Darkens
    <3> QED BY <1>1, <2>1, <2>5, <3>2, <1>t, ActorsOK
  <2> QED BY <2>1, <2>2, <2>3, <2>4, <2>5 DEF Setter
<1>7. ASSUME NEW t \in Thread, SyncStep(t)
      PROVE  WillTell(f, d)' \/ Darkens(l)'
  <2>1. /\ asked' = asked /\ value' = value /\ pc[t] \in {"good", "fail"}
        /\ \A b \in Setter \ {t} : pc'[b] = pc[b] /\ arg'[b] = arg[b]
        /\ pc[t] = "good" => pc'[t] = "fail" /\ arg'[t] = arg[t]
        /\ pc'[l] = pc[l] /\ arg'[l] = arg[l]
    BY <1>7, <1>t, ActorsOK DEF SyncStep, SyncGood, SyncFail, Go, Request
  <2>2. l \notin arg[t].set
    BY <2>1, OthersColor
  <2>3. want'[l] \in {want[l], Off}
    BY <1>7, <2>2, <1>t DEF SyncStep, SyncGood, SyncFail, SetBrightness
  <2>4. Darkens(l) => Darkens(l)'
    BY <2>1, <2>3 DEF Darkens
  <2>5. ASSUME Mask(t) = Bits(f), pc[t] = d
        PROVE  want'[l] = Off
    <3>1. l \in registered
      BY <2>1, <1>t DEF BoundInv
    <3>2. l \in Mask(t) /\ l[2] = d
      BY <2>5, <1>t
    <3>3. SetBrightness(t, d)
      BY <1>7, <2>5 DEF SyncStep, SyncGood, SyncFail
    <3> QED BY <2>2, <3>1, <3>2, <3>3, <1>t DEF SetBrightness
  <2>6. ASSUME WillTell(f, d) PROVE WillTell(f, d)' \/ Darkens(l)'
    <3>1. PICK u \in Thread : /\ Mask(u) = Bits(f)
                              /\ \/ pc[u] \in {"lock", "good"} \cup Critical
                                 \/ d = "fail" /\ pc[u] = "fail"
      BY <2>6 DEF WillTell
    <3>2. CASE u # t
      BY <2>1, <3>1, <3>2, <1>t DEF WillTell, Mask
    <3>3. CASE u = t /\ pc[t] = d
      BY <2>5, <3>1, <3>3 DEF Darkens
    <3>4. CASE u = t /\ pc[t] # d
      <4>1. d = "fail" /\ pc[t] = "good"
        BY <2>1, <3>1, <3>4 DEF Color, Critical
      <4> QED BY <2>1, <3>1, <3>4, <4>1 DEF WillTell, Mask
    <3> QED BY <3>2, <3>3, <3>4
  <2> QED BY <2>1, <2>4, <2>6 DEF DarkInv
\* A value stored by other means leaves no claim about that tray.
<1>8. ASSUME NEW k \in Led, NEW v \in {On, Off}, ClassStore(k, v)
      PROVE  WillTell(f, d)' \/ Darkens(l)'
  <2>1. k # l
    <3>1. k = l => asked'[f] = asked[f] \cup {"other"}
      BY <1>8 DEF ClassStore
    <3> QED BY <3>1, <1>t
  <2>2. asked'[f] = asked[f]
    BY <1>8, <1>t DEF ClassStore
  <2>3. Darkens(l) => Darkens(l)'
    BY <1>8, <2>1, <1>t DEF ClassStore, Darkens
  <2> QED BY <1>1, <1>8, <2>2, <2>3 DEF ClassStore
<1>9. ASSUME NEW t \in Thread, NEW g \in Fan, NEW e \in Stored, BeginStore(t, g, e)
      PROVE  WillTell(f, d)' \/ Darkens(l)'
  <2>1. CASE g = f
    <3>1. arg'[t] = Asks(f, e) /\ pc'[t] = "lock"
      BY <1>9, <2>1, <1>t DEF BeginStore, Go, Request
    <3>2. Mask(t)' = Bits(f)
      BY <3>1, AsksFact DEF Mask
    <3> QED BY <3>1, <3>2, AsksFact DEF WillTell
  <2>2. CASE g # f
    <3>1. asked'[f] = asked[f]
      BY <1>9, <2>2 DEF BeginStore, Asked
    <3>2. Darkens(l) => Darkens(l)'
      BY <1>9, <1>t, ActorsOK DEF BeginStore, Go, Request, Darkens
    <3> QED BY <1>1, <1>9, <3>1, <3>2, <1>t DEF BeginStore, Go, Request
  <2> QED BY <2>1, <2>2
<1>10. CASE UNCHANGED vars
  BY <1>1, <1>10 DEF vars, Darkens
<1> QED
  BY <1>2, <1>3, <1>4, <1>5, <1>6, <1>7, <1>8, <1>9, <1>10
  DEF Next, Internal, SetterStep, Stored

LEMMA ColorInvCorrect == Spec => []ColorInv
<1>1. Init => ColorInv
  BY InitType, InitInv, InitColor DEF IInv, ColorInv
<1>2. ColorInv /\ [Next]_vars => IInv'
  BY NextType, NextRequest, NextLocal, NextOneColor DEF IInv, ColorInv
<1>3. ColorInv /\ [Next]_vars => ColorInv'
  BY <1>2, NextStore, NextWork, NextBound, NextDark DEF IInv, ColorInv
<1> QED BY <1>1, <1>3, PTL DEF Spec

\* When all that was asked of a tray is carried out, the color opposite to the
\* one stored last is dark: no work of an earlier store comes late, for any
\* number of trays, threads and stores.
THEOREM WrongColorCorrect == Spec => []WrongColorNeverStays
<1>1. ASSUME ColorInv, NEW f \in Fan, NEW c \in Stored, NEW d \in Color,
             Quiet(f), asked[f] = {c}, d # c
      PROVE  <<f, d>> \notin value
  <2>1. ~ WillTell(f, d)
    BY <1>1 DEF Quiet, WillTell, Critical
  <2>2. want[<<f, d>>] = Nothing /\ pc[<<f, d>>] = "idle"
    BY <1>1, BitsFact DEF Quiet, Color
  <2> QED BY <1>1, <2>1, <2>2 DEF ColorInv, DarkInv, Darkens, Nothing, Off
<1>2. ColorInv => WrongColorNeverStays
  <2> SUFFICES ASSUME ColorInv, NEW f \in Fan, Quiet(f)
               PROVE  /\ asked[f] = {"good"} => Shown(f) # "fail"
                      /\ asked[f] = {"fail"} => Shown(f) # "good"
                      /\ asked[f] = {"off"} => Shown(f) = "off"
    BY DEF WrongColorNeverStays
  <2>1. Shows(f, "good") = {<<f, "good">>} /\ Shows(f, "fail") = {<<f, "fail">>}
    BY BitsFact DEF Shows
  <2>2. asked[f] = {"good"} => <<f, "fail">> \notin value
    BY <1>1 DEF Stored, Color
  <2>3. asked[f] = {"fail"} => <<f, "good">> \notin value
    BY <1>1 DEF Stored, Color
  <2>4. asked[f] = {"off"} => <<f, "good">> \notin value /\ <<f, "fail">> \notin value
    BY <1>1 DEF Stored, Color
  <2> QED BY <2>1, <2>2, <2>3, <2>4 DEF Shown
<1> QED BY <1>2, ColorInvCorrect, PTL

-----------------------------------------------------------------------------
(* What the sensors of the same driver show (FanCards), for every state of    *)
(* the registers.                                                           *)

Sensors == INSTANCE FanCards

\* Quotient and remainder are the two parts of a number in one way only.
LEMMA DivisionFact ==
  ASSUME NEW u \in Nat \ {0}, NEW k \in Nat, NEW r \in Nat, r < u
  PROVE  u * k + r \in Nat /\ (u * k + r) \div u = k /\ (u * k + r) % u = r
  OBVIOUS

LEMMA TachMaskIs ==
  /\ Sensors!InnerTachMask.unit = 1 /\ Sensors!InnerTachMask.size = 65536
  /\ Sensors!OuterTachMask.unit = 65536 /\ Sensors!OuterTachMask.size = 65536
  BY DEF Sensors!InnerTachMask, Sensors!OuterTachMask, Sensors!Bits

LEMMA PwmMaskIs == Sensors!PwmMask.unit = 1 /\ Sensors!PwmMask.size = 256
  BY DEF Sensors!PwmMask, Sensors!Bits

\* What the mask of a field does to a register, for every field of every register:
\* a value that was put into the field is read back, and neither the bits below the
\* field nor those above it change.
THEOREM FieldCorrect ==
  ASSUME NEW f, f.unit \in Nat \ {0}, f.size \in Nat \ {0},
         NEW reg \in Nat, NEW v \in 0 .. f.size - 1
  PROVE  LET new == Sensors!Put(reg, f, v) IN
         /\ new \in Nat
         /\ Sensors!Get(new, f) = v
         /\ new % f.unit = reg % f.unit
         /\ (new \div f.unit) \div f.size = (reg \div f.unit) \div f.size
<1> DEFINE u == f.unit
           s == f.size
           k == reg \div u
           r == reg % u
           h == k \div s
           g == k % s
           new == Sensors!Put(reg, f, v)
<1>1. /\ u \in Nat \ {0} /\ s \in Nat \ {0} /\ v \in Nat /\ v < s
      /\ g = Sensors!Get(reg, f)
  BY DEF Sensors!Get
<1>2. new = reg + (v - g) * u
  BY <1>1 DEF Sensors!Put
<1>3. /\ k \in Nat /\ r \in Nat /\ r < u /\ reg = u * k + r
  <2> HIDE DEF u
  <2> QED BY <1>1
<1>4. /\ h \in Nat /\ g \in Nat /\ g < s /\ k = s * h + g
  <2> HIDE DEF s, k
  <2> QED BY <1>1, <1>3
<1> DEFINE l == s * h + v
<1>5. l \in Nat /\ l = k + (v - g)
  <2> HIDE DEF s, h, g, k
  <2> QED BY <1>1, <1>4
<1>6. new = u * l + r
  <2> HIDE DEF new, l, k, r, g, u
  <2>1. new = (u * k + r) + (l - k) * u
    BY <1>1, <1>2, <1>3, <1>4, <1>5
  <2> QED BY <1>1, <1>3, <1>5, <2>1
<1>7. new \in Nat /\ new \div u = l /\ new % u = r
  <2> HIDE DEF new, l, k, r, u
  <2> QED BY <1>1, <1>3, <1>5, <1>6, DivisionFact
<1>8. l \div s = h /\ l % s = v
  <2> HIDE DEF s, h
  <2> QED BY <1>1, <1>4, DivisionFact
<1>9. Sensors!Get(new, f) = (new \div u) % s
  BY DEF Sensors!Get
<1> HIDE DEF new, l
<1> QED BY <1>7, <1>8, <1>9 DEF new

\* pwmN: the duty cycle that a store leaves is the one that is read back, a store that
\* is refused changes nothing, and none reaches the bits above the duty cycle or
\* leaves the 32 bits of the register, for every card, tray, duty cycle and register.
THEOREM DutyCycleCorrect ==
  ASSUME NEW card, NEW channel, NEW status, NEW reg \in Nat, reg < 2 ^ 32, NEW duty \in Int
  PROVE  LET present == Sensors!Present(card.fans[channel + 1], status)
             new == Sensors!PwmWrite(card, channel, status, reg, duty)
         IN
         /\ new \in Nat /\ new < 2 ^ 32 /\ new \div 256 = reg \div 256
         /\ ~ (present /\ duty \in 0 .. 255) => new = reg
         /\ Sensors!PwmRead(card, channel, status, new) =
              IF ~ present THEN Sensors!Refused
              ELSE IF duty \in 0 .. 255 THEN duty ELSE reg % 256
<1> DEFINE present == Sensors!Present(card.fans[channel + 1], status)
           new == Sensors!PwmWrite(card, channel, status, reg, duty)
<1>1. Sensors!PwmMask.unit = 1 /\ Sensors!PwmMask.size = 256
  BY PwmMaskIs
<1>2. \A x \in Nat : Sensors!Get(x, Sensors!PwmMask) = x % 256
  BY <1>1 DEF Sensors!Get
<1>3. /\ new = IF present /\ duty \in 0 .. 255 THEN Sensors!Put(reg, Sensors!PwmMask, duty) ELSE reg
      /\ Sensors!PwmRead(card, channel, status, new) =
           IF present THEN Sensors!Get(new, Sensors!PwmMask) ELSE Sensors!Refused
  BY <1>1 DEF Sensors!PwmWrite, Sensors!PwmRead
<1> HIDE DEF present, new
<1>4. CASE present /\ duty \in 0 .. 255
  <2>1. new = Sensors!Put(reg, Sensors!PwmMask, duty)
    BY <1>3, <1>4
  <2>2. /\ new \in Nat /\ Sensors!Get(new, Sensors!PwmMask) = duty
        /\ (new \div 1) \div 256 = (reg \div 1) \div 256
    <3> DEFINE f == Sensors!PwmMask
    <3>1. f.unit \in Nat \ {0} /\ f.size \in Nat \ {0} /\ duty \in 0 .. f.size - 1
      BY <1>1, <1>4
    <3> HIDE DEF f
    <3>2. /\ new \in Nat /\ Sensors!Get(new, f) = duty
          /\ (new \div f.unit) \div f.size = (reg \div f.unit) \div f.size
      <4>1. new = Sensors!Put(reg, f, duty)
        BY <2>1 DEF f
      <4> QED BY <3>1, <4>1, FieldCorrect
    <3>3. f.unit = 1 /\ f.size = 256
      BY <1>1 DEF f
    <3> QED BY <3>2, <3>3 DEF f
  <2>3. new \in Nat /\ new < 2 ^ 32 /\ new \div 256 = reg \div 256 /\ new % 256 = duty
    BY <1>2, <2>2
  <2> QED BY <1>2, <1>3, <1>4, <2>3 DEF present, new
<1>5. CASE ~ (present /\ duty \in 0 .. 255)
  BY <1>2, <1>3, <1>5 DEF present, new
<1> QED BY <1>4, <1>5

\* What the counter holds when no rotor passes.
STOPPED == 65535

\* nh_fpga_fan_tach_to_rpm() as C computes it, with the minute in nanoseconds.
Rpm(tach_cycles, unit) == 60000000000 \div (tach_cycles * unit)

LEMMA QuotientFact ==
  ASSUME NEW b \in Nat \ {0}, NEW a \in Nat
  PROVE  a \div b \in Nat /\ b * (a \div b) <= a /\ a < b * (a \div b) + b
  OBVIOUS

\* The quotient that was not shortened by 80 is the same.
LEMMA ShortenedFact ==
  ASSUME NEW b \in Nat \ {0}, NEW a \in Nat
  PROVE  (80 * a) \div (80 * b) = a \div b
<1> DEFINE q == a \div b
           r == a - b * q
<1>1. q \in Nat /\ b * q <= a /\ a < b * q + b
  BY QuotientFact
<1>2. r \in Nat /\ r < b /\ a = b * q + r
  <2> HIDE DEF q
  <2> QED BY <1>1
<1> HIDE DEF q, r
<1> DEFINE c == 80 * b
           t == 80 * r
<1>3. 80 * a = c * q + t
  BY <1>1, <1>2
<1>4. c \in Nat \ {0} /\ t \in Nat /\ t < c
  BY <1>2
<1>5. (c * q + t) \div c = q
  <2> HIDE DEF c, t
  <2> QED BY <1>1, <1>4, DivisionFact
<1> QED BY <1>3, <1>5 DEF q

\* A larger divisor gives no larger quotient.
LEMMA SmallerFact ==
  ASSUME NEW a \in Nat, NEW b \in Nat \ {0}, NEW c \in Nat \ {0}, b <= c
  PROVE  a \div c <= a \div b
<1> DEFINE q == a \div b
           x == a \div c
<1>1. q \in Nat /\ a < b * q + b /\ x \in Nat /\ c * x <= a
  BY QuotientFact
<1> HIDE DEF q, x
<1>2. ASSUME x > q PROVE FALSE
  <2>1. b * x >= b * (q + 1)
    BY <1>1, <1>2
  <2>2. c * x >= b * x
    BY <1>1
  <2>3. b * (q + 1) = b * q + b
    BY <1>1
  <2>4. b * q \in Nat /\ b * x \in Nat /\ c * x \in Nat
    BY <1>1
  <2> QED BY <1>1, <2>1, <2>2, <2>3, <2>4
<1>3. q <= x \/ x <= q
  BY <1>1
<1> QED BY <1>1, <1>2, <1>3 DEF q, x

LEMMA TraysFact ==
  Len(Sensors!RaptorFans) = 5 /\ Len(Sensors!m4062nhp_fpga1_fans) = 8
<1>1. Len(Sensors!RaptorFans) = 5
  BY DEF Sensors!RaptorFans
<1>2. Len(Sensors!m4062nhp_fpga1_fans) = 8
  BY DEF Sensors!m4062nhp_fpga1_fans
<1> QED BY <1>1, <1>2

LEMMA CardsFact ==
  ASSUME NEW p \in DOMAIN Sensors!Cards
  PROVE  /\ Sensors!Cards[p].tach_time_unit_ns \in {0, 5840} /\ Sensors!Cards[p].num_rotors = 2
         /\ Len(Sensors!Cards[p].fans) \in {5, 8}
<1>1. p \in {"m4340nhp", "m4061nhp", "m4062nhp_fpga1"}
  BY DEF Sensors!Cards
<1>2. CASE p = "m4340nhp"
  <2>1. Sensors!Cards[p] = Sensors!FanCard(Sensors!RaptorFans, 5840)
    BY <1>2 DEF Sensors!Cards, Sensors!m4340nhp_fans
  <2> QED BY <2>1, TraysFact DEF Sensors!FanCard
<1>3. CASE p = "m4061nhp"
  <2>1. Sensors!Cards[p] = Sensors!FanCard(Sensors!RaptorFans, 5840)
    BY <1>3 DEF Sensors!Cards, Sensors!m4061nhp_fans
  <2> QED BY <2>1, TraysFact DEF Sensors!FanCard
<1>4. CASE p = "m4062nhp_fpga1"
  <2>1. Sensors!Cards[p] = Sensors!FanCard(Sensors!m4062nhp_fpga1_fans, 0)
    BY <1>4 DEF Sensors!Cards
  <2> QED BY <2>1, TraysFact DEF Sensors!FanCard
<1> QED BY <1>1, <1>2, <1>3, <1>4

\* A time unit of 0 selects the default.
TimeUnit(time) == IF time = 0 THEN Sensors!FAN_TACH_TIME_UNIT_NS ELSE time

\* What shortening by 80 leaves of the two time units.
LEMMA TimeUnitFact ==
  ASSUME NEW time \in {0, 5840}
  PROVE  \E w \in Nat \ {0} : w < 74 /\ TimeUnit(time) = 80 * w /\ TimeUnit(time) \div 80 = w
<1>1. CASE time = 0
  <2>1. TimeUnit(time) = 80 * 49 /\ (80 * 49) \div 80 = 49
    BY <1>1 DEF TimeUnit, Sensors!FAN_TACH_TIME_UNIT_NS
  <2> QED BY <2>1
<1>2. CASE time = 5840
  <2>1. TimeUnit(time) = 80 * 73 /\ (80 * 73) \div 80 = 73
    BY <1>2 DEF TimeUnit
  <2> QED BY <2>1
<1> QED BY <1>1, <1>2

LEMMA ProductFact ==
  ASSUME NEW m \in Nat \ {0}, NEW n \in Nat \ {0}, NEW w \in Nat \ {0}, m <= n
  PROVE  m * w \in Nat \ {0} /\ n * w \in Nat \ {0} /\ m * w <= n * w
  OBVIOUS

\* A longer period, counted in whichever unit, gives no higher speed.
LEMMA LongerFact ==
  ASSUME NEW a \in Nat, NEW m \in Nat \ {0}, NEW n \in Nat \ {0}, NEW w \in Nat \ {0}, m <= n
  PROVE  a \div (n * w) <= a \div (m * w)
<1> DEFINE b == m * w
           x == n * w
<1>1. b \in Nat \ {0} /\ x \in Nat \ {0} /\ b <= x
  BY ProductFact
<1> HIDE DEF b, x
<1>2. a \div x <= a \div b
  BY <1>1, SmallerFact
<1> QED BY <1>2 DEF b, x

\* The model's quotient and C's.
LEMMA RpmFact ==
  ASSUME NEW time, NEW w \in Nat \ {0}, TimeUnit(time) = 80 * w,
         TimeUnit(time) \div 80 = w, NEW n \in Nat \ {0}, n < STOPPED
  PROVE  /\ Sensors!TachToRpm(n, time) = Sensors!RpmBase \div (n * w)
         /\ Rpm(n, TimeUnit(time)) = Sensors!RpmBase \div (n * w)
<1>1. n * w \in Nat \ {0} /\ n \notin {0, 65535}
  BY ProductFact DEF STOPPED
<1>2. Sensors!TachToRpm(n, time) = Sensors!RpmBase \div (n * w)
  BY <1>1 DEF Sensors!TachToRpm, TimeUnit
<1> DEFINE b == n * w
<1>3. n * (80 * w) = 80 * b
  OBVIOUS
<1>4. 60000000000 = 80 * Sensors!RpmBase /\ Sensors!RpmBase \in Nat
  BY DEF Sensors!RpmBase
<1>5. (80 * Sensors!RpmBase) \div (80 * b) = Sensors!RpmBase \div b
  <2> HIDE DEF b
  <2> QED BY <1>1, <1>4, ShortenedFact DEF b
<1> QED BY <1>2, <1>3, <1>4, <1>5 DEF Rpm

\* fanN_input, on every card: dividing both numbers by 80 and the result's
\* 32 bits lose nothing of what C computes, a fan that turns is never shown as a
\* stopped one, and a longer period is never shown as a higher speed.
THEOREM RpmCorrect ==
  ASSUME NEW p \in DOMAIN Sensors!Cards,
         NEW c \in Nat \ {0}, NEW d \in Nat, c <= d, d < STOPPED
  PROVE  LET time == Sensors!Cards[p].tach_time_unit_ns IN
         /\ Sensors!TachToRpm(c, time) = Rpm(c, TimeUnit(time))
         /\ Sensors!TachToRpm(c, time) \in Nat \ {0} /\ Sensors!TachToRpm(c, time) < 2 ^ 32
         /\ Sensors!TachToRpm(d, time) <= Sensors!TachToRpm(c, time)
<1> DEFINE time == Sensors!Cards[p].tach_time_unit_ns
           base == Sensors!RpmBase
<1>1. time \in {0, 5840} /\ d \in Nat \ {0} /\ c < STOPPED
  BY CardsFact DEF STOPPED
<1> HIDE DEF time
<1>2. PICK w \in Nat \ {0} : /\ w < 74
                              /\ TimeUnit(time) = 80 * w /\ TimeUnit(time) \div 80 = w
  BY <1>1, TimeUnitFact
<1>3. /\ Sensors!TachToRpm(c, time) = base \div (c * w)
      /\ Sensors!TachToRpm(c, time) = Rpm(c, TimeUnit(time))
      /\ Sensors!TachToRpm(d, time) = base \div (d * w)
  BY <1>1, <1>2, RpmFact
<1>4. base \in Nat /\ base = 750000000
  BY DEF Sensors!RpmBase
<1>5. base \div (d * w) <= base \div (c * w)
  <2>1. base \in Nat
    BY <1>4
  <2>2. d \in Nat \ {0}
    BY <1>1
  <2> HIDE DEF base
  <2> QED BY <2>1, <2>2, LongerFact, Zenon
<1> DEFINE b == c * w
           q == base \div b
<1>6. b \in Nat \ {0} /\ b <= 65534 * 73
  <2>1. c * w <= 65534 * w
    BY <1>1 DEF STOPPED
  <2>2. 65534 * w <= 65534 * 73
    BY <1>2
  <2>3. c * w \in Nat \ {0}
    BY <1>1, ProductFact
  <2> QED BY <2>1, <2>2, <2>3
<1> HIDE DEF b, base
<1>7. q \in Nat \ {0} /\ q < 2 ^ 32
  <2>1. q \in Nat /\ b * q <= base /\ base < b * q + b
    BY <1>4, <1>6, QuotientFact
  <2> HIDE DEF q
  <2>2. q # 0
    BY <1>4, <1>6, <2>1
  <2>3. q <= b * q /\ b * q \in Nat
    BY <1>6, <2>1
  <2> QED BY <1>4, <2>1, <2>2, <2>3
<1> QED BY <1>3, <1>5, <1>7 DEF time, b, q

\* The half of the tach register that belongs to a rotor.
TachOf(rotor, tach) == IF rotor = "outer" THEN (tach \div 65536) % 65536 ELSE tach % 65536

\* "The channel-to-tray mapping here must match the read path": on a card of two
\* rotors to a tray a channel reads the tray and the rotor that its label names.
THEOREM ChannelCorrect ==
  ASSUME NEW p \in DOMAIN Sensors!Cards, NEW channel \in Nat, NEW status, NEW tach \in Nat
  PROVE  LET card == Sensors!Cards[p]
             label == Sensors!Label(channel, card.num_rotors)
         IN
         Sensors!FanInput(card, channel, status, tach) =
           IF ~ Sensors!Present(card.fans[label.tray], status) THEN Sensors!Refused
           ELSE Sensors!TachToRpm(TachOf(label.rotor, tach), card.tach_time_unit_ns)
<1> DEFINE card == Sensors!Cards[p]
           label == Sensors!Label(channel, card.num_rotors)
<1>1. card.num_rotors = 2
  BY CardsFact
<1> HIDE DEF card
<1>2. /\ label.tray = Sensors!ReadTray(channel, 2) + 1
      /\ label.rotor = IF Sensors!ReadInner(channel, 2) THEN "inner" ELSE "outer"
  BY <1>1 DEF Sensors!Label, Sensors!ReadTray, Sensors!ReadInner
<1>3. /\ Sensors!Get(tach, Sensors!InnerTachMask) = tach % 65536
      /\ Sensors!Get(tach, Sensors!OuterTachMask) = (tach \div 65536) % 65536
  BY TachMaskIs DEF Sensors!Get
<1> HIDE DEF label
<1>4. TachOf(label.rotor, tach) =
        Sensors!Get(tach, IF Sensors!ReadInner(channel, 2)
                            THEN Sensors!InnerTachMask ELSE Sensors!OuterTachMask)
  BY <1>2, <1>3 DEF TachOf
<1> QED BY <1>1, <1>2, <1>4 DEF Sensors!FanInput, card, label

\* No two channels have one label, and the trays that the labels of a card's
\* channels name are those of its table.
THEOREM LabelsCorrect ==
  ASSUME NEW p \in DOMAIN Sensors!Cards, NEW c \in Nat, NEW d \in Nat
  PROVE  LET card == Sensors!Cards[p]
             Of(n) == Sensors!Label(n, card.num_rotors)
         IN
         /\ Of(c) = Of(d) => c = d
         /\ c < Sensors!NumTach(card) <=> Of(c).tray \in 1 .. Len(card.fans)
<1> DEFINE card == Sensors!Cards[p]
           Of(n) == Sensors!Label(n, card.num_rotors)
           trays == Len(card.fans)
<1>1. card.num_rotors = 2
  BY CardsFact
<1>2. trays \in Nat
  BY CardsFact
<1> HIDE DEF card
<1>3. ASSUME NEW n \in Nat
      PROVE  /\ Of(n).tray = n \div 2 + 1
             /\ Of(n).rotor = IF n % 2 = 0 THEN "inner" ELSE "outer"
  BY <1>1, <1>3 DEF Sensors!Label
<1>4. ASSUME Of(c) = Of(d) PROVE c = d
  <2>1. Of(c).tray = Of(d).tray /\ Of(c).rotor = Of(d).rotor
    BY <1>4
  <2> HIDE DEF Of
  <2>2. c \div 2 = d \div 2 /\ (c % 2 = 0 <=> d % 2 = 0)
    BY <1>3, <2>1
  <2> QED BY <2>2
<1>5. c < Sensors!NumTach(card) <=> Of(c).tray \in 1 .. trays
  <2>1. Sensors!NumTach(card) = trays * 2
    BY <1>1 DEF Sensors!NumTach
  <2>2. Of(c).tray = c \div 2 + 1
    BY <1>3
  <2> HIDE DEF Of, trays
  <2> QED BY <1>2, <2>1, <2>2
<1> QED BY <1>4, <1>5 DEF card
=============================================================================
