--------------------------- MODULE SharedLedsProofs ---------------------------
(***************************************************************************)
(* Theorems about SharedLeds for any number of LEDs and stores, and any       *)
(* layout in which the bits of LEDs are apart; and that the tables of every   *)
(* platform (PlatformLeds) give such a layout.                               *)
(***************************************************************************)
EXTENDS SharedLeds, PlatformLeds, TLAPS

\* What the holder of the lock has read is still there; and the other color of a
\* port, if it is elsewhere, stays dark once it was cleared.
LocalOK(a) ==
  /\ pc[a] \in {"read_other", "write_other"} => ClearsOther(a)
  /\ pc[a] = "write_other" =>
       local[a] = (value \cap Register(Layout[platform][a[1]].other[1])) \ Dark(a[1])
  /\ pc[a] \in {"read", "write"} /\ ClearsOther(a) => Dark(a[1]) \cap value = {}
  /\ pc[a] = "write" => local[a] = value \cap Register(RegisterOf(a[1]))

LocalInv == \A a \in Setter : LocalOK(a)

\* A value is with the LED core, the work or the register.
CacheOK(l) ==
  /\ want[l] # Nothing => want[l] = brightness[l]
  /\ want[l] = Nothing /\ pc[<<l, "set">>] # "idle" => arg[<<l, "set">>] = brightness[l]

CacheInv == (\A l \in Core : CacheOK(l)) /\ CacheMatches

\* The inductive invariant.
IInv == TypeOK /\ LocalInv /\ PortExclusive /\ CacheInv

-----------------------------------------------------------------------------
(* Setters and bits.                                                        *)

LEMMA SetterFact ==
  ASSUME NEW a \in Setter
  PROVE  /\ a[1] \in Led
         /\ a = <<a[1], a[2]>>
         /\ a[2] \in {"set", "blink"}
         /\ a[2] = "blink" => a[1] \in Core
  BY LayoutOK DEF Setter

LEMMA SetterOf ==
  /\ \A l \in Led : <<l, "set">> \in Setter
  /\ \A l \in Core : <<l, "blink">> \in Setter
  BY DEF Setter

LEMMA NobodyFact == ASSUME NEW a \in Setter PROVE a # Nobody
  BY LayoutOK DEF Setter

LEMMA BitsFact ==
  ASSUME NEW l \in Led
  PROVE  /\ Lit(l) \subseteq Cell /\ Dark(l) \subseteq Cell /\ Blink(l) \subseteq Cell
         /\ l \in Core => Layout[platform][l].blink \in Cell
         /\ Layout[platform][l].lit \in Register(RegisterOf(l))
<1>1. Cells(l) \subseteq Cell
  BY DEF Cell
<1>2. Lit(l) \cup Dark(l) \cup Blink(l) \subseteq Cells(l)
  BY DEF Cells, Lit, Dark, Blink, LitOn, DarkOn, BlinkOn
<1> QED BY <1>1, <1>2 DEF Lit, LitOn, Blink, BlinkOn, Register, RegisterOf

-----------------------------------------------------------------------------
(* Types.                                                                   *)

LEMMA InitInv == Init => IInv
<1> SUFFICES ASSUME Init PROVE IInv
  OBVIOUS
<1> USE DEF Init
<1>1. TypeOK
  <2>1. stores \in 0 .. MAX_STORES
    BY LayoutOK
  <2>2. \A a \in Setter : lock = a <=> pc[a] \notin {"idle", "lock"}
    BY NobodyFact
  <2>3. value \subseteq Cell
    OBVIOUS
  <2> QED BY <2>1, <2>2, <2>3 DEF TypeOK, On, Off, Nothing
<1>2. LocalInv
  BY DEF LocalInv, LocalOK
<1>3. PortExclusive
  <2>1. ASSUME NEW l \in Led \ Core
        PROVE  ~ {Layout[platform][l].lit, Layout[platform][l].other} \subseteq value
    BY <2>1 DEF Cells
  <2> QED BY <2>1 DEF PortExclusive, Dark, Lit, LitOn, DarkOn
<1>4. CacheInv
  <2>1. ASSUME NEW l \in Core
        PROVE  CacheOK(l) /\ (Lit(l) \subseteq value <=> brightness[l] = On)
    <3>1. l \in Led /\ <<l, "set">> \in Setter
      BY LayoutOK, SetterOf
    <3>2. want[l] = Nothing /\ pc[<<l, "set">>] = "idle"
      BY <3>1
    <3>3. brightness[l] = IF Layout[platform][l].lit \in value THEN On ELSE Off
      BY <3>1
    <3>4. Lit(l) \subseteq value <=> Layout[platform][l].lit \in value
      BY DEF Lit, LitOn
    <3> QED BY <3>2, <3>3, <3>4 DEF CacheOK, On, Off
  <2> QED BY <2>1 DEF CacheInv, CacheMatches
<1> QED BY <1>1, <1>2, <1>3, <1>4 DEF IInv

\* The LED core writes no register, and the holder of the lock stays where it is.
LEMMA CoreFrame ==
  ASSUME TypeOK, NEW l \in Led,
         \/ RunWork(l)
         \/ \E v \in {On, Off} : Store(l, v) \/ (l \in Core /\ StoreTrigger(l, v))
  PROVE  /\ UNCHANGED <<platform, value, lock, local>>
         /\ \A a \in Setter : pc[a] \notin {"idle", "lock"} => pc'[a] = pc[a] /\ arg'[a] = arg[a]
         /\ \A a \in Setter : pc[a] \in {"idle", "lock"} => pc'[a] \in {"idle", "lock"}
  BY SetterOf DEF TypeOK, RunWork, Store, StoreTrigger, Go

LEMMA CoreType ==
  ASSUME TypeOK, NEW l \in Led,
         \/ RunWork(l)
         \/ \E v \in {On, Off} : Store(l, v) \/ (l \in Core /\ StoreTrigger(l, v))
  PROVE  TypeOK'
<1>1. /\ platform' \in Platform /\ value' \subseteq Cell' /\ Cell' = Cell
      /\ lock' \in Setter \cup {Nobody}
      /\ local' \in [Setter -> SUBSET Cell]
      /\ \A a \in Setter : lock' = a <=> pc'[a] \notin {"idle", "lock"}
  BY CoreFrame DEF TypeOK, Cell, Cells
<1>2. CASE RunWork(l)
  <2>1. want[l] \in {On, Off}
    BY <1>2 DEF RunWork, TypeOK
  <2> QED BY <1>1, <1>2, <2>1, SetterOf DEF RunWork, Go, TypeOK
<1>3. ASSUME NEW v \in {On, Off}, Store(l, v) PROVE TypeOK'
  <2>1. stores' \in 0 .. MAX_STORES
    BY <1>3, LayoutOK DEF Store, TypeOK
  <2> QED BY <1>1, <1>3, <2>1 DEF Store, TypeOK
<1>4. ASSUME NEW v \in {On, Off}, l \in Core, StoreTrigger(l, v) PROVE TypeOK'
  <2>1. stores' \in 0 .. MAX_STORES
    BY <1>4, LayoutOK DEF StoreTrigger, TypeOK
  <2> QED BY <1>1, <1>4, <2>1, SetterOf DEF StoreTrigger, Go, TypeOK
<1> QED BY <1>2, <1>3, <1>4

LEMMA ModifiedType ==
  ASSUME NEW a \in Setter, arg[a] \in {On, Off}, NEW r \in SUBSET Cell
  PROVE  Modified(a, r) \subseteq Cell
<1>1. a[1] \in Led /\ a[2] \in {"set", "blink"}
  BY SetterFact
<1>2. Lit(a[1]) \subseteq Cell /\ Blink(a[1]) \subseteq Cell
  BY <1>1, BitsFact
<1> HIDE DEF Lit, Blink, Dark, Cell
<1>3. CASE a[2] = "blink" /\ arg[a] = On
  BY <1>2, <1>3 DEF Modified, On, Off
<1>4. CASE a[2] = "blink" /\ arg[a] = Off
  BY <1>2, <1>4 DEF Modified, On, Off
<1>5. CASE a[2] = "set" /\ arg[a] = On
  BY <1>2, <1>5 DEF Modified, On, Off
<1>6. CASE a[2] = "set" /\ arg[a] = Off
  BY <1>2, <1>6 DEF Modified, On, Off
<1> QED BY <1>1, <1>3, <1>4, <1>5, <1>6

LEMMA SetterType ==
  ASSUME TypeOK, NEW a \in Setter, SetterStep(a) PROVE TypeOK'
<1>0. platform' = platform /\ stores' = stores /\ brightness' = brightness /\ want' = want
  BY DEF SetterStep, Lock, ReadOther, WriteOther, Read, Write
<1>1. Cell' = Cell
  BY <1>0 DEF Cell, Cells
<1>2. CASE Lock(a)
  <2>1. \A b \in Setter : lock' = b <=> pc'[b] \notin {"idle", "lock"}
    BY <1>2, NobodyFact DEF Lock, Go, TypeOK
  <2> QED BY <1>0, <1>1, <1>2, <2>1 DEF Lock, Go, TypeOK
<1>3. CASE ReadOther(a)
  <2>1. (value \cap Register(Layout[platform][a[1]].other[1])) \ Dark(a[1]) \in SUBSET Cell
    BY DEF TypeOK
  <2> QED BY <1>0, <1>1, <1>3, <2>1 DEF ReadOther, Go, TypeOK
<1>4. CASE WriteOther(a)
  <2>1. value' \subseteq Cell
    BY <1>4 DEF WriteOther, Written, TypeOK
  <2> QED BY <1>0, <1>1, <1>4, <2>1 DEF WriteOther, Go, TypeOK
<1>5. CASE Read(a)
  <2>1. value \cap Register(RegisterOf(a[1])) \in SUBSET Cell
    BY DEF TypeOK
  <2> QED BY <1>0, <1>1, <1>5, <2>1 DEF Read, Go, TypeOK
<1>6. CASE Write(a)
  <2>1. Modified(a, local[a]) \subseteq Cell
    BY ModifiedType DEF TypeOK
  <2>2. value' \subseteq Cell
    BY <1>6, <2>1 DEF Write, Written, TypeOK
  <2>3. \A b \in Setter : lock' = b <=> pc'[b] \notin {"idle", "lock"}
    BY <1>6, NobodyFact DEF Write, Return, Go, TypeOK
  <2> QED BY <1>0, <1>1, <1>6, <2>2, <2>3 DEF Write, Return, Go, TypeOK
<1> QED BY <1>2, <1>3, <1>4, <1>5, <1>6 DEF SetterStep

-----------------------------------------------------------------------------
(* What a setter does to the registers.                                     *)

\* Where the bits are that a set clears: in the register it writes, or dark.
LEMMA DarkPlace ==
  ASSUME TypeOK, LocalInv, NEW a \in Setter, pc[a] = "write", a[2] = "set", arg[a] = On
  PROVE  Dark(a[1]) \subseteq Register(RegisterOf(a[1])) \/ Dark(a[1]) \cap value = {}
<1>1. a[1] \in Led /\ platform \in Platform
  BY SetterFact DEF TypeOK
<1>2. CASE a[1] \in Core
  <2>1. \A b \in Dark(a[1]) : b \in Cell /\ b[1] = RegisterOf(a[1])
    BY <1>1, <1>2, BitsFact, LayoutApart DEF Dark, DarkOn, RegisterOf, Apart
  <2> QED BY <2>1 DEF Register
<1>3. CASE a[1] \notin Core /\ ~ ClearsOther(a)
  <2>1. \A b \in Dark(a[1]) : b \in Cell /\ b[1] = RegisterOf(a[1])
    BY <1>1, <1>3, BitsFact DEF Dark, DarkOn, RegisterOf, ClearsOther
  <2> QED BY <2>1 DEF Register
<1>4. CASE ClearsOther(a)
  BY <1>4 DEF LocalInv, LocalOK
<1> QED BY <1>2, <1>3, <1>4

\* The read-modify-write of one register modifies all of them at once.
LEMMA WriteEffect ==
  ASSUME TypeOK, LocalInv, NEW a \in Setter, Write(a) PROVE value' = Modified(a, value)
<1> DEFINE R == Register(RegisterOf(a[1]))
<1>0. a[1] \in Led /\ a[2] \in {"set", "blink"} /\ arg[a] \in {On, Off} /\ platform \in Platform
      /\ (a[2] = "blink" => a[1] \in Core)
  BY SetterFact DEF TypeOK
<1>1. value' = (value \ R) \cup Modified(a, value \cap R)
  BY DEF Write, Written, LocalInv, LocalOK
<1>2. Lit(a[1]) \subseteq R
  BY <1>0, BitsFact DEF Lit, LitOn
<1>3. a[2] = "blink" => Blink(a[1]) \subseteq R
  <2> SUFFICES ASSUME a[2] = "blink" PROVE Blink(a[1]) \subseteq R
    OBVIOUS
  <2>1. \A b \in Blink(a[1]) : b \in Cell /\ b[1] = RegisterOf(a[1])
    BY <1>0, BitsFact, LayoutApart DEF Blink, BlinkOn, RegisterOf, Apart
  <2> QED BY <2>1 DEF Register
<1>4. a[2] = "set" /\ arg[a] = On => Dark(a[1]) \subseteq R \/ Dark(a[1]) \cap value = {}
  BY DarkPlace DEF Write
<1> HIDE DEF R
<1>5. CASE a[2] = "blink" /\ arg[a] = On
  BY <1>1, <1>5 DEF Modified, On, Off
<1>6. CASE a[2] = "blink" /\ arg[a] = Off
  BY <1>1, <1>3, <1>6 DEF Modified, On, Off
<1>7. CASE a[2] = "set" /\ arg[a] = On
  BY <1>1, <1>4, <1>7 DEF Modified, On, Off
<1>8. CASE a[2] = "set" /\ arg[a] = Off
  BY <1>1, <1>2, <1>8 DEF Modified, On, Off
<1> QED BY <1>0, <1>5, <1>6, <1>7, <1>8

\* The write before it makes the other color dark and does nothing else.
LEMMA WriteOtherEffect ==
  ASSUME TypeOK, LocalInv, NEW a \in Setter, WriteOther(a) PROVE value' = value \ Dark(a[1])
<1> DEFINE R == Register(Layout[platform][a[1]].other[1])
<1>1. ClearsOther(a) /\ local[a] = (value \cap R) \ Dark(a[1])
  BY DEF WriteOther, LocalInv, LocalOK
<1>2. Dark(a[1]) \subseteq R
  <2>1. a[1] \in Led /\ Dark(a[1]) = {Layout[platform][a[1]].other}
    BY <1>1, SetterFact DEF ClearsOther, Dark, DarkOn
  <2> QED BY <2>1, BitsFact DEF Register
<1>3. value' = (value \ R) \cup ((value \cap R) \ Dark(a[1]))
  BY <1>1 DEF WriteOther, Written
<1> QED BY <1>2, <1>3

\* What the read-modify-writes amount to.
Change(a) ==
  \/ Write(a) /\ value' = Modified(a, value)
  \/ WriteOther(a) /\ a[1] \in Led \ Core /\ value' = value \ Dark(a[1])
  \/ (Lock(a) \/ ReadOther(a) \/ Read(a)) /\ UNCHANGED value

LEMMA SetterChange ==
  ASSUME TypeOK, LocalInv, NEW a \in Setter, SetterStep(a)
  PROVE  Change(a) /\ UNCHANGED <<platform, brightness, want>>
<1>1. CASE Write(a)
  BY <1>1, WriteEffect DEF Change, Write
<1>2. CASE WriteOther(a)
  <2>1. a[1] \in Led \ Core
    BY <1>2, SetterFact DEF WriteOther, LocalInv, LocalOK, ClearsOther
  <2> QED BY <1>2, <2>1, WriteOtherEffect DEF Change, WriteOther
<1>3. CASE Lock(a) \/ ReadOther(a) \/ Read(a)
  BY <1>3 DEF Change, Lock, ReadOther, Read
<1> QED BY <1>1, <1>2, <1>3 DEF SetterStep

-----------------------------------------------------------------------------
(* The holder of the lock.                                                  *)

LEMMA FrameLocal ==
  ASSUME TypeOK, LocalInv, UNCHANGED <<platform, value>>, NEW b \in Setter,
         pc'[b] = pc[b] /\ arg'[b] = arg[b] /\ local'[b] = local[b]
  PROVE  LocalOK(b)'
  BY DEF LocalInv, LocalOK, ClearsOther, RegisterOf, Dark, Register, Cell, Cells

LEMMA CoreLocal ==
  ASSUME TypeOK, LocalInv, NEW l \in Led,
         \/ RunWork(l)
         \/ \E v \in {On, Off} : Store(l, v) \/ (l \in Core /\ StoreTrigger(l, v))
  PROVE  LocalInv'
<1> SUFFICES ASSUME NEW b \in Setter PROVE LocalOK(b)'
  BY DEF LocalInv
<1>1. CASE pc[b] \in {"idle", "lock"}
  <2>1. pc'[b] \in {"idle", "lock"}
    BY <1>1, CoreFrame
  <2> QED BY <2>1 DEF LocalOK
<1>2. CASE pc[b] \notin {"idle", "lock"}
  BY <1>2, CoreFrame, FrameLocal
<1> QED BY <1>1, <1>2

LEMMA SetterLocal ==
  ASSUME TypeOK, LocalInv, NEW a \in Setter, SetterStep(a) PROVE LocalInv'
<1>0. platform' = platform /\ Cell' = Cell
  BY DEF SetterStep, Lock, ReadOther, WriteOther, Read, Write, Cell, Cells
<1>1. ASSUME NEW b \in Setter, b # a
      PROVE  LocalOK(b)'
  <2>1. pc'[b] = pc[b] /\ arg'[b] = arg[b] /\ local'[b] = local[b]
    BY <1>1 DEF SetterStep, Lock, ReadOther, WriteOther, Read, Write, Return, Go, TypeOK
  <2>2. CASE pc[b] \in {"idle", "lock"}
    BY <2>1, <2>2 DEF LocalOK
  <2>3. CASE pc[b] \notin {"idle", "lock"}
    <3>1. lock = b
      BY <2>3 DEF TypeOK
    <3>2. pc[a] \in {"idle", "lock"}
      BY <1>1, <3>1 DEF TypeOK
    <3>3. lock # Nobody
      BY <3>1, NobodyFact
    <3> QED BY <3>2, <3>3 DEF SetterStep, Lock, ReadOther, WriteOther, Read, Write
  <2> QED BY <2>2, <2>3
<1>2. LocalOK(a)
  BY DEF LocalInv
<1>3. LocalOK(a)'
  <2>1. CASE Lock(a)
    <3>1. pc'[a] = IF ClearsOther(a) THEN "read_other" ELSE "read"
      BY <2>1 DEF Lock, Go, TypeOK
    <3>2. ClearsOther(a)' = ClearsOther(a)
      BY <2>1 DEF Lock, ClearsOther, RegisterOf
    <3> QED BY <3>1, <3>2 DEF LocalOK
  <2>2. CASE ReadOther(a)
    <3>1. /\ pc'[a] = "write_other" /\ ClearsOther(a) /\ UNCHANGED <<platform, value, arg>>
          /\ local'[a] = (value \cap Register(Layout[platform][a[1]].other[1])) \ Dark(a[1])
      BY <1>2, <2>2 DEF ReadOther, LocalOK, Go, TypeOK
    <3> QED BY <1>0, <3>1 DEF LocalOK, ClearsOther, RegisterOf, Register, Dark
  <2>3. CASE WriteOther(a)
    <3>1. pc'[a] = "read" /\ UNCHANGED <<platform, arg>> /\ value' = value \ Dark(a[1])
      BY <2>3, WriteOtherEffect DEF WriteOther, Go, TypeOK
    <3>2. Dark(a[1])' \cap value' = {}
      BY <3>1 DEF Dark
    <3> QED BY <3>1, <3>2 DEF LocalOK
  <2>4. CASE Read(a)
    <3>1. /\ pc[a] = "read" /\ pc'[a] = "write" /\ UNCHANGED <<platform, value, arg>>
          /\ local'[a] = value \cap Register(RegisterOf(a[1]))
      BY <2>4 DEF Read, Go, TypeOK
    <3> QED BY <1>0, <1>2, <3>1 DEF LocalOK, ClearsOther, RegisterOf, Register, Dark
  <2>5. CASE Write(a)
    <3>1. pc'[a] = "idle"
      BY <2>5 DEF Write, Return, Go, TypeOK
    <3> QED BY <3>1 DEF LocalOK
  <2> QED BY <2>1, <2>2, <2>3, <2>4, <2>5 DEF SetterStep
<1> QED BY <1>1, <1>3 DEF LocalInv

-----------------------------------------------------------------------------
(* The colors of a port.                                                    *)

LEMMA ChangePorts ==
  ASSUME TypeOK, PortExclusive, NEW a \in Setter, Change(a), platform' = platform
  PROVE  PortExclusive'
<1> SUFFICES ASSUME NEW l \in Led \ Core
             PROVE  ~ (Layout[platform][l].lit \in value' /\ Layout[platform][l].other \in value')
  BY DEF PortExclusive, Lit, LitOn, Dark, DarkOn
<1> DEFINE lit == Layout[platform][l].lit
           other == Layout[platform][l].other
           m == a[1]
<1>0. /\ m \in Led /\ a[2] \in {"set", "blink"} /\ (a[2] = "blink" => m \in Core)
      /\ arg[a] \in {On, Off} /\ platform \in Platform
  BY SetterFact DEF TypeOK
<1>1. ~ (lit \in value /\ other \in value)
  BY DEF PortExclusive, Lit, LitOn, Dark, DarkOn
<1>2. CASE value' \subseteq value
  BY <1>1, <1>2
<1>3. CASE a[2] = "blink" /\ value' = value \cup Blink(m)
  <2>1. lit # Layout[platform][m].blink /\ other # Layout[platform][m].blink
    BY <1>0, <1>3, LayoutApart DEF Apart
  <2>2. Blink(m) = {Layout[platform][m].blink}
    BY <1>0, <1>3 DEF Blink, BlinkOn
  <2> QED BY <1>1, <1>3, <2>1, <2>2
<1>4. CASE value' = (value \ Dark(m)) \cup Lit(m)
  <2>1. Lit(m) = {Layout[platform][m].lit}
    BY DEF Lit, LitOn
  <2>2. CASE m = l
    <3>1. Dark(m) = {other} /\ lit # other
      BY <1>0, <2>2, LayoutOK DEF Dark, DarkOn
    <3> QED BY <1>4, <2>1, <2>2, <3>1
  <2>3. CASE m # l /\ Layout[platform][m].lit = other
    <3>1. Dark(m) = {lit} /\ lit # other
      BY <1>0, <2>3, LayoutOK, LayoutApart DEF Dark, DarkOn, Apart
    <3> QED BY <1>4, <2>1, <2>3, <3>1
  <2>4. CASE m # l /\ Layout[platform][m].lit # other
    <3>1. Layout[platform][m].lit # lit
      BY <1>0, <2>4, LayoutApart DEF Apart
    <3> QED BY <1>1, <1>4, <2>1, <2>4, <3>1
  <2> QED BY <2>2, <2>3, <2>4
<1>5. \/ value' \subseteq value
      \/ a[2] = "blink" /\ value' = value \cup Blink(m)
      \/ value' = (value \ Dark(m)) \cup Lit(m)
  <2>1. CASE value' = Modified(a, value)
    <3> HIDE DEF lit, other, m
    <3>1. CASE a[2] = "blink" /\ arg[a] = On
      BY <2>1, <3>1 DEF Modified, On, Off, m
    <3>2. CASE a[2] = "blink" /\ arg[a] = Off
      BY <2>1, <3>2 DEF Modified, On, Off, m
    <3>3. CASE a[2] = "set" /\ arg[a] = On
      BY <2>1, <3>3 DEF Modified, On, Off, m
    <3>4. CASE a[2] = "set" /\ arg[a] = Off
      BY <2>1, <3>4 DEF Modified, On, Off, m
    <3> QED BY <1>0, <3>1, <3>2, <3>3, <3>4
  <2> QED BY <2>1 DEF Change
<1> QED BY <1>2, <1>3, <1>4, <1>5

-----------------------------------------------------------------------------
(* The LED core's idea of a core LED.                                       *)

\* No setter but its own changes the bit of a core LED.
LEMMA ChangeKeepsLit ==
  ASSUME TypeOK, NEW a \in Setter, Change(a), NEW l \in Core, a # <<l, "set">>
  PROVE  Layout[platform][l].lit \in value' <=> Layout[platform][l].lit \in value
<1> DEFINE lit == Layout[platform][l].lit
           m == a[1]
<1>0. /\ m \in Led /\ a[2] \in {"set", "blink"} /\ (a[2] = "blink" => m \in Core)
      /\ arg[a] \in {On, Off} /\ platform \in Platform /\ l \in Led /\ a = <<m, a[2]>>
  BY SetterFact, LayoutOK DEF TypeOK
<1>1. a[2] = "set" => m # l
  BY <1>0
<1>2. m # l => lit \notin Dark(m) /\ lit \notin Lit(m)
  <2> SUFFICES ASSUME m # l PROVE lit \notin Dark(m) /\ lit \notin Lit(m)
    OBVIOUS
  <2>1. lit # Layout[platform][m].lit
    BY <1>0, LayoutApart DEF Apart
  <2>2. CASE m \in Core
    <3>1. lit \notin Layout[platform][m].field
      BY <1>0, <2>2, LayoutApart DEF Apart
    <3> QED BY <2>1, <2>2, <3>1 DEF Dark, DarkOn, Lit, LitOn
  <2>3. CASE m \notin Core
    <3>1. lit # Layout[platform][m].other
      BY <1>0, <2>3, LayoutApart DEF Apart
    <3> QED BY <2>1, <2>3, <3>1 DEF Dark, DarkOn, Lit, LitOn
  <2> QED BY <2>2, <2>3
<1>3. m \in Core => lit \notin Blink(m)
  BY <1>0, LayoutApart DEF Blink, BlinkOn, Apart
<1>4. CASE UNCHANGED value
  BY <1>4
<1>5. CASE m \in Led \ Core /\ value' = value \ Dark(m)
  <2>1. m # l
    BY <1>5
  <2> QED BY <1>2, <1>5, <2>1
<1>6. CASE value' = Modified(a, value)
  <2>1. CASE a[2] = "blink" /\ arg[a] = On
    BY <1>0, <1>3, <1>6, <2>1 DEF Modified, On, Off
  <2>2. CASE a[2] = "blink" /\ arg[a] = Off
    BY <1>0, <1>3, <1>6, <2>2 DEF Modified, On, Off
  <2>3. CASE a[2] = "set" /\ arg[a] = On
    BY <1>1, <1>2, <1>6, <2>3 DEF Modified, On, Off
  <2>4. CASE a[2] = "set" /\ arg[a] = Off
    BY <1>1, <1>2, <1>6, <2>4 DEF Modified, On, Off
  <2> QED BY <1>0, <2>1, <2>2, <2>3, <2>4
<1> QED BY <1>4, <1>5, <1>6 DEF Change

LEMMA SetterCache ==
  ASSUME TypeOK, LocalInv, CacheInv, NEW a \in Setter, SetterStep(a) PROVE CacheInv'
<1>0. Change(a) /\ UNCHANGED <<platform, brightness, want>>
  BY SetterChange
<1> SUFFICES ASSUME NEW l \in Core
             PROVE  /\ CacheOK(l)'
                    /\ (want[l] = Nothing /\ pc'[<<l, "set">>] = "idle" =>
                         (Layout[platform][l].lit \in value' <=> brightness[l] = On))
  BY <1>0 DEF CacheInv, CacheMatches, Lit, LitOn
<1> DEFINE own == <<l, "set">>
<1>1. /\ CacheOK(l) /\ own \in Setter
      /\ want[l] = Nothing /\ pc[own] = "idle" =>
           (Layout[platform][l].lit \in value <=> brightness[l] = On)
  BY SetterOf, LayoutOK DEF CacheInv, CacheMatches, Lit, LitOn
<1>2. CASE a # own
  <2>1. pc'[own] = pc[own] /\ arg'[own] = arg[own]
    BY <1>1, <1>2 DEF SetterStep, Lock, ReadOther, WriteOther, Read, Write, Return, Go, TypeOK
  <2>2. Layout[platform][l].lit \in value' <=> Layout[platform][l].lit \in value
    BY <1>0, <1>2, ChangeKeepsLit
  <2> QED BY <1>0, <1>1, <2>1, <2>2 DEF CacheOK
<1>3. CASE a = own /\ Write(a)
  <2>1. pc'[own] = "idle" /\ pc[own] = "write"
    BY <1>1, <1>3 DEF Write, Return, Go, TypeOK
  <2>2. want[l] = Nothing => arg[own] = brightness[l]
    BY <1>1, <2>1 DEF CacheOK
  <2>3. arg[own] \in {On, Off}
    BY <1>1 DEF TypeOK
  <2>4. value' = Modified(own, value)
    BY <1>3, WriteEffect
  <2>5. Layout[platform][l].lit \in value' <=> arg[own] = On
    <3>1. CASE arg[own] = On
      BY <2>4, <3>1 DEF Modified, Lit, LitOn, On, Off
    <3>2. CASE arg[own] = Off
      BY <2>4, <3>2 DEF Modified, Lit, LitOn, On, Off
    <3> QED BY <2>3, <3>1, <3>2
  <2> QED BY <1>0, <1>1, <2>1, <2>2, <2>5 DEF CacheOK
<1>4. CASE a = own /\ ~ Write(a)
  <2>1. pc[own] # "idle" /\ pc'[own] # "idle" /\ arg'[own] = arg[own]
    BY <1>1, <1>4 DEF SetterStep, Lock, ReadOther, WriteOther, Read, Go, TypeOK
  <2> QED BY <1>0, <1>1, <2>1 DEF CacheOK
<1> QED BY <1>2, <1>3, <1>4

LEMMA CoreCache ==
  ASSUME TypeOK, CacheInv, NEW k \in Led,
         \/ RunWork(k)
         \/ \E v \in {On, Off} : Store(k, v) \/ (k \in Core /\ StoreTrigger(k, v))
  PROVE  CacheInv'
<1>0. UNCHANGED <<platform, value>>
  BY CoreFrame
<1> SUFFICES ASSUME NEW l \in Core
             PROVE  /\ CacheOK(l)'
                    /\ (want'[l] = Nothing /\ pc'[<<l, "set">>] = "idle" =>
                         (Layout[platform][l].lit \in value <=> brightness'[l] = On))
  BY <1>0 DEF CacheInv, CacheMatches, Lit, LitOn
<1> DEFINE own == <<l, "set">>
<1>1. /\ CacheOK(l) /\ own \in Setter /\ l \in Led
      /\ want[l] = Nothing /\ pc[own] = "idle" =>
           (Layout[platform][l].lit \in value <=> brightness[l] = On)
  BY SetterOf, LayoutOK DEF CacheInv, CacheMatches, Lit, LitOn
<1>2. CASE RunWork(k)
  <2>1. CASE k = l
    <3>1. /\ pc'[own] = "lock" /\ want'[l] = Nothing /\ arg'[own] = want[l] /\ want[l] # Nothing
          /\ brightness' = brightness
      BY <1>1, <1>2, <2>1 DEF RunWork, Go, TypeOK
    <3> QED BY <1>1, <3>1 DEF CacheOK
  <2>2. CASE k # l
    <3>1. <<k, "set">> # own
      BY <2>2
    <3>2. /\ pc'[own] = pc[own] /\ want'[l] = want[l] /\ arg'[own] = arg[own]
          /\ brightness' = brightness
      BY <1>1, <1>2, <2>2, <3>1 DEF RunWork, Go, TypeOK
    <3> QED BY <1>1, <3>2 DEF CacheOK
  <2> QED BY <2>1, <2>2
<1>3. ASSUME NEW v \in {On, Off}, Store(k, v)
      PROVE  /\ CacheOK(l)'
             /\ (want'[l] = Nothing /\ pc'[<<l, "set">>] = "idle" =>
                  (Layout[platform][l].lit \in value <=> brightness'[l] = On))
  <2>1. v # Nothing
    BY DEF On, Off, Nothing
  <2>2. CASE k = l
    <3>1. want'[l] = v /\ brightness'[l] = v
      BY <1>1, <1>3, <2>2 DEF Store, TypeOK
    <3> QED BY <2>1, <3>1 DEF CacheOK
  <2>3. CASE k # l
    <3>1. want'[l] = want[l] /\ brightness'[l] = brightness[l] /\ pc' = pc /\ arg' = arg
      BY <1>1, <1>3, <2>3 DEF Store, TypeOK
    <3> QED BY <1>1, <3>1 DEF CacheOK
  <2> QED BY <2>2, <2>3
<1>4. ASSUME NEW v \in {On, Off}, StoreTrigger(k, v)
      PROVE  /\ CacheOK(l)'
             /\ (want'[l] = Nothing /\ pc'[<<l, "set">>] = "idle" =>
                  (Layout[platform][l].lit \in value <=> brightness'[l] = On))
  <2>1. <<k, "blink">> # own
    OBVIOUS
  <2>2. /\ pc'[own] = pc[own] /\ arg'[own] = arg[own] /\ want' = want /\ brightness' = brightness
    BY <1>1, <1>4, <2>1 DEF StoreTrigger, Go, TypeOK
  <2> QED BY <1>1, <2>2 DEF CacheOK
<1> QED BY <1>2, <1>3, <1>4

-----------------------------------------------------------------------------
(* The theorems.                                                            *)

CoreStep(l) ==
  \/ RunWork(l)
  \/ \E v \in {On, Off} : Store(l, v) \/ (l \in Core /\ StoreTrigger(l, v))

LEMMA NextSplit ==
  Next => (\E l \in Led : CoreStep(l)) \/ (\E a \in Setter : SetterStep(a))
  BY LayoutOK DEF Next, CoreStep

LEMMA NextInv == IInv /\ [Next]_vars => IInv'
<1> SUFFICES ASSUME IInv, [Next]_vars PROVE IInv'
  OBVIOUS
<1> USE DEF IInv
<1>1. ASSUME NEW l \in Led, CoreStep(l) PROVE IInv'
  <2>1. PortExclusive'
    BY <1>1, CoreFrame DEF CoreStep, PortExclusive, Lit, Dark
  <2> QED BY <1>1, <2>1, CoreType, CoreLocal, CoreCache DEF CoreStep
<1>2. ASSUME NEW a \in Setter, SetterStep(a) PROVE IInv'
  <2>1. PortExclusive'
    BY <1>2, SetterChange, ChangePorts
  <2> QED BY <1>2, <2>1, SetterType, SetterLocal, SetterCache
<1>3. CASE UNCHANGED vars
  <2> USE <1>3 DEF vars
  <2>1. TypeOK'
    BY DEF TypeOK, Cell, Cells
  <2>2. LocalInv'
    BY FrameLocal DEF LocalInv
  <2>3. PortExclusive' /\ CacheInv'
    BY DEF PortExclusive, CacheInv, CacheOK, CacheMatches, Lit, Dark
  <2> QED BY <2>1, <2>2, <2>3
<1> QED BY <1>1, <1>2, <1>3, NextSplit

LEMMA IInvCorrect == Spec => []IInv
<1> QED BY InitInv, NextInv, PTL DEF Spec

\* The registers, the LED core's values and the setters keep their types, and one
\* setter at a time is between the lock and the unlock of led_reg_lock.
THEOREM SharedLedsTypeCorrect == Spec => []TypeOK
<1>1. IInv => TypeOK
  BY DEF IInv
<1> QED BY <1>1, IInvCorrect, PTL

\* "LEDs should be mutually exclusive": no interleaving of stores, works and blinks
\* ever lights both colors of a port, whether they share a register or not.
THEOREM PortExclusiveCorrect == Spec => []PortExclusive
<1>1. IInv => PortExclusive
  BY DEF IInv
<1> QED BY <1>1, IInvCorrect, PTL

\* A core LED whose last store has been carried out shows what was stored,
\* whatever other LEDs share its register.
THEOREM CacheCorrect == Spec => []CacheMatches
<1>1. IInv => CacheMatches
  BY DEF IInv, CacheInv
<1> QED BY <1>1, IInvCorrect, PTL

\* Every write of a setter is one atomic change of the bits of its LED, and nothing
\* else writes: no update of another LED is lost.
THEOREM AtomicCorrect == Spec => ImplementsAtomic
<1>1. Init => Atomic!Init
  <2> SUFFICES ASSUME Init PROVE Atomic!Init
    OBVIOUS
  <2>1. platform \in Platform /\ value \subseteq Cell
    BY DEF Init
  <2>2. ASSUME NEW l \in Led
        PROVE  Cells(l) \subseteq LitOn(platform, l) \cup DarkOn(platform, l)
                                                  \cup BlinkOn(platform, l)
    BY DEF Cells, LitOn, DarkOn, BlinkOn
  <2> QED BY <2>1, <2>2 DEF Atomic!Init, Cell
<1>2. IInv /\ [Next]_vars => [Atomic!Next]_<<platform, value>>
  <2> SUFFICES ASSUME IInv, [Next]_vars PROVE Atomic!Next \/ UNCHANGED <<platform, value>>
    OBVIOUS
  <2>1. CASE \E l \in Led : CoreStep(l)
    BY <2>1, CoreFrame DEF IInv, CoreStep
  <2>2. ASSUME NEW a \in Setter, SetterStep(a)
        PROVE  Atomic!Next \/ UNCHANGED <<platform, value>>
    <3>1. Change(a) /\ platform' = platform
      BY <2>2, SetterChange DEF IInv
    <3>2. a[1] \in Led /\ a[2] \in {"set", "blink"} /\ arg[a] \in {On, Off}
      BY SetterFact DEF IInv, TypeOK
    <3>3. CASE value' = value \ Dark(a[1])
      <4>1. Atomic!Clear(a[1])
        BY <3>3 DEF Atomic!Clear, Dark
      <4> QED BY <3>1, <3>2, <4>1 DEF Atomic!Next
    <3>4. CASE value' = Modified(a, value)
      <4>1. CASE a[2] = "blink"
        <5>1. value' \in {value \cup Blink(a[1]), value \ Blink(a[1])}
          BY <3>2, <3>4, <4>1 DEF Modified, On, Off
        <5>2. Atomic!SetBlink(a[1])
          BY <5>1 DEF Atomic!SetBlink, Blink
        <5> QED BY <3>1, <3>2, <5>2 DEF Atomic!Next
      <4>2. CASE a[2] = "set" /\ arg[a] = On
        <5>1. Atomic!TurnOn(a[1])
          BY <3>4, <4>2 DEF Modified, On, Off, Atomic!TurnOn, Lit, Dark
        <5> QED BY <3>1, <3>2, <5>1 DEF Atomic!Next
      <4>3. CASE a[2] = "set" /\ arg[a] = Off
        <5>1. Atomic!TurnOff(a[1])
          BY <3>4, <4>3 DEF Modified, On, Off, Atomic!TurnOff, Lit
        <5> QED BY <3>1, <3>2, <5>1 DEF Atomic!Next
      <4> QED BY <3>2, <4>1, <4>2, <4>3
    <3> QED BY <3>1, <3>3, <3>4 DEF Change
  <2>3. CASE UNCHANGED vars
    BY <2>3 DEF vars
  <2> QED BY <2>1, <2>2, <2>3, NextSplit
<1> QED BY <1>1, <1>2, IInvCorrect, PTL DEF Spec, ImplementsAtomic, Atomic!Spec

-----------------------------------------------------------------------------
(* The platforms.                                                           *)

\* The LEDs that the two drivers register on platform p, and where its tables place
\* them: an LED of nh_fpga_led for each type and color, one of nh_fpga_port_led for
\* each color and port, which is cleared when the other color is set.
CoreLeds(p) == {"core"} \X CoreTypes(p) \X {Amber, Blue}
PortLeds(p) == {"port"} \X {Amber, Blue} \X Ports(p)

LitOf(p, type, color) == <<ControlOffset, CoreInfo(p, type, color).color_offset>>
OtherColor(color) == IF color = Amber THEN Blue ELSE Amber

PlatformLayout(p) ==
  [l \in CoreLeds(p) \cup PortLeds(p) |->
     IF l \in CoreLeds(p)
       THEN [field |-> CoreField(p, l[2], l[3]), lit |-> LitOf(p, l[2], l[3]),
             blink |-> CoreBlink(p, l[2])]
       ELSE [lit |-> PortBit(p, l[2], l[3]), other |-> PortBit(p, OtherColor(l[2]), l[3])]]

\* A color of a core LED has one bit, in the control register.
LEMMA CoreFieldFact ==
  ASSUME NEW p \in Platforms, NEW t \in CoreTypes(p), NEW c \in {Amber, Blue}
  PROVE  /\ CoreField(p, t, c) = {LitOf(p, t, c)}
         /\ LitOf(p, t, c)[1] = ControlOffset /\ CoreBlink(p, t)[1] = ControlOffset
<1>1. t \in Int
  BY DEF CoreTypes
<1>2. CoreInfo(p, t, c).color_offset \in Int /\ CoreInfo(p, t, c).color_field_width = 1
  BY <1>1 DEF CoreInfo, FirstBit, Amber, Blue
<1>3. CoreField(p, t, c) = {<<ControlOffset, CoreInfo(p, t, c).color_offset + i>> : i \in {0}}
  <2>1. 0 .. CoreInfo(p, t, c).color_field_width - 1 = {0}
    BY <1>2
  <2> QED BY <2>1 DEF CoreField
<1>4. CoreInfo(p, t, c).color_offset + 0 = CoreInfo(p, t, c).color_offset
  BY <1>2
<1> QED BY <1>3, <1>4 DEF LitOf, CoreBlink

\* What the tables say of two core LEDs, of two port LEDs, and of one of each.
LEMMA CoresApart ==
  ASSUME NEW p \in Platforms, NEW t \in CoreTypes(p), NEW c \in {Amber, Blue},
         NEW u \in CoreTypes(p), NEW d \in {Amber, Blue}
  PROVE  /\ LitOf(p, t, c) # CoreBlink(p, u)
         /\ LitOf(p, t, c) = LitOf(p, u, d) => t = u /\ c = d
<1>1. /\ CoreField(p, t, Amber) = {LitOf(p, t, Amber)} /\ CoreField(p, t, Blue) = {LitOf(p, t, Blue)}
      /\ CoreField(p, u, Amber) = {LitOf(p, u, Amber)} /\ CoreField(p, u, Blue) = {LitOf(p, u, Blue)}
  BY CoreFieldFact
<1>2. /\ CoreField(p, t, Amber) \cap CoreField(p, t, Blue) = {}
      /\ CoreBlink(p, t) \notin CoreField(p, t, Amber) \cup CoreField(p, t, Blue)
      /\ t # u => Occupied(p, t) \cap Occupied(p, u) = {}
  BY TablesDisjoint
<1>3. /\ LitOf(p, t, c) \in Occupied(p, t) /\ LitOf(p, u, d) \in Occupied(p, u)
      /\ CoreBlink(p, u) \in Occupied(p, u)
  BY <1>1 DEF Occupied
<1>4. CASE t # u
  BY <1>2, <1>3, <1>4
<1>5. CASE t = u
  BY <1>1, <1>2, <1>5
<1> QED BY <1>4, <1>5

LEMMA PortsApart ==
  ASSUME NEW p \in Platforms, NEW c \in {Amber, Blue}, NEW m \in Ports(p)
  PROVE  /\ \A d \in {Amber, Blue}, n \in Ports(p) :
              PortBit(p, c, m) = PortBit(p, d, n) => c = d /\ m = n
         /\ \A t \in CoreTypes(p), d \in {Amber, Blue} :
              PortBit(p, c, m) # LitOf(p, t, d) /\ PortBit(p, c, m) # CoreBlink(p, t)
<1>0. \A d \in {Amber, Blue}, n \in Ports(p) : <<d, n>> \in PortCells(p)
  BY DEF PortCells
<1>1. \A x, y \in PortCells(p) : x # y => PortBit(p, x[1], x[2]) # PortBit(p, y[1], y[2])
  BY TablesDisjoint
<1>2. ASSUME NEW d \in {Amber, Blue}, NEW n \in Ports(p), PortBit(p, c, m) = PortBit(p, d, n)
      PROVE  c = d /\ m = n
  <2>1. <<c, m>> = <<d, n>>
    BY <1>0, <1>1, <1>2
  <2> QED BY <2>1
<1>3. ASSUME NEW t \in CoreTypes(p), NEW d \in {Amber, Blue}
      PROVE  PortBit(p, c, m) # LitOf(p, t, d) /\ PortBit(p, c, m) # CoreBlink(p, t)
  <2>1. \A x \in PortCells(p) : PortBit(p, x[1], x[2]) \notin Occupied(p, t)
    BY TablesDisjoint
  <2>2. PortBit(p, c, m) \notin Occupied(p, t)
    BY <1>0, <2>1
  <2>3. CoreField(p, t, d) = {LitOf(p, t, d)}
    BY CoreFieldFact
  <2>4. LitOf(p, t, d) \in Occupied(p, t) /\ CoreBlink(p, t) \in Occupied(p, t)
    BY <2>3 DEF Occupied
  <2> QED BY <2>2, <2>4
<1> QED BY <1>2, <1>3

\* The components of an LED.
LEMMA LedFact ==
  ASSUME NEW p \in Platforms, NEW l \in CoreLeds(p) \cup PortLeds(p)
  PROVE  /\ l \in CoreLeds(p) =>
              l[2] \in CoreTypes(p) /\ l[3] \in {Amber, Blue} /\ l = <<"core", l[2], l[3]>>
         /\ l \notin CoreLeds(p) =>
              /\ l[2] \in {Amber, Blue} /\ l[3] \in Ports(p) /\ l = <<"port", l[2], l[3]>>
              /\ OtherColor(l[2]) \in {Amber, Blue} /\ OtherColor(l[2]) # l[2]
              /\ OtherColor(OtherColor(l[2])) = l[2]
  BY DEF CoreLeds, PortLeds, OtherColor, Amber, Blue

\* On every platform of the repository the tables place the LEDs as SharedLeds
\* assumes: a setter that rewrites its register under the lock touches no other LED.
THEOREM PlatformLedsApart ==
  ASSUME NEW p \in Platforms
  PROVE  LET At == PlatformLayout(p) IN
         /\ Apart(At, CoreLeds(p) \cup PortLeds(p), CoreLeds(p))
         /\ \A l \in CoreLeds(p) : At[l].lit \in At[l].field
         /\ \A l \in PortLeds(p) : At[l].lit # At[l].other
<1> DEFINE At == PlatformLayout(p)
           leds == CoreLeds(p) \cup PortLeds(p)
<1>1. ASSUME NEW l \in CoreLeds(p)
      PROVE  /\ l[2] \in CoreTypes(p) /\ l[3] \in {Amber, Blue} /\ l = <<"core", l[2], l[3]>>
             /\ At[l].field = {At[l].lit} /\ At[l].lit = LitOf(p, l[2], l[3])
             /\ At[l].blink = CoreBlink(p, l[2])
             /\ At[l].lit[1] = ControlOffset /\ At[l].blink[1] = ControlOffset
  <2>1. l[2] \in CoreTypes(p) /\ l[3] \in {Amber, Blue} /\ l = <<"core", l[2], l[3]>>
    BY LedFact
  <2>2. At[l] = [field |-> CoreField(p, l[2], l[3]), lit |-> LitOf(p, l[2], l[3]),
                 blink |-> CoreBlink(p, l[2])]
    BY Zenon DEF PlatformLayout
  <2> QED BY <2>1, <2>2, CoreFieldFact
<1>2. ASSUME NEW l \in leds, l \notin CoreLeds(p)
      PROVE  /\ l[2] \in {Amber, Blue} /\ l[3] \in Ports(p) /\ l = <<"port", l[2], l[3]>>
             /\ OtherColor(l[2]) \in {Amber, Blue} /\ OtherColor(l[2]) # l[2]
             /\ OtherColor(OtherColor(l[2])) = l[2]
             /\ At[l].lit = PortBit(p, l[2], l[3])
             /\ At[l].other = PortBit(p, OtherColor(l[2]), l[3])
  <2>1. At[l] = [lit |-> PortBit(p, l[2], l[3]), other |-> PortBit(p, OtherColor(l[2]), l[3])]
    BY <1>2, Zenon DEF PlatformLayout
  <2> QED BY <1>2, <2>1, LedFact
<1> HIDE DEF At
<1>3. ASSUME NEW l \in leds, NEW m \in leds, At[l].lit = At[m].lit
      PROVE  l = m
  <2>1. CASE l \in CoreLeds(p) /\ m \in CoreLeds(p)
    <3>1. l[2] = m[2] /\ l[3] = m[3]
      BY <1>1, <1>3, <2>1, CoresApart
    <3>2. l = <<"core", l[2], l[3]>> /\ m = <<"core", m[2], m[3]>>
      BY <1>1, <2>1
    <3> QED BY <3>1, <3>2
  <2>2. CASE l \notin CoreLeds(p) /\ m \notin CoreLeds(p)
    <3>1. l[2] = m[2] /\ l[3] = m[3]
      BY <1>2, <1>3, <2>2, PortsApart
    <3>2. l = <<"port", l[2], l[3]>> /\ m = <<"port", m[2], m[3]>>
      BY <1>2, <2>2
    <3> QED BY <3>1, <3>2
  <2>3. CASE l \in CoreLeds(p) /\ m \notin CoreLeds(p)
    BY <1>1, <1>2, <1>3, <2>3, PortsApart
  <2>4. CASE l \notin CoreLeds(p) /\ m \in CoreLeds(p)
    BY <1>1, <1>2, <1>3, <2>4, PortsApart
  <2> QED BY <2>1, <2>2, <2>3, <2>4
<1>4. ASSUME NEW l \in CoreLeds(p), NEW m \in leds
      PROVE  /\ At[m].lit # At[l].blink
             /\ m \notin CoreLeds(p) => At[m].other # At[l].blink /\ At[m].other # At[l].lit
  <2>1. CASE m \in CoreLeds(p)
    BY <1>1, <2>1, CoresApart
  <2>2. CASE m \notin CoreLeds(p)
    BY <1>1, <1>2, <2>2, PortsApart
  <2> QED BY <2>1, <2>2
<1>5. ASSUME NEW l \in leds, NEW m \in leds, l \notin CoreLeds(p), At[m].lit = At[l].other
      PROVE  m \notin CoreLeds(p) /\ At[m].other = At[l].lit
  <2>1. m \notin CoreLeds(p)
    BY <1>4, <1>5
  <2>2. m[2] = OtherColor(l[2]) /\ m[3] = l[3]
    BY <1>2, <1>5, <2>1, PortsApart
  <2> QED BY <1>2, <1>5, <2>1, <2>2
<1>6. Apart(At, leds, CoreLeds(p))
  <2>1. \A l \in CoreLeds(p) : \A b \in At[l].field \cup {At[l].blink} : b[1] = At[l].lit[1]
    BY <1>1
  <2>2. \A l, m \in leds : l # m /\ l \in CoreLeds(p) => At[m].lit \notin At[l].field
    BY <1>1, <1>3
  <2> HIDE DEF leds
  <2> QED BY <1>3, <1>4, <1>5, <2>1, <2>2 DEF Apart, leds
<1>7. \A l \in CoreLeds(p) : At[l].lit \in At[l].field
  BY <1>1
<1>8. ASSUME NEW l \in PortLeds(p) PROVE At[l].lit # At[l].other
  <2>1. l \notin CoreLeds(p)
    BY DEF CoreLeds, PortLeds
  <2> QED BY <1>2, <2>1, PortsApart
<1> QED BY <1>6, <1>7, <1>8 DEF At
=============================================================================
