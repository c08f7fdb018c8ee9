--------------------------- MODULE SubDriverProofs ---------------------------
(***************************************************************************)
(* Theorems about SubDrivers for any number of devices and threads, any       *)
(* drivers and any layout of the registers in which signals are apart; and    *)
(* about the tables of transceivers (PlatformXcvrs): in every table that is    *)
(* well formed no two signals have the same register bit, which is what        *)
(* SubDrivers assumes of CellOf.                                             *)
(***************************************************************************)
EXTENDS SubDrivers, PlatformXcvrs, TLAPS

\* What a device holds at the points of its life.  Where the files are added
\* first the pointer is set at the end of probe; a transceiver keeps it until its
\* files are gone, an info device as long as it is bound.
DevOK(d) ==
  /\ step[d] # 0 => pc[d] = "probe"
  /\ pc[d] = "unbound" \/ (pc[d] = "probe" /\ step[d] = 0) => held[d] = {}
  /\ pc[d] = "probe" /\ step[d] # 0 => "data" \in held[d]
  /\ "files" \in held[d] => "data" \in held[d]
  /\ kind[d] \in {"info", "xcvr"} /\ "files" \in held[d] =>
       IF pc[d] = "probe" THEN step[d] = 2
       ELSE kind[d] = "xcvr" \/ pc[d] = "bound" => drvdata[d]

DevInv == \A d \in Device : DevOK(d)

\* A thread that is inside an attribute keeps the files there.
CallOK(t) ==
  /\ cpc[t] # "idle" =>
       /\ op[t].dev \in Device
       /\ op[t] \in Calls(kind[op[t].dev], op[t].dev)
       /\ "files" \in held[op[t].dev]
  /\ cpc[t] \in {"shadow", "lock", "write"} => op[t].what \in Control
  /\ cpc[t] = "shadow" => ~ HasPin(op[t].dev, op[t].what)
  /\ cpc[t] \in {"lock", "write"} => HasPin(op[t].dev, op[t].what)

CallInv == \A t \in Thread : CallOK(t)

\* The register does not change between the read and the write of the one who
\* holds the lock.
LocalInv == \A t \in Thread : cpc[t] = "write" => local[t] = ReadFor(op[t])

\* The inductive invariant.
IInv == TypeOK /\ DevInv /\ CallInv /\ LocalInv

-----------------------------------------------------------------------------
(* Probe orders and calls.                                                  *)

\* The order of a driver, and what is done at each of its steps.
LEMMA OrderFact ==
  ASSUME TypeOK, NEW d \in Device
  PROVE  /\ kind[d] \in Kind
         /\ ProbeOrder(kind[d]) = IF kind[d] = "psu" THEN <<"data", "drvdata", "files">>
                                  ELSE <<"data", "files", "drvdata">>
         /\ Len(ProbeOrder(kind[d])) = 3
<1>1. kind[d] \in Kind
  BY PortsOK DEF TypeOK
<1>2. ProbeOrder(kind[d]) = IF kind[d] = "psu" THEN <<"data", "drvdata", "files">>
                            ELSE <<"data", "files", "drvdata">>
  BY <1>1 DEF ProbeOrder, Kind, info_probe, xcvr_probe, asic_temp_probe, psu_probe
<1> QED BY <1>1, <1>2

LEMMA DoingFact ==
  ASSUME TypeOK, NEW d \in Device
  PROVE  /\ Doing(d, "data") <=> pc[d] = "probe" /\ step[d] = 0
         /\ Doing(d, "files") <=> pc[d] = "probe" /\ step[d] = IF kind[d] = "psu" THEN 2 ELSE 1
         /\ Doing(d, "drvdata") <=> pc[d] = "probe" /\ step[d] = IF kind[d] = "psu" THEN 1 ELSE 2
<1>1. step[d] \in {0, 1, 2}
  BY DEF TypeOK
<1>2. CASE step[d] = 0
  BY <1>2, OrderFact DEF Doing
<1>3. CASE step[d] = 1
  BY <1>3, OrderFact DEF Doing
<1>4. CASE step[d] = 2
  BY <1>4, OrderFact DEF Doing
<1> QED BY <1>1, <1>2, <1>3, <1>4

\* After a step of probe comes the next one, or the end.
LEMMA AdvanceFact ==
  ASSUME TypeOK, NEW d \in Device, Advance(d)
  PROVE  /\ step[d] \in {0, 1} => /\ step' = [step EXCEPT ![d] = step[d] + 1]
                                  /\ pc' = [pc EXCEPT ![d] = "probe"]
         /\ step[d] = 2 => /\ step' = [step EXCEPT ![d] = 0]
                           /\ pc' = [pc EXCEPT ![d] = "bound"]
         /\ step' \in [Device -> 0 .. 2]
         /\ pc' \in [Device -> DevicePC]
<1>1. step[d] \in {0, 1, 2} /\ Len(ProbeOrder(kind[d])) = 3
  BY OrderFact DEF TypeOK
<1>2. CASE step[d] \in {0, 1}
  <2>0. step[d] + 1 # Len(ProbeOrder(kind[d]))
    BY <1>1, <1>2
  <2>1. /\ step' = [step EXCEPT ![d] = step[d] + 1]
        /\ pc' = [pc EXCEPT ![d] = "probe"]
    BY <2>0 DEF Advance, Go, TypeOK
  <2> QED BY <1>2, <2>1 DEF TypeOK, DevicePC
<1>3. CASE step[d] = 2
  <2>0. step[d] + 1 = Len(ProbeOrder(kind[d]))
    BY <1>1, <1>3
  <2>1. /\ step' = [step EXCEPT ![d] = 0]
        /\ pc' = [pc EXCEPT ![d] = "bound"]
    BY <2>0 DEF Advance, Go, TypeOK
  <2> QED BY <1>3, <2>1 DEF TypeOK, DevicePC
<1> QED BY <1>1, <1>2, <1>3

LEMMA CallsFact ==
  ASSUME NEW k, NEW d \in Device, NEW c \in Calls(k, d)
  PROVE  /\ c \in Call
         /\ c.dev = d
         /\ c.what \in {"show", "fw_version"} \cup Control
         /\ c.what \in Control => c.value \in BOOLEAN
<1>1. c \in Shows(d) \cup Versions(d) \cup Stores(d)
  BY DEF Calls
<1>2. c \in Call
  BY <1>1 DEF Call
<1>3. CASE c \in Shows(d) \cup Versions(d)
  BY <1>2, <1>3 DEF Shows, Versions, Control
<1>4. CASE c \in Stores(d)
  BY <1>2, <1>4 DEF Stores
<1> QED BY <1>1, <1>3, <1>4

\* What a store that is under way asks for.
LEMMA AskedFact ==
  ASSUME TypeOK, CallInv, NEW t \in Thread, cpc[t] \in {"shadow", "lock", "write"}
  PROVE  /\ op[t].dev \in Device
         /\ op[t].what \in Control
         /\ op[t].value \in BOOLEAN
         /\ CellOf[op[t].dev][op[t].what] \in Cell
<1>1. /\ op[t].dev \in Device /\ op[t].what \in Control
      /\ op[t] \in Calls(kind[op[t].dev], op[t].dev)
  BY DEF CallInv, CallOK
<1>2. op[t].value \in BOOLEAN
  BY <1>1, CallsFact
<1> QED BY <1>1, <1>2 DEF Cell

-----------------------------------------------------------------------------
(* Types.                                                                   *)

LEMMA InitType == Init => TypeOK
<1> SUFFICES ASSUME Init PROVE TypeOK
  OBVIOUS
<1> USE DEF Init
<1>1. pc \in [Device -> DevicePC] /\ cpc \in [Thread -> CallPC]
  BY DEF DevicePC, CallPC, Using
<1>2. reg \subseteq Cell
  BY DEF Cell
<1>3. /\ kind \in Kinds /\ step \in [Device -> 0 .. 2]
      /\ held \in [Device -> SUBSET {"data", "files"}]
      /\ drvdata \in [Device -> BOOLEAN] /\ shadow \in [Device -> BOOLEAN]
      /\ lock \in Thread \cup {Nobody}
      /\ op \in [Thread -> Call \cup {NoOp}]
      /\ local \in [Thread -> SUBSET Cell]
  OBVIOUS
<1>4. \A t \in Thread : lock = t <=> cpc[t] = "write"
  BY PortsOK
<1> QED BY <1>1, <1>2, <1>3, <1>4 DEF TypeOK

\* The actions on devices and on threads.
DevStep(d) == BeginProbe(d) \/ Acquire(d) \/ ProbeFails(d) \/ Remove(d) \/ Release(d)

LEMMA DevType == ASSUME TypeOK, NEW d \in Device, DevStep(d) PROVE TypeOK'
<1> USE DEF TypeOK, callVars
<1>1. CASE BeginProbe(d)
  BY <1>1 DEF BeginProbe, Go, DevicePC
<1>2. CASE Allocate(d)
  BY <1>2, AdvanceFact DEF Allocate
<1>3. CASE AddFiles(d)
  BY <1>3, AdvanceFact DEF AddFiles
<1>4. CASE SetDrvdata(d)
  BY <1>4, AdvanceFact DEF SetDrvdata
<1>5. CASE ProbeFails(d)
  BY <1>5 DEF ProbeFails, Go, DevicePC
<1>6. CASE Remove(d)
  BY <1>6 DEF Remove, Go, DevicePC
<1>7. CASE Deactivate(d)
  BY <1>7 DEF Deactivate, Go, DevicePC
<1>8. CASE Free(d)
  BY <1>8 DEF Free, Go, DevicePC
<1> QED BY <1>1, <1>2, <1>3, <1>4, <1>5, <1>6, <1>7, <1>8 DEF DevStep, Acquire, Release

LEMMA EnterType ==
  ASSUME TypeOK, NEW t \in Thread, NEW d \in Device, Enter(t, d) PROVE TypeOK'
<1>1. PICK c \in Calls(kind[d], d) : op' = [op EXCEPT ![t] = c]
  BY DEF Enter
<1>2. op' \in [Thread -> Call \cup {NoOp}]
  BY <1>1, CallsFact DEF TypeOK
<1>3. cpc' \in [Thread -> CallPC] /\ (\A u \in Thread : lock' = u <=> cpc'[u] = "write")
  BY DEF Enter, At, TypeOK, CallPC, Using
<1> QED BY <1>2, <1>3 DEF Enter, TypeOK, devVars

LEMMA StepType ==
  ASSUME TypeOK, CallInv, NEW t \in Thread, CallStep(t) PROVE TypeOK'
<1> USE DEF TypeOK, devVars, At, Leave, CallPC, Using
<1>1. CASE Load(t)
  BY <1>1 DEF Load
<1>2. CASE Show(t)
  BY <1>2 DEF Show
<1>3. CASE Transferred(t)
  BY <1>3 DEF Transferred
<1>4. CASE StoreShadow(t)
  BY <1>4, AskedFact DEF StoreShadow
<1>5. CASE LockAndRead(t)
  <2>1. ReadFor(op[t]) \in SUBSET Cell
    BY DEF ReadFor
  <2>2. lock' = t /\ cpc' = [cpc EXCEPT ![t] = "write"] /\ lock = Nobody
    BY <1>5 DEF LockAndRead
  <2>3. \A u \in Thread : lock' = u <=> cpc'[u] = "write"
    BY <2>2, PortsOK
  <2> QED BY <1>5, <2>1, <2>2, <2>3 DEF LockAndRead
<1>6. CASE Write(t)
  <2>1. reg' \subseteq Cell
    BY <1>6, AskedFact DEF Write, Written
  <2>2. \A u \in Thread : lock' = u <=> cpc'[u] = "write"
    BY <1>6, PortsOK DEF Write
  <2> QED BY <1>6, <2>1, <2>2 DEF Write
<1> QED BY <1>1, <1>2, <1>3, <1>4, <1>5, <1>6 DEF CallStep

-----------------------------------------------------------------------------
(* The life of a device.                                                    *)

\* A step leaves the devices alone that it does not concern.
LEMMA OthersOK ==
  ASSUME DevInv, NEW D, \A d \in Device \ D :
           /\ kind'[d] = kind[d] /\ pc'[d] = pc[d] /\ step'[d] = step[d]
           /\ held'[d] = held[d] /\ drvdata'[d] = drvdata[d]
  PROVE  \A d \in Device \ D : DevOK(d)'
  BY DEF DevInv, DevOK

LEMMA DevStepDev == ASSUME TypeOK, DevInv, NEW d \in Device, DevStep(d) PROVE DevInv'
<1>1. DevOK(d)
  BY DEF DevInv
<1>2. DevOK(d)'
  <2> USE DEF TypeOK
  <2>1. CASE BeginProbe(d)
    BY <1>1, <2>1 DEF BeginProbe, Go, DevOK
  <2>2. CASE Allocate(d)
    <3>1. step[d] = 0 /\ held[d] = {} /\ pc[d] = "probe"
      BY <1>1, <2>2, DoingFact DEF Allocate, DevOK
    <3>2. step'[d] = 1 /\ pc'[d] = "probe" /\ held'[d] = {"data"}
      BY <3>1, <2>2, AdvanceFact DEF Allocate
    <3> QED BY <3>2 DEF DevOK
  <2>3. CASE AddFiles(d)
    <3>1. /\ pc[d] = "probe" /\ "data" \in held[d]
          /\ step[d] = IF kind[d] = "psu" THEN 2 ELSE 1
      BY <1>1, <2>3, DoingFact DEF AddFiles, DevOK
    <3>2. kind' = kind /\ "data" \in held'[d]
      BY <3>1, <2>3 DEF AddFiles
    <3>3. CASE kind[d] = "psu"
      <4>1. step'[d] = 0 /\ pc'[d] = "bound"
        BY <3>1, <3>3, <2>3, AdvanceFact DEF AddFiles
      <4> QED BY <4>1, <3>2, <3>3 DEF DevOK
    <3>4. CASE kind[d] # "psu"
      <4>1. step'[d] = 2 /\ pc'[d] = "probe"
        BY <3>1, <3>4, <2>3, AdvanceFact DEF AddFiles
      <4> QED BY <4>1, <3>2 DEF DevOK
    <3> QED BY <3>3, <3>4
  <2>4. CASE SetDrvdata(d)
    <3>1. /\ pc[d] = "probe" /\ "data" \in held[d]
          /\ step[d] = IF kind[d] = "psu" THEN 1 ELSE 2
      BY <1>1, <2>4, DoingFact DEF SetDrvdata, DevOK
    <3>2. kind' = kind /\ held' = held /\ drvdata'[d] = TRUE
      BY <2>4 DEF SetDrvdata
    <3>3. CASE kind[d] = "psu"
      <4>1. step'[d] = 2 /\ pc'[d] = "probe"
        BY <3>1, <3>3, <2>4, AdvanceFact DEF SetDrvdata
      <4> QED BY <4>1, <3>1, <3>2, <3>3 DEF DevOK
    <3>4. CASE kind[d] # "psu"
      <4>1. step'[d] = 0 /\ pc'[d] = "bound"
        BY <3>1, <3>4, <2>4, AdvanceFact DEF SetDrvdata
      <4> QED BY <4>1, <3>1, <3>2 DEF DevOK
    <3> QED BY <3>3, <3>4
  <2>5. CASE ProbeFails(d)
    <3>1. pc[d] = "probe" /\ ~ (kind[d] \in {"info", "xcvr"} /\ step[d] = 2)
      BY <2>5, DoingFact DEF ProbeFails
    <3> QED BY <1>1, <2>5, <3>1 DEF ProbeFails, Go, DevOK
  <2>6. CASE Remove(d)
    <3>1. kind[d] = "xcvr" => drvdata'[d] = drvdata[d]
      BY <2>6 DEF Remove, ClearsData, xcvr_remove
    <3> QED BY <1>1, <2>6, <3>1 DEF Remove, Go, DevOK
  <2>7. CASE Deactivate(d)
    BY <1>1, <2>7 DEF Deactivate, Go, DevOK
  <2>8. CASE Free(d)
    BY <1>1, <2>8 DEF Free, Go, DevOK
  <2> QED BY <2>1, <2>2, <2>3, <2>4, <2>5, <2>6, <2>7, <2>8 DEF DevStep, Acquire, Release
<1>3. \A e \in Device \ {d} :
        /\ kind'[e] = kind[e] /\ pc'[e] = pc[e] /\ step'[e] = step[e]
        /\ held'[e] = held[e] /\ drvdata'[e] = drvdata[e]
  BY DEF TypeOK, DevStep, Acquire, Release, BeginProbe, Allocate, AddFiles, SetDrvdata,
         ProbeFails, Remove, Deactivate, Free, Advance, Go
<1>4. \A e \in Device \ {d} : DevOK(e)'
  BY <1>3, OthersOK
<1> QED BY <1>2, <1>4 DEF DevInv

\* Threads change no device.
LEMMA CallFrame ==
  ASSUME NEW t \in Thread, CallStep(t) \/ \E d \in Device : Enter(t, d)
  PROVE  UNCHANGED <<kind, devVars>>
  BY DEF CallStep, Load, Show, Transferred, StoreShadow, LockAndRead, Write, Enter

-----------------------------------------------------------------------------
(* The callbacks.                                                           *)

\* The files a thread is in stay as long as it is inside.
LEMMA DevStepCall ==
  ASSUME TypeOK, CallInv, NEW d \in Device, DevStep(d) PROVE CallInv' /\ UNCHANGED callVars
<1>1. UNCHANGED <<kind, callVars>>
  BY DEF DevStep, Acquire, Release, BeginProbe, Allocate, AddFiles, SetDrvdata, ProbeFails,
         Remove, Deactivate, Free
<1>2. ASSUME NEW t \in Thread, cpc[t] # "idle", op[t].dev \in Device, "files" \in held[op[t].dev]
      PROVE  "files" \in held'[op[t].dev]
  <2>1. CASE Free(d)
    BY <1>2, <2>1 DEF Free, Inside, TypeOK
  <2>2. CASE ~ Free(d)
    BY <1>2, <2>2 DEF TypeOK, DevStep, Acquire, Release, BeginProbe, Allocate, AddFiles,
                      SetDrvdata, ProbeFails, Remove, Deactivate
  <2> QED BY <2>1, <2>2
<1> QED BY <1>1, <1>2 DEF CallInv, CallOK, callVars, HasPin

\* A thread keeps to its own callback.
LEMMA StepCall ==
  ASSUME TypeOK, CallInv, NEW t \in Thread, CallStep(t) \/ \E d \in Device : Enter(t, d)
  PROVE  CallInv'
<1>1. UNCHANGED <<kind, held>>
  BY CallFrame DEF devVars
<1>2. CallOK(t)
  BY DEF CallInv
<1>3. CallOK(t)'
  <2> USE DEF TypeOK, At, Leave, HasPin
  <2>1. CASE Load(t)
    <3>1. SetsShadow(op[t]) => op[t].what \in Control /\ ~ HasPin(op[t].dev, op[t].what)
      BY DEF SetsShadow
    <3>2. op' = op /\ cpc'[t] \in {"oops", "shadow", "lock", "use"} /\ cpc[t] = "load"
      BY <2>1 DEF Load
    <3>3. CASE cpc'[t] = "shadow"
      BY <1>1, <1>2, <2>1, <3>1, <3>2, <3>3 DEF Load, CallOK
    <3>4. CASE cpc'[t] = "lock"
      <4>1. op[t].what \in Control /\ HasPin(op[t].dev, op[t].what)
        BY <2>1, <3>4 DEF Load, SetsShadow
      <4> QED BY <1>1, <1>2, <3>2, <3>4, <4>1 DEF CallOK
    <3>5. CASE cpc'[t] \in {"oops", "use"}
      BY <1>1, <1>2, <3>2, <3>5 DEF CallOK
    <3> QED BY <3>2, <3>3, <3>4, <3>5
  <2>2. CASE Show(t)
    BY <1>1, <1>2, <2>2 DEF Show, CallOK
  <2>3. CASE Transferred(t)
    BY <1>1, <1>2, <2>3 DEF Transferred, CallOK
  <2>4. CASE StoreShadow(t)
    BY <1>1, <1>2, <2>4 DEF StoreShadow, CallOK
  <2>5. CASE LockAndRead(t)
    BY <1>1, <1>2, <2>5 DEF LockAndRead, CallOK
  <2>6. CASE Write(t)
    BY <1>1, <1>2, <2>6 DEF Write, CallOK
  <2>7. ASSUME NEW d \in Device, Enter(t, d)
        PROVE  CallOK(t)'
    <3>1. PICK c \in Calls(kind[d], d) : op' = [op EXCEPT ![t] = c]
      BY <2>7 DEF Enter
    <3>2. c.dev = d /\ op'[t] = c /\ cpc'[t] = "load" /\ "files" \in held[d]
      BY <2>7, <3>1, CallsFact DEF Enter
    <3> QED BY <1>1, <3>1, <3>2 DEF CallOK
  <2> QED BY <2>1, <2>2, <2>3, <2>4, <2>5, <2>6, <2>7 DEF CallStep
<1>4. \A u \in Thread \ {t} : cpc'[u] = cpc[u] /\ op'[u] = op[u]
  BY DEF TypeOK, CallStep, Load, Show, Transferred, StoreShadow, LockAndRead, Write, Enter,
         At, Leave
<1>5. \A u \in Thread \ {t} : CallOK(u)'
  BY <1>1, <1>4 DEF CallInv, CallOK, HasPin
<1> QED BY <1>3, <1>5 DEF CallInv

\* Only the holder of the lock changes registers.
LEMMA DevStepLocal ==
  ASSUME TypeOK, LocalInv, NEW d \in Device, DevStep(d) PROVE LocalInv' /\ UNCHANGED reg
<1>1. UNCHANGED <<reg, callVars>>
  BY DEF DevStep, Acquire, Release, BeginProbe, Allocate, AddFiles, SetDrvdata, ProbeFails,
         Remove, Deactivate, Free
<1> QED BY <1>1 DEF LocalInv, callVars, ReadFor

LEMMA StepLocal ==
  ASSUME TypeOK, LocalInv, NEW t \in Thread, CallStep(t) \/ \E d \in Device : Enter(t, d)
  PROVE  LocalInv'
<1> USE DEF TypeOK, LocalInv, At, Leave, ReadFor
<1>1. CASE Load(t)
  BY <1>1 DEF Load
<1>2. CASE Show(t)
  BY <1>2 DEF Show
<1>3. CASE Transferred(t)
  BY <1>3 DEF Transferred
<1>4. CASE StoreShadow(t)
  BY <1>4 DEF StoreShadow
<1>5. CASE LockAndRead(t)
  BY <1>5 DEF LockAndRead
<1>6. CASE Write(t)
  <2>1. \A u \in Thread : cpc'[u] # "write"
    BY <1>6 DEF Write
  <2> QED BY <2>1
<1>7. CASE \E d \in Device : Enter(t, d)
  BY <1>7 DEF Enter
<1> QED BY <1>1, <1>2, <1>3, <1>4, <1>5, <1>6, <1>7 DEF CallStep

-----------------------------------------------------------------------------
(* The inductive invariant.                                                 *)

LEMMA InitInv == Init => IInv
<1> SUFFICES ASSUME Init PROVE IInv
  OBVIOUS
<1>1. DevInv /\ CallInv /\ LocalInv
  BY DEF Init, DevInv, DevOK, CallInv, CallOK, LocalInv
<1> QED BY <1>1, InitType DEF IInv

LEMMA NextInv == IInv /\ [Next]_vars => IInv'
<1> SUFFICES ASSUME IInv, [Next]_vars PROVE IInv'
  OBVIOUS
<1> USE DEF IInv
<1>1. ASSUME NEW d \in Device, DevStep(d) PROVE IInv'
  BY <1>1, DevType, DevStepDev, DevStepCall, DevStepLocal
<1>2. ASSUME NEW t \in Thread, CallStep(t) \/ \E d \in Device : Enter(t, d) PROVE IInv'
  <2>1. TypeOK'
    BY <1>2, StepType, EnterType
  <2>2. DevInv'
    BY <1>2, CallFrame DEF DevInv, DevOK, devVars
  <2> QED BY <1>2, <2>1, <2>2, StepCall, StepLocal
<1>3. CASE UNCHANGED vars
  BY <1>3 DEF vars, devVars, callVars, TypeOK, DevInv, DevOK, CallInv, CallOK, LocalInv,
              ReadFor, HasPin
<1> QED BY <1>1, <1>2, <1>3 DEF Next, DevStep

LEMMA IInvCorrect == Spec => []IInv
<1> QED BY InitInv, NextInv, PTL DEF Spec

\* Devices and threads keep their types, and one thread at a time is between
\* the lock and the unlock of xcvr_reg_lock.
THEOREM SubDriverTypeCorrect == Spec => []TypeOK
<1>1. IInv => TypeOK
  BY DEF IInv
<1> QED BY <1>1, IInvCorrect, PTL

\* Whatever devices are bound and unbound while threads are in their attributes:
\* a callback that has its structure runs on memory that is there, and one that
\* finds none is of the info driver outside of the time it is bound, or of a
\* transceiver that is still probed.
THEOREM CallbacksFindDataCorrect == Spec => []CallbacksFindData
<1>1. IInv => CallbacksFindData
  <2> SUFFICES ASSUME IInv, NEW t \in Thread
               PROVE  /\ cpc[t] \in Using => "data" \in held[op[t].dev]
                      /\ cpc[t] = "load" /\ ~ HasData(op[t].dev) =>
                           \/ kind[op[t].dev] = "info" /\ pc[op[t].dev] # "bound"
                           \/ kind[op[t].dev] = "xcvr" /\ pc[op[t].dev] = "probe"
    BY DEF CallbacksFindData
  <2>1. cpc[t] # "idle" =>
          op[t].dev \in Device /\ "files" \in held[op[t].dev] /\ DevOK(op[t].dev)
    BY DEF IInv, CallInv, CallOK, DevInv
  <2>2. cpc[t] \in Using => "data" \in held[op[t].dev]
    BY <2>1 DEF Using, DevOK
  <2>3. ASSUME cpc[t] = "load", ~ HasData(op[t].dev)
        PROVE  \/ kind[op[t].dev] = "info" /\ pc[op[t].dev] # "bound"
               \/ kind[op[t].dev] = "xcvr" /\ pc[op[t].dev] = "probe"
    <3>1. kind[op[t].dev] \in {"info", "xcvr"} /\ ~ drvdata[op[t].dev]
      BY <2>1, <2>3, OrderFact DEF IInv, HasData, Kind
    <3> QED BY <2>1, <2>3, <3>1 DEF DevOK
  <2> QED BY <2>2, <2>3
<1> QED BY <1>1, IInvCorrect, PTL

-----------------------------------------------------------------------------
(* The refinement of XcvrSignals.                                           *)

\* The refinement mapping.
ShownMap == [ds \in Device \X Control |-> Shown(ds[1], ds[2])]
AskedMap ==
  [t \in Thread |-> IF cpc[t] \in {"shadow", "lock", "write"}
                      THEN <<op[t].dev, op[t].what, op[t].value>> ELSE Nobody]

\* What shows up depends on the bits and the shadow only, and the requests of the
\* threads on where they are.
LEMMA ShownFrame == UNCHANGED <<reg, shadow>> => UNCHANGED ShownMap
  BY DEF ShownMap, Shown, HasPin

LEMMA AskedFrame == UNCHANGED <<cpc, op>> => UNCHANGED AskedMap
  BY DEF AskedMap

\* The request of one thread changes at a time.
LEMMA AskedOne ==
  ASSUME NEW t \in Thread, \A u \in Thread \ {t} : cpc'[u] = cpc[u] /\ op'[u] = op[u]
  PROVE  AskedMap' = [AskedMap EXCEPT ![t] = AskedMap'[t]]
  BY DEF AskedMap

\* The store of one signal is seen in that signal and in no other.
LEMMA ShownOne ==
  ASSUME NEW d \in Device, NEW s \in Control, NEW v \in BOOLEAN,
         Shown(d, s)' = v,
         \A e \in Device : \A r \in Control : <<e, r>> # <<d, s>> => Shown(e, r)' = Shown(e, r)
  PROVE  ShownMap' = [ShownMap EXCEPT ![<<d, s>>] = v]
<1>1. \A x \in Device \X Control :
        ShownMap'[x] = IF x = <<d, s>> THEN v ELSE ShownMap[x]
  <2> SUFFICES ASSUME NEW x \in Device \X Control
               PROVE  ShownMap'[x] = IF x = <<d, s>> THEN v ELSE ShownMap[x]
    OBVIOUS
  <2>1. PICK e \in Device, r \in Control : x = <<e, r>>
    OBVIOUS
  <2>2. ShownMap[x] = Shown(e, r) /\ ShownMap'[x] = Shown(e, r)'
    BY <2>1 DEF ShownMap
  <2> QED BY <2>1, <2>2
<1> QED BY <1>1 DEF ShownMap

\* Probe forgets the shadow of a port without a low-power pin.
LEMMA AllocateRefines ==
  ASSUME TypeOK, NEW d \in Device, Allocate(d)
  PROVE  Signals!Next \/ UNCHANGED <<ShownMap, AskedMap>>
<1>1. UNCHANGED AskedMap
  BY AskedFrame DEF Allocate, callVars
<1>2. shadow' = [shadow EXCEPT ![d] = FALSE] /\ reg' = reg
  BY DEF Allocate
<1>3. CASE d \in NoLpMode
  <2>1. Shown(d, "low_power")' = FALSE
    BY <1>2, <1>3 DEF Shown, HasPin, TypeOK
  <2>2. \A e \in Device : \A r \in Control :
          <<e, r>> # <<d, "low_power">> => Shown(e, r)' = Shown(e, r)
    BY <1>2, <1>3 DEF Shown, HasPin, TypeOK, Control
  <2>3. ShownMap' = [ShownMap EXCEPT ![<<d, "low_power">>] = FALSE]
    BY <2>1, <2>2, ShownOne DEF Control
  <2> QED BY <1>1, <1>3, <2>3 DEF Signals!Next, Signals!Rebind, ShownMap, AskedMap
<1>4. CASE d \notin NoLpMode
  <2>1. \A e \in Device : \A r \in Control : Shown(e, r)' = Shown(e, r)
    BY <1>2, <1>4 DEF Shown, HasPin, TypeOK
  <2>2. UNCHANGED ShownMap
    BY <2>1 DEF ShownMap
  <2> QED BY <1>1, <2>2
<1> QED BY <1>3, <1>4

\* All else that the driver core does concerns no signal.
LEMMA DevStepRefines ==
  ASSUME TypeOK, NEW d \in Device, DevStep(d)
  PROVE  Signals!Next \/ UNCHANGED <<ShownMap, AskedMap>>
<1>1. CASE Allocate(d)
  BY <1>1, AllocateRefines
<1>2. CASE ~ Allocate(d)
  <2>1. UNCHANGED <<reg, shadow, cpc, op>>
    BY <1>2 DEF DevStep, Acquire, Release, BeginProbe, AddFiles, SetDrvdata, ProbeFails,
                Remove, Deactivate, Free, callVars
  <2> QED BY <2>1, ShownFrame, AskedFrame
<1> QED BY <1>1, <1>2

\* A store that takes effect on the registers changes one bit of them.
LEMMA WriteShows ==
  ASSUME IInv, NEW t \in Thread, Write(t)
  PROVE  ShownMap' = [ShownMap EXCEPT ![<<op[t].dev, op[t].what>>] = op[t].value]
<1>0. PICK d \in Device, s \in Control, v \in BOOLEAN :
        d = op[t].dev /\ s = op[t].what /\ v = op[t].value
  BY AskedFact DEF Write, IInv
<1> DEFINE c == CellOf[d][s]
<1>1. c \in Cell /\ HasPin(d, s)
  BY <1>0, AskedFact DEF Write, IInv, CallInv, CallOK
<1>2. local[t] = reg \cap Register(c[1]) /\ reg \subseteq Cell
  BY <1>0 DEF Write, IInv, LocalInv, ReadFor, TypeOK
<1>3. c \in Register(c[1])
  BY <1>1 DEF Register
<1>4. reg' = IF Raw(d, s, v) THEN reg \cup {c} ELSE reg \ {c}
  <2>1. reg' = (reg \ Register(c[1])) \cup
                 IF Raw(d, s, v) THEN local[t] \cup {c} ELSE local[t] \ {c}
    BY <1>0 DEF Write, Written
  <2> QED BY <2>1, <1>2, <1>3
<1>5. c \in reg' <=> Raw(d, s, v)
  BY <1>4
<1>6. shadow' = shadow
  BY DEF Write
<1>7. Shown(d, s)' = v
  BY <1>1, <1>5 DEF Shown, Raw, HasPin
<1>8. ASSUME NEW e \in Device, NEW r \in Control, <<e, r>> # <<d, s>>
      PROVE  Shown(e, r)' = Shown(e, r)
  <2>1. CellOf[e][r] # c
    BY <1>1, <1>8, PortsOK
  <2>2. CellOf[e][r] \in reg' <=> CellOf[e][r] \in reg
    BY <1>4, <2>1
  <2> QED BY <1>6, <2>2 DEF Shown, HasPin
<1>9. ShownMap' = [ShownMap EXCEPT ![<<d, s>>] = v]
  BY <1>7, <1>8, ShownOne
<1> QED BY <1>0, <1>9

\* So does one that takes effect on the shadow.
LEMMA StoreShadowShows ==
  ASSUME IInv, NEW t \in Thread, StoreShadow(t)
  PROVE  ShownMap' = [ShownMap EXCEPT ![<<op[t].dev, op[t].what>>] = op[t].value]
<1>0. PICK d \in Device, s \in Control, v \in BOOLEAN :
        d = op[t].dev /\ s = op[t].what /\ v = op[t].value
  BY AskedFact DEF StoreShadow, IInv
<1>1. ~ HasPin(d, s)
  BY <1>0 DEF StoreShadow, IInv, CallInv, CallOK
<1>2. shadow' = [shadow EXCEPT ![d] = v] /\ reg' = reg
  BY <1>0 DEF StoreShadow
<1>3. Shown(d, s)' = v
  BY <1>1, <1>2 DEF Shown, HasPin, IInv, TypeOK
<1>4. ASSUME NEW e \in Device, NEW r \in Control, <<e, r>> # <<d, s>>
      PROVE  Shown(e, r)' = Shown(e, r)
  BY <1>1, <1>2, <1>4 DEF Shown, HasPin, IInv, TypeOK, Control
<1>5. ShownMap' = [ShownMap EXCEPT ![<<d, s>>] = v]
  BY <1>3, <1>4, ShownOne
<1> QED BY <1>0, <1>5

\* A thread is asked for a store when it has its structure, and has applied it
\* when it leaves.
LEMMA StepRefines ==
  ASSUME IInv, NEW t \in Thread, CallStep(t) \/ \E d \in Device : Enter(t, d)
  PROVE  Signals!Next \/ UNCHANGED <<ShownMap, AskedMap>>
<1>1. \A u \in Thread \ {t} : cpc'[u] = cpc[u] /\ op'[u] = op[u]
  BY DEF IInv, TypeOK, CallStep, Load, Show, Transferred, StoreShadow, LockAndRead, Write,
         Enter, At, Leave
<1>2. AskedMap' = [AskedMap EXCEPT ![t] = AskedMap'[t]]
  BY <1>1, AskedOne
<1>3. ASSUME AskedMap'[t] = AskedMap[t] PROVE UNCHANGED AskedMap
  BY <1>2, <1>3 DEF AskedMap
<1>4. CASE \/ Show(t) \/ Transferred(t) \/ LockAndRead(t)
           \/ \E d \in Device : Enter(t, d)
  <2>1. UNCHANGED <<reg, shadow>>
    BY <1>4 DEF Show, Transferred, LockAndRead, Enter
  <2>2. AskedMap'[t] = AskedMap[t]
    BY <1>4 DEF IInv, TypeOK, AskedMap, Show, Transferred, LockAndRead, Enter, At, Leave
  <2> QED BY <1>3, <2>1, <2>2, ShownFrame
<1>5. CASE Load(t)
  <2>1. UNCHANGED ShownMap /\ AskedMap[t] = Nobody /\ op' = op
    BY <1>5, ShownFrame DEF Load, AskedMap
  <2>2. CASE cpc'[t] \in {"shadow", "lock", "write"}
    <3>1. CallInv' /\ TypeOK'
      BY <1>5, StepCall, StepType DEF IInv, CallStep
    <3>2. op[t].dev \in Device /\ op[t].what \in Control /\ op[t].value \in BOOLEAN
      BY <2>1, <2>2, <3>1, CallsFact DEF CallInv, CallOK
    <3>3. AskedMap'[t] = <<op[t].dev, op[t].what, op[t].value>>
      BY <2>1, <2>2 DEF AskedMap
    <3>4. AskedMap'[t] \in Signals!Request
      BY <3>2, <3>3 DEF Signals!Request, Signals!Signal, Control
    <3>5. Signals!Ask(t)
      BY <1>2, <2>1, <3>4 DEF Signals!Ask, AskedMap, ShownMap
    <3> QED BY <3>5 DEF Signals!Next
  <2>3. CASE cpc'[t] \notin {"shadow", "lock", "write"}
    BY <1>3, <2>1, <2>3 DEF AskedMap
  <2> QED BY <2>2, <2>3
<1>6. CASE StoreShadow(t) \/ Write(t)
  <2>1. ShownMap' = [ShownMap EXCEPT ![<<op[t].dev, op[t].what>>] = op[t].value]
    BY <1>6, StoreShadowShows, WriteShows
  <2>2. AskedMap[t] = <<op[t].dev, op[t].what, op[t].value>> /\ AskedMap'[t] = Nobody
    BY <1>6 DEF StoreShadow, Write, AskedMap, IInv, TypeOK, At, Leave
  <2>3. AskedMap[t] # Nobody
    <3>1. op[t].dev \in Device /\ op[t].what \in Control /\ op[t].value \in BOOLEAN
      BY <1>6, AskedFact DEF StoreShadow, Write, IInv
    <3> QED BY <2>2, <3>1, PortsOK
  <2>4. ShownMap' = [ShownMap EXCEPT ![<<AskedMap[t][1], AskedMap[t][2]>>] = AskedMap[t][3]]
    BY <2>1, <2>2
  <2>5. AskedMap' = [AskedMap EXCEPT ![t] = Nobody]
    BY <1>2, <2>2
  <2>6. Signals!Apply(t)
    BY <2>3, <2>4, <2>5 DEF Signals!Apply, AskedMap, ShownMap
  <2> QED BY <2>6 DEF Signals!Next
<1> QED BY <1>4, <1>5, <1>6 DEF CallStep

\* Every store to a transceiver sets the signal it was made to and no other, in
\* one step and to the value that was stored, whatever signals of whatever ports
\* share its register and whatever is bound or unbound meanwhile.
THEOREM SignalsCorrect == Spec => ImplementsSignals
<1>1. Init => Signals!Init
  <2>1. ASSUME Init
        PROVE  /\ ShownMap \in [Device \X Control -> BOOLEAN]
               /\ AskedMap = [t \in Thread |-> Nobody]
    <3>1. ShownMap \in [Device \X Control -> BOOLEAN]
      BY <2>1 DEF Init, ShownMap, Shown
    <3>2. AskedMap = [t \in Thread |-> Nobody]
      BY <2>1 DEF Init, AskedMap
    <3> QED BY <3>1, <3>2
  <2> QED BY <2>1 DEF Signals!Init, Signals!Signal, Control, ShownMap, AskedMap
<1>2. IInv /\ [Next]_vars => Signals!Next \/ UNCHANGED <<ShownMap, AskedMap>>
  <2>1. ASSUME IInv, NEW d \in Device, DevStep(d)
        PROVE  Signals!Next \/ UNCHANGED <<ShownMap, AskedMap>>
    BY <2>1, DevStepRefines DEF IInv
  <2>2. UNCHANGED vars => UNCHANGED <<ShownMap, AskedMap>>
    BY ShownFrame, AskedFrame DEF vars, callVars
  <2> QED BY <2>1, <2>2, StepRefines DEF Next, DevStep
<1>3. IInv /\ [Next]_vars => [Signals!Next]_(Signals!vars)
  BY <1>2 DEF Signals!vars, ShownMap, AskedMap
<1> QED BY <1>1, <1>3, IInvCorrect, PTL DEF Spec, ImplementsSignals, Signals!Spec

-----------------------------------------------------------------------------
(* Transceivers.                                                            *)

LEMMA GroupRange ==
  ASSUME NEW gs \in Seq(GroupType), NEW i \in DOMAIN gs
  PROVE  i \in Nat /\ gs[i].start_port \in Nat /\ gs[i].end_port \in Nat
<1>1. i \in Nat /\ gs[i] \in GroupType
  OBVIOUS
<1>2. \A g \in GroupType : g.start_port \in Nat /\ g.end_port \in Nat
  BY DEF GroupType
<1> QED BY <1>1, <1>2

\* The group that is found is the one that covers the slot.
LEMMA FoundCovers ==
  ASSUME NEW gs \in Seq(GroupType), TableOK(gs), NEW slot \in Nat, FindPortGroup(gs, slot) # 0
  PROVE  /\ FindPortGroup(gs, slot) \in DOMAIN gs
         /\ gs[FindPortGroup(gs, slot)].start_port <= slot
         /\ slot <= gs[FindPortGroup(gs, slot)].end_port
<1> DEFINE hits == Hits(gs, slot)
<1>1. PICK i \in DOMAIN gs : gs[i].start_port <= slot /\ slot <= gs[i].end_port
  BY DEF FindPortGroup, Hits
<1>2. \A j \in DOMAIN gs : j \in Nat /\ gs[j].start_port \in Nat /\ gs[j].end_port \in Nat
  BY GroupRange
<1>3. hits = {i}
  BY <1>1, <1>2 DEF Hits, TableOK, RangesApart
<1>4. FindPortGroup(gs, slot) = i
  <2>1. FindPortGroup(gs, slot) = CHOOSE k \in hits : \A j \in hits : k <= j
    BY DEF FindPortGroup
  <2> HIDE DEF hits
  <2>2. i \in hits /\ \A j \in hits : i <= j
    BY <1>2, <1>3
  <2> QED BY <1>3, <2>1, <2>2
<1> QED BY <1>1, <1>4

\* Two signals of one table that are in the same place are the same signal of the
\* same slot.
LEMMA CellsOfSlots ==
  ASSUME NEW gs \in Seq(GroupType), TableOK(gs),
         NEW i \in DOMAIN gs, NEW m \in Nat, gs[i].start_port <= m, m <= gs[i].end_port,
         NEW j \in DOMAIN gs, NEW n \in Nat, gs[j].start_port <= n, n <= gs[j].end_port,
         NEW s \in XcvrSignal, NEW r \in XcvrSignal,
         CellIn(gs[i], m, s) = CellIn(gs[j], n, r)
  PROVE  m = n /\ s = r
<1>1. /\ gs[i].window + gs[i].offset[s] = gs[j].window + gs[j].offset[r]
      /\ (IF gs[i].fixed_bits THEN gs[i].bit[s] ELSE m - gs[i].start_port)
           = (IF gs[j].fixed_bits THEN gs[j].bit[r] ELSE n - gs[j].start_port)
  BY DEF CellIn
<1>2. i = j /\ s = r
  <2>1. <<i, s>> # <<j, r>> => gs[i].fixed_bits /\ gs[j].fixed_bits /\ gs[i].bit[s] # gs[j].bit[r]
    BY <1>1 DEF TableOK, GroupsApart
  <2> QED BY <1>1, <2>1
<1>3. gs[i].start_port \in Nat /\ gs[i].end_port \in Nat
  BY GroupRange
<1>4. CASE gs[i].fixed_bits
  <2>1. gs[i].start_port = gs[i].end_port
    BY <1>4 DEF TableOK, FixedIsSingle
  <2> QED BY <1>2, <1>3, <2>1
<1>5. CASE ~ gs[i].fixed_bits
  BY <1>1, <1>2, <1>3, <1>5
<1> QED BY <1>2, <1>4, <1>5

\* "getting bit_pos wrong silently is worse than refusing to probe": whatever the
\* table, if its groups are apart, probe gives the signals of two slots, and two
\* signals of one slot, different register bits.
THEOREM SlotSignalsApart ==
  ASSUME NEW gs \in Seq(GroupType), TableOK(gs), NEW m \in Nat, NEW n \in Nat,
         FindPortGroup(gs, m) # 0, FindPortGroup(gs, n) # 0,
         NEW s \in XcvrSignal, NEW r \in XcvrSignal,
         CellIn(gs[FindPortGroup(gs, m)], m, s) = CellIn(gs[FindPortGroup(gs, n)], n, r)
  PROVE  m = n /\ s = r
<1>1. PICK i \in DOMAIN gs : /\ i = FindPortGroup(gs, m)
                             /\ gs[i].start_port <= m /\ m <= gs[i].end_port
  BY FoundCovers
<1>2. PICK j \in DOMAIN gs : /\ j = FindPortGroup(gs, n)
                             /\ gs[j].start_port <= n /\ n <= gs[j].end_port
  BY FoundCovers
<1> QED BY <1>1, <1>2, CellsOfSlots

-----------------------------------------------------------------------------
(* The platforms.                                                           *)

\* The slots of the ids of m4062nhp are those of the three windows.
LEMMA SlotOfId ==
  ASSUME NEW id \in 1 .. 128, NEW n \in 0 .. 15, NEW k \in 0 .. 7, id = 8 * n + k + 1
  PROVE  m4062nhp_xcvr_id_to_slot[id] =
           IF k < 2 THEN 2 * n + k + 1 ELSE IF k < 6 THEN 4 * n + k + 31 ELSE 2 * n + k + 91
<1>1. (id - 1) \div 8 = n /\ (id - 1) % 8 = k
  OBVIOUS
<1> QED BY <1>1 DEF m4062nhp_xcvr_id_to_slot

\* No two ids have the same slot.
LEMMA SlotsDiffer ==
  ASSUME NEW id \in 1 .. 128, NEW other \in 1 .. 128,
         m4062nhp_xcvr_id_to_slot[id] = m4062nhp_xcvr_id_to_slot[other]
  PROVE  id = other
<1>1. \A x \in 1 .. 128 : \E n \in 0 .. 15, k \in 0 .. 7 : x = 8 * n + k + 1
  <2> SUFFICES ASSUME NEW x \in 1 .. 128 PROVE \E n \in 0 .. 15, k \in 0 .. 7 : x = 8 * n + k + 1
    OBVIOUS
  <2>1. /\ (x - 1) \div 8 \in 0 .. 15 /\ (x - 1) % 8 \in 0 .. 7
        /\ x = 8 * ((x - 1) \div 8) + ((x - 1) % 8) + 1
    OBVIOUS
  <2> QED BY <2>1
<1>2. PICK n \in 0 .. 15, k \in 0 .. 7 : id = 8 * n + k + 1
  BY <1>1
<1>3. PICK m \in 0 .. 15, l \in 0 .. 7 : other = 8 * m + l + 1
  BY <1>1
<1>6. m4062nhp_xcvr_id_to_slot[id] =
        IF k < 2 THEN 2 * n + k + 1 ELSE IF k < 6 THEN 4 * n + k + 31 ELSE 2 * n + k + 91
  BY <1>2, SlotOfId
<1>7. m4062nhp_xcvr_id_to_slot[other] =
        IF l < 2 THEN 2 * m + l + 1 ELSE IF l < 6 THEN 4 * m + l + 31 ELSE 2 * m + l + 91
  BY <1>3, SlotOfId
<1>4. (IF k < 2 THEN 2 * n + k + 1 ELSE IF k < 6 THEN 4 * n + k + 31 ELSE 2 * n + k + 91)
      = (IF l < 2 THEN 2 * m + l + 1 ELSE IF l < 6 THEN 4 * m + l + 31 ELSE 2 * m + l + 91)
  BY <1>6, <1>7
<1>5. n = m /\ k = l
  BY <1>4
<1> QED BY <1>2, <1>3, <1>5

LEMMA ServedIds ==
  /\ Served("m4062nhp_fpga1") = 1 .. 128
  /\ \A p \in XcvrPlatforms : Served(p) \subseteq Nat
<1>1. Served("m4062nhp_fpga1") = 1 .. 128
  BY Zenon, XcvrTablesOK
<1>2. \A p : Served(p) \subseteq 0 .. 130
  BY DEF Served
<1> QED BY <1>1, <1>2

\* On every platform, the ids that probe accepts stand for different slots.
LEMMA PortsDiffer ==
  ASSUME NEW p \in XcvrPlatforms, NEW id \in Served(p), NEW other \in Served(p),
         SlotForPort(p, id) = SlotForPort(p, other)
  PROVE  id = other
<1>1. CASE p # "m4062nhp_fpga1"
  BY <1>1 DEF SlotForPort
<1>2. CASE p = "m4062nhp_fpga1"
  <2>1. id \in 1 .. 128 /\ other \in 1 .. 128
    BY <1>2, ServedIds
  <2>2. id <= 128 /\ other <= 128
    BY <2>1
  <2>3. /\ SlotForPort(p, id) = m4062nhp_xcvr_id_to_slot[id]
        /\ SlotForPort(p, other) = m4062nhp_xcvr_id_to_slot[other]
    BY <1>2, <2>2 DEF SlotForPort
  <2> QED BY <2>1, <2>3, SlotsDiffer
<1> QED BY <1>1, <1>2

LEMMA SlotType ==
  ASSUME NEW p \in XcvrPlatforms, NEW id \in Served(p)
  PROVE  SlotForPort(p, id) \in Nat
<1>1. id \in Nat /\ (p = "m4062nhp_fpga1" => id \in 1 .. 128)
  BY ServedIds
<1>2. CASE p = "m4062nhp_fpga1"
  <2>1. /\ (id - 1) \div 8 \in Nat /\ (id - 1) % 8 \in Nat
    BY <1>1, <1>2
  <2> QED BY <1>1, <1>2, <2>1 DEF SlotForPort, m4062nhp_xcvr_id_to_slot
<1>3. CASE p # "m4062nhp_fpga1"
  BY <1>1, <1>3 DEF SlotForPort
<1> QED BY <1>2, <1>3

\* On every platform, the signals of the transceivers that user space can name
\* are at places of their own: what SubDrivers assumes, and SignalsCorrect needs.
THEOREM PlatformSignalsApart ==
  \A p \in XcvrPlatforms : \A id, other \in Served(p) : \A s, r \in XcvrSignal :
    XcvrCell(p, id, s) = XcvrCell(p, other, r) => id = other /\ s = r
<1> SUFFICES ASSUME NEW p \in XcvrPlatforms, NEW id \in Served(p), NEW other \in Served(p),
                    NEW s \in XcvrSignal, NEW r \in XcvrSignal,
                    XcvrCell(p, id, s) = XcvrCell(p, other, r)
             PROVE  id = other /\ s = r
  OBVIOUS
<1>1. PICK gs \in Seq(GroupType) : gs = Groups[p] /\ TableOK(gs)
  BY XcvrTablesOK
<1>2. PICK m \in Nat : m = SlotForPort(p, id) /\ FindPortGroup(gs, m) # 0
  BY <1>1, SlotType DEF Served
<1>3. PICK n \in Nat : n = SlotForPort(p, other) /\ FindPortGroup(gs, n) # 0
  BY <1>1, SlotType DEF Served
<1>4. CellIn(gs[FindPortGroup(gs, m)], m, s) = CellIn(gs[FindPortGroup(gs, n)], n, r)
  BY <1>1, <1>2, <1>3 DEF XcvrCell
<1>5. m = n /\ s = r
  BY <1>1, <1>2, <1>3, <1>4, SlotSignalsApart
<1> QED BY <1>2, <1>3, <1>5, PortsDiffer
=============================================================================
