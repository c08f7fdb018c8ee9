----------------------------- MODULE FbiobProofs -----------------------------
(***************************************************************************)
(* Theorems about Fbiob for any number of FPGAs, user threads, device names *)
(* and minors; the last part shows that it implements AuxRegistry.          *)
(***************************************************************************)
EXTENDS Fbiob, TLAPS, SequenceTheorems

\* devres only ever grows by resources.
LEMMA PushType ==
  ASSUME TypeOK, NEW f \in FPGA, NEW s \in Seq(Resource), Push(f, s)
  PROVE  devres' \in [FPGA -> Seq(Resource)]
<1>1. devres[f] \o s \in Seq(Resource)
  BY DEF TypeOK
<1> QED
  BY <1>1 DEF TypeOK, Push

\* A driver-core step that leaves the users' and the auxiliary-device state
\* alone keeps the types when it keeps those of the driver's own variables.
LEMMA DriverStepType ==
  ASSUME TypeOK, UNCHANGED <<auxVars, userVars>>,
         module' \in {"live", "going"}, minors' \in SUBSET Minor,
         pc' \in [FPGA -> PC], minor' \in [FPGA -> Minor \cup {NoMinor}],
         devres' \in [FPGA -> Seq(Resource)], enabled' \in [FPGA -> BOOLEAN],
         cdev' \in [FPGA -> BOOLEAN], node' \in [FPGA -> BOOLEAN]
  PROVE  TypeOK'
BY DEF TypeOK, auxVars, userVars

\* The same for a step of a user thread inside an ioctl on f.
LEMMA UserStepType ==
  ASSUME TypeOK, UNCHANGED <<drvVars, taken, file>>,
         lock' \in [FPGA -> Thread \cup {Nobody}],
         auxList' \in [FPGA -> SUBSET Key], bus' \in SUBSET (Key \X FPGA),
         tpc' \in [Thread -> TPC], key' \in [Thread -> Key \cup {Nobody}],
         \A t \in Thread : tpc'[t] # "idle" => key'[t] \in Key,
         ret' \in [Thread -> Ret]
  PROVE  TypeOK'
BY DEF TypeOK, drvVars

\* Every action keeps every variable in its type.
LEMMA TypeStep == TypeOK /\ [Next]_vars => TypeOK'
<1> SUFFICES ASSUME TypeOK, [Next]_vars
             PROVE  TypeOK'
  OBVIOUS
<1> USE ConstantsOK DEF TypeOK, PC, ProbePC, RemovePC, UnwindPC, Go
<1>1. CASE BeginRmmod \/ Reload
  BY <1>1 DEF BeginRmmod, Reload, auxVars, userVars
<1>2. ASSUME NEW f \in FPGA, GetMinor(f)
      PROVE  TypeOK'
  <2>1. FreeMinors \subseteq Minor
    BY DEF FreeMinors
  <2> QED
    BY <1>2, <2>1 DEF GetMinor, auxVars, userVars
<1>3. ASSUME NEW f \in FPGA, Probe(f)
      PROVE  TypeOK'
  <2> USE DEF Resource
  <2>1. CASE EnableDevice(f)
    <3>1. <<"mem">> \in Seq(Resource)
      OBVIOUS
    <3>2. devres' \in [FPGA -> Seq(Resource)]
      BY <2>1, <3>1, PushType DEF EnableDevice
    <3> QED
      BY <2>1, <3>2 DEF EnableDevice, userVars
  <2>2. CASE MapBar(f)
    <3>1. <<"bar">> \in Seq(Resource)
      OBVIOUS
    <3>2. devres' \in [FPGA -> Seq(Resource)]
      BY <2>2, <3>1, PushType DEF MapBar
    <3> QED
      BY <2>2, <3>2, DriverStepType DEF MapBar
  <2>3. CASE SetupInterrupts(f)
    <3>1. <<>> \in Seq(Resource) /\ <<"vectors">> \in Seq(Resource)
          /\ <<"vectors", "chips">> \in Seq(Resource)
          /\ <<"vectors", "chips", "clk">> \in Seq(Resource)
      OBVIOUS
    <3>2. devres' \in [FPGA -> Seq(Resource)]
      <4>1. \/ UNCHANGED devres
            \/ Push(f, <<>>) \/ Push(f, <<"vectors">>) \/ Push(f, <<"vectors", "chips">>)
            \/ Push(f, <<"vectors", "chips", "clk">>)
        BY <2>3 DEF SetupInterrupts
      <4>2. CASE UNCHANGED devres
        BY <4>2 DEF TypeOK
      <4> QED
        BY <3>1, <4>1, <4>2, PushType
    <3> QED
      BY <2>3, <3>2, DriverStepType DEF SetupInterrupts
  <2>4. CASE AddCdev(f)
    BY <2>4 DEF AddCdev, userVars
  <2>5. CASE CreateNode(f)
    BY <2>5, DriverStepType DEF CreateNode
  <2> QED
    BY <1>3, <2>1, <2>2, <2>3, <2>4, <2>5 DEF Probe
<1>4. ASSUME NEW f \in FPGA, BeginRemove(f) \/ RemoveSplice(f)
      PROVE  TypeOK'
  <2>1. CASE BeginRemove(f)
    BY <2>1, DriverStepType DEF BeginRemove
  <2>2. CASE RemoveSplice(f)
    BY <2>2 DEF RemoveSplice, userVars
  <2> QED
    BY <1>4, <2>1, <2>2
<1>5. ASSUME NEW f \in FPGA, Unwind(f)
      PROVE  TypeOK'
  <2>1. CASE RemoveOne(f)
    BY <2>1 DEF RemoveOne, drvVars, userVars
  <2>2. CASE DestroyNode(f) \/ DelCdev(f) \/ DisableDevice(f) \/ PutMinor(f) \/ Unbound(f)
    BY <2>2 DEF DestroyNode, DelCdev, DisableDevice, PutMinor, Unbound, auxVars, userVars
  <2>3. CASE ReleaseDevres(f)
    <3>1. devres[f] \in Seq(Resource) /\ devres[f] # <<>>
      BY <2>3 DEF ReleaseDevres
    <3>2. SubSeq(devres[f], 1, Len(devres[f]) - 1) \in Seq(Resource)
      BY <3>1
    <3>3. devres' \in [FPGA -> Seq(Resource)]
      BY <2>3, <3>2 DEF ReleaseDevres
    <3>4. file' \in [Thread -> FPGA \cup {Nobody, Dangling}]
      BY <2>3 DEF ReleaseDevres
    <3> QED
      BY <2>3, <3>3, <3>4 DEF ReleaseDevres, auxVars
  <2> QED
    BY <1>5, <2>1, <2>2, <2>3 DEF Unwind
<1>6. ASSUME NEW t \in Thread, Close(t) \/ \E k \in Key : Ioctl(t, k)
      PROVE  TypeOK'
  <2> USE DEF drvVars, auxVars, Ret
  <2>1. CASE Close(t)
    BY <2>1 DEF Close
  <2>2. ASSUME NEW k \in Key, Ioctl(t, k)
        PROVE  TypeOK'
    <3>1. tpc' \in [Thread -> TPC]
      BY <2>2 DEF Ioctl, At, TPC, NewPC, DelPC
    <3>2. key' \in [Thread -> Key \cup {Nobody}]
      BY <2>2 DEF Ioctl
    <3>3. \A u \in Thread : tpc'[u] # "idle" => key'[u] \in Key
      BY <2>2 DEF Ioctl, At
    <3> QED
      BY <2>2, <3>1, <3>2, <3>3 DEF Ioctl
  <2> QED
    BY <1>6, <2>1, <2>2
<1>7. ASSUME NEW t \in Thread, NEW f \in FPGA, Open(t, f)
      PROVE  TypeOK'
  BY <1>7 DEF Open, drvVars, auxVars
<1>8. ASSUME NEW t \in Thread, NEW f \in FPGA, file[t] = f, Locking(t, f) \/ Working(t, f)
      PROVE  TypeOK'
  <2> USE DEF At, Acquire, Release, Return, TPC, NewPC, DelPC, Ret
  <2>1. CASE NewLock(t, f)
    BY <2>1, UserStepType DEF NewLock
  <2>7. CASE DelLock(t, f)
    BY <2>7, UserStepType DEF DelLock
  <2>2. CASE NewCheck(t, f)
    BY <2>2, UserStepType DEF NewCheck
  <2>3. CASE NewAdd(t, f)
    <3>1. key[t] \in Key
      BY <2>3 DEF NewAdd
    <3>2. bus' \in SUBSET (Key \X FPGA)
      BY <2>3, <3>1 DEF NewAdd
    <3>3. tpc' \in [Thread -> TPC] /\ key' \in [Thread -> Key \cup {Nobody}]
      BY <2>3 DEF NewAdd
    <3>4. ret' \in [Thread -> Ret] /\ lock' \in [FPGA -> Thread \cup {Nobody}]
      BY <2>3 DEF NewAdd
    <3>5. \A u \in Thread : tpc'[u] # "idle" => key'[u] \in Key
      BY <2>3 DEF NewAdd
    <3>6. UNCHANGED <<drvVars, auxList, taken, file>>
      BY <2>3 DEF NewAdd
    <3> QED
      BY <3>2, <3>3, <3>4, <3>5, <3>6, UserStepType DEF TypeOK
  <2>4. CASE NewLink(t, f)
    <3>1. key[t] \in Key
      BY <2>4 DEF NewLink
    <3> QED
      BY <2>4, <3>1, UserStepType DEF NewLink
  <2>5. CASE DelFind(t, f)
    <3>0. auxList[f] \ {key[t]} \in SUBSET Key
      OBVIOUS
    <3>1. auxList' \in [FPGA -> SUBSET Key]
      <4>1. CASE UNCHANGED auxList
        BY <4>1
      <4>2. CASE auxList' = [auxList EXCEPT ![f] = @ \ {key[t]}]
        BY <3>0, <4>2
      <4> QED
        BY <2>5, <4>1, <4>2 DEF DelFind
    <3>2. tpc' \in [Thread -> TPC]
      BY <2>5 DEF DelFind
    <3>3. key' \in [Thread -> Key \cup {Nobody}] /\ ret' \in [Thread -> Ret]
      BY <2>5 DEF DelFind
    <3>4. \A u \in Thread : tpc'[u] # "idle" => key'[u] \in Key
      BY <2>5 DEF DelFind
    <3>5. lock' \in [FPGA -> Thread \cup {Nobody}]
      BY <2>5 DEF DelFind
    <3> QED
      BY <2>5, <3>1, <3>2, <3>3, <3>4, <3>5, UserStepType DEF DelFind
  <2>6. CASE DelUnregister(t, f)
    BY <2>6, UserStepType DEF DelUnregister
  <2> QED
    BY <1>8, <2>1, <2>2, <2>3, <2>4, <2>5, <2>6, <2>7 DEF Locking, Working
<1>9. CASE UNCHANGED vars
  BY <1>9 DEF vars, drvVars, auxVars, userVars
<1> QED
  BY <1>1, <1>2, <1>3, <1>4, <1>5, <1>6, <1>7, <1>8, <1>9 DEF Next

\* Type correctness: in particular a control point, a minor, a lock owner and
\* a file are always what the code can produce.
THEOREM TypeCorrect == Spec => []TypeOK
<1>1. Init => TypeOK
  BY ConstantsOK DEF Init, TypeOK, PC, TPC, Ret
<1> QED
  BY <1>1, TypeStep, PTL DEF Spec
-----------------------------------------------------------------------------
(* Minors, cdevs and nodes.                                                 *)

\* Steps of user threads and of the module leave the driver's state alone.
LEMMA UserStepsKeepMinors ==
  ASSUME ShapeInv, MinorsExact, UNCHANGED <<minors, pc, minor, cdev, node>>
  PROVE  ShapeInv' /\ MinorsExact'
BY DEF ShapeInv, MinorsExact

\* A driver step that keeps minor and minors, and moves pc[f] between control
\* points that hold a minor, or between ones that hold none.
LEMMA MoveKeepsMinors ==
  ASSUME TypeOK, MinorsExact, NEW f \in FPGA, NEW where \in PC, Go(f, where),
         UNCHANGED <<minors, minor>>, pc[f] \in MinorHeld <=> where \in MinorHeld,
         ShapeInv'
  PROVE  MinorsExact'
<1> USE DEF TypeOK, Go
<1>1. \A g \in FPGA : (pc'[g] \in MinorHeld) <=> (minor'[g] # NoMinor)
  BY DEF MinorsExact
<1>2. \A g \in FPGA : (node'[g] => cdev'[g]) /\ (cdev'[g] => minor'[g] # NoMinor)
  BY <1>1 DEF ShapeInv, InService, MinorHeld, PC, ProbePC, RemovePC, UnwindPC
<1> QED
  BY <1>1, <1>2 DEF MinorsExact

\* A move of pc[f] that sets f's node and cdev as its new control point says.
LEMMA MoveKeepsShape ==
  ASSUME TypeOK, ShapeInv, NEW f \in FPGA, NEW where \in PC, Go(f, where),
         \A g \in FPGA : g # f => node'[g] = node[g] /\ cdev'[g] = cdev[g],
         node'[f] <=> where \in InService,
         cdev'[f] <=> where \in InService \cup {"node", "delcdev"}
  PROVE  ShapeInv'
<1>1. \A g \in FPGA : pc'[g] = IF g = f THEN where ELSE pc[g]
  BY DEF TypeOK, Go
<1>2. \A g \in FPGA : node'[g] <=> pc'[g] \in InService
  BY <1>1 DEF ShapeInv
<1>3. \A g \in FPGA : cdev'[g] <=> pc'[g] \in InService \cup {"node", "delcdev"}
  BY <1>1 DEF ShapeInv
<1> QED
  BY <1>2, <1>3 DEF ShapeInv

\* A move that keeps nodes and cdevs and stays where both are the same.
LEMMA MoveAside ==
  ASSUME TypeOK, ShapeInv, NEW f \in FPGA, NEW where \in PC, Go(f, where),
         UNCHANGED <<node, cdev>>,
         pc[f] \in InService <=> where \in InService,
         pc[f] \in {"node", "delcdev"} <=> where \in {"node", "delcdev"}
  PROVE  ShapeInv'
BY MoveKeepsShape DEF ShapeInv

LEMMA MinorsStep ==
  TypeOK /\ ShapeInv /\ MinorsExact /\ [Next]_vars => ShapeInv' /\ MinorsExact'
<1> SUFFICES ASSUME TypeOK, ShapeInv, MinorsExact, [Next]_vars
             PROVE  ShapeInv' /\ MinorsExact'
  OBVIOUS
<1> USE ConstantsOK
<1>1. CASE BeginRmmod \/ Reload
  BY <1>1, UserStepsKeepMinors DEF BeginRmmod, Reload
<1>2. ASSUME NEW f \in FPGA, GetMinor(f)
      PROVE  ShapeInv' /\ MinorsExact'
  <2>1. PICK m \in FreeMinors : minor' = [minor EXCEPT ![f] = m] /\ minors' = minors \cup {m}
    BY <1>2 DEF GetMinor
  <2>2. m \in Minor /\ m \notin minors /\ m # NoMinor
    BY DEF FreeMinors, Minor, NoMinor
  <2>3. pc' = [pc EXCEPT ![f] = "enable"] /\ pc[f] = "unbound" /\ UNCHANGED <<cdev, node>>
    BY <1>2 DEF GetMinor, Go
  <2>4. minor[f] = NoMinor
    BY <2>3 DEF MinorsExact, MinorHeld
  <2>5. ShapeInv'
    BY <2>3 DEF ShapeInv, InService, RemovePC, TypeOK
  <2>6. \A g \in FPGA : minor[g] # m
    BY <2>2 DEF MinorsExact
  <2>7. \A g \in FPGA : (pc'[g] \in MinorHeld) <=> (minor'[g] # NoMinor)
    BY <2>1, <2>2, <2>3 DEF MinorsExact, MinorHeld, PC, ProbePC, TypeOK
  <2>8. \A n \in Minor : n \in minors' <=> \E g \in FPGA : minor'[g] = n
    BY <2>1, <2>2, <2>4 DEF MinorsExact, TypeOK, Minor, NoMinor
  <2>9. \A g, h \in FPGA : (g # h /\ minor'[g] = minor'[h]) => minor'[g] = NoMinor
    BY <2>1, <2>6 DEF MinorsExact, TypeOK
  <2>10. \A g \in FPGA : (node'[g] => cdev'[g]) /\ (cdev'[g] => minor'[g] # NoMinor)
    BY <2>1, <2>2, <2>3 DEF MinorsExact, TypeOK
  <2> QED
    BY <2>5, <2>7, <2>8, <2>9, <2>10 DEF MinorsExact
<1>3. ASSUME NEW f \in FPGA, Probe(f) \/ BeginRemove(f) \/ RemoveSplice(f)
      PROVE  ShapeInv' /\ MinorsExact'
  <2> USE DEF PC, ProbePC, RemovePC, UnwindPC, MinorHeld
  <2>1. PICK where \in PC \ {"unbound", "devres"} : Go(f, where)
    BY <1>3 DEF Probe, EnableDevice, MapBar, SetupInterrupts, AddCdev, CreateNode,
                BeginRemove, RemoveSplice
  <2>2. pc[f] \in MinorHeld /\ UNCHANGED <<minors, minor>>
    BY <1>3 DEF Probe, EnableDevice, MapBar, SetupInterrupts, AddCdev, CreateNode,
                BeginRemove, RemoveSplice
  <2>3. ShapeInv'
    <3> USE DEF InService
    <3>1. CASE EnableDevice(f)
      BY <3>1, MoveAside DEF EnableDevice
    <3>2. CASE MapBar(f)
      BY <3>2, MoveAside DEF MapBar
    <3>3. CASE SetupInterrupts(f)
      BY <3>3, MoveAside DEF SetupInterrupts
    <3>4. CASE AddCdev(f)
      <4>1. CASE Go(f, "disable") /\ UNCHANGED <<cdev, node>>
        BY <3>4, <4>1, MoveAside DEF AddCdev
      <4>2. CASE Go(f, "node") /\ cdev' = [cdev EXCEPT ![f] = TRUE] /\ UNCHANGED node
        <5>1. pc[f] = "cdev" /\ ~ node[f]
          BY <3>4 DEF AddCdev, ShapeInv
        <5> QED
          BY <4>2, <5>1, MoveKeepsShape DEF TypeOK
      <4> QED
        BY <3>4, <4>1, <4>2 DEF AddCdev
    <3>5. CASE CreateNode(f)
      <4>1. CASE Go(f, "delcdev") /\ UNCHANGED <<cdev, node>>
        BY <3>5, <4>1, MoveAside DEF CreateNode
      <4>2. CASE Go(f, "bound") /\ node' = [node EXCEPT ![f] = TRUE] /\ UNCHANGED cdev
        <5>1. pc[f] = "node" /\ cdev[f]
          BY <3>5 DEF CreateNode, ShapeInv
        <5> QED
          BY <4>2, <5>1, MoveKeepsShape DEF TypeOK
      <4> QED
        BY <3>5, <4>1, <4>2 DEF CreateNode
    <3>6. CASE BeginRemove(f)
      BY <3>6, MoveAside DEF BeginRemove
    <3>7. CASE RemoveSplice(f)
      BY <3>7, MoveAside DEF RemoveSplice
    <3> QED
      BY <1>3, <3>1, <3>2, <3>3, <3>4, <3>5, <3>6, <3>7 DEF Probe
  <2> QED
    BY <2>1, <2>2, <2>3, MoveKeepsMinors
<1>4. ASSUME NEW f \in FPGA, Unwind(f)
      PROVE  ShapeInv' /\ MinorsExact'
  <2> USE DEF PC, ProbePC, RemovePC, UnwindPC, MinorHeld, InService, TypeOK
  <2>1. CASE RemoveOne(f) \/ ReleaseDevres(f)
    BY <2>1, UserStepsKeepMinors DEF RemoveOne, ReleaseDevres, drvVars
  <2>2. CASE DestroyNode(f) \/ DelCdev(f) \/ DisableDevice(f) \/ Unbound(f)
    <3>1. ShapeInv'
      <4>1. CASE DestroyNode(f)
        <5>1. pc[f] = "drain" /\ cdev[f]
          BY <4>1 DEF DestroyNode, ShapeInv
        <5> QED
          BY <4>1, <5>1, MoveKeepsShape DEF DestroyNode
      <4>2. CASE DelCdev(f)
        <5>1. pc[f] = "delcdev" /\ ~ node[f]
          BY <4>2 DEF DelCdev, ShapeInv
        <5> QED
          BY <4>2, <5>1, MoveKeepsShape DEF DelCdev
      <4>3. CASE DisableDevice(f)
        BY <4>3, MoveAside DEF DisableDevice
      <4>4. CASE Unbound(f)
        BY <4>4, MoveAside DEF Unbound
      <4> QED
        BY <2>2, <4>1, <4>2, <4>3, <4>4
    <3>2. PICK where \in PC : Go(f, where) /\ (pc[f] \in MinorHeld <=> where \in MinorHeld)
                              /\ UNCHANGED <<minors, minor>>
      BY <2>2 DEF DestroyNode, DelCdev, DisableDevice, Unbound
    <3> QED
      BY <3>1, <3>2, MoveKeepsMinors
  <2>3. CASE PutMinor(f)
    <3>1. minors' = minors \ {minor[f]} /\ minor' = [minor EXCEPT ![f] = NoMinor]
          /\ pc' = [pc EXCEPT ![f] = "devres"] /\ pc[f] = "putminor" /\ UNCHANGED <<cdev, node>>
      BY <2>3 DEF PutMinor, Go
    <3>2. ShapeInv'
      BY <3>1 DEF ShapeInv
    <3>3. \A g \in FPGA : (pc'[g] \in MinorHeld) <=> (minor'[g] # NoMinor)
      BY <3>1 DEF MinorsExact
    <3>4. \A m \in Minor : m # NoMinor
      BY DEF Minor, NoMinor
    <3>5. \A m \in Minor : m \in minors' <=> \E g \in FPGA : minor'[g] = m
      BY <3>1, <3>4 DEF MinorsExact
    <3>6. \A g, h \in FPGA : (g # h /\ minor'[g] = minor'[h]) => minor'[g] = NoMinor
      BY <3>1 DEF MinorsExact
    <3>7. \A g \in FPGA : (node'[g] => cdev'[g]) /\ (cdev'[g] => minor'[g] # NoMinor)
      BY <3>1, <3>2, <3>3 DEF ShapeInv
    <3> QED
      BY <3>2, <3>3, <3>5, <3>6, <3>7 DEF MinorsExact
  <2> QED
    BY <1>4, <2>1, <2>2, <2>3 DEF Unwind
<1>5. ASSUME NEW t \in Thread,
             \/ Close(t)
             \/ \E k \in Key : Ioctl(t, k)
             \/ \E f \in FPGA : Open(t, f) \/ Locking(t, f) \/ Working(t, f)
      PROVE  ShapeInv' /\ MinorsExact'
  BY <1>5, UserStepsKeepMinors
     DEF Close, Ioctl, Open, Locking, Working, NewLock, NewCheck, NewAdd, NewLink,
         DelLock, DelFind, DelUnregister, drvVars
<1>6. CASE UNCHANGED vars
  BY <1>6, UserStepsKeepMinors DEF vars, drvVars
<1> QED
  BY <1>1, <1>2, <1>3, <1>4, <1>5, <1>6 DEF Next

\* With any number of FPGAs racing for any number of minors, no two share one,
\* none leaks, and nodes and cdevs live inside the life of their minor.
THEOREM MinorsCorrect == Spec => []MinorsExact
<1>1. Init => ShapeInv /\ MinorsExact
  BY ConstantsOK DEF Init, ShapeInv, MinorsExact, MinorHeld, InService, RemovePC, Minor, NoMinor, PC
<1> QED
  BY <1>1, MinorsStep, TypeCorrect, PTL DEF Spec
-----------------------------------------------------------------------------
(* Files, the lock and the bus when only rmmod unbinds.                     *)

\* No open file refers to an FPGA whose driver-core thread is under way.
LEMMA NoFileOnMoving ==
  ASSUME TypeOK, FileInv, NEW f \in FPGA, pc[f] # "bound"
  PROVE  \A t \in Thread : file[t] # f
BY DEF FileInv

\* Freeing an fbiob_dev leaves no file dangling.
LEMMA ReleaseKeepsFiles ==
  ASSUME TypeOK, FileInv, NEW f \in FPGA, ReleaseDevres(f)
  PROVE  file' = file
<1>1. \A t \in Thread : file[t] # f
  BY NoFileOnMoving DEF ReleaseDevres
<1>2. CASE file' = [t \in Thread |-> IF file[t] = f THEN Dangling ELSE file[t]]
  BY <1>1, <1>2 DEF TypeOK
<1> QED
  BY <1>2 DEF ReleaseDevres

LEMMA FileStep ==
  ASSUME HOT_UNBIND = FALSE, TypeOK, ShapeInv, FileInv, RemoveInv, [Next]_vars
  PROVE  FileInv' /\ RemoveInv'
<1> USE ConstantsOK DEF TypeOK
<1>1. CASE BeginRmmod
  <2>1. \A t \in Thread : file[t] \notin FPGA
    BY <1>1 DEF BeginRmmod
  <2> QED
    BY <1>1, <2>1 DEF BeginRmmod, auxVars, userVars, FileInv, RemoveInv
<1>2. CASE Reload
  BY <1>2 DEF Reload, auxVars, userVars, FileInv, RemoveInv, RemovePC
<1>3. ASSUME NEW f \in FPGA,
             GetMinor(f) \/ Probe(f) \/ BeginRemove(f) \/ RemoveSplice(f) \/ Unwind(f)
      PROVE  FileInv' /\ RemoveInv'
  <2>1. \A g \in FPGA : g # f => pc'[g] = pc[g]
    BY <1>3 DEF Go, GetMinor, Probe, EnableDevice, MapBar, SetupInterrupts, AddCdev, CreateNode,
                BeginRemove, RemoveSplice, Unwind, RemoveOne, DestroyNode, DelCdev,
                DisableDevice, PutMinor, ReleaseDevres, Unbound, drvVars
  <2>2. module' = module
    BY <1>3 DEF Go, GetMinor, Probe, EnableDevice, MapBar, SetupInterrupts, AddCdev, CreateNode,
                BeginRemove, RemoveSplice, Unwind, RemoveOne, DestroyNode, DelCdev,
                DisableDevice, PutMinor, ReleaseDevres, Unbound, drvVars
  <2>3. pc'[f] \in RemovePC => module = "going"
    BY <1>3 DEF Go, GetMinor, Probe, EnableDevice, MapBar, SetupInterrupts, AddCdev, CreateNode,
                BeginRemove, RemoveSplice, Unwind, RemoveOne, DestroyNode, DelCdev,
                DisableDevice, PutMinor, ReleaseDevres, Unbound, drvVars, RemovePC, RemoveInv
  <2>4. file' = file /\ tpc' = tpc
    <3>1. CASE ReleaseDevres(f)
      BY <3>1, ReleaseKeepsFiles DEF ReleaseDevres
    <3>2. CASE ~ ReleaseDevres(f)
      BY <1>3, <3>2
         DEF GetMinor, Probe, EnableDevice, MapBar, SetupInterrupts, AddCdev, CreateNode,
             BeginRemove, RemoveSplice, Unwind, RemoveOne, DestroyNode, DelCdev,
             DisableDevice, PutMinor, Unbound, userVars
    <3> QED
      BY <3>1, <3>2
  <2>5. pc[f] # "bound" \/ (\A t \in Thread : file[t] # f)
    <3>1. CASE BeginRemove(f)
      BY <3>1 DEF BeginRemove, FileInv
    <3> QED
      BY <1>3, <3>1
         DEF GetMinor, Probe, EnableDevice, MapBar, SetupInterrupts, AddCdev, CreateNode,
             RemoveSplice, Unwind, RemoveOne, DestroyNode, DelCdev,
             DisableDevice, PutMinor, ReleaseDevres, Unbound
  <2>6. \A t \in Thread : file[t] # f
    BY <2>5, NoFileOnMoving
  <2> QED
    BY <2>1, <2>2, <2>3, <2>4, <2>6 DEF FileInv, RemoveInv
<1>4. ASSUME NEW t \in Thread, Close(t) \/ \E k \in Key : Ioctl(t, k)
      PROVE  FileInv' /\ RemoveInv'
  <2>1. CASE Close(t)
    BY <2>1 DEF Close, drvVars, auxVars, FileInv, RemoveInv, Dangling
  <2>2. ASSUME NEW k \in Key, Ioctl(t, k)
        PROVE  FileInv' /\ RemoveInv'
    BY <2>2 DEF Ioctl, At, drvVars, auxVars, FileInv, RemoveInv
  <2> QED
    BY <1>4, <2>1, <2>2
<1>5. ASSUME NEW t \in Thread, NEW f \in FPGA, Open(t, f)
      PROVE  FileInv' /\ RemoveInv'
  <2>1. pc[f] \in InService /\ module = "live"
    BY <1>5 DEF Open, ShapeInv
  <2>2. pc[f] = "bound"
    BY <2>1 DEF RemoveInv, InService
  <2> QED
    BY <1>5, <2>1, <2>2 DEF Open, drvVars, auxVars, FileInv, RemoveInv, Dangling
<1>6. ASSUME NEW t \in Thread, NEW f \in FPGA, file[t] = f, Locking(t, f) \/ Working(t, f)
      PROVE  FileInv' /\ RemoveInv'
  <2>1. UNCHANGED <<module, pc, file>>
    BY <1>6 DEF Locking, Working, NewLock, NewCheck, NewAdd, NewLink,
                DelLock, DelFind, DelUnregister, drvVars
  <2>2. \A u \in Thread : u # t => tpc'[u] = tpc[u]
    BY <1>6 DEF Locking, Working, NewLock, NewCheck, NewAdd, NewLink,
                DelLock, DelFind, DelUnregister, At, Return
  <2> QED
    BY <1>6, <2>1, <2>2 DEF FileInv, RemoveInv
<1>7. CASE UNCHANGED vars
  BY <1>7 DEF vars, drvVars, auxVars, userVars, FileInv, RemoveInv
<1> QED
  BY <1>1, <1>2, <1>3, <1>4, <1>5, <1>6, <1>7 DEF Next

\* A driver step keeps LockInv: threads in the critical section have the file
\* of a bound FPGA, and mutex_init() runs on an FPGA that has none.
LEMMA LockStep ==
  ASSUME TypeOK, FileInv, LockInv, [Next]_vars
  PROVE  LockInv'
<1> USE ConstantsOK DEF TypeOK
<1>1. CASE BeginRmmod \/ Reload \/ UNCHANGED vars
  BY <1>1 DEF BeginRmmod, Reload, vars, auxVars, userVars, LockInv
<1>2. ASSUME NEW f \in FPGA,
             GetMinor(f) \/ Probe(f) \/ BeginRemove(f) \/ RemoveSplice(f) \/ Unwind(f)
      PROVE  LockInv'
  <2>1. CASE EnableDevice(f)
    <3>1. \A t \in Thread : file[t] # f
      BY <2>1, NoFileOnMoving DEF EnableDevice
    <3>2. lock[f] = Nobody
      BY <3>1 DEF LockInv
    <3>3. lock' = lock /\ UNCHANGED userVars
      BY <2>1, <3>2 DEF EnableDevice
    <3> QED
      BY <3>3 DEF userVars, LockInv
  <2>2. CASE ReleaseDevres(f)
    BY <2>2, ReleaseKeepsFiles DEF ReleaseDevres, auxVars, LockInv
  <2>3. CASE ~ EnableDevice(f) /\ ~ ReleaseDevres(f)
    <3>1. UNCHANGED <<lock, userVars>>
      BY <1>2, <2>3
         DEF GetMinor, Probe, MapBar, SetupInterrupts, AddCdev, CreateNode, BeginRemove,
             RemoveSplice, Unwind, RemoveOne, DestroyNode, DelCdev, DisableDevice,
             PutMinor, Unbound, auxVars
    <3> QED
      BY <3>1 DEF userVars, LockInv
  <2> QED
    BY <2>1, <2>2, <2>3
<1>3. ASSUME NEW t \in Thread,
             Close(t) \/ (\E k \in Key : Ioctl(t, k)) \/ (\E f \in FPGA : Open(t, f))
      PROVE  LockInv'
  <2>1. tpc[t] \notin Critical
    <3>1. CASE Close(t) \/ \E k \in Key : Ioctl(t, k)
      BY <3>1 DEF Close, Ioctl, Critical
    <3>2. CASE \E f \in FPGA : Open(t, f)
      BY <3>2 DEF Open, FileInv, Critical
    <3> QED
      BY <1>3, <3>1, <3>2
  <2>2. lock' = lock /\ tpc'[t] \notin Critical
    BY <1>3, <2>1 DEF Close, Ioctl, Open, At, auxVars, Critical
  <2>3. \A u \in Thread : u # t => tpc'[u] = tpc[u] /\ file'[u] = file[u]
    BY <1>3 DEF Close, Ioctl, Open, At
  <2>4. \A u \in Thread : tpc'[u] \in Critical => lock'[file'[u]] = u
    BY <2>1, <2>2, <2>3 DEF LockInv
  <2>5. ASSUME NEW g \in FPGA, lock[g] # Nobody
        PROVE  file'[lock[g]] = g /\ tpc'[lock[g]] \in Critical
    <3>1. lock[g] \in Thread /\ file[lock[g]] = g /\ tpc[lock[g]] \in Critical
      BY <2>5 DEF LockInv
    <3>2. lock[g] # t
      BY <2>1, <3>1
    <3> QED
      BY <2>3, <3>1, <3>2
  <2> QED
    BY <2>2, <2>4, <2>5 DEF LockInv
<1>4. ASSUME NEW t \in Thread, NEW f \in FPGA, file[t] = f, Locking(t, f)
      PROVE  LockInv'
  <2>1. lock[f] = Nobody /\ lock' = [lock EXCEPT ![f] = t] /\ file' = file
    BY <1>4 DEF Locking, NewLock, DelLock, Acquire
  <2>2. tpc'[t] \in Critical /\ \A u \in Thread : u # t => tpc'[u] = tpc[u]
    BY <1>4 DEF Locking, NewLock, DelLock, At, Critical
  <2>3. \A u \in Thread : tpc[u] \in Critical => file[u] # f
    BY <2>1 DEF LockInv
  <2>4. \A u \in Thread : tpc'[u] \in Critical => lock'[file'[u]] = u
    BY <1>4, <2>1, <2>2, <2>3 DEF LockInv, FileInv, Critical
  <2>5. \A g \in FPGA : lock'[g] # Nobody => file'[lock'[g]] = g /\ tpc'[lock'[g]] \in Critical
    <3>1. ASSUME NEW g \in FPGA, g # f, lock[g] # Nobody
          PROVE  file[lock[g]] = g /\ tpc'[lock[g]] \in Critical
      <4>1. lock[g] \in Thread /\ file[lock[g]] = g /\ tpc[lock[g]] \in Critical
        BY <3>1 DEF LockInv
      <4>2. lock[g] # t
        BY <1>4, <3>1, <4>1
      <4> QED
        BY <2>2, <4>1, <4>2
    <3>2. lock'[f] = t /\ \A g \in FPGA : g # f => lock'[g] = lock[g]
      BY <2>1
    <3> QED
      BY <1>4, <2>1, <2>2, <3>1, <3>2
  <2> QED
    BY <2>4, <2>5 DEF LockInv
<1>5. ASSUME NEW t \in Thread, NEW f \in FPGA, file[t] = f, Working(t, f)
      PROVE  LockInv'
  <2>1. tpc[t] \in Critical /\ file' = file /\ \A u \in Thread : u # t => tpc'[u] = tpc[u]
    BY <1>5 DEF Working, NewCheck, NewAdd, NewLink, DelFind, DelUnregister, At, Return, Critical
  <2>2. lock[f] = t
    BY <1>5, <2>1 DEF LockInv
  <2>3. \/ lock' = lock /\ tpc'[t] \in Critical
        \/ lock' = [lock EXCEPT ![f] = Nobody] /\ tpc'[t] \notin Critical
    BY <1>5 DEF Working, NewCheck, NewAdd, NewLink, DelFind, DelUnregister, At, Return,
                Release, Critical
  <2>4. \A u \in Thread : tpc'[u] \in Critical => lock'[file'[u]] = u
    BY <1>5, <2>1, <2>2, <2>3 DEF LockInv, FileInv, Critical
  <2>5. \A g \in FPGA : lock'[g] # Nobody => file'[lock'[g]] = g /\ tpc'[lock'[g]] \in Critical
    <3>1. ASSUME NEW g \in FPGA, g # f, lock[g] # Nobody
          PROVE  file[lock[g]] = g /\ tpc'[lock[g]] \in Critical
      <4>1. lock[g] \in Thread /\ file[lock[g]] = g /\ tpc[lock[g]] \in Critical
        BY <3>1 DEF LockInv
      <4>2. lock[g] # t
        BY <1>5, <3>1, <4>1
      <4> QED
        BY <2>1, <4>1, <4>2
    <3>2. \A g \in FPGA : g # f => lock'[g] = lock[g]
      BY <2>3
    <3>3. lock'[f] = Nobody \/ (lock'[f] = t /\ tpc'[t] \in Critical)
      BY <2>2, <2>3
    <3> QED
      BY <1>5, <2>1, <3>1, <3>2, <3>3
  <2> QED
    BY <2>4, <2>5 DEF LockInv
<1> QED
  BY <1>1, <1>2, <1>3, <1>4, <1>5 DEF Next

\* A step of t inside the critical section of f decides alone which device of
\* f is in hand; the other FPGAs are not concerned.
LEMMA HandsOfCritical ==
  ASSUME TypeOK, LockInv, NEW t \in Thread, NEW f \in FPGA, file[t] = f, tpc[t] \in Critical,
         file' = file, \A u \in Thread : u # t => tpc'[u] = tpc[u] /\ key'[u] = key[u]
  PROVE  /\ \A k \in Key : InHand(k, f) <=> (tpc[t] \in HandPC /\ key[t] = k)
         /\ \A k \in Key : InHand(k, f)' <=> (tpc'[t] \in HandPC /\ key'[t] = k)
         /\ \A g \in FPGA : \A k \in Key : g # f => (InHand(k, g)' <=> InHand(k, g))
<1>1. \A u \in Thread : (file[u] = f /\ tpc[u] \in HandPC) => u = t
  BY DEF LockInv, Critical, HandPC
<1> QED
  BY <1>1 DEF InHand

\* A step of t outside it keeps what is in hand.
LEMMA HandsOfOthers ==
  ASSUME TypeOK, NEW t \in Thread, tpc[t] \notin HandPC, tpc'[t] \notin HandPC,
         \A u \in Thread : u # t => tpc'[u] = tpc[u] /\ key'[u] = key[u] /\ file'[u] = file[u]
  PROVE  \A g \in FPGA : \A k \in Key : InHand(k, g)' <=> InHand(k, g)
BY DEF InHand

\* BusInv of an FPGA whose lists, hands and bus entries stay.
LEMMA SameBus ==
  ASSUME BusInv, NEW g \in FPGA, pc'[g] = pc[g], auxList'[g] = auxList[g], taken'[g] = taken[g],
         \A k \in Key : InHand(k, g)' <=> InHand(k, g),
         \A k \in Key : <<k, g>> \in bus' <=> <<k, g>> \in bus,
         auxList[g] \in SUBSET Key
  PROVE  BusInvOf(g)'
BY DEF BusInv, BusInvOf

\* A driver step on f concerns the bus entries and lists of f alone.
LEMMA DriverBusStep ==
  ASSUME TypeOK, FileInv, LockInv, BusInv, NEW f \in FPGA,
         GetMinor(f) \/ Probe(f) \/ BeginRemove(f) \/ RemoveSplice(f) \/ Unwind(f)
  PROVE  BusInv'
<1> USE DEF TypeOK
<1>1. UNCHANGED <<file, tpc, key>>
  <2>1. CASE ReleaseDevres(f)
    BY <2>1, ReleaseKeepsFiles DEF ReleaseDevres
  <2> QED
    BY <2>1 DEF GetMinor, Probe, EnableDevice, MapBar, SetupInterrupts, AddCdev, CreateNode,
                BeginRemove, RemoveSplice, Unwind, RemoveOne, DestroyNode, DelCdev,
                DisableDevice, PutMinor, Unbound, userVars
<1>2. \A g \in FPGA : \A k \in Key : InHand(k, g)' <=> InHand(k, g)
  BY <1>1 DEF InHand
<1>3. \A g \in FPGA : g # f =>
        /\ pc'[g] = pc[g] /\ auxList'[g] = auxList[g] /\ taken'[g] = taken[g]
        /\ \A k \in Key : <<k, g>> \in bus' <=> <<k, g>> \in bus
  BY DEF GetMinor, Probe, EnableDevice, MapBar, SetupInterrupts, AddCdev, CreateNode,
         BeginRemove, RemoveSplice, Unwind, RemoveOne, DestroyNode, DelCdev,
         DisableDevice, PutMinor, ReleaseDevres, Unbound, Go, auxVars, drvVars
<1>4. \A g \in FPGA : g # f => BusInvOf(g)'
  BY <1>2, <1>3, SameBus
<1>5. BusInvOf(f)
  BY DEF BusInv
<1>6. BusInvOf(f)'
  <2>1. CASE RemoveSplice(f)
    <3>1. /\ pc[f] = "splice" /\ pc'[f] = "drain" /\ bus' = bus
          /\ taken'[f] = auxList[f] /\ auxList'[f] = {}
      BY <2>1 DEF RemoveSplice, Go
    <3>2. taken[f] = {}
      BY <1>5, <3>1 DEF BusInvOf
    <3> QED
      BY <1>2, <1>5, <3>1, <3>2 DEF BusInvOf
  <2>2. CASE RemoveOne(f)
    <3>1. pc[f] = "drain" /\ pc' = pc /\ auxList' = auxList
      BY <2>2 DEF RemoveOne, drvVars
    <3>2. PICK k \in taken[f] : taken'[f] = taken[f] \ {k} /\ bus' = bus \ {<<k, f>>}
      BY <2>2 DEF RemoveOne
    <3>3. auxList[f] = {}
      BY <1>5, <3>1 DEF BusInvOf
    <3>4. \A j \in Key : ~ InHand(j, f)
      BY <3>1, NoFileOnMoving DEF InHand
    <3> QED
      BY <1>2, <1>5, <3>1, <3>2, <3>3, <3>4 DEF BusInvOf
  <2>3. CASE AddCdev(f)
    <3>1. pc[f] = "cdev" /\ auxList'[f] = {} /\ bus' = bus /\ taken' = taken
      BY <2>3 DEF AddCdev
    <3>2. auxList[f] = {} /\ taken[f] = {}
      BY <1>5, <3>1 DEF BusInvOf
    <3> QED
      BY <1>2, <1>5, <3>1, <3>2 DEF BusInvOf
  <2>4. CASE ~ RemoveSplice(f) /\ ~ RemoveOne(f) /\ ~ AddCdev(f)
    <3>1. UNCHANGED <<auxList, taken, bus>>
      BY <2>4 DEF GetMinor, Probe, EnableDevice, MapBar, SetupInterrupts, CreateNode,
                  BeginRemove, Unwind, DestroyNode, DelCdev,
                  DisableDevice, PutMinor, ReleaseDevres, Unbound, auxVars
    <3>2. taken[f] = {} \/ pc'[f] = "drain"
      BY <2>4, <1>5
         DEF BusInvOf, GetMinor, Probe, EnableDevice, MapBar, SetupInterrupts, CreateNode,
             BeginRemove, Unwind, DestroyNode, DelCdev,
             DisableDevice, PutMinor, ReleaseDevres, Unbound, Go
    <3>3. auxList[f] = {} \/ pc'[f] \in {"bound", "splice"}
      BY <2>4, <1>5
         DEF BusInvOf, GetMinor, Probe, EnableDevice, MapBar, SetupInterrupts, CreateNode,
             BeginRemove, Unwind, DestroyNode, DelCdev,
             DisableDevice, PutMinor, ReleaseDevres, Unbound, Go
    <3> QED
      BY <1>2, <1>5, <3>1, <3>2, <3>3 DEF BusInvOf
  <2> QED
    BY <2>1, <2>2, <2>3, <2>4
<1> QED
  BY <1>4, <1>6 DEF BusInv

\* A step inside the critical section of f concerns f alone, and t holds the
\* only device of f that may be in hand.
LEMMA CriticalBusStep ==
  ASSUME TypeOK, FileInv, LockInv, BusInv, NEW t \in Thread, NEW f \in FPGA, file[t] = f,
         Working(t, f)
  PROVE  BusInv'
<1> USE DEF TypeOK
<1>1. tpc[t] \in Critical /\ file' = file /\ pc' = pc /\ taken' = taken
      /\ \A u \in Thread : u # t => tpc'[u] = tpc[u] /\ key'[u] = key[u]
  BY DEF Working, NewCheck, NewAdd, NewLink, DelFind, DelUnregister, At, Return, Critical, drvVars
<1>2. /\ \A k \in Key : InHand(k, f) <=> (tpc[t] \in HandPC /\ key[t] = k)
      /\ \A k \in Key : InHand(k, f)' <=> (tpc'[t] \in HandPC /\ key'[t] = k)
      /\ \A g \in FPGA : \A k \in Key : g # f => (InHand(k, g)' <=> InHand(k, g))
  BY <1>1, HandsOfCritical
<1>3. \A g \in FPGA : g # f =>
        /\ auxList'[g] = auxList[g]
        /\ \A k \in Key : <<k, g>> \in bus' <=> <<k, g>> \in bus
  BY DEF Working, NewCheck, NewAdd, NewLink, DelFind, DelUnregister
<1>4. \A g \in FPGA : g # f => BusInvOf(g)'
  BY <1>1, <1>2, <1>3, SameBus
<1>5. BusInvOf(f) /\ pc[f] = "bound" /\ taken[f] = {} /\ key[t] \in Key
  BY <1>1 DEF BusInv, BusInvOf, FileInv, Critical
<1>6. BusInvOf(f)'
  <2>1. CASE NewCheck(t, f)
    <3>1. UNCHANGED <<auxList, bus>> /\ tpc[t] \notin HandPC /\ tpc'[t] \notin HandPC
      BY <2>1 DEF NewCheck, At, Return, HandPC
    <3> QED
      BY <1>1, <1>2, <1>5, <3>1 DEF BusInvOf
  <2>2. CASE NewAdd(t, f)
    <3>1. auxList' = auxList /\ tpc[t] \notin HandPC
      BY <2>2 DEF NewAdd, HandPC
    <3>2. CASE bus' = bus /\ tpc'[t] \notin HandPC
      BY <1>1, <1>2, <1>5, <3>1, <3>2 DEF BusInvOf
    <3>3. CASE /\ ~ OnBus(key[t])
               /\ bus' = bus \cup {<<key[t], f>>}
               /\ tpc'[t] \in HandPC /\ key'[t] = key[t]
      <4>1. <<key[t], f>> \notin bus
        BY <3>3 DEF OnBus
      <4>2. key[t] \notin auxList[f]
        BY <1>5, <4>1 DEF BusInvOf
      <4> QED
        BY <1>1, <1>2, <1>5, <3>1, <3>3, <4>2 DEF BusInvOf
    <3> QED
      BY <2>2, <3>2, <3>3 DEF NewAdd, At, Return, HandPC
  <2>3. CASE NewLink(t, f)
    <3>1. /\ auxList'[f] = auxList[f] \cup {key[t]} /\ bus' = bus
          /\ tpc[t] \in HandPC /\ tpc'[t] \notin HandPC
      BY <2>3 DEF NewLink, Return, At, HandPC
    <3> QED
      BY <1>1, <1>2, <1>5, <3>1 DEF BusInvOf
  <2>4. CASE DelFind(t, f)
    <3>1. bus' = bus /\ tpc[t] \notin HandPC
      BY <2>4 DEF DelFind, HandPC
    <3>2. CASE auxList' = auxList /\ tpc'[t] \notin HandPC
      BY <1>1, <1>2, <1>5, <3>1, <3>2 DEF BusInvOf
    <3>3. CASE /\ key[t] \in auxList[f] /\ auxList'[f] = auxList[f] \ {key[t]}
               /\ tpc'[t] \in HandPC /\ key'[t] = key[t]
      BY <1>1, <1>2, <1>5, <3>1, <3>3 DEF BusInvOf
    <3> QED
      BY <2>4, <3>2, <3>3 DEF DelFind, At, Return, HandPC
  <2>5. CASE DelUnregister(t, f)
    <3>1. /\ auxList' = auxList /\ bus' = bus \ {<<key[t], f>>}
          /\ tpc[t] \in HandPC /\ tpc'[t] \notin HandPC
      BY <2>5 DEF DelUnregister, Return, At, HandPC
    <3>2. key[t] \notin auxList[f]
      BY <1>2, <1>5, <3>1 DEF BusInvOf
    <3> QED
      BY <1>1, <1>2, <1>5, <3>1, <3>2 DEF BusInvOf
  <2> QED
    BY <2>1, <2>2, <2>3, <2>4, <2>5 DEF Working
<1> QED
  BY <1>4, <1>6 DEF BusInv

LEMMA BusStep ==
  ASSUME TypeOK, FileInv, LockInv, BusInv, [Next]_vars
  PROVE  BusInv'
<1>1. CASE BeginRmmod \/ Reload \/ UNCHANGED vars
  <2>1. UNCHANGED <<pc, auxVars, userVars>>
    BY <1>1 DEF BeginRmmod, Reload, vars, drvVars
  <2> QED
    BY <2>1 DEF auxVars, userVars, BusInv, BusInvOf, InHand
<1>2. ASSUME NEW t \in Thread,
             \/ Close(t)
             \/ \E k \in Key : Ioctl(t, k)
             \/ \E f \in FPGA : Open(t, f) \/ (file[t] = f /\ Locking(t, f))
      PROVE  BusInv'
  <2>1. UNCHANGED <<pc, auxList, taken, bus>>
    BY <1>2 DEF Close, Ioctl, Open, Locking, NewLock, DelLock, drvVars, auxVars
  <2>2. tpc[t] \notin HandPC /\ tpc'[t] \notin HandPC
    <3>1. CASE Close(t) \/ \E k \in Key : Ioctl(t, k)
      BY <3>1 DEF Close, Ioctl, At, HandPC, TypeOK
    <3>2. CASE \E f \in FPGA : Open(t, f)
      BY <3>2, ConstantsOK DEF Open, FileInv, HandPC
    <3>3. CASE \E f \in FPGA : Locking(t, f)
      BY <3>3 DEF Locking, NewLock, DelLock, At, HandPC, TypeOK
    <3> QED
      BY <1>2, <3>1, <3>2, <3>3
  <2>3. \A u \in Thread : u # t => tpc'[u] = tpc[u] /\ key'[u] = key[u] /\ file'[u] = file[u]
    BY <1>2 DEF Close, Ioctl, Open, Locking, NewLock, DelLock, At, TypeOK
  <2>4. \A g \in FPGA : \A k \in Key : InHand(k, g)' <=> InHand(k, g)
    BY <2>2, <2>3, HandsOfOthers
  <2> QED
    BY <2>1, <2>4, SameBus DEF BusInv, TypeOK
<1> QED
  BY <1>1, <1>2, DriverBusStep, CriticalBusStep DEF Next

ServiceInv == ShapeInv /\ FileInv /\ RemoveInv /\ LockInv /\ BusInv

\* The inductive invariant of the rmmod-only driver.
THEOREM ServiceCorrect ==
  ASSUME HOT_UNBIND = FALSE
  PROVE  Spec => [](TypeOK /\ MinorsExact /\ ServiceInv)
<1>1. Init => ShapeInv /\ MinorsExact
  BY ConstantsOK DEF Init, ShapeInv, MinorsExact, MinorHeld, InService, RemovePC, Minor, NoMinor, PC
<1>2. Init => FileInv /\ RemoveInv /\ LockInv
  BY ConstantsOK DEF Init, FileInv, RemoveInv, LockInv, RemovePC, Critical
<1>3. Init => BusInv
  BY DEF Init, BusInv, BusInvOf, InHand, HandPC
<1>4. TypeOK /\ MinorsExact /\ ServiceInv /\ [Next]_vars => (MinorsExact /\ ServiceInv)'
  BY MinorsStep, FileStep, LockStep, BusStep DEF ServiceInv
<1> QED
  BY <1>1, <1>2, <1>3, <1>4, TypeCorrect, PTL DEF Spec, ServiceInv

\* Outside the critical sections the two lists name exactly what is on the bus.
THEOREM ListsCorrect ==
  ASSUME HOT_UNBIND = FALSE
  PROVE  Spec => []ListsMatchBus
<1>1. ASSUME TypeOK, ServiceInv, NEW f \in FPGA, pc[f] \in InService, lock[f] = Nobody
      PROVE  auxList[f] \cup taken[f] = OnBusFor(f) /\ auxList[f] \cap taken[f] = {}
  <2>1. \A k \in Key : ~ InHand(k, f)
    BY <1>1, ConstantsOK DEF ServiceInv, LockInv, InHand, HandPC, Critical
  <2>2. BusInvOf(f) /\ auxList[f] \subseteq Key /\ taken[f] \subseteq Key
    BY <1>1 DEF ServiceInv, BusInv, TypeOK
  <2> QED
    BY <2>1, <2>2 DEF BusInvOf, OnBusFor
<1>2. TypeOK /\ ServiceInv => ListsMatchBus
  BY <1>1 DEF ListsMatchBus
<1> QED
  BY <1>2, ServiceCorrect, PTL

\* When an FPGA is unbound, none of its devices is left on the bus.
THEOREM NoOrphansCorrect ==
  ASSUME HOT_UNBIND = FALSE
  PROVE  Spec => []NoOrphans
<1>1. ASSUME TypeOK, ServiceInv, NEW f \in FPGA, pc[f] \notin InService
      PROVE  OnBusFor(f) = {}
  <2>1. \A k \in Key : ~ InHand(k, f)
    BY <1>1, NoFileOnMoving DEF ServiceInv, InHand, InService
  <2>2. BusInvOf(f) /\ auxList[f] = {} /\ taken[f] = {}
    BY <1>1 DEF ServiceInv, BusInv, BusInvOf, InService, RemovePC
  <2> QED
    BY <2>1, <2>2 DEF BusInvOf, OnBusFor
<1>2. TypeOK /\ ServiceInv => NoOrphans
  BY <1>1 DEF NoOrphans, InService, RemovePC
<1> QED
  BY <1>2, ServiceCorrect, PTL
-----------------------------------------------------------------------------
(* The devres stack.                                                        *)

LEMMA PrefixPush ==
  ASSUME NEW s \in Seq(Resource), OrderedPrefix(s), NEW r \in Seq(Resource),
         Len(s) + Len(r) <= 5, \A i \in 1 .. Len(r) : r[i] = DevresOrder[Len(s) + i]
  PROVE  OrderedPrefix(s \o r) /\ Len(s \o r) = Len(s) + Len(r)
<1>1. Len(s \o r) = Len(s) + Len(r) /\ Len(s) \in Nat /\ Len(r) \in Nat
  OBVIOUS
<1>2. ASSUME NEW i \in 1 .. Len(s) + Len(r)
      PROVE  (s \o r)[i] = DevresOrder[i]
  <2>1. CASE i <= Len(s)
    BY <1>1, <2>1 DEF OrderedPrefix
  <2>2. CASE i > Len(s)
    <3>1. (s \o r)[i] = r[i - Len(s)] /\ i - Len(s) \in 1 .. Len(r)
      BY <1>1, <2>2
    <3> QED
      BY <1>1, <3>1
  <2> QED
    BY <1>1, <2>1, <2>2
<1> QED
  BY <1>1, <1>2 DEF OrderedPrefix

LEMMA PrefixPop ==
  ASSUME NEW s \in Seq(Resource), OrderedPrefix(s), s # <<>>
  PROVE  OrderedPrefix(SubSeq(s, 1, Len(s) - 1))
<1>1. Len(s) \in Nat /\ Len(s) > 0
  OBVIOUS
<1>2. Len(s) - 1 \in Int /\ 1 \in Int /\ \A i \in 1 .. Len(s) - 1 : s[i] \in Resource
  BY <1>1
<1>3. /\ Len(SubSeq(s, 1, Len(s) - 1)) = IF 1 <= Len(s) - 1 THEN Len(s) - 1 - 1 + 1 ELSE 0
      /\ \A i \in 1 .. Len(s) - 1 - 1 + 1 : SubSeq(s, 1, Len(s) - 1)[i] = s[1 + i - 1]
  BY <1>2, SubSeqProperties
<1>4. Len(SubSeq(s, 1, Len(s) - 1)) = Len(s) - 1
  <2>1. ASSUME NEW n \in Nat, n > 0
        PROVE  (IF 1 <= n - 1 THEN n - 1 - 1 + 1 ELSE 0) = n - 1
    BY <2>1
  <2> QED
    BY <1>1, <1>3, <2>1
<1>5. ASSUME NEW i \in 1 .. Len(s) - 1
      PROVE  SubSeq(s, 1, Len(s) - 1)[i] = s[i]
  <2>1. i \in 1 .. Len(s) - 1 - 1 + 1 /\ 1 + i - 1 = i
    BY <1>1
  <2> QED
    BY <1>3, <2>1
<1> QED
  BY <1>1, <1>4, <1>5 DEF OrderedPrefix

\* A step of f's driver-core thread concerns f's stack alone.
LEMMA OneStack ==
  ASSUME DevresInv, NEW f \in FPGA,
         \A g \in FPGA : g # f => pc'[g] = pc[g] /\ devres'[g] = devres[g],
         OrderedPrefix(devres'[f]), DepthOK(pc'[f], Len(devres'[f]))
  PROVE  DevresInv'
BY DEF DevresInv, OrderedPrefix, DepthOK

\* Pushing the next resources of the order.
LEMMA PushStack ==
  ASSUME TypeOK, DevresInv, NEW f \in FPGA, NEW r \in Seq(Resource), Push(f, r),
         \A g \in FPGA : g # f => pc'[g] = pc[g],
         NEW n \in 0 .. 5, Len(devres[f]) = n, n + Len(r) <= 5,
         \A i \in 1 .. Len(r) : r[i] = DevresOrder[n + i],
         DepthOK(pc'[f], n + Len(r))
  PROVE  DevresInv'
<1>1. devres[f] \in Seq(Resource) /\ OrderedPrefix(devres[f])
  BY DEF TypeOK, DevresInv
<1>2. devres'[f] = devres[f] \o r /\ \A g \in FPGA : g # f => devres'[g] = devres[g]
  BY DEF TypeOK, Push
<1>3. OrderedPrefix(devres[f] \o r) /\ Len(devres[f] \o r) = n + Len(r)
  BY <1>1, PrefixPush
<1> QED
  BY <1>2, <1>3, OneStack

\* What probe pushes at each step continues the order.
LEMMA PushedResources ==
  /\ <<"mem">> \in Seq(Resource) /\ Len(<<"mem">>) = 1
  /\ \A i \in 1 .. 1 : <<"mem">>[i] = DevresOrder[0 + i]
  /\ <<"bar">> \in Seq(Resource) /\ Len(<<"bar">>) = 1
  /\ \A i \in 1 .. 1 : <<"bar">>[i] = DevresOrder[1 + i]
BY DEF Resource, DevresOrder

LEMMA PushedByIrq ==
  ASSUME NEW r \in {<<>>, <<"vectors">>, <<"vectors", "chips">>, <<"vectors", "chips", "clk">>}
  PROVE  /\ r \in Seq(Resource) /\ Len(r) \in 0 .. 3
         /\ \A i \in 1 .. Len(r) : r[i] = DevresOrder[2 + i]
<1>1. CASE r = <<>>
  BY <1>1
<1>2. CASE r = <<"vectors">>
  BY <1>2 DEF Resource, DevresOrder
<1>3. CASE r = <<"vectors", "chips">>
  BY <1>3 DEF Resource, DevresOrder
<1>4. CASE r = <<"vectors", "chips", "clk">>
  BY <1>4 DEF Resource, DevresOrder
<1> QED
  BY <1>1, <1>2, <1>3, <1>4

LEMMA DevresStep ==
  ASSUME TypeOK, DevresInv, [Next]_vars
  PROVE  DevresInv'
<1>1. CASE BeginRmmod \/ Reload \/ UNCHANGED vars
  <2>1. UNCHANGED <<pc, devres>>
    BY <1>1 DEF BeginRmmod, Reload, vars, drvVars
  <2> QED
    BY <2>1 DEF DevresInv
<1>2. ASSUME NEW f \in FPGA,
             GetMinor(f) \/ Probe(f) \/ BeginRemove(f) \/ RemoveSplice(f) \/ Unwind(f)
      PROVE  DevresInv'
  <2>1. \A g \in FPGA : g # f => pc'[g] = pc[g]
    BY <1>2 DEF Go, GetMinor, Probe, EnableDevice, MapBar, SetupInterrupts, AddCdev, CreateNode,
                BeginRemove, RemoveSplice, Unwind, RemoveOne, DestroyNode, DelCdev,
                DisableDevice, PutMinor, ReleaseDevres, Unbound, drvVars, TypeOK
  <2>2. OrderedPrefix(devres[f]) /\ DepthOK(pc[f], Len(devres[f])) /\ Len(devres[f]) \in Nat
    BY DEF DevresInv, TypeOK
  <2>3. ASSUME devres' = devres, DepthOK(pc'[f], Len(devres[f]))
        PROVE  DevresInv'
    BY <2>1, <2>2, <2>3, OneStack
  <2>4. CASE EnableDevice(f)
    <3>1. Len(devres[f]) = 0
      BY <2>2, <2>4 DEF EnableDevice, DepthOK
    <3>2. CASE pc'[f] = "putminor" /\ devres' = devres
      BY <2>3, <3>2 DEF DepthOK
    <3>3. CASE Push(f, <<"mem">>) /\ pc'[f] \in {"putminor", "map"}
      <4>1. /\ <<"mem">> \in Seq(Resource) /\ 0 \in 0 .. 5 /\ 0 + Len(<<"mem">>) <= 5
            /\ \A i \in 1 .. Len(<<"mem">>) : <<"mem">>[i] = DevresOrder[0 + i]
        BY PushedResources
      <4>2. DepthOK(pc'[f], 0 + Len(<<"mem">>))
        BY <3>3, PushedResources DEF DepthOK
      <4> QED
        BY <2>1, <3>1, <3>3, <4>1, <4>2, PushStack
    <3> QED
      BY <2>4, <3>2, <3>3 DEF EnableDevice, Go, TypeOK
  <2>5. CASE MapBar(f)
    <3>1. Len(devres[f]) = 1
      BY <2>2, <2>5 DEF MapBar, DepthOK
    <3>2. CASE pc'[f] = "disable" /\ devres' = devres
      BY <2>3, <3>2 DEF DepthOK
    <3>3. CASE Push(f, <<"bar">>) /\ pc'[f] \in {"disable", "irq"}
      <4>1. /\ <<"bar">> \in Seq(Resource) /\ 1 \in 0 .. 5 /\ 1 + Len(<<"bar">>) <= 5
            /\ \A i \in 1 .. Len(<<"bar">>) : <<"bar">>[i] = DevresOrder[1 + i]
        BY PushedResources
      <4>2. DepthOK(pc'[f], 1 + Len(<<"bar">>))
        BY <3>3, PushedResources DEF DepthOK
      <4> QED
        BY <2>1, <3>1, <3>3, <4>1, <4>2, PushStack
    <3> QED
      BY <2>5, <3>2, <3>3 DEF MapBar, Go, TypeOK
  <2>6. CASE SetupInterrupts(f)
    <3>1. Len(devres[f]) = 2 /\ pc'[f] \in {"cdev", "disable"}
      BY <2>2, <2>6 DEF SetupInterrupts, DepthOK, Go, TypeOK
    <3>2. CASE devres' = devres
      BY <2>3, <3>1, <3>2 DEF DepthOK
    <3>3. ASSUME NEW r \in {<<>>, <<"vectors">>, <<"vectors", "chips">>,
                            <<"vectors", "chips", "clk">>}, Push(f, r)
          PROVE  DevresInv'
      <4>1. /\ r \in Seq(Resource) /\ Len(r) \in 0 .. 3
            /\ \A i \in 1 .. Len(r) : r[i] = DevresOrder[2 + i]
        BY PushedByIrq
      <4>2. DepthOK(pc'[f], 2 + Len(r)) /\ 2 + Len(r) <= 5
        BY <3>1, <4>1 DEF DepthOK
      <4> QED
        BY <2>1, <3>1, <3>3, <4>1, <4>2, PushStack
    <3> QED
      BY <2>6, <3>2, <3>3 DEF SetupInterrupts
  <2>7. CASE ReleaseDevres(f)
    <3>1. /\ devres[f] \in Seq(Resource) /\ devres[f] # <<>> /\ pc' = pc /\ pc[f] = "devres"
          /\ devres' = [devres EXCEPT ![f] = SubSeq(@, 1, Len(devres[f]) - 1)]
      BY <2>7 DEF ReleaseDevres, TypeOK
    <3>2. /\ devres'[f] = SubSeq(devres[f], 1, Len(devres[f]) - 1)
          /\ \A g \in FPGA : g # f => devres'[g] = devres[g]
      BY <3>1 DEF TypeOK
    <3>3. OrderedPrefix(devres'[f])
      BY <2>2, <3>1, <3>2, PrefixPop
    <3>4. DepthOK(pc'[f], Len(devres'[f]))
      BY <3>1 DEF DepthOK
    <3> QED
      BY <2>1, <3>2, <3>3, <3>4, OneStack
  <2>8. CASE ~ EnableDevice(f) /\ ~ MapBar(f) /\ ~ SetupInterrupts(f) /\ ~ ReleaseDevres(f)
    <3>1. devres' = devres
      BY <1>2, <2>8 DEF GetMinor, Probe, AddCdev, CreateNode, BeginRemove, RemoveSplice, Unwind,
                        RemoveOne, DestroyNode, DelCdev, DisableDevice, PutMinor, Unbound, drvVars
    <3>2. \/ pc'[f] \in {"splice", "drain", "delcdev", "disable", "putminor", "devres"}
          \/ pc'[f] = "enable" /\ pc[f] = "unbound"
          \/ pc'[f] = "node" /\ pc[f] = "cdev"
          \/ pc'[f] = "bound" /\ pc[f] = "node"
          \/ pc'[f] = "unbound" /\ Len(devres[f]) = 0
      BY <1>2, <2>8 DEF GetMinor, Probe, AddCdev, CreateNode, BeginRemove, RemoveSplice, Unwind,
                        RemoveOne, DestroyNode, DelCdev, DisableDevice, PutMinor, Unbound,
                        Go, drvVars, TypeOK
    <3>3. DepthOK(pc'[f], Len(devres[f]))
      BY <2>2, <3>2 DEF DepthOK
    <3> QED
      BY <2>3, <3>1, <3>3
  <2> QED
    BY <2>4, <2>5, <2>6, <2>7, <2>8
<1>3. ASSUME NEW t \in Thread,
             \/ Close(t)
             \/ \E k \in Key : Ioctl(t, k)
             \/ \E f \in FPGA : Open(t, f) \/ Locking(t, f) \/ Working(t, f)
      PROVE  DevresInv'
  <2>1. UNCHANGED <<pc, devres>>
    BY <1>3 DEF Close, Ioctl, Open, Locking, Working, NewLock, NewCheck, NewAdd, NewLink,
                DelLock, DelFind, DelUnregister, drvVars
  <2> QED
    BY <2>1 DEF DevresInv
<1> QED
  BY <1>1, <1>2, <1>3 DEF Next

LEMMA DevresInvariant == Spec => [](TypeOK /\ DevresInv)
<1>1. Init => DevresInv
  <2> SUFFICES ASSUME Init, NEW f \in FPGA
               PROVE  OrderedPrefix(devres[f]) /\ DepthOK(pc[f], Len(devres[f]))
    BY DEF DevresInv
  <2>1. devres[f] = <<>> /\ pc[f] = "unbound"
    BY DEF Init
  <2>2. Len(devres[f]) = 0
    BY <2>1
  <2> QED
    BY <2>1, <2>2 DEF OrderedPrefix, DepthOK
<1> QED
  BY <1>1, DevresStep, TypeCorrect, PTL DEF Spec

\* Whatever step of probe fails and whenever remove runs, the chips are torn
\* down before the BAR is unmapped and the vectors are freed.
THEOREM BarOutlivesChipsCorrect == Spec => []BarOutlivesChips
<1>1. ASSUME TypeOK, DevresInv, NEW f \in FPGA, NEW i \in 1 .. Len(devres[f]),
             devres[f][i] \in {"bar", "chips"}
      PROVE  /\ DevresHolds(f, "mem")
             /\ devres[f][i] = "chips" => DevresHolds(f, "bar") /\ DevresHolds(f, "vectors")
  <2>1. /\ Len(devres[f]) \in Nat /\ Len(devres[f]) <= 5
        /\ \A j \in 1 .. Len(devres[f]) : devres[f][j] = DevresOrder[j]
    BY <1>1 DEF TypeOK, DevresInv, OrderedPrefix
  <2>2. i \in 1 .. 5 /\ devres[f][i] = DevresOrder[i]
    BY <2>1
  <2>3. 1 \in 1 .. Len(devres[f]) /\ devres[f][1] = "mem"
    BY <2>1, <2>2 DEF DevresOrder
  <2>4. CASE devres[f][i] = "chips"
    <3>1. i = 4
      BY <2>2, <2>4 DEF DevresOrder
    <3>2. 2 \in 1 .. Len(devres[f]) /\ 3 \in 1 .. Len(devres[f])
      BY <2>1, <3>1
    <3>3. devres[f][2] = "bar" /\ devres[f][3] = "vectors"
      BY <2>1, <3>2 DEF DevresOrder
    <3> QED
      BY <2>3, <3>2, <3>3 DEF DevresHolds
  <2> QED
    BY <1>1, <2>3, <2>4 DEF DevresHolds
<1>2. TypeOK /\ DevresInv => BarOutlivesChips
  BY <1>1 DEF BarOutlivesChips, DevresHolds
<1> QED
  BY <1>2, DevresInvariant, PTL

\* No ioctl runs on an FPGA that is not bound or on a freed fbiob_dev.
THEOREM FilesCorrect ==
  ASSUME HOT_UNBIND = FALSE
  PROVE  Spec => []FilesOnBoundFpgas
<1>1. ASSUME TypeOK, DevresInv, NEW f \in FPGA, pc[f] = "bound"
      PROVE  DevresHolds(f, "mem")
  <2>1. /\ Len(devres[f]) \in Nat /\ Len(devres[f]) >= 2
        /\ \A j \in 1 .. Len(devres[f]) : devres[f][j] = DevresOrder[j]
    BY <1>1 DEF TypeOK, DevresInv, OrderedPrefix, DepthOK
  <2>2. 1 \in 1 .. Len(devres[f])
    BY <2>1
  <2> QED
    BY <2>1, <2>2 DEF DevresOrder, DevresHolds
<1>2. TypeOK /\ DevresInv /\ ServiceInv => FilesOnBoundFpgas
  BY <1>1 DEF FilesOnBoundFpgas, ServiceInv, FileInv
<1> QED
  BY <1>2, DevresInvariant, ServiceCorrect, PTL
-----------------------------------------------------------------------------
(* The driver implements AuxRegistry.                                       *)

Attached == {f \in FPGA : pc[f] \in InService}

\* Steps that are none of the registry's business.
LEMMA StutterStep ==
  ASSUME TypeOK, bus' = bus, \A f \in FPGA : pc'[f] \in InService <=> pc[f] \in InService
  PROVE  UNCHANGED Registry!vars
BY DEF Registry!vars

LEMMA DriverRefines ==
  ASSUME TypeOK, ServiceInv, NEW f \in FPGA,
         GetMinor(f) \/ Probe(f) \/ BeginRemove(f) \/ RemoveSplice(f) \/ Unwind(f)
  PROVE  [Registry!Next]_(Registry!vars)
<1> USE DEF TypeOK
<1>1. BusInvOf(f)
  BY DEF ServiceInv, BusInv
<1>2. \A g \in FPGA : g # f => pc'[g] = pc[g]
  BY DEF GetMinor, Probe, EnableDevice, MapBar, SetupInterrupts, AddCdev, CreateNode,
         BeginRemove, RemoveSplice, Unwind, RemoveOne, DestroyNode, DelCdev,
         DisableDevice, PutMinor, ReleaseDevres, Unbound, Go, drvVars
<1>3. pc[f] # "bound" => \A k \in Key : ~ InHand(k, f)
  BY NoFileOnMoving DEF ServiceInv, InHand
<1>4. CASE CreateNode(f) /\ pc'[f] = "bound"
  <2>1. pc[f] = "node" /\ bus' = bus
    BY <1>4 DEF CreateNode, auxVars
  <2>2. \A k \in Key : <<k, f>> \notin bus
    BY <1>1, <1>3, <2>1 DEF BusInvOf
  <2>3. f \notin Attached /\ Attached' = Attached \cup {f}
    BY <1>2, <1>4, <2>1 DEF Attached, InService, RemovePC
  <2>4. Registry!Attach(f)
    BY <2>1, <2>2, <2>3 DEF Registry!Attach, Registry!DevicesOf, Attached
  <2> QED
    BY <2>4 DEF Registry!Next
<1>5. CASE DestroyNode(f)
  <2>1. pc[f] = "drain" /\ pc'[f] = "delcdev" /\ taken[f] = {} /\ bus' = bus
    BY <1>5 DEF DestroyNode, Go, auxVars
  <2>2. auxList[f] = {} /\ \A k \in Key : <<k, f>> \notin bus
    BY <1>1, <1>3, <2>1 DEF BusInvOf
  <2>3. f \in Attached /\ Attached' = Attached \ {f}
    BY <1>2, <2>1 DEF Attached, InService, RemovePC
  <2>4. Registry!Detach(f)
    BY <2>1, <2>2, <2>3 DEF Registry!Detach, Registry!DevicesOf, Attached
  <2> QED
    BY <2>4 DEF Registry!Next
<1>6. CASE RemoveOne(f)
  <2>1. pc[f] = "drain" /\ pc' = pc
    BY <1>6 DEF RemoveOne, drvVars
  <2>2. PICK k \in taken[f] : bus' = bus \ {<<k, f>>}
    BY <1>6 DEF RemoveOne
  <2>3. k \in Key /\ <<k, f>> \in bus
    BY <1>1, <2>2 DEF BusInvOf
  <2>4. f \in Attached /\ Attached' = Attached
    BY <2>1 DEF Attached, InService, RemovePC
  <2>5. Registry!Unregister(k, f)
    BY <2>2, <2>3, <2>4 DEF Registry!Unregister, Attached
  <2> QED
    BY <2>3, <2>5 DEF Registry!Next
<1>7. CASE ~ (CreateNode(f) /\ pc'[f] = "bound") /\ ~ DestroyNode(f) /\ ~ RemoveOne(f)
  <2>1. bus' = bus /\ (pc'[f] \in InService <=> pc[f] \in InService)
    BY <1>7 DEF GetMinor, Probe, EnableDevice, MapBar, SetupInterrupts, AddCdev, CreateNode,
                BeginRemove, RemoveSplice, Unwind, DelCdev, DisableDevice, PutMinor,
                ReleaseDevres, Unbound, Go, auxVars, InService, RemovePC
  <2> QED
    BY <1>2, <2>1, StutterStep
<1> QED
  BY <1>4, <1>5, <1>6, <1>7

LEMMA UserRefines ==
  ASSUME TypeOK, ServiceInv, NEW t \in Thread, NEW f \in FPGA, file[t] = f, Working(t, f)
  PROVE  [Registry!Next]_(Registry!vars)
<1> USE DEF TypeOK
<1>1. pc' = pc /\ tpc[t] # "idle"
  BY DEF Working, NewCheck, NewAdd, NewLink, DelFind, DelUnregister, drvVars
<1>2. key[t] \in Key /\ pc[f] = "bound"
  BY <1>1 DEF ServiceInv, FileInv
<1>3. f \in Attached /\ Attached' = Attached
  BY <1>1, <1>2 DEF Attached, InService
<1>4. CASE bus' = bus
  BY <1>1, <1>4, StutterStep
<1>5. CASE NewAdd(t, f) /\ bus' # bus
  <2>1. ~ OnBus(key[t]) /\ bus' = bus \cup {<<key[t], f>>}
    BY <1>5 DEF NewAdd
  <2>2. Registry!Register(key[t], f)
    BY <1>3, <2>1 DEF Registry!Register, OnBus, Attached
  <2> QED
    BY <1>2, <2>2 DEF Registry!Next
<1>6. CASE DelUnregister(t, f)
  <2>1. tpc[t] = "del_unreg" /\ bus' = bus \ {<<key[t], f>>}
    BY <1>6 DEF DelUnregister
  <2>2. <<key[t], f>> \in bus
    BY <1>2, <2>1 DEF ServiceInv, BusInv, BusInvOf, InHand, HandPC
  <2>3. Registry!Unregister(key[t], f)
    BY <1>3, <2>1, <2>2 DEF Registry!Unregister, Attached
  <2> QED
    BY <1>2, <2>3 DEF Registry!Next
<1> QED
  BY <1>4, <1>5, <1>6 DEF Working, NewCheck, NewLink, DelFind

\* Every step of the driver is one step of the registry or none: sub-devices
\* are registered one at a time, under system-wide unique names, on attached
\* FPGAs only, and an FPGA is detached when its last sub-device is gone.
THEOREM RefinementCorrect ==
  ASSUME HOT_UNBIND = FALSE
  PROVE  Spec => ImplementsRegistry
<1>1. Init => Registry!Init
  BY DEF Init, Registry!Init, InService, RemovePC
<1>2. TypeOK /\ ServiceInv /\ [Next]_vars => [Registry!Next]_(Registry!vars)
  <2> SUFFICES ASSUME TypeOK, ServiceInv, [Next]_vars
               PROVE  [Registry!Next]_(Registry!vars)
    OBVIOUS
  <2>1. ASSUME UNCHANGED <<pc, bus>>
        PROVE  [Registry!Next]_(Registry!vars)
    BY <2>1, StutterStep
  <2>2. CASE BeginRmmod \/ Reload \/ UNCHANGED vars
    BY <2>1, <2>2 DEF BeginRmmod, Reload, vars, drvVars, auxVars
  <2>3. CASE \E t \in Thread :
               \/ Close(t)
               \/ \E k \in Key : Ioctl(t, k)
               \/ \E f \in FPGA : Open(t, f) \/ (file[t] = f /\ Locking(t, f))
    BY <2>1, <2>3 DEF Close, Ioctl, Open, Locking, NewLock, DelLock, drvVars, auxVars
  <2> QED
    BY <2>2, <2>3, DriverRefines, UserRefines DEF Next
<1> QED
  BY <1>1, <1>2, ServiceCorrect, PTL DEF Spec, ImplementsRegistry, Registry!Spec

\* What the registry promises to whoever relies on it: sub-devices exist on
\* attached FPGAs only, and a name denotes one of them.
THEOREM RegistryCorrect ==
  Registry!Spec => [](Registry!OnAttachedOnly /\ Registry!NamesUnique)
<1> DEFINE Inv == Registry!TypeOK /\ Registry!OnAttachedOnly /\ Registry!NamesUnique
<1> USE DEF Registry!TypeOK, Registry!OnAttachedOnly, Registry!NamesUnique
<1>1. Registry!Init => Inv
  BY DEF Registry!Init
<1>2. Inv /\ [Registry!Next]_(Registry!vars) => Inv'
  <2> SUFFICES ASSUME Inv, [Registry!Next]_(Registry!vars) PROVE Inv'
    OBVIOUS
  <2>1. ASSUME NEW f \in FPGA, Registry!Attach(f) PROVE Inv'
    BY <2>1 DEF Registry!Attach
  <2>2. ASSUME NEW f \in FPGA, Registry!Detach(f) PROVE Inv'
    <3>1. \A p \in bus : p[2] # f
      BY <2>2 DEF Registry!Detach, Registry!DevicesOf
    <3> QED BY <2>2, <3>1 DEF Registry!Detach
  <2>3. ASSUME NEW f \in FPGA, NEW k \in Key, Registry!Register(k, f) PROVE Inv'
    <3>1. bus' = bus \cup {<<k, f>>} /\ Attached' = Attached /\ f \in Attached
      BY <2>3 DEF Registry!Register, Attached
    <3>2. Registry!TypeOK' /\ Registry!OnAttachedOnly'
      BY <3>1 DEF Attached
    <3>3. Registry!NamesUnique'
      BY <2>3, <3>1 DEF Registry!Register
    <3> QED BY <3>2, <3>3
  <2>4. ASSUME NEW f \in FPGA, NEW k \in Key, Registry!Unregister(k, f) PROVE Inv'
    BY <2>4 DEF Registry!Unregister
  <2>5. CASE UNCHANGED Registry!vars
    BY <2>5 DEF Registry!vars
  <2> QED BY <2>1, <2>2, <2>3, <2>4, <2>5 DEF Registry!Next
<1> QED BY <1>1, <1>2, PTL DEF Registry!Spec

\* So the driver keeps that promise as long as nobody unbinds a bound FPGA by hand:
\* no auxiliary device on an FPGA that is not in service, and no two of one name.
THEOREM DevicesCorrect ==
  ASSUME HOT_UNBIND = FALSE
  PROVE  Spec => [](Registry!OnAttachedOnly /\ Registry!NamesUnique)
<1>1. Spec => Registry!Spec
  BY RefinementCorrect DEF ImplementsRegistry
<1> QED BY <1>1, RegistryCorrect, PTL
=============================================================================
