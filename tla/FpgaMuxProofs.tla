---------------------------- MODULE FpgaMuxProofs ----------------------------
(***************************************************************************)
(* Theorems about FpgaMux for any number of muxes and callers and any number  *)
(* of channels; and about the tables that give a controller its mux and its    *)
(* interrupt (MasterIrq): no two controllers get the same one, in every table  *)
(* that is well formed.                                                     *)
(***************************************************************************)
EXTENDS FpgaMux, MasterIrq, TLAPS

\* A mux is listed from the end of its probe to the beginning of its removal, with
\* all its channels; links are gone before the first channel goes.
MuxOK(m) ==
  /\ m \in list <=> mpc[m] \in {"bound", "unlink"}
  /\ mpc[m] \in {"bound", "unlink", "unlinks"} => adapters[m] = CHANNELS[m]
  /\ mpc[m] \in {"deleting", "unbound"} => links[m] = {}
  /\ \A ch \in links[m] : ch < adapters[m]

MuxInv == \A m \in Mux : MuxOK(m)

OnBus == {"bus", "select", "transfer"}

\* A sibling holds the list lock from its search to its return, which keeps the
\* mux on the list; a direct caller never takes it.
CallerOK(c) ==
  /\ cpc[c] # "idle" => target[c] \in Mux \X (0 .. 8)
  /\ c \in Direct => cpc[c] \notin {"lookup", "search"}
  /\ c \in Sibling => (listLock = c <=> cpc[c] \notin {"idle", "lookup"})
  /\ c \in Sibling /\ cpc[c] \in OnBus => Wants(c) \in list
  /\ cpc[c] \in OnBus => target[c][2] < adapters[Wants(c)]

CallerInv == \A c \in Caller : CallerOK(c)

\* The parent bus belongs to who has selected a channel, and the register is his.
BusOK(c) ==
  /\ cpc[c] \in {"select", "transfer"} => bus[Wants(c)] = c
  /\ cpc[c] = "transfer" => reg[Wants(c)] = target[c][2]

BusInv == \A c \in Caller : BusOK(c)

\* The inductive invariant.
IInv == TypeOK /\ MuxInv /\ CallerInv /\ BusInv

-----------------------------------------------------------------------------
LEMMA ChannelsFact ==
  ASSUME NEW m \in Mux
  PROVE  CHANNELS[m] \in 1 .. 8
  BY MuxesOK

\* Nobody is both.
LEMMA KindsApart ==
  /\ \A c \in Caller : c # Nobody /\ c \notin Mux
  /\ \A c \in Caller : c \in Direct <=> c \notin Sibling
  /\ Nobody \notin Mux
  BY MuxesOK DEF Caller

LEMMA InitInv == Init => IInv
<1> SUFFICES ASSUME Init PROVE IInv
  OBVIOUS
<1> USE DEF Init
<1>1. TypeOK
  <2>1. /\ mpc \in [Mux -> MuxPC] /\ cpc \in [Caller -> CallerPC]
        /\ links \in [Mux -> SUBSET Channel] /\ reg \in [Mux -> Channel]
    BY DEF MuxPC, CallerPC, Channel
  <2>2. adapters \in [Mux -> 0 .. 8] /\ \A m \in Mux : adapters[m] <= CHANNELS[m]
    BY ChannelsFact
  <2> QED BY <2>1, <2>2 DEF TypeOK
<1>2. MuxInv
  BY DEF MuxInv, MuxOK
<1>3. CallerInv
  BY KindsApart DEF CallerInv, CallerOK, OnBus, Caller
<1>4. BusInv
  BY DEF BusInv, BusOK
<1> QED BY <1>1, <1>2, <1>3, <1>4 DEF IInv

-----------------------------------------------------------------------------
(* The thread that probes or removes a mux.                                 *)

MuxAction(m) == BeginProbe(m) \/ BeginRemove(m) \/ MuxStep(m)

LEMMA MuxType ==
  ASSUME TypeOK, NEW m \in Mux, MuxAction(m) PROVE TypeOK'
<1> USE DEF TypeOK, Go, MuxPC, callVars
<1>1. CASE BeginProbe(m)
  BY <1>1 DEF BeginProbe
<1>2. CASE BeginRemove(m)
  BY <1>2 DEF BeginRemove
<1>3. CASE AddAdapter(m)
  <2>1. CASE UNCHANGED <<adapters, links>>
    BY <1>3, <2>1 DEF AddAdapter
  <2>2. CASE /\ adapters' = [adapters EXCEPT ![m] = @ + 1]
             /\ links' = [links EXCEPT ![m] = @ \cup {adapters[m]}] \/ links' = links
             /\ UNCHANGED mpc
    <3>1. adapters[m] \in Channel /\ adapters[m] + 1 \in 0 .. 8 /\ adapters[m] + 1 <= CHANNELS[m]
      BY <1>3, ChannelsFact DEF AddAdapter, Channel
    <3>2. adapters' \in [Mux -> 0 .. 8] /\ \A n \in Mux : adapters'[n] <= CHANNELS[n]
      BY <2>2, <3>1
    <3>3. links' \in [Mux -> SUBSET Channel]
      BY <2>2, <3>1
    <3> QED BY <1>3, <2>2, <3>2, <3>3 DEF AddAdapter
  <2> QED BY <1>3, <2>1, <2>2 DEF AddAdapter
<1>4. CASE UnwindProbe(m)
  BY <1>4 DEF UnwindProbe
<1>5. CASE Publish(m)
  BY <1>5 DEF Publish
<1>6. CASE Unlink(m)
  BY <1>6 DEF Unlink
<1>7. CASE RemoveLinks(m)
  BY <1>7 DEF RemoveLinks
<1>8. CASE DeleteAdapter(m)
  <2>1. adapters[m] - 1 \in 0 .. 8 /\ adapters[m] - 1 <= CHANNELS[m]
    BY <1>8, ChannelsFact DEF DeleteAdapter
  <2> QED BY <1>8, <2>1 DEF DeleteAdapter
<1>9. CASE Unbound(m)
  BY <1>9 DEF Unbound
<1> QED BY <1>1, <1>2, <1>3, <1>4, <1>5, <1>6, <1>7, <1>8, <1>9 DEF MuxAction, MuxStep

\* It disturbs no other mux.
LEMMA MuxOthers ==
  ASSUME TypeOK, MuxInv, NEW m \in Mux, MuxAction(m)
  PROVE  \A n \in Mux \ {m} : MuxOK(n)'
<1>1. \A n \in Mux \ {m} : /\ mpc'[n] = mpc[n] /\ adapters'[n] = adapters[n]
                           /\ links'[n] = links[n] /\ (n \in list' <=> n \in list)
  BY DEF TypeOK, MuxAction, MuxStep, BeginProbe, BeginRemove, AddAdapter, UnwindProbe, Publish,
         Unlink, RemoveLinks, DeleteAdapter, Unbound, Go
<1> QED BY <1>1 DEF MuxInv, MuxOK

LEMMA MuxKeepsMux ==
  ASSUME TypeOK, MuxInv, NEW m \in Mux, MuxAction(m) PROVE MuxInv'
<1>0. MuxOK(m) /\ adapters[m] \in 0 .. 8 /\ \A ch \in links[m] : ch \in Nat
  BY DEF MuxInv, TypeOK, Channel
<1>1. MuxOK(m)'
  <2> USE <1>0 DEF TypeOK, Go, MuxOK
  <2>1. CASE BeginProbe(m)
    BY <2>1 DEF BeginProbe
  <2>2. CASE BeginRemove(m)
    BY <2>2 DEF BeginRemove
  <2>3. CASE AddAdapter(m)
    <3>1. mpc[m] = "adding" /\ list' = list
      BY <2>3 DEF AddAdapter
    <3>2. CASE mpc' = [mpc EXCEPT ![m] = "failing"] /\ UNCHANGED <<adapters, links>>
      BY <3>1, <3>2
    <3>3. CASE /\ adapters' = [adapters EXCEPT ![m] = @ + 1]
               /\ links' = [links EXCEPT ![m] = @ \cup {adapters[m]}] \/ links' = links
               /\ UNCHANGED mpc
      <4>1. links'[m] \subseteq links[m] \cup {adapters[m]} /\ adapters'[m] = adapters[m] + 1
        BY <3>3
      <4>2. \A ch \in links'[m] : ch < adapters'[m]
        BY <4>1
      <4> QED BY <3>1, <3>3, <4>2
    <3> QED BY <2>3, <3>2, <3>3 DEF AddAdapter
  <2>4. CASE UnwindProbe(m)
    BY <2>4 DEF UnwindProbe
  <2>5. CASE Publish(m)
    BY <2>5 DEF Publish
  <2>6. CASE Unlink(m)
    BY <2>6 DEF Unlink
  <2>7. CASE RemoveLinks(m)
    BY <2>7 DEF RemoveLinks
  <2>8. CASE DeleteAdapter(m)
    BY <2>8 DEF DeleteAdapter
  <2>9. CASE Unbound(m)
    BY <2>9 DEF Unbound
  <2> QED BY <2>1, <2>2, <2>3, <2>4, <2>5, <2>6, <2>7, <2>8, <2>9 DEF MuxAction, MuxStep
<1> QED BY <1>1, MuxOthers DEF MuxInv

\* It takes no channel away that a caller uses: a sibling holds the list lock, and
\* a direct caller a reference.
LEMMA MuxKeepsCallers ==
  ASSUME TypeOK, MuxInv, CallerInv, NEW m \in Mux, MuxAction(m)
  PROVE  CallerInv' /\ UNCHANGED callVars
<1>1. UNCHANGED <<listLock, callVars>>
  BY DEF MuxAction, MuxStep, BeginProbe, BeginRemove, AddAdapter, UnwindProbe, Publish, Unlink,
         RemoveLinks, DeleteAdapter, Unbound
<1>2. ASSUME NEW c \in Caller, cpc[c] \in OnBus
      PROVE  /\ c \in Sibling => Wants(c) \in list'
             /\ target[c][2] < adapters'[Wants(c)]
  <2>0. /\ CallerOK(c) /\ Wants(c) \in Mux /\ target[c] = <<Wants(c), target[c][2]>>
        /\ target[c][2] \in 0 .. 8 /\ adapters[Wants(c)] \in 0 .. 8
    BY <1>2 DEF CallerInv, CallerOK, Wants, OnBus, TypeOK
  <2>1. c \in Sibling => listLock = c /\ Wants(c) \in list
    BY <1>2, <2>0 DEF CallerOK, OnBus
  <2>2. CASE Unlink(m)
    <3>1. c \notin Sibling /\ adapters' = adapters
      BY <2>1, <2>2, KindsApart DEF Unlink
    <3> QED BY <1>2, <2>0, <3>1 DEF CallerOK
  <2>3. CASE DeleteAdapter(m)
    <3>1. list' = list /\ mpc[m] = "deleting" /\ m \notin list
      BY <2>3 DEF DeleteAdapter, MuxInv, MuxOK
    <3>2. CASE Wants(c) # m
      BY <1>2, <2>0, <2>1, <2>3, <3>1, <3>2 DEF DeleteAdapter, CallerOK, TypeOK
    <3>3. CASE Wants(c) = m
      <4>1. c \in Direct
        BY <2>1, <3>1, <3>3, KindsApart
      <4>2. target[c] # <<m, adapters[m] - 1>>
        BY <1>2, <2>3, <4>1 DEF DeleteAdapter, Referenced, OnBus
      <4>3. target[c][2] # adapters[m] - 1
        BY <2>0, <3>3, <4>2
      <4>4. adapters'[m] = adapters[m] - 1
        BY <2>3 DEF DeleteAdapter, TypeOK
      <4> QED BY <1>2, <2>0, <3>3, <4>1, <4>3, <4>4, KindsApart DEF CallerOK
    <3> QED BY <3>2, <3>3
  <2>4. CASE AddAdapter(m)
    <3>1. list' = list /\ \A n \in Mux : adapters'[n] >= adapters[n]
      BY <2>4 DEF AddAdapter, TypeOK
    <3>2. adapters'[Wants(c)] \in 0 .. 8
      BY <2>0, MuxType DEF TypeOK
    <3> QED BY <1>2, <2>0, <2>1, <3>1, <3>2 DEF CallerOK
  <2>5. CASE BeginProbe(m) \/ BeginRemove(m) \/ UnwindProbe(m) \/ Publish(m)
             \/ RemoveLinks(m) \/ Unbound(m)
    <3>1. adapters' = adapters /\ list \subseteq list'
      BY <2>5 DEF BeginProbe, BeginRemove, UnwindProbe, Publish, RemoveLinks, Unbound
    <3> QED BY <1>2, <2>0, <2>1, <3>1 DEF CallerOK
  <2> QED BY <2>2, <2>3, <2>4, <2>5 DEF MuxAction, MuxStep
<1>3. ASSUME NEW c \in Caller PROVE CallerOK(c)'
  BY <1>1, <1>2 DEF CallerInv, CallerOK, callVars, Wants, OnBus
<1> QED BY <1>1, <1>3 DEF CallerInv

-----------------------------------------------------------------------------
(* The callers.                                                             *)

CallerAction(c) == Call(c) \/ CallerStep(c)

\* A caller changes no mux but for the register.
LEMMA CallerFrame ==
  ASSUME NEW c \in Caller, CallerAction(c) PROVE UNCHANGED <<muxVars, list, coreLock>>
  BY DEF CallerAction, CallerStep, Call, Lookup, Search, LockBus, Select, Transferred, Return

LEMMA CallerType ==
  ASSUME TypeOK, CallerInv, NEW c \in Caller, CallerAction(c) PROVE TypeOK'
<1> USE DEF TypeOK, At, CallerPC, muxVars
<1>0. CallerOK(c)
  BY DEF CallerInv
<1>1. CASE Call(c)
  BY <1>1 DEF Call
<1>2. CASE Lookup(c)
  <2>1. c \in Sibling
    BY <1>0, <1>2, KindsApart DEF Lookup, CallerOK
  <2> QED BY <1>2, <2>1 DEF Lookup
<1>3. CASE Search(c)
  BY <1>3 DEF Search
<1>4. CASE LockBus(c)
  <2>1. Wants(c) \in Mux
    BY <1>0, <1>4 DEF LockBus, CallerOK, Wants
  <2> QED BY <1>4, <2>1 DEF LockBus
<1>5. CASE Select(c)
  <2>1. Wants(c) \in Mux /\ target[c][2] \in 0 .. 8
    BY <1>0, <1>5 DEF Select, CallerOK, Wants
  <2>2. target[c][2] % 8 \in Channel
    BY <2>1 DEF Channel
  <2> QED BY <1>5, <2>1, <2>2 DEF Select
<1>6. CASE Transferred(c)
  <2>1. Wants(c) \in Mux
    BY <1>0, <1>6 DEF Transferred, CallerOK, Wants
  <2> QED BY <1>6, <2>1 DEF Transferred
<1>7. CASE Return(c)
  BY <1>7 DEF Return
<1> QED BY <1>1, <1>2, <1>3, <1>4, <1>5, <1>6, <1>7 DEF CallerAction, CallerStep

\* A caller leaves the others where they are.
LEMMA CallerOthers ==
  ASSUME TypeOK, CallerInv, NEW c \in Caller, CallerAction(c), NEW e \in Caller, e # c
  PROVE  /\ cpc'[e] = cpc[e] /\ target'[e] = target[e]
         /\ CallerOK(e)'
<1>1. cpc'[e] = cpc[e] /\ target'[e] = target[e]
  BY DEF TypeOK, At, CallerAction, CallerStep, Call, Lookup, Search, LockBus, Select,
         Transferred, Return
<1>2. adapters' = adapters /\ list' = list
  BY CallerFrame DEF muxVars
<1>3. e \in Sibling => (listLock' = e <=> listLock = e)
  BY KindsApart DEF CallerInv, CallerOK, CallerAction, CallerStep, Call, Lookup, Search, LockBus,
     Select, Transferred, Return
<1> QED BY <1>1, <1>2, <1>3 DEF CallerInv, CallerOK, Wants

LEMMA CallerKeepsCallers ==
  ASSUME TypeOK, MuxInv, CallerInv, NEW c \in Caller, CallerAction(c) PROVE CallerInv'
<1>0. CallerOK(c) /\ adapters' = adapters /\ list' = list
  BY CallerFrame DEF CallerInv, muxVars
<1>1. CallerOK(c)'
  <2> USE <1>0, KindsApart DEF CallerOK, OnBus, Wants, At, TypeOK
  <2>1. CASE Call(c)
    <3>1. PICK m \in Mux, ch \in 0 .. 8 :
            /\ c \in Direct => ch < adapters[m]
            /\ target' = [target EXCEPT ![c] = <<m, ch>>]
      BY <2>1 DEF Call
    <3>2. target'[c] = <<m, ch>> /\ listLock' = listLock
      BY <2>1, <3>1 DEF Call
    <3>3. cpc'[c] = IF c \in Direct THEN "bus" ELSE "lookup"
      BY <2>1 DEF Call
    <3> QED BY <2>1, <3>1, <3>2, <3>3 DEF Call
  <2>2. CASE Lookup(c)
    BY <2>2 DEF Lookup
  <2>3. CASE Search(c)
    BY <2>3 DEF Search
  <2>4. CASE LockBus(c)
    BY <2>4 DEF LockBus
  <2>5. CASE Select(c)
    BY <2>5 DEF Select
  <2>6. CASE Transferred(c)
    BY <2>6 DEF Transferred
  <2>7. CASE Return(c)
    BY <2>7 DEF Return
  <2> QED BY <2>1, <2>2, <2>3, <2>4, <2>5, <2>6, <2>7 DEF CallerAction, CallerStep
<1> QED BY <1>1, CallerOthers DEF CallerInv

\* The bus and the register of a mux are left alone by all but their owner.
LEMMA CallerKeepsBus ==
  ASSUME TypeOK, CallerInv, BusInv, NEW c \in Caller, CallerAction(c) PROVE BusInv'
<1>0. CallerOK(c) /\ BusOK(c)
  BY DEF CallerInv, BusInv
<1>1. cpc[c] # "idle" => Wants(c) \in Mux
  BY <1>0 DEF CallerOK, Wants
<1>2. BusOK(c)'
  <2> USE <1>0, <1>1 DEF BusOK, Wants, At, TypeOK
  <2>1. CASE Call(c)
    BY <2>1 DEF Call
  <2>2. CASE Lookup(c) \/ Search(c) \/ Return(c)
    BY <2>2 DEF Lookup, Search, Return
  <2>3. CASE LockBus(c)
    BY <2>3 DEF LockBus
  <2>4. CASE Select(c)
    <3>1. target[c] \in Mux \X (0 .. 8) /\ target[c][2] < adapters[Wants(c)]
      BY <2>4 DEF Select, CallerOK, OnBus
    <3>2. adapters[Wants(c)] \in 0 .. 8
      BY <3>1
    <3>3. target[c][2] % 8 = target[c][2]
      BY <3>1, <3>2
    <3>4. Wants(c) = target[c][1] /\ Wants(c) \in Mux
      BY <3>1
    <3>5. target' = target /\ bus' = bus /\ cpc'[c] = "transfer" /\ cpc[c] = "select"
      BY <2>4 DEF Select
    <3>6. reg'[Wants(c)] = target[c][2]
      BY <2>4, <3>3, <3>4 DEF Select
    <3> QED BY <3>5, <3>6
  <2>5. CASE Transferred(c)
    BY <2>5 DEF Transferred
  <2> QED BY <2>1, <2>2, <2>3, <2>4, <2>5 DEF CallerAction, CallerStep
<1>3. ASSUME NEW e \in Caller, e # c
      PROVE  BusOK(e)'
  <2>1. cpc'[e] = cpc[e] /\ target'[e] = target[e] /\ BusOK(e)
    BY <1>3, CallerOthers DEF BusInv
  <2>2. ASSUME cpc[e] \in {"select", "transfer"}
        PROVE  bus'[Wants(e)] = e /\ reg'[Wants(e)] = reg[Wants(e)]
    <3>1. bus[Wants(e)] = e /\ e # Nobody /\ e # c
      BY <1>3, <2>1, <2>2, KindsApart DEF BusOK
    <3>2. cpc[c] \in {"select", "transfer"} => Wants(c) # Wants(e)
      BY <1>0, <3>1 DEF BusOK
    <3>3. CASE LockBus(c)
      <4>1. Wants(c) # Wants(e) /\ bus' = [bus EXCEPT ![Wants(c)] = c] /\ reg' = reg
        BY <3>1, <3>3 DEF LockBus
      <4> QED BY <3>1, <4>1
    <3>4. CASE Select(c)
      <4>1. Wants(c) # Wants(e) /\ bus' = bus
        BY <3>2, <3>4 DEF Select
      <4> QED BY <3>1, <3>4, <4>1 DEF Select
    <3>5. CASE Transferred(c)
      <4>1. Wants(c) # Wants(e) /\ reg' = reg
        BY <3>2, <3>5 DEF Transferred
      <4> QED BY <3>1, <3>5, <4>1 DEF Transferred
    <3>6. CASE Call(c) \/ Lookup(c) \/ Search(c) \/ Return(c)
      BY <3>1, <3>6 DEF Call, Lookup, Search, Return
    <3> QED BY <3>3, <3>4, <3>5, <3>6 DEF CallerAction, CallerStep
  <2> QED BY <2>1, <2>2 DEF BusOK, Wants
<1> QED BY <1>2, <1>3 DEF BusInv

-----------------------------------------------------------------------------
(* The theorems.                                                            *)

LEMMA NextInv == IInv /\ [Next]_vars => IInv'
<1> SUFFICES ASSUME IInv, [Next]_vars PROVE IInv'
  OBVIOUS
<1> USE DEF IInv
<1>1. ASSUME NEW m \in Mux, MuxAction(m) PROVE IInv'
  <2>1. CallerInv' /\ UNCHANGED callVars
    BY <1>1, MuxKeepsCallers
  <2>2. BusInv'
    BY <2>1 DEF BusInv, BusOK, callVars, Wants
  <2> QED BY <1>1, <2>1, <2>2, MuxType, MuxKeepsMux
<1>2. ASSUME NEW c \in Caller, CallerAction(c) PROVE IInv'
  <2>1. MuxInv'
    BY <1>2, CallerFrame DEF MuxInv, MuxOK, muxVars
  <2> QED BY <1>2, <2>1, CallerType, CallerKeepsCallers, CallerKeepsBus
<1>3. CASE UNCHANGED vars
  BY <1>3 DEF vars, muxVars, callVars, TypeOK, MuxInv, MuxOK, CallerInv, CallerOK, BusInv, BusOK,
              Wants
<1> QED BY <1>1, <1>2, <1>3 DEF Next, MuxAction, CallerAction

LEMMA IInvCorrect == Spec => []IInv
<1> QED BY InitInv, NextInv, PTL DEF Spec

\* The muxes, their locks and the callers keep their types.
THEOREM FpgaMuxTypeCorrect == Spec => []TypeOK
<1>1. IInv => TypeOK
  BY DEF IInv
<1> QED BY <1>1, IInvCorrect, PTL

\* "an entry still on the list is guaranteed to have live" channels, all of them,
\* and no link outlives its channel, however probes, removals and calls interleave.
THEOREM ListedMuxCorrect == Spec => []ListedMuxIsComplete
<1>1. IInv => ListedMuxIsComplete
  BY DEF IInv, TypeOK, MuxInv, MuxOK, ListedMuxIsComplete
<1> QED BY <1>1, IInvCorrect, PTL

\* No removal deletes the channel under a transfer, whether the caller came by the
\* list or holds the channel itself.
THEOREM LiveChannelCorrect == Spec => []TransferOnLiveChannel
<1>1. IInv => TransferOnLiveChannel
  BY DEF IInv, CallerInv, CallerOK, OnBus, TransferOnLiveChannel
<1> QED BY <1>1, IInvCorrect, PTL

\* The channel that was asked for is the one that is selected while its transfer
\* is on the wire, for every mux of up to eight channels.
THEOREM ChannelSelectedCorrect == Spec => []ChannelSelected
<1>1. IInv => ChannelSelected
  BY DEF IInv, BusInv, BusOK, ChannelSelected
<1> QED BY <1>1, IInvCorrect, PTL

-----------------------------------------------------------------------------
(* Interrupts and muxes.                                                    *)

LEMMA IndexType ==
  ASSUME NEW o \in Nat, o >= CsrBase
  PROVE  MasterIndex(o) \in Nat
  BY DEF MasterIndex, CsrBase, CsrSize

\* Masters are numbered by their windows of the CSR space.
LEMMA IndexOfWindow ==
  ASSUME NEW o \in Nat, o >= CsrBase, NEW m \in Nat
  PROVE  MasterIndex(o) = m <=> o \in Window(m)
  BY DEF MasterIndex, Window, CsrBase, CsrSize

\* Tables of n domains in which no two serve the same master.
DomainsOK(ds, n) ==
  /\ DOMAIN ds = 1 .. n
  /\ \A i \in 1 .. n : DomainOK(ds[i])
  /\ \A i, j \in 1 .. n, m \in Nat : Serves(ds[i], m) /\ Serves(ds[j], m) => i = j

\* The domain that decides is the one that serves the master.
LEMMA ResolveServes ==
  ASSUME NEW ds, NEW n \in Nat, DomainsOK(ds, n), NEW o \in Nat, Resolve(ds, o) # NoIrq
  PROVE  /\ o >= CsrBase
         /\ \E i \in 1 .. n :
              /\ Serves(ds[i], MasterIndex(o))
              /\ Resolve(ds, o) = <<i, HwIrq(ds[i], MasterIndex(o))>>
<1> DEFINE m == MasterIndex(o)
           hit == {i \in DOMAIN ds : Serves(ds[i], m)}
           least == CHOOSE i \in hit : \A j \in hit : i <= j
<1>1. ~ (o < CsrBase \/ hit = {})
  BY DEF Resolve
<1>2. Resolve(ds, o) = <<least, HwIrq(ds[least], m)>>
  BY <1>1 DEF Resolve
<1>3. o >= CsrBase /\ m \in Nat
  BY <1>1, IndexType DEF CsrBase
<1>4. PICK i \in 1 .. n : Serves(ds[i], m)
  BY <1>1 DEF DomainsOK
<1>5. hit = {i}
  BY <1>3, <1>4 DEF DomainsOK
<1>6. least = i
  <2> HIDE DEF hit
  <2>1. i \in hit /\ \A j \in hit : i <= j
    BY <1>5
  <2> QED BY <1>5, <2>1
<1> QED BY <1>2, <1>3, <1>4, <1>6

\* Within one domain, masters have different bits: nothing wraps.
LEMMA HwIrqInjective ==
  ASSUME NEW dom, DomainOK(dom), NEW m \in Nat, NEW k \in Nat,
         Serves(dom, m), Serves(dom, k), HwIrq(dom, m) = HwIrq(dom, k)
  PROVE  m = k
<1>1. ASSUME NEW j \in Nat, Serves(dom, j)
      PROVE  HwIrq(dom, j) = dom.first_hw_irq + (j - dom.first_master)
  <2>1. dom.first_hw_irq + (j - dom.first_master) \in 0 .. 31
    BY <1>1 DEF DomainOK, Serves
  <2> QED BY <2>1 DEF HwIrq
<1> QED BY <1>1 DEF DomainOK, Serves

\* "ties the IRQ to the MMIO window": two controllers that are given the same
\* interrupt lie in the same window, whatever the platform's table, provided
\* that its domains do not overlap and fit their registers.
THEOREM IrqsNotShared ==
  ASSUME NEW ds, NEW n \in Nat, DomainsOK(ds, n), NEW o \in Nat, NEW u \in Nat,
         Resolve(ds, o) # NoIrq, Resolve(ds, o) = Resolve(ds, u)
  PROVE  \E m \in Nat : o \in Window(m) /\ u \in Window(m)
<1>1. PICK i \in 1 .. n : /\ Serves(ds[i], MasterIndex(o))
                          /\ Resolve(ds, o) = <<i, HwIrq(ds[i], MasterIndex(o))>>
  BY ResolveServes
<1>0. Resolve(ds, u) # NoIrq
  OBVIOUS
<1>2. PICK j \in 1 .. n : /\ Serves(ds[j], MasterIndex(u))
                          /\ Resolve(ds, u) = <<j, HwIrq(ds[j], MasterIndex(u))>>
  BY <1>0, ResolveServes
<1>3. o >= CsrBase /\ u >= CsrBase
  BY <1>0, ResolveServes
<1>4. i = j /\ HwIrq(ds[i], MasterIndex(o)) = HwIrq(ds[i], MasterIndex(u))
  <2>1. <<i, HwIrq(ds[i], MasterIndex(o))>> = <<j, HwIrq(ds[j], MasterIndex(u))>>
    BY <1>1, <1>2
  <2>2. i = j /\ HwIrq(ds[i], MasterIndex(o)) = HwIrq(ds[j], MasterIndex(u))
    <3> HIDE DEF HwIrq
    <3> QED BY <2>1
  <2> QED BY <2>2
<1>5. MasterIndex(o) \in Nat /\ MasterIndex(u) \in Nat
  BY <1>3, IndexType
<1>6. MasterIndex(o) = MasterIndex(u)
  BY <1>1, <1>2, <1>4, <1>5, HwIrqInjective DEF DomainsOK
<1>7. o \in Window(MasterIndex(o)) /\ u \in Window(MasterIndex(o))
  BY <1>3, <1>5, <1>6, IndexOfWindow
<1> QED BY <1>5, <1>7

\* "creating phantom muxes": no two controllers are given the same mux, as the
\* former index, the master id modulo 10, allowed.
THEOREM MuxesNotShared ==
  ASSUME NEW p, NEW o \in Nat, NEW u \in Nat,
         MuxRowsOf(p, o) \cap MuxRowsOf(p, u) # {}
  PROVE  o = u
<1>1. PICK r \in MuxTable[p] : /\ r \in MuxRowsOf(p, o) /\ r \in MuxRowsOf(p, u)
  BY DEF MuxRowsOf
<1>2. MasterIndex(o) = MasterIndex(u)
  BY <1>1 DEF MuxRowsOf
<1>3. /\ o >= CsrBase /\ (o - CsrBase) % CsrSize = 0
      /\ u >= CsrBase /\ (u - CsrBase) % CsrSize = 0
  BY <1>1 DEF MuxRowsOf, CsrBase
<1> QED BY <1>2, <1>3 DEF MasterIndex, CsrBase, CsrSize
=============================================================================
