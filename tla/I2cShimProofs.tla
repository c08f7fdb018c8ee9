---------------------------- MODULE I2cShimProofs ----------------------------
(***************************************************************************)
(* Theorems about I2cShim for any number of channels, bus numbers, clients   *)
(* and failing calls.  All but type correctness speak of a behaviour up to the *)
(* first overlap of the shim's operations with those of xiic (order): beyond  *)
(* it a freed client may be unregistered, as the run of that race shows.      *)
(***************************************************************************)
EXTENDS I2cShim, TLAPS

\* The threads that register and delete the master adapter.
Owner == {"shim", "xiic"}

\* What an owner is doing: registering the adapter and its client, unregistering
\* a client, deleting the adapter with its client.
UnregPC == {"kill", "notify", "unbind_mux", "free"}
MuxPC == {"add_channels", "drop_channels"}
Unregisters(t) == pc[t] \in UnregPC \/ (pc[t] = "drop_channels" /\ unreg[t] # None)
Offers(t) ==
  \/ pc[t] \in {"probe_client", "add_channels", "set_client"}
  \/ pc[t] = "drop_channels" /\ unreg[t] = None
Registers(t) == pc[t] \in {"register", "new_client", "registered"} \/ Offers(t)
Deletes(t) ==
  pc[t] \in {"del_clients", "del_adapter"} \/ (Unregisters(t) /\ back[t] = "del_adapter")

\* The shim before it has a platform device or when it has none any more; the
\* shim in its own part of remove().
Without == pc["shim"] \in {"idle", "probe", "finish"}
Removes ==
  \/ pc["shim"] \in {"drop_links", "read_client", "unregister_pdev"}
  \/ Unregisters("shim") /\ back["shim"] = "unregister_pdev"

\* While order is "apart" only one owner is at work, and xiic only below a bound shim.
PcInv ==
  /\ pc["mux"] \in {"idle"} \cup MuxPC /\ unreg["mux"] = None
  /\ pc["xiic"] # "idle" => (Registers("xiic") \/ Deletes("xiic")) /\ pc["shim"] = "bound"
  /\ Without \/ pc["shim"] = "bound" \/ Registers("shim") \/ Deletes("shim") \/ Removes
  /\ \A t \in Owner : unreg[t] # None <=> Unregisters(t)

\* Who holds the lock of the platform device, and that of the client.
LockInv ==
  /\ pdevLock = "xiic" <=> pc["xiic"] # "idle"
  /\ pdevLock = "shim" <=> Registers("shim") \/ Deletes("shim")
  /\ \A t \in Thread : clientLock = t <=> pc[t] \in MuxPC

\* The devices: each exists only below its parent, and one that is being
\* unregistered is the one that exists.
TreeInv ==
  /\ drvdata <=> pc["shim"] # "idle"
  /\ pdev <=> ~ (Without \/ Deletes("shim"))
  /\ Without => adapter = None
  /\ client # None => adapter # None
  /\ \A t \in Owner :
       /\ pc[t] = "register" => adapter = None
       /\ pc[t] \in {"new_client", "registered"} \/ Offers(t) \/ Deletes(t) => adapter # None
       /\ pc[t] \in {"new_client", "del_adapter"} => client = None
       /\ Offers(t) => client # None
       /\ unreg[t] # None => unreg[t] = client

\* nh_fpga_mux: bound to a client that exists; whoever has its lock is at work on
\* the channels, else there are all or none.  A client that is being deleted is
\* not bound again.
MuxInv ==
  /\ clientLock # Nobody \/ muxBound => client # None
  /\ clientLock = Nobody => chans = IF muxBound THEN CHANNELS ELSE 0
  /\ \A t \in Thread : pc[t] = "add_channels" => ~ muxBound
  /\ \A t \in Owner : Unregisters(t) /\ pc[t] # "kill" => dead
  /\ \A t \in Owner : pc[t] = "free" => ~ muxBound /\ clientLock = Nobody

\* What the shim knows of its client.
ClientInv ==
  /\ mux_client # None => mux_client = client
  /\ \A t \in Owner :
       Offers(t) \/ (Unregisters(t) /\ pc[t] \notin {"kill", "notify"}) => mux_client = None

\* The links, and the bus number by which the master's link is found.
LinkInv ==
  /\ LinksLive
  /\ \A n \in BusNumber : <<"i2c", n>> \in links => master_bus_num = n

\* Nothing is missing, until remove() drops the links, if no call has failed.
Linked == pc["shim"] \in {"bound", "drop_links"} \/ Registers("shim")
CompleteInv ==
  /\ faults = 0 /\ Linked /\ adapter # None => <<"i2c", adapter>> \in links
  /\ Linked => \A k \in 0 .. chans - 1 : <<"channel", k>> \in links
  /\ faults = 0 /\ CHANNELS > 0 /\ adapter # None /\
       (pc["shim"] = "registered" \/ pc["xiic"] = "registered" \/
        (pc["shim"] = "bound" /\ pc["xiic"] = "idle")) => mux_client # None

\* The inductive invariant.  order never becomes "apart" again.
Shape == PcInv /\ LockInv /\ TreeInv /\ MuxInv /\ ClientInv
IInv == TypeOK /\ (order = "apart" => Shape /\ LinkInv /\ CompleteInv)
-----------------------------------------------------------------------------
(* The steps.  Each lemma has a step for each action.                          *)

\* Types, whatever overlaps.
LEMMA TypeStep ==
  ASSUME TypeOK, [Next]_vars
  PROVE  TypeOK'
<1> USE DEF TypeOK, Thread, ProbePC, RemovePC, Go, Nobody, None, Link
<1>1. CASE ProbeShim
  <2>1. pc' \in [Thread -> {"idle", "bound"} \cup ProbePC \cup RemovePC]
    BY <1>1, ShimOK, SMT DEF ProbeShim, Fail, treeVars, Begins, Resting
  <2>2. /\ back' \in [Thread -> RemovePC] /\ unreg' \in [Thread -> ClientId \cup {None}]
        /\ mux_client' \in ClientId \cup {None}
        /\ master_bus_num' \in BusNumber \cup {None} /\ links' \subseteq Link
    BY <1>1, ShimOK, SMT DEF ProbeShim, Fail, treeVars, Begins, Resting
  <2>3. /\ pdevLock' \in {"shim", "xiic", Nobody}
        /\ adapter' \in BusNumber \cup {None} /\ client' \in ClientId \cup {None}
        /\ clientLock' \in Thread \cup {Nobody}
        /\ chans' \in 0 .. CHANNELS /\ faults' \in 0 .. MAX_FAULTS
        /\ order' \in {"apart", "overlapping"}
    BY <1>1, ShimOK, SMT DEF ProbeShim, Fail, treeVars, Begins, Resting
  <2>4. /\ drvdata' \in BOOLEAN /\ pdev' \in BOOLEAN
        /\ dead' \in BOOLEAN /\ muxBound' \in BOOLEAN
    BY <1>1, Zenon DEF ProbeShim, Fail, treeVars, Begins, Resting
  <2> QED BY <2>1, <2>2, <2>3, <2>4
<1>2. CASE AddPdev
  <2>1. pc' \in [Thread -> {"idle", "bound"} \cup ProbePC \cup RemovePC]
    BY <1>2, ShimOK, SMT DEF AddPdev, Fail
  <2>2. /\ back' \in [Thread -> RemovePC] /\ unreg' \in [Thread -> ClientId \cup {None}]
        /\ mux_client' \in ClientId \cup {None}
        /\ master_bus_num' \in BusNumber \cup {None} /\ links' \subseteq Link
    BY <1>2, ShimOK, SMT DEF AddPdev, Fail
  <2>3. /\ pdevLock' \in {"shim", "xiic", Nobody}
        /\ adapter' \in BusNumber \cup {None} /\ client' \in ClientId \cup {None}
        /\ clientLock' \in Thread \cup {Nobody}
        /\ chans' \in 0 .. CHANNELS /\ faults' \in 0 .. MAX_FAULTS
        /\ order' \in {"apart", "overlapping"}
    BY <1>2, ShimOK, SMT DEF AddPdev, Fail
  <2>4. /\ drvdata' \in BOOLEAN /\ pdev' \in BOOLEAN
        /\ dead' \in BOOLEAN /\ muxBound' \in BOOLEAN
    BY <1>2, Zenon DEF AddPdev, Fail
  <2> QED BY <2>1, <2>2, <2>3, <2>4
<1>3. CASE BindXiic
  BY <1>3, ShimOK, SMT DEF BindXiic, shimVars, Begins, Resting
<1>4. CASE BindMux
  BY <1>4, ShimOK, SMT DEF BindMux, shimVars
<1>5. CASE UnbindMux
  BY <1>5, ShimOK, SMT DEF UnbindMux, shimVars
<1>6. CASE RemoveShim
  BY <1>6, ShimOK, SMT DEF RemoveShim, shimVars, treeVars, Begins, Resting
<1>7. CASE DropLinks
  BY <1>7, ShimOK, SMT DEF DropLinks, treeVars
<1>8. CASE ReadClient
  BY <1>8, ShimOK, SMT DEF ReadClient, shimVars, treeVars
<1>9. CASE UnregisterPdev
  <2>1. pc' \in [Thread -> {"idle", "bound"} \cup ProbePC \cup RemovePC]
    BY <1>9, ShimOK, SMT DEF UnregisterPdev, shimVars
  <2>2. /\ back' \in [Thread -> RemovePC] /\ unreg' \in [Thread -> ClientId \cup {None}]
        /\ mux_client' \in ClientId \cup {None}
        /\ master_bus_num' \in BusNumber \cup {None} /\ links' \subseteq Link
    BY <1>9, ShimOK, SMT DEF UnregisterPdev, shimVars
  <2>3. /\ pdevLock' \in {"shim", "xiic", Nobody}
        /\ adapter' \in BusNumber \cup {None} /\ client' \in ClientId \cup {None}
        /\ clientLock' \in Thread \cup {Nobody}
        /\ chans' \in 0 .. CHANNELS /\ faults' \in 0 .. MAX_FAULTS
        /\ order' \in {"apart", "overlapping"}
    BY <1>9, ShimOK, SMT DEF UnregisterPdev, shimVars
  <2>4. /\ drvdata' \in BOOLEAN /\ pdev' \in BOOLEAN
        /\ dead' \in BOOLEAN /\ muxBound' \in BOOLEAN
    BY <1>9, Zenon DEF UnregisterPdev, shimVars
  <2> QED BY <2>1, <2>2, <2>3, <2>4
<1>10. CASE Finish
  <2>1. pc' \in [Thread -> {"idle", "bound"} \cup ProbePC \cup RemovePC]
    BY <1>10, ShimOK, SMT DEF Finish, treeVars
  <2>2. /\ back' \in [Thread -> RemovePC] /\ unreg' \in [Thread -> ClientId \cup {None}]
        /\ mux_client' \in ClientId \cup {None}
        /\ master_bus_num' \in BusNumber \cup {None} /\ links' \subseteq Link
    BY <1>10, ShimOK, SMT DEF Finish, treeVars
  <2>3. /\ pdevLock' \in {"shim", "xiic", Nobody}
        /\ adapter' \in BusNumber \cup {None} /\ client' \in ClientId \cup {None}
        /\ clientLock' \in Thread \cup {Nobody}
        /\ chans' \in 0 .. CHANNELS /\ faults' \in 0 .. MAX_FAULTS
        /\ order' \in {"apart", "overlapping"}
    BY <1>10, ShimOK, SMT DEF Finish, treeVars
  <2>4. /\ drvdata' \in BOOLEAN /\ pdev' \in BOOLEAN
        /\ dead' \in BOOLEAN /\ muxBound' \in BOOLEAN
    BY <1>10, Zenon DEF Finish, treeVars
  <2> QED BY <2>1, <2>2, <2>3, <2>4
<1>11. CASE UnbindXiic
  BY <1>11, ShimOK, SMT DEF UnbindXiic, shimVars, Begins, Resting
<1>12. ASSUME NEW t \in Thread, NotifyAddMaster(t) PROVE TypeOK'
  BY <1>12, ShimOK, SMT DEF NotifyAddMaster, Fail
<1>13. ASSUME NEW t \in Thread, NewClient(t) PROVE TypeOK'
  <2>1. pc' \in [Thread -> {"idle", "bound"} \cup ProbePC \cup RemovePC]
    BY <1>13, ShimOK, SMT DEF NewClient, Fail, shimVars
  <2>2. /\ back' \in [Thread -> RemovePC] /\ unreg' \in [Thread -> ClientId \cup {None}]
        /\ mux_client' \in ClientId \cup {None}
        /\ master_bus_num' \in BusNumber \cup {None} /\ links' \subseteq Link
    BY <1>13, ShimOK, SMT DEF NewClient, Fail, shimVars
  <2>3. /\ pdevLock' \in {"shim", "xiic", Nobody}
        /\ adapter' \in BusNumber \cup {None} /\ client' \in ClientId \cup {None}
        /\ clientLock' \in Thread \cup {Nobody}
        /\ chans' \in 0 .. CHANNELS /\ faults' \in 0 .. MAX_FAULTS
        /\ order' \in {"apart", "overlapping"}
    BY <1>13, ShimOK, SMT DEF NewClient, Fail, shimVars
  <2>4. /\ drvdata' \in BOOLEAN /\ pdev' \in BOOLEAN
        /\ dead' \in BOOLEAN /\ muxBound' \in BOOLEAN
    BY <1>13, Zenon DEF NewClient, Fail, shimVars
  <2> QED BY <2>1, <2>2, <2>3, <2>4
<1>14. ASSUME NEW t \in Thread, OfferClient(t) PROVE TypeOK'
  BY <1>14, ShimOK, SMT DEF OfferClient, shimVars
<1>15. ASSUME NEW t \in Thread, SetClient(t) PROVE TypeOK'
  BY <1>15, ShimOK, SMT DEF SetClient, treeVars
<1>16. ASSUME NEW t \in Thread, Registered(t) PROVE TypeOK'
  BY <1>16, ShimOK, SMT DEF Registered, shimVars, Rest
<1>17. ASSUME NEW t \in Thread, AddChannel(t) PROVE TypeOK'
  BY <1>17, ShimOK, SMT DEF AddChannel, Fail
<1>18. ASSUME NEW t \in Thread, ChannelsAdded(t) PROVE TypeOK'
  BY <1>18, ShimOK, SMT DEF ChannelsAdded, shimVars, AfterMuxProbe
<1>19. ASSUME NEW t \in Thread, DropChannel(t) PROVE TypeOK'
  BY <1>19, ShimOK, SMT DEF DropChannel, threadVars
<1>20. ASSUME NEW t \in Thread, ChannelsDropped(t) PROVE TypeOK'
  <2>1. pc' \in [Thread -> {"idle", "bound"} \cup ProbePC \cup RemovePC]
    BY <1>20, ShimOK, SMT DEF ChannelsDropped, shimVars, AfterMuxProbe
  <2>2. /\ back' \in [Thread -> RemovePC] /\ unreg' \in [Thread -> ClientId \cup {None}]
        /\ mux_client' \in ClientId \cup {None}
        /\ master_bus_num' \in BusNumber \cup {None} /\ links' \subseteq Link
    BY <1>20, ShimOK, SMT DEF ChannelsDropped, shimVars, AfterMuxProbe
  <2>3. /\ pdevLock' \in {"shim", "xiic", Nobody}
        /\ adapter' \in BusNumber \cup {None} /\ client' \in ClientId \cup {None}
        /\ clientLock' \in Thread \cup {Nobody}
        /\ chans' \in 0 .. CHANNELS /\ faults' \in 0 .. MAX_FAULTS
        /\ order' \in {"apart", "overlapping"}
    BY <1>20, ShimOK, SMT DEF ChannelsDropped, shimVars, AfterMuxProbe
  <2>4. /\ drvdata' \in BOOLEAN /\ pdev' \in BOOLEAN
        /\ dead' \in BOOLEAN /\ muxBound' \in BOOLEAN
    BY <1>20, Zenon DEF ChannelsDropped, shimVars, AfterMuxProbe
  <2> QED BY <2>1, <2>2, <2>3, <2>4
<1>21. ASSUME NEW t \in Thread, Kill(t) PROVE TypeOK'
  BY <1>21, ShimOK, SMT DEF Kill, shimVars
<1>22. ASSUME NEW t \in Thread, NotifyDelClient(t) PROVE TypeOK'
  BY <1>22, ShimOK, SMT DEF NotifyDelClient, treeVars
<1>23. ASSUME NEW t \in Thread, ReleaseMux(t) PROVE TypeOK'
  BY <1>23, ShimOK, SMT DEF ReleaseMux, shimVars
<1>24. ASSUME NEW t \in Thread, FreeClient(t) PROVE TypeOK'
  BY <1>24, ShimOK, SMT DEF FreeClient
<1>25. ASSUME NEW t \in Thread, DelClients(t) PROVE TypeOK'
  BY <1>25, ShimOK, SMT DEF DelClients, shimVars, treeVars
<1>26. ASSUME NEW t \in Thread, NotifyDelMaster(t) PROVE TypeOK'
  BY <1>26, ShimOK, SMT DEF NotifyDelMaster
<1>27. CASE UNCHANGED vars
  BY <1>27 DEF vars, threadVars, shimVars, treeVars
<1> QED
  BY <1>1, <1>2, <1>3, <1>4, <1>5, <1>6, <1>7, <1>8, <1>9, <1>10, <1>11, <1>12, <1>13, <1>14,
     <1>15, <1>16, <1>17, <1>18, <1>19, <1>20, <1>21, <1>22, <1>23, <1>24, <1>25, <1>26, <1>27
  DEF Next, ShimStep, Step

\* Who is where, who holds what, and what exists.
LEMMA ShapeStep ==
  ASSUME TypeOK, Shape, order = "apart", order' = "apart", [Next]_vars
  PROVE  Shape'
<1> USE DEF TypeOK, Shape, PcInv, LockInv, TreeInv, MuxInv, ClientInv, Thread, ProbePC, RemovePC,
            Owner, UnregPC, MuxPC, Unregisters, Offers, Registers, Deletes, Without, Removes,
            Go, Nobody, None
<1>1. CASE ProbeShim
  BY <1>1, ShimOK, SMT DEF ProbeShim, Fail, treeVars, Begins, Resting
<1>2. CASE AddPdev
  <2>1. CASE Fail /\ drvdata' = FALSE /\ Go("shim", "idle") /\ UNCHANGED <<pdev, pdevLock>>
    <3>1. PcInv'
      BY <1>2, <2>1, SMT DEF AddPdev
    <3>2. LockInv'
      BY <1>2, <2>1, SMT DEF AddPdev
    <3>3. TreeInv'
      BY <1>2, <2>1, SMT DEF AddPdev
    <3>4. MuxInv'
      BY <1>2, <2>1, SMT DEF AddPdev
    <3>5. ClientInv'
      BY <1>2, <2>1, SMT DEF AddPdev
    <3> QED BY <3>1, <3>2, <3>3, <3>4, <3>5
  <2>2. CASE pdev' = TRUE /\ Go("shim", "register") /\ pdevLock' = "shim" /\ UNCHANGED <<faults, drvdata>>
    <3>1. PcInv'
      BY <1>2, <2>2, SMT DEF AddPdev
    <3>2. LockInv'
      BY <1>2, <2>2, SMT DEF AddPdev
    <3>3. TreeInv'
      BY <1>2, <2>2, SMT DEF AddPdev
    <3>4. MuxInv'
      BY <1>2, <2>2, SMT DEF AddPdev
    <3>5. ClientInv'
      BY <1>2, <2>2, SMT DEF AddPdev
    <3> QED BY <3>1, <3>2, <3>3, <3>4, <3>5
  <2>3. CASE pdev' = TRUE /\ Go("shim", "bound") /\ UNCHANGED pdevLock /\ UNCHANGED <<faults, drvdata>>
    <3>1. PcInv'
      BY <1>2, <2>3, SMT DEF AddPdev
    <3>2. LockInv'
      BY <1>2, <2>3, SMT DEF AddPdev
    <3>3. TreeInv'
      BY <1>2, <2>3, SMT DEF AddPdev
    <3>4. MuxInv'
      BY <1>2, <2>3, SMT DEF AddPdev
    <3>5. ClientInv'
      BY <1>2, <2>3, SMT DEF AddPdev
    <3> QED BY <3>1, <3>2, <3>3, <3>4, <3>5
  <2> QED BY <1>2, <2>1, <2>2, <2>3 DEF AddPdev
<1>3. CASE BindXiic
  BY <1>3, ShimOK, SMT DEF BindXiic, shimVars, Begins, Resting
<1>4. CASE BindMux
  BY <1>4, ShimOK, SMT DEF BindMux, shimVars
<1>5. CASE UnbindMux
  BY <1>5, ShimOK, SMT DEF UnbindMux, shimVars
<1>6. CASE RemoveShim
  BY <1>6, ShimOK, SMT DEF RemoveShim, shimVars, treeVars, Begins, Resting
<1>7. CASE DropLinks
  BY <1>7, ShimOK, SMT DEF DropLinks, treeVars
<1>8. CASE ReadClient
  BY <1>8, ShimOK, SMT DEF ReadClient, shimVars, treeVars
<1>9. CASE UnregisterPdev
  BY <1>9, ShimOK, SMT DEF UnregisterPdev, shimVars
<1>10. CASE Finish
  BY <1>10, ShimOK, SMT DEF Finish, treeVars
<1>11. CASE UnbindXiic
  BY <1>11, ShimOK, SMT DEF UnbindXiic, shimVars, Begins, Resting
<1>12. ASSUME NEW t \in Thread, NotifyAddMaster(t) PROVE Shape'
  BY <1>12, ShimOK, SMT DEF NotifyAddMaster, Fail
<1>13. ASSUME NEW t \in Thread, NewClient(t) PROVE Shape'
  BY <1>13, ShimOK, SMT DEF NewClient, Fail, shimVars
<1>14. ASSUME NEW t \in Thread, OfferClient(t) PROVE Shape'
  BY <1>14, ShimOK, SMT DEF OfferClient, shimVars
<1>15. ASSUME NEW t \in Thread, SetClient(t) PROVE Shape'
  BY <1>15, ShimOK, SMT DEF SetClient, treeVars
<1>16. ASSUME NEW t \in Thread, Registered(t) PROVE Shape'
  BY <1>16, ShimOK, SMT DEF Registered, shimVars, Rest
<1>17. ASSUME NEW t \in Thread, AddChannel(t) PROVE Shape'
  BY <1>17, ShimOK, SMT DEF AddChannel, Fail
<1>18. ASSUME NEW t \in Thread, ChannelsAdded(t) PROVE Shape'
  BY <1>18, ShimOK, SMT DEF ChannelsAdded, shimVars, AfterMuxProbe
<1>19. ASSUME NEW t \in Thread, DropChannel(t) PROVE Shape'
  BY <1>19, ShimOK, SMT DEF DropChannel, threadVars
<1>20. ASSUME NEW t \in Thread, ChannelsDropped(t) PROVE Shape'
  BY <1>20, ShimOK, SMT DEF ChannelsDropped, shimVars, AfterMuxProbe
<1>21. ASSUME NEW t \in Thread, Kill(t) PROVE Shape'
  BY <1>21, ShimOK, SMT DEF Kill, shimVars
<1>22. ASSUME NEW t \in Thread, NotifyDelClient(t) PROVE Shape'
  BY <1>22, ShimOK, SMT DEF NotifyDelClient, treeVars
<1>23. ASSUME NEW t \in Thread, ReleaseMux(t) PROVE Shape'
  BY <1>23, ShimOK, SMT DEF ReleaseMux, shimVars
<1>24. ASSUME NEW t \in Thread, FreeClient(t) PROVE Shape'
  BY <1>24, ShimOK, SMT DEF FreeClient
<1>25. ASSUME NEW t \in Thread, DelClients(t) PROVE Shape'
  BY <1>25, ShimOK, SMT DEF DelClients, shimVars, treeVars
<1>26. ASSUME NEW t \in Thread, NotifyDelMaster(t) PROVE Shape'
  BY <1>26, ShimOK, SMT DEF NotifyDelMaster
<1>27. CASE UNCHANGED vars
  BY <1>27 DEF vars, threadVars, shimVars, treeVars
<1> QED
  BY <1>1, <1>2, <1>3, <1>4, <1>5, <1>6, <1>7, <1>8, <1>9, <1>10, <1>11, <1>12, <1>13, <1>14,
     <1>15, <1>16, <1>17, <1>18, <1>19, <1>20, <1>21, <1>22, <1>23, <1>24, <1>25, <1>26, <1>27
  DEF Next, ShimStep, Step

\* The links.
LEMMA LinkStep ==
  ASSUME TypeOK, Shape, LinkInv, order = "apart", order' = "apart", [Next]_vars
  PROVE  LinkInv'
<1> USE DEF TypeOK, Shape, PcInv, LockInv, TreeInv, MuxInv, ClientInv, Thread, ProbePC, RemovePC,
            Owner, UnregPC, MuxPC, Unregisters, Offers, Registers, Deletes, Without, Removes,
            Go, Nobody, None
<1> USE DEF LinkInv, LinksLive, Link
<1>1. CASE ProbeShim
  BY <1>1, ShimOK, SMT DEF ProbeShim, Fail, treeVars, Begins, Resting
<1>2. CASE AddPdev
  BY <1>2, ShimOK, SMT DEF AddPdev, Fail
<1>3. CASE BindXiic
  BY <1>3, ShimOK, SMT DEF BindXiic, shimVars, Begins, Resting
<1>4. CASE BindMux
  BY <1>4, ShimOK, SMT DEF BindMux, shimVars
<1>5. CASE UnbindMux
  BY <1>5, ShimOK, SMT DEF UnbindMux, shimVars
<1>6. CASE RemoveShim
  BY <1>6, ShimOK, SMT DEF RemoveShim, shimVars, treeVars, Begins, Resting
<1>7. CASE DropLinks
  BY <1>7, ShimOK, SMT DEF DropLinks, treeVars
<1>8. CASE ReadClient
  BY <1>8, ShimOK, SMT DEF ReadClient, shimVars, treeVars
<1>9. CASE UnregisterPdev
  BY <1>9, ShimOK, SMT DEF UnregisterPdev, shimVars
<1>10. CASE Finish
  BY <1>10, ShimOK, SMT DEF Finish, treeVars
<1>11. CASE UnbindXiic
  BY <1>11, ShimOK, SMT DEF UnbindXiic, shimVars, Begins, Resting
<1>12. ASSUME NEW t \in Thread, NotifyAddMaster(t) PROVE LinkInv'
  BY <1>12, ShimOK, SMT DEF NotifyAddMaster, Fail
<1>13. ASSUME NEW t \in Thread, NewClient(t) PROVE LinkInv'
  BY <1>13, ShimOK, SMT DEF NewClient, Fail, shimVars
<1>14. ASSUME NEW t \in Thread, OfferClient(t) PROVE LinkInv'
  BY <1>14, ShimOK, SMT DEF OfferClient, shimVars
<1>15. ASSUME NEW t \in Thread, SetClient(t) PROVE LinkInv'
  BY <1>15, ShimOK, SMT DEF SetClient, treeVars
<1>16. ASSUME NEW t \in Thread, Registered(t) PROVE LinkInv'
  BY <1>16, ShimOK, SMT DEF Registered, shimVars, Rest
<1>17. ASSUME NEW t \in Thread, AddChannel(t) PROVE LinkInv'
  BY <1>17, ShimOK, SMT DEF AddChannel, Fail
<1>18. ASSUME NEW t \in Thread, ChannelsAdded(t) PROVE LinkInv'
  BY <1>18, ShimOK, SMT DEF ChannelsAdded, shimVars, AfterMuxProbe
<1>19. ASSUME NEW t \in Thread, DropChannel(t) PROVE LinkInv'
  BY <1>19, ShimOK, SMT DEF DropChannel, threadVars
<1>20. ASSUME NEW t \in Thread, ChannelsDropped(t) PROVE LinkInv'
  BY <1>20, ShimOK, SMT DEF ChannelsDropped, shimVars, AfterMuxProbe
<1>21. ASSUME NEW t \in Thread, Kill(t) PROVE LinkInv'
  BY <1>21, ShimOK, SMT DEF Kill, shimVars
<1>22. ASSUME NEW t \in Thread, NotifyDelClient(t) PROVE LinkInv'
  BY <1>22, ShimOK, SMT DEF NotifyDelClient, treeVars
<1>23. ASSUME NEW t \in Thread, ReleaseMux(t) PROVE LinkInv'
  BY <1>23, ShimOK, SMT DEF ReleaseMux, shimVars
<1>24. ASSUME NEW t \in Thread, FreeClient(t) PROVE LinkInv'
  BY <1>24, ShimOK, SMT DEF FreeClient
<1>25. ASSUME NEW t \in Thread, DelClients(t) PROVE LinkInv'
  BY <1>25, ShimOK, SMT DEF DelClients, shimVars, treeVars
<1>26. ASSUME NEW t \in Thread, NotifyDelMaster(t) PROVE LinkInv'
  BY <1>26, ShimOK, SMT DEF NotifyDelMaster
<1>27. CASE UNCHANGED vars
  BY <1>27 DEF vars, threadVars, shimVars, treeVars
<1> QED
  BY <1>1, <1>2, <1>3, <1>4, <1>5, <1>6, <1>7, <1>8, <1>9, <1>10, <1>11, <1>12, <1>13, <1>14,
     <1>15, <1>16, <1>17, <1>18, <1>19, <1>20, <1>21, <1>22, <1>23, <1>24, <1>25, <1>26, <1>27
  DEF Next, ShimStep, Step

\* What a rebind brings back.
LEMMA CompleteStep ==
  ASSUME TypeOK, Shape, LinkInv, CompleteInv, order = "apart", order' = "apart", [Next]_vars
  PROVE  CompleteInv'
<1> USE DEF TypeOK, Shape, PcInv, LockInv, TreeInv, MuxInv, ClientInv, Thread, ProbePC, RemovePC,
            Owner, UnregPC, MuxPC, Unregisters, Offers, Registers, Deletes, Without, Removes,
            Go, Nobody, None
<1> USE DEF LinkInv, LinksLive, Link, CompleteInv, Linked
<1>1. CASE ProbeShim
  BY <1>1, ShimOK, SMT DEF ProbeShim, Fail, treeVars, Begins, Resting
<1>2. CASE AddPdev
  BY <1>2, ShimOK, SMT DEF AddPdev, Fail
<1>3. CASE BindXiic
  BY <1>3, ShimOK, SMT DEF BindXiic, shimVars, Begins, Resting
<1>4. CASE BindMux
  BY <1>4, ShimOK, SMT DEF BindMux, shimVars
<1>5. CASE UnbindMux
  BY <1>5, ShimOK, SMT DEF UnbindMux, shimVars
<1>6. CASE RemoveShim
  BY <1>6, ShimOK, SMT DEF RemoveShim, shimVars, treeVars, Begins, Resting
<1>7. CASE DropLinks
  BY <1>7, ShimOK, SMT DEF DropLinks, treeVars
<1>8. CASE ReadClient
  BY <1>8, ShimOK, SMT DEF ReadClient, shimVars, treeVars
<1>9. CASE UnregisterPdev
  BY <1>9, ShimOK, SMT DEF UnregisterPdev, shimVars
<1>10. CASE Finish
  BY <1>10, ShimOK, SMT DEF Finish, treeVars
<1>11. CASE UnbindXiic
  BY <1>11, ShimOK, SMT DEF UnbindXiic, shimVars, Begins, Resting
<1>12. ASSUME NEW t \in Thread, NotifyAddMaster(t) PROVE CompleteInv'
  BY <1>12, ShimOK, SMT DEF NotifyAddMaster, Fail
<1>13. ASSUME NEW t \in Thread, NewClient(t) PROVE CompleteInv'
  BY <1>13, ShimOK, SMT DEF NewClient, Fail, shimVars
<1>14. ASSUME NEW t \in Thread, OfferClient(t) PROVE CompleteInv'
  BY <1>14, ShimOK, SMT DEF OfferClient, shimVars
<1>15. ASSUME NEW t \in Thread, SetClient(t) PROVE CompleteInv'
  BY <1>15, ShimOK, SMT DEF SetClient, treeVars
<1>16. ASSUME NEW t \in Thread, Registered(t) PROVE CompleteInv'
  BY <1>16, ShimOK, SMT DEF Registered, shimVars, Rest
<1>17. ASSUME NEW t \in Thread, AddChannel(t) PROVE CompleteInv'
  BY <1>17, ShimOK, SMT DEF AddChannel, Fail
<1>18. ASSUME NEW t \in Thread, ChannelsAdded(t) PROVE CompleteInv'
  BY <1>18, ShimOK, SMT DEF ChannelsAdded, shimVars, AfterMuxProbe
<1>19. ASSUME NEW t \in Thread, DropChannel(t) PROVE CompleteInv'
  BY <1>19, ShimOK, SMT DEF DropChannel, threadVars
<1>20. ASSUME NEW t \in Thread, ChannelsDropped(t) PROVE CompleteInv'
  BY <1>20, ShimOK, SMT DEF ChannelsDropped, shimVars, AfterMuxProbe
<1>21. ASSUME NEW t \in Thread, Kill(t) PROVE CompleteInv'
  BY <1>21, ShimOK, SMT DEF Kill, shimVars
<1>22. ASSUME NEW t \in Thread, NotifyDelClient(t) PROVE CompleteInv'
  BY <1>22, ShimOK, SMT DEF NotifyDelClient, treeVars
<1>23. ASSUME NEW t \in Thread, ReleaseMux(t) PROVE CompleteInv'
  BY <1>23, ShimOK, SMT DEF ReleaseMux, shimVars
<1>24. ASSUME NEW t \in Thread, FreeClient(t) PROVE CompleteInv'
  BY <1>24, ShimOK, SMT DEF FreeClient
<1>25. ASSUME NEW t \in Thread, DelClients(t) PROVE CompleteInv'
  BY <1>25, ShimOK, SMT DEF DelClients, shimVars, treeVars
<1>26. ASSUME NEW t \in Thread, NotifyDelMaster(t) PROVE CompleteInv'
  BY <1>26, ShimOK, SMT DEF NotifyDelMaster
<1>27. CASE UNCHANGED vars
  BY <1>27 DEF vars, threadVars, shimVars, treeVars
<1> QED
  BY <1>1, <1>2, <1>3, <1>4, <1>5, <1>6, <1>7, <1>8, <1>9, <1>10, <1>11, <1>12, <1>13, <1>14,
     <1>15, <1>16, <1>17, <1>18, <1>19, <1>20, <1>21, <1>22, <1>23, <1>24, <1>25, <1>26, <1>27
  DEF Next, ShimStep, Step

\* Operations that have overlapped stay overlapped.
LEMMA OrderStep ==
  ASSUME [Next]_vars, order' = "apart"
  PROVE  order = "apart"
<1>1. CASE ProbeShim \/ RemoveShim \/ BindXiic \/ UnbindXiic
  BY <1>1 DEF ProbeShim, RemoveShim, BindXiic, UnbindXiic, Begins
<1>2. CASE BindMux \/ UnbindMux \/ ShimStep
  BY <1>2 DEF BindMux, UnbindMux, ShimStep, AddPdev, DropLinks, ReadClient, UnregisterPdev, Finish
<1>3. ASSUME NEW t \in Thread, Step(t) PROVE order' = order
  BY <1>3 DEF Step, NotifyAddMaster, NewClient, OfferClient, SetClient, Registered, AddChannel,
     ChannelsAdded, DropChannel, ChannelsDropped, Kill, NotifyDelClient, ReleaseMux, FreeClient,
     DelClients, NotifyDelMaster
<1>4. CASE UNCHANGED vars
  BY <1>4 DEF vars
<1> QED BY <1>1, <1>2, <1>3, <1>4 DEF Next

-----------------------------------------------------------------------------
(* The theorems.                                                             *)

LEMMA InitType == Init => TypeOK
<1> SUFFICES ASSUME Init PROVE TypeOK
  OBVIOUS
<1>1. drvdata \in BOOLEAN /\ pdev \in BOOLEAN /\ dead \in BOOLEAN /\ muxBound \in BOOLEAN
  BY Zenon DEF Init
<1>2. /\ pc \in [Thread -> {"idle", "bound"} \cup ProbePC \cup RemovePC]
      /\ back \in [Thread -> RemovePC] /\ unreg \in [Thread -> ClientId \cup {None}]
  BY DEF Init, ProbePC, RemovePC
<1>3. links \subseteq Link /\ chans \in 0 .. CHANNELS /\ faults \in 0 .. MAX_FAULTS
  BY ShimOK DEF Init
<1> QED BY <1>1, <1>2, <1>3 DEF Init, TypeOK

LEMMA InitInv == Init => IInv
<1> SUFFICES ASSUME Init PROVE IInv
  OBVIOUS
<1> USE DEF Init, Owner, UnregPC, MuxPC, Unregisters, Offers, Registers, Deletes, Without, Removes,
            Thread, Nobody, None
<1>1. PcInv /\ LockInv /\ TreeInv
  BY DEF PcInv, LockInv, TreeInv
<1>2. MuxInv /\ ClientInv
  BY DEF MuxInv, ClientInv
<1>3. LinkInv /\ CompleteInv
  BY DEF LinkInv, LinksLive, CompleteInv, Linked
<1> QED BY <1>1, <1>2, <1>3, InitType DEF IInv, Shape

LEMMA IInvCorrect == Spec => []IInv
<1>1. IInv /\ [Next]_vars => IInv'
  <2> SUFFICES ASSUME IInv, [Next]_vars PROVE IInv'
    OBVIOUS
  <2>1. TypeOK'
    BY TypeStep DEF IInv
  <2>2. ASSUME order' = "apart" PROVE Shape' /\ LinkInv' /\ CompleteInv'
    BY <2>2, OrderStep, ShapeStep, LinkStep, CompleteStep DEF IInv
  <2> QED BY <2>1, <2>2 DEF IInv
<1> QED BY <1>1, InitInv, PTL DEF Spec

\* The records, the tree of devices and the threads of the three drivers keep
\* their types, in whatever order the drivers are bound and unbound.
THEOREM I2cShimTypeCorrect == Spec => []TypeOK
BY InitType, TypeStep, PTL DEF Spec

\* "so a later remove does not unregister a freed mux client": no order of binding
\* and unbinding makes a thread unregister a client that is gone, as long as
\* no probe or removal of the shim overlaps with a binding or unbinding of xiic.
THEOREM NoFreedClientCorrect == Spec => []UnregistersOwnClient
<1>1. IInv => UnregistersOwnClient
  BY DEF IInv, Shape, PcInv, TreeInv, Owner, Thread, UnregistersOwnClient, UnregistersNoFreedClient
<1> QED BY <1>1, IInvCorrect, PTL

\* No compat link leads to an adapter that is gone, up to such an overlap.
THEOREM LinksLiveCorrect == Spec => []LinksLive
<1>1. IInv => LinksLive
  BY DEF IInv, LinkInv, LinksLive
<1> QED BY <1>1, IInvCorrect, PTL

\* "a rebind recreates the mux and the compat links", for any number of
\* channels, up to such an overlap.
THEOREM TreeCompleteCorrect == Spec => []TreeComplete
<1>1. IInv => TreeComplete
  <2> SUFFICES ASSUME IInv, order = "apart", faults = 0, \A t \in Thread : Resting(t),
                      pc["shim"] = "bound", adapter # None
               PROVE  /\ <<"i2c", adapter>> \in links
                      /\ CHANNELS > 0 => client # None /\ mux_client = client
                      /\ \A k \in 0 .. chans - 1 : <<"channel", k>> \in links
    BY DEF TreeComplete
  <2>1. pc["xiic"] = "idle"
    BY DEF IInv, Shape, PcInv, Registers, Offers, Deletes, Unregisters, UnregPC, Resting, Thread
  <2>2. CHANNELS > 0 => mux_client # None /\ mux_client = client
    BY <2>1 DEF IInv, CompleteInv, Shape, ClientInv
  <2> QED BY <2>2 DEF IInv, CompleteInv, Linked
<1> QED BY <1>1, IInvCorrect, PTL

\* A shim that is not bound has left neither link nor device behind, up to such an
\* overlap.
THEOREM NothingLeftCorrect == Spec => []NothingLeft
<1>1. IInv => NothingLeft
  <2> SUFFICES ASSUME IInv, order = "apart", pc["shim"] = "idle"
               PROVE  links = {} /\ adapter = None /\ client = None /\ ~ pdev
    BY DEF NothingLeft
  <2> USE DEF IInv, Shape, TreeInv, Without
  <2>1. adapter = None /\ client = None /\ ~ pdev
    OBVIOUS
  <2>2. chans = 0
    BY <2>1 DEF MuxInv
  <2>3. links = {}
    BY <2>1, <2>2, ShimOK DEF LinkInv, LinksLive, TypeOK, Link, None
  <2> QED BY <2>1, <2>3
<1> QED BY <1>1, IInvCorrect, PTL
=============================================================================
