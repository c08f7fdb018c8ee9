------------------------------- MODULE I2cShim -------------------------------
(***************************************************************************)
(* nh_fpga_i2c_main.c: the driver of one I2C controller's auxiliary device.  *)
(* Its probe adds a bp4f-xiic-i2c platform device; a notifier on the i2c bus *)
(* sees the adapters and clients that come and go below it, creates the      *)
(* fpga-mux client and the compat links, and forgets what goes away.         *)
(*                                                                          *)
(* Three drivers are bound and unbound in any order, each by a thread of its *)
(* own: the shim (this file), xiic on the platform device, mux on the client. *)
(* The device tree and the I2C core are external: registering an adapter or  *)
(* a client runs the notifier and then the probe of its driver in the same   *)
(* thread, deleting one runs the notifier and then the driver's remove,      *)
(* binding and unbinding hold the lock of the device, and deleting an        *)
(* adapter unregisters its clients.                                         *)
(***************************************************************************)
EXTENDS Integers

CONSTANTS
  CHANNELS,    (* num_mux_channels of this controller, 0 if it has no mux    *)
  BusNumber,   (* numbers the I2C core gives the master adapter              *)
  ClientId,    (* client structs, by identity                                *)
  MAX_FAULTS   (* bound: calls that fail                                     *)

None == -1      \* no adapter, no client, NULL, nobody

ASSUME ShimOK ==
  /\ CHANNELS \in 0 .. 8
  /\ BusNumber \subseteq Nat /\ BusNumber # {}
  /\ ClientId \subseteq Nat /\ ClientId # {}
  /\ MAX_FAULTS \in Nat

Thread == {"shim", "xiic", "mux"}
Nobody == "nobody"
Link == {<<"i2c", n>> : n \in BusNumber} \cup {<<"channel", k>> : k \in 0 .. CHANNELS - 1}

VARIABLES
  pc,          \* control point of each thread
  back,        \* where a thread goes on once its client is unregistered
  unreg,       \* the client it unregisters
  drvdata,     \* the auxiliary device's drvdata is set: nh_fpga_i2c exists
  mux_client,  \* i2c->mux_client
  master_bus_num, \* i2c->master_bus_num
  links,       \* compat links in the auxiliary device's directory
  pdev,        \* the platform device is registered
  pdevLock,    \* its device lock
  adapter,     \* bus number of the live master adapter
  client,      \* the registered fpga-mux client
  dead,        \* its deletion has begun
  clientLock,  \* its device lock
  muxBound,    \* nh_fpga_mux has probed it
  chans,       \* channel adapters 0 .. chans - 1 exist
  faults,      \* calls that have failed
  order        \* history: "apart" until the shim and xiic have been at work at once

threadVars == <<pc, back, unreg>>
shimVars == <<drvdata, mux_client, master_bus_num, links>>
treeVars == <<pdev, pdevLock, adapter, client, dead, clientLock, muxBound, chans>>
vars == <<threadVars, shimVars, treeVars, faults, order>>

ProbePC == {"probe", "register", "new_client", "probe_client", "add_channels", "set_client", "registered"}
RemovePC == {"drop_links", "read_client", "kill", "notify", "unbind_mux", "drop_channels", "free",
             "unregister_pdev", "del_clients", "del_adapter", "finish"}

\* Type invariant of the shim's records, the bus's clients and the threads.
TypeOK ==
  /\ pc \in [Thread -> {"idle", "bound"} \cup ProbePC \cup RemovePC]
  /\ back \in [Thread -> RemovePC] /\ unreg \in [Thread -> ClientId \cup {None}]
  /\ drvdata \in BOOLEAN
  /\ mux_client \in ClientId \cup {None}
  /\ master_bus_num \in BusNumber \cup {None}
  /\ links \subseteq Link
  /\ pdev \in BOOLEAN /\ pdevLock \in {"shim", "xiic", Nobody}
  /\ adapter \in BusNumber \cup {None}
  /\ client \in ClientId \cup {None} /\ dead \in BOOLEAN
  /\ clientLock \in Thread \cup {Nobody}
  /\ muxBound \in BOOLEAN /\ chans \in 0 .. CHANNELS
  /\ faults \in 0 .. MAX_FAULTS
  /\ order \in {"apart", "overlapping"}

Init ==
  /\ pc = [t \in Thread |-> "idle"]
  /\ back = [t \in Thread |-> "finish"] /\ unreg = [t \in Thread |-> None]
  /\ drvdata = FALSE /\ mux_client = None /\ master_bus_num = None /\ links = {}
  /\ pdev = FALSE /\ pdevLock = Nobody
  /\ adapter = None
  /\ client = None /\ dead = FALSE /\ clientLock = Nobody
  /\ muxBound = FALSE /\ chans = 0
  /\ faults = 0
  /\ order = "apart"

Go(t, where) == pc' = [pc EXCEPT ![t] = where]
Fail == faults < MAX_FAULTS /\ faults' = faults + 1
Resting(t) == pc[t] \in {"idle", "bound"}

\* An operation of the shim or of xiic begins: is the other one at rest?
Begins(other) == order' = IF Resting(other) THEN order ELSE "overlapping"

\* Where a thread that has bound or unbound its driver comes to rest.
Rest(t) == IF t = "shim" THEN "bound" ELSE "idle"
-----------------------------------------------------------------------------
(* nh_fpga_i2c_probe()                                                      *)

\* configure_mux_support(), the interrupt and the clock; any of them may fail.
ProbeShim ==
  /\ pc["shim"] = "idle"
  /\ \/ Go("shim", "probe") /\ Begins("xiic") /\ drvdata' = TRUE /\ UNCHANGED faults
     \/ Fail /\ UNCHANGED <<pc, order, drvdata>>
  /\ UNCHANGED <<back, unreg, mux_client, master_bus_num, links, treeVars>>

\* platform_device_add(): it fails, or binds xiic if that driver is loaded.
AddPdev ==
  /\ pc["shim"] = "probe"
  /\ \/ /\ Fail
        /\ drvdata' = FALSE
        /\ Go("shim", "idle")
        /\ UNCHANGED <<pdev, pdevLock>>
     \/ /\ pdev' = TRUE
        /\ \/ Go("shim", "register") /\ pdevLock' = "shim"
           \/ Go("shim", "bound") /\ UNCHANGED pdevLock
        /\ UNCHANGED <<faults, drvdata>>
  /\ UNCHANGED <<back, unreg, mux_client, master_bus_num, links,
                 adapter, client, dead, clientLock, muxBound, chans, order>>

BindXiic ==
  /\ pc["xiic"] = "idle"
  /\ pdev /\ pdevLock = Nobody /\ adapter = None
  /\ pdevLock' = "xiic"
  /\ Go("xiic", "register") /\ Begins("shim")
  /\ UNCHANGED <<back, unreg, shimVars, pdev, adapter, client, dead, clientLock, muxBound, chans, faults>>
-----------------------------------------------------------------------------
(* nh_fpga_i2c_bus_notify(), case 1: the master adapter is added.           *)

\* The link, which may fail with a warning, and the bus number.
NotifyAddMaster(t) ==
  /\ pc[t] = "register"
  /\ \E n \in BusNumber :
       /\ adapter' = n
       /\ IF drvdata
          THEN /\ \/ links' = links \cup {<<"i2c", n>>} /\ UNCHANGED faults
                  \/ Fail /\ UNCHANGED links
               /\ master_bus_num' = n
          ELSE UNCHANGED <<links, faults, master_bus_num>>
  /\ Go(t, IF drvdata /\ CHANNELS > 0 /\ mux_client = None THEN "new_client" ELSE "registered")
  /\ UNCHANGED <<back, unreg, drvdata, mux_client, pdev, pdevLock, client, dead, clientLock, muxBound, chans, order>>

\* i2c_new_client_device() at 0x71: an error leaves mux_client NULL.
NewClient(t) ==
  /\ pc[t] = "new_client"
  /\ \/ Fail /\ Go(t, "registered") /\ UNCHANGED <<client, dead>>
     \/ /\ client' \in ClientId \ ({client, mux_client} \cup {unreg[u] : u \in Thread})
        /\ dead' = FALSE
        /\ Go(t, "probe_client")
        /\ UNCHANGED faults
  /\ UNCHANGED <<back, unreg, shimVars, pdev, pdevLock, adapter, clientLock, muxBound, chans, order>>

\* The new client is offered to nh_fpga_mux, which may not be loaded yet.
OfferClient(t) ==
  /\ pc[t] = "probe_client"
  /\ clientLock = Nobody
  /\ \/ ~ muxBound /\ clientLock' = t /\ Go(t, "add_channels")
     \/ clientLock' = Nobody /\ Go(t, "set_client")
  /\ UNCHANGED <<back, unreg, shimVars, pdev, pdevLock, adapter, client, dead, muxBound, chans, faults, order>>

\* Only now does the shim learn of its client.
SetClient(t) ==
  /\ pc[t] = "set_client"
  /\ mux_client' = client
  /\ Go(t, "registered")
  /\ UNCHANGED <<back, unreg, drvdata, master_bus_num, links, treeVars, faults, order>>

Registered(t) ==
  /\ pc[t] = "registered"
  /\ pdevLock' = Nobody
  /\ Go(t, Rest(t))
  /\ UNCHANGED <<back, unreg, shimVars, pdev, adapter, client, dead, clientLock, muxBound, chans, faults, order>>
-----------------------------------------------------------------------------
(* The mux driver adds and deletes its channel adapters: case 2 of the       *)
(* notifier and the end of nh_fpga_i2c_bus_del().                            *)

BindMux ==
  /\ pc["mux"] = "idle"
  /\ client # None /\ ~ dead /\ ~ muxBound /\ clientLock = Nobody
  /\ clientLock' = "mux"
  /\ Go("mux", "add_channels")
  /\ UNCHANGED <<back, unreg, shimVars, pdev, pdevLock, adapter, client, dead, muxBound, chans, faults, order>>

\* After its probe of the client a thread goes on with the client's creation.
AfterMuxProbe(t) == IF t = "mux" THEN "idle" ELSE "set_client"

\* Faulty variant of AddChannel: the loop runs once too often.
AddChannelOnceMore(t) ==
  /\ pc[t] = "add_channels"
  /\ chans <= CHANNELS
  /\ chans' = chans + 1
  /\ links' = IF drvdata THEN links \cup {<<"channel", chans>>} ELSE links
  /\ UNCHANGED <<threadVars, drvdata, mux_client, master_bus_num,
                 pdev, pdevLock, adapter, client, dead, clientLock, muxBound, faults, order>>

\* A channel adapter is added and linked; or it fails and the probe unwinds.
AddChannel(t) ==
  /\ pc[t] = "add_channels"
  /\ chans < CHANNELS
  /\ \/ /\ chans' = chans + 1
        /\ links' = IF drvdata THEN links \cup {<<"channel", chans>>} ELSE links
        /\ UNCHANGED <<pc, faults>>
     \/ Fail /\ Go(t, "drop_channels") /\ UNCHANGED <<chans, links>>
  /\ UNCHANGED <<back, unreg, drvdata, mux_client, master_bus_num,
                 pdev, pdevLock, adapter, client, dead, clientLock, muxBound, order>>

ChannelsAdded(t) ==
  /\ pc[t] = "add_channels"
  /\ chans = CHANNELS
  /\ muxBound' = TRUE
  /\ clientLock' = Nobody
  /\ Go(t, AfterMuxProbe(t))
  /\ UNCHANGED <<back, unreg, shimVars, pdev, pdevLock, adapter, client, dead, chans, faults, order>>

UnbindMux ==
  /\ pc["mux"] = "idle"
  /\ muxBound /\ clientLock = Nobody
  /\ clientLock' = "mux"
  /\ Go("mux", "drop_channels")
  /\ UNCHANGED <<back, unreg, shimVars, pdev, pdevLock, adapter, client, dead, muxBound, chans, faults, order>>

\* The last channel first; its link goes before it does.
DropChannel(t) ==
  /\ pc[t] = "drop_channels"
  /\ chans > 0
  /\ links' = IF drvdata THEN links \ {<<"channel", chans - 1>>} ELSE links
  /\ chans' = chans - 1
  /\ UNCHANGED <<threadVars, drvdata, mux_client, master_bus_num,
                 pdev, pdevLock, adapter, client, dead, clientLock, muxBound, faults, order>>

ChannelsDropped(t) ==
  /\ pc[t] = "drop_channels"
  /\ chans = 0
  /\ muxBound' = FALSE
  /\ clientLock' = Nobody
  /\ Go(t, IF unreg[t] # None THEN "free" ELSE AfterMuxProbe(t))
  /\ UNCHANGED <<back, unreg, shimVars, pdev, pdevLock, adapter, client, dead, chans, faults, order>>
-----------------------------------------------------------------------------
(* i2c_unregister_device(unreg[t]) and nh_fpga_i2c_bus_del() for a client.  *)

Kill(t) ==
  /\ pc[t] = "kill"
  /\ clientLock = Nobody
  /\ dead' = TRUE
  /\ Go(t, "notify")
  /\ UNCHANGED <<back, unreg, shimVars, pdev, pdevLock, adapter, client, clientLock, muxBound, chans, faults, order>>

\* Faulty variant of NotifyDelClient: the notifier does not look at clients.
NotifyDelClientIgnored(t) ==
  /\ pc[t] = "notify"
  /\ Go(t, "unbind_mux")
  /\ UNCHANGED <<back, unreg, shimVars, treeVars, faults, order>>

\* The shim forgets the client that goes, whoever deletes it.
NotifyDelClient(t) ==
  /\ pc[t] = "notify"
  /\ mux_client' = IF drvdata /\ mux_client = unreg[t] THEN None ELSE mux_client
  /\ Go(t, "unbind_mux")
  /\ UNCHANGED <<back, unreg, drvdata, master_bus_num, links, treeVars, faults, order>>

ReleaseMux(t) ==
  /\ pc[t] = "unbind_mux"
  /\ clientLock = Nobody
  /\ \/ muxBound /\ clientLock' = t /\ Go(t, "drop_channels")
     \/ ~ muxBound /\ clientLock' = Nobody /\ Go(t, "free")
  /\ UNCHANGED <<back, unreg, shimVars, pdev, pdevLock, adapter, client, dead, muxBound, chans, faults, order>>

\* The client is freed; nh_fpga_i2c_remove() clears its pointer afterwards.
FreeClient(t) ==
  /\ pc[t] = "free"
  /\ client' = None
  /\ unreg' = [unreg EXCEPT ![t] = None]
  /\ mux_client' = IF back[t] = "unregister_pdev" THEN None ELSE mux_client
  /\ Go(t, back[t])
  /\ UNCHANGED <<back, drvdata, master_bus_num, links,
                 pdev, pdevLock, adapter, dead, clientLock, muxBound, chans, faults, order>>
-----------------------------------------------------------------------------
(* nh_fpga_i2c_remove()                                                     *)

RemoveShim ==
  /\ pc["shim"] = "bound"
  /\ Go("shim", "drop_links") /\ Begins("xiic")
  /\ UNCHANGED <<back, unreg, shimVars, treeVars, faults>>

\* Faulty variants of DropLinks: the bus number is reset before it names the
\* link; the whole removal runs under the platform device's lock.
DropLinksResetFirst ==
  /\ pc["shim"] = "drop_links"
  /\ links' = links \ {<<"channel", k>> : k \in 0 .. CHANNELS - 1}
  /\ master_bus_num' = None
  /\ Go("shim", "read_client")
  /\ UNCHANGED <<back, unreg, drvdata, mux_client, treeVars, faults, order>>

DropLinksUnderLock ==
  /\ pc["shim"] = "drop_links"
  /\ pdevLock = Nobody
  /\ pdevLock' = "shim"
  /\ links' = links \ ({<<"channel", k>> : k \in 0 .. CHANNELS - 1} \cup {<<"i2c", master_bus_num>>})
  /\ master_bus_num' = None
  /\ Go("shim", "read_client")
  /\ UNCHANGED <<back, unreg, drvdata, mux_client, pdev, adapter, client, dead, clientLock, muxBound, chans, faults, order>>

\* "Drop the compat symlinks before their targets disappear."
DropLinks ==
  /\ pc["shim"] = "drop_links"
  /\ links' = links \ ({<<"channel", k>> : k \in 0 .. CHANNELS - 1} \cup {<<"i2c", master_bus_num>>})
  /\ master_bus_num' = None
  /\ Go("shim", "read_client")
  /\ UNCHANGED <<back, unreg, drvdata, mux_client, treeVars, faults, order>>

\* mux_client is read here and unregistered in the steps that follow.
ReadClient ==
  /\ pc["shim"] = "read_client"
  /\ IF mux_client = None
     THEN Go("shim", "unregister_pdev") /\ UNCHANGED <<unreg, back>>
     ELSE /\ unreg' = [unreg EXCEPT !["shim"] = mux_client]
          /\ back' = [back EXCEPT !["shim"] = "unregister_pdev"]
          /\ Go("shim", "kill")
  /\ UNCHANGED <<shimVars, treeVars, faults, order>>

\* platform_device_unregister(): xiic, if it is bound, is removed.
UnregisterPdev ==
  /\ pc["shim"] = "unregister_pdev"
  /\ pdevLock = Nobody
  /\ pdev' = FALSE
  /\ IF adapter = None
     THEN Go("shim", "finish") /\ UNCHANGED pdevLock
     ELSE Go("shim", "del_clients") /\ pdevLock' = "shim"
  /\ UNCHANGED <<back, unreg, shimVars, adapter, client, dead, clientLock, muxBound, chans, faults, order>>

Finish ==
  /\ pc["shim"] = "finish"
  /\ drvdata' = FALSE
  /\ Go("shim", "idle")
  /\ UNCHANGED <<back, unreg, mux_client, master_bus_num, links, treeVars, faults, order>>

UnbindXiic ==
  /\ pc["xiic"] = "idle"
  /\ pdev /\ pdevLock = Nobody /\ adapter # None
  /\ pdevLock' = "xiic"
  /\ Go("xiic", "del_clients") /\ Begins("shim")
  /\ UNCHANGED <<back, unreg, shimVars, pdev, adapter, client, dead, clientLock, muxBound, chans, faults>>

\* i2c_del_adapter() unregisters the clients of the adapter.
DelClients(t) ==
  /\ pc[t] = "del_clients"
  /\ IF client = None
     THEN Go(t, "del_adapter") /\ UNCHANGED <<unreg, back>>
     ELSE /\ unreg' = [unreg EXCEPT ![t] = client]
          /\ back' = [back EXCEPT ![t] = "del_adapter"]
          /\ Go(t, "kill")
  /\ UNCHANGED <<shimVars, treeVars, faults, order>>

\* Faulty variant of NotifyDelMaster: the notifier does not look at the master.
NotifyDelMasterIgnored(t) ==
  /\ pc[t] = "del_adapter"
  /\ client = None
  /\ adapter' = None
  /\ pdevLock' = Nobody
  /\ Go(t, IF t = "shim" THEN "finish" ELSE "idle")
  /\ UNCHANGED <<back, unreg, shimVars, pdev, client, dead, clientLock, muxBound, chans, faults, order>>

\* nh_fpga_i2c_bus_del() for the master adapter, which then goes.
NotifyDelMaster(t) ==
  /\ pc[t] = "del_adapter"
  /\ client = None
  /\ IF drvdata /\ master_bus_num = adapter
     THEN links' = links \ {<<"i2c", adapter>>} /\ master_bus_num' = None
     ELSE UNCHANGED <<links, master_bus_num>>
  /\ adapter' = None
  /\ pdevLock' = Nobody
  /\ Go(t, IF t = "shim" THEN "finish" ELSE "idle")
  /\ UNCHANGED <<back, unreg, drvdata, mux_client, pdev, client, dead, clientLock, muxBound, chans, faults, order>>
-----------------------------------------------------------------------------
\* What a thread does inside an operation, and the operations.
Step(t) ==
  \/ NotifyAddMaster(t) \/ NewClient(t) \/ OfferClient(t) \/ SetClient(t) \/ Registered(t)
  \/ AddChannel(t) \/ ChannelsAdded(t) \/ DropChannel(t) \/ ChannelsDropped(t)
  \/ Kill(t) \/ NotifyDelClient(t) \/ ReleaseMux(t) \/ FreeClient(t)
  \/ DelClients(t) \/ NotifyDelMaster(t)

ShimStep == AddPdev \/ DropLinks \/ ReadClient \/ UnregisterPdev \/ Finish

Next ==
  \/ ProbeShim \/ RemoveShim \/ ShimStep
  \/ BindXiic \/ UnbindXiic
  \/ BindMux \/ UnbindMux
  \/ \E t \in Thread : Step(t)

\* A thread inside an operation goes on, and gets a lock it waits for in the end.
Fairness == SF_vars(ShimStep) /\ \A t \in Thread : SF_vars(Step(t))

Spec == Init /\ [][Next]_vars
FairSpec == Spec /\ Fairness
-----------------------------------------------------------------------------
(* Properties.  The binding and unbinding of xiic and a probe or removal of   *)
(* the shim may overlap at any time; what that breaks is UnregistersNoFreed-  *)
(* Client, and with a freed client in hand the bookkeeping goes wrong after    *)
(* it.  So the bookkeeping is stated up to the first overlap of these two; the *)
(* mux driver overlaps with either all the time.                             *)

\* "so a later remove does not unregister a freed mux client": the client a
\* thread has in hand to unregister is the one that is registered.
UnregistersNoFreedClient == \A t \in Thread : unreg[t] # None => unreg[t] = client

\* The same as long as the operations of the shim and of xiic are apart.
UnregistersOwnClient == order = "apart" => UnregistersNoFreedClient

\* A compat link leads to an adapter that exists under this name.
LinksLive ==
  order = "apart" =>
    \A l \in links : IF l[1] = "i2c" THEN l[2] = adapter ELSE l[2] < chans

\* "a rebind recreates the mux and the compat links": whenever nothing is in
\* progress and no call has failed, an adapter has its link, its mux client
\* and the links of all channels the mux driver has added.
TreeComplete ==
  /\ order = "apart" /\ faults = 0
  /\ \A t \in Thread : Resting(t)
  /\ pc["shim"] = "bound" /\ adapter # None
  => /\ <<"i2c", adapter>> \in links
     /\ CHANNELS > 0 => client # None /\ mux_client = client
     /\ \A k \in 0 .. chans - 1 : <<"channel", k>> \in links

\* A shim that is not bound has left nothing behind.
NothingLeft ==
  order = "apart" /\ pc["shim"] = "idle" =>
    links = {} /\ adapter = None /\ client = None /\ ~ pdev

\* A remove ends, whatever the threads that bind and unbind xiic and the mux do
\* meanwhile, although it waits for the locks of the platform device and of the
\* client that they hold while they run the notifier.  Only after a freed client
\* was unregistered (UnregistersNoFreedClient) nothing can be said.
RemoveEnds ==
  pc["shim"] = "drop_links" ~> (pc["shim"] = "idle" \/ ~ UnregistersNoFreedClient)
=============================================================================
