------------------------------- MODULE FpgaMux -------------------------------
(***************************************************************************)
(* nh_fpga_mux.c: the I2C mux driver on the fpga-mux clients.  It owns the   *)
(* channel adapters of each mux, selects a channel by a register write, and *)
(* lets sibling drivers reach a channel through a list of registered muxes  *)
(* whose mutex is held across the transfer.                                 *)
(*                                                                          *)
(* Per mux there is the thread that probes or removes it; callers reach the *)
(* channels by nh_fpga_mux_channel_xfer() ("sibling" drivers) or hold a     *)
(* reference to a channel adapter of their own ("direct", such as i2c-dev). *)
(* The I2C core is external: i2c_transfer() holds the lock of the parent    *)
(* bus around select, transfer and deselect, and deleting an adapter waits  *)
(* for the references to it.                                                *)
(***************************************************************************)
EXTENDS Naturals, FiniteSets

CONSTANTS
  Mux,        (* fpga-mux clients, each on a bus of its own                   *)
  Sibling,    (* threads inside sibling drivers                               *)
  Direct,     (* threads that hold a channel adapter themselves               *)
  CHANNELS,   (* pdata->num_channels of each mux                              *)
  MAX_UNLINKED, (* bound: links of one mux that cannot be created             *)
  Nobody      (* no lock owner, and no target                                 *)

Caller == Sibling \cup Direct

ASSUME MuxesOK ==
  /\ CHANNELS \in [Mux -> 1 .. 8]     \* fpga_mux_probe() refuses the rest
  /\ Mux \cap Caller = {} /\ Sibling \cap Direct = {}
  /\ MAX_UNLINKED \in Nat
  /\ Nobody \notin Mux \cup Caller

Channel == 0 .. 7

NoTarget == <<Nobody, 0>>

VARIABLES
  mpc,       \* control point of the thread that probes or removes a mux
  adapters,  \* muxc->num_adapters: channels 0 .. adapters - 1 exist
  links,     \* the channel-* links of the client device
  list,      \* fpga_mux_list
  listLock,  \* fpga_mux_list_lock
  coreLock,  \* the I2C core's lock, which a remove may run under
  bus,       \* the parent bus lock of each mux
  reg,       \* the mux register
  cpc,       \* control point of a caller
  target     \* the mux and channel it wants

muxVars == <<mpc, adapters, links>>
callVars == <<bus, reg, cpc, target>>
vars == <<muxVars, list, listLock, coreLock, callVars>>

MuxPC == {"unbound", "adding", "failing", "publish", "bound", "unlink", "unlinks", "deleting"}
CallerPC == {"idle", "lookup", "search", "bus", "select", "transfer", "done"}

\* Type invariant of the mux list, the channel adapters and the callers.
TypeOK ==
  /\ mpc \in [Mux -> MuxPC]
  /\ adapters \in [Mux -> 0 .. 8] /\ \A m \in Mux : adapters[m] <= CHANNELS[m]
  /\ links \in [Mux -> SUBSET Channel]
  /\ list \in SUBSET Mux
  /\ listLock \in Mux \cup Sibling \cup {Nobody}
  /\ coreLock \in Mux \cup {Nobody}
  /\ bus \in [Mux -> Caller \cup {Nobody}]
  /\ reg \in [Mux -> Channel]
  /\ cpc \in [Caller -> CallerPC]
  /\ target \in [Caller -> {NoTarget} \cup Mux \X (0 .. 8)]

Init ==
  /\ mpc = [m \in Mux |-> "unbound"]
  /\ adapters = [m \in Mux |-> 0]
  /\ links = [m \in Mux |-> {}]
  /\ list = {} /\ listLock = Nobody /\ coreLock = Nobody
  /\ bus = [m \in Mux |-> Nobody]
  /\ reg = [m \in Mux |-> 0]
  /\ cpc = [c \in Caller |-> "idle"]
  /\ target = [c \in Caller |-> NoTarget]

Go(m, where) == mpc' = [mpc EXCEPT ![m] = where]
-----------------------------------------------------------------------------
(* fpga_mux_probe()                                                         *)

BeginProbe(m) ==
  /\ mpc[m] = "unbound"
  /\ Go(m, "adding")
  /\ UNCHANGED <<adapters, links, list, listLock, coreLock, callVars>>

\* Faulty variant of AddAdapter: the loop runs once too often.
AddAdapterOnceMore(m) ==
  /\ mpc[m] = "adding"
  /\ adapters[m] <= CHANNELS[m]
  /\ adapters' = [adapters EXCEPT ![m] = @ + 1]
  /\ UNCHANGED <<mpc, links, list, listLock, coreLock, callVars>>

\* i2c_mux_add_adapter() for the next channel, its name and its link, which
\* the driver only warns about.
AddAdapter(m) ==
  /\ mpc[m] = "adding"
  /\ adapters[m] < CHANNELS[m]
  /\ \/ Go(m, "failing") /\ UNCHANGED <<adapters, links>>
     \/ /\ adapters' = [adapters EXCEPT ![m] = @ + 1]
        /\ \/ links' = [links EXCEPT ![m] = @ \cup {adapters[m]}]
           \/ adapters[m] < Cardinality(links[m]) + MAX_UNLINKED /\ links' = links
        /\ UNCHANGED mpc
  /\ UNCHANGED <<list, listLock, coreLock, callVars>>

\* A channel could not be added: the links go, then the adapters.
UnwindProbe(m) ==
  /\ mpc[m] = "failing"
  /\ links' = [links EXCEPT ![m] = {}]
  /\ Go(m, "deleting")
  /\ UNCHANGED <<adapters, list, listLock, coreLock, callVars>>

\* Faulty variant of Publish: the mux is listed when its first channel exists.
PublishEarly(m) ==
  /\ mpc[m] = "adding" /\ adapters[m] > 0
  /\ listLock = Nobody
  /\ list' = list \cup {m}
  /\ mpc' = [mpc EXCEPT ![m] = IF adapters[m] = CHANNELS[m] THEN "bound" ELSE @]
  /\ UNCHANGED <<adapters, links, listLock, coreLock, callVars>>

\* "Publish only once every channel adapter exists."
Publish(m) ==
  /\ mpc[m] = "adding" /\ adapters[m] = CHANNELS[m]
  /\ listLock = Nobody
  /\ list' = list \cup {m}
  /\ Go(m, "bound")
  /\ UNCHANGED <<adapters, links, listLock, coreLock, callVars>>
-----------------------------------------------------------------------------
(* fpga_mux_remove()                                                        *)

\* It may be called with the core lock held or without.
BeginRemove(m) ==
  /\ mpc[m] = "bound"
  /\ \/ UNCHANGED coreLock
     \/ coreLock = Nobody /\ coreLock' = m
  /\ Go(m, "unlink")
  /\ UNCHANGED <<adapters, links, list, listLock, callVars>>

\* Faulty variant of Unlink: the entry leaves the list without the mutex.
UnlinkUnlocked(m) ==
  /\ mpc[m] = "unlink"
  /\ list' = list \ {m}
  /\ Go(m, "unlinks")
  /\ UNCHANGED <<adapters, links, listLock, coreLock, callVars>>

\* "Unlink before the adapters go away"
Unlink(m) ==
  /\ mpc[m] = "unlink"
  /\ listLock = Nobody
  /\ list' = list \ {m}
  /\ Go(m, "unlinks")
  /\ UNCHANGED <<adapters, links, listLock, coreLock, callVars>>

\* Client data, then the links.
RemoveLinks(m) ==
  /\ mpc[m] = "unlinks"
  /\ links' = [links EXCEPT ![m] = {}]
  /\ Go(m, "deleting")
  /\ UNCHANGED <<adapters, list, listLock, coreLock, callVars>>

\* A direct caller holds a reference from its call to its return.
Referenced(m, ch) == \E c \in Direct : cpc[c] # "idle" /\ target[c] = <<m, ch>>

\* i2c_mux_del_adapters(): the last channel first.
DeleteAdapter(m) ==
  /\ mpc[m] = "deleting"
  /\ adapters[m] > 0
  /\ ~ Referenced(m, adapters[m] - 1)
  /\ adapters' = [adapters EXCEPT ![m] = @ - 1]
  /\ UNCHANGED <<mpc, links, list, listLock, coreLock, callVars>>

Unbound(m) ==
  /\ mpc[m] = "deleting"
  /\ adapters[m] = 0
  /\ coreLock' = IF coreLock = m THEN Nobody ELSE coreLock
  /\ Go(m, "unbound")
  /\ UNCHANGED <<adapters, links, list, listLock, callVars>>
-----------------------------------------------------------------------------
(* Transfers.                                                               *)

At(c, where) == cpc' = [cpc EXCEPT ![c] = where]
Wants(c) == target[c][1]

\* A sibling calls nh_fpga_mux_channel_xfer() for a channel of its platform
\* table, which the mux may not have; a direct caller opens, under the core
\* lock, what exists and is not being deleted.
Call(c) ==
  /\ cpc[c] = "idle"
  /\ \E m \in Mux, ch \in 0 .. 8 :
       /\ ch <= CHANNELS[m]
       /\ c \in Direct => /\ coreLock = Nobody
                          /\ ch < adapters[m]
                          /\ mpc[m] \notin {"deleting", "failing"}
       /\ target' = [target EXCEPT ![c] = <<m, ch>>]
  /\ At(c, IF c \in Direct THEN "bus" ELSE "lookup")
  /\ UNCHANGED <<muxVars, list, listLock, coreLock, bus, reg>>

Lookup(c) ==
  /\ cpc[c] = "lookup"
  /\ listLock = Nobody
  /\ listLock' = c
  /\ At(c, "search")
  /\ UNCHANGED <<muxVars, list, coreLock, bus, reg, target>>

\* Faulty variant of Search: a reference is taken with i2c_get_adapter(), under the
\* core lock.
SearchGetsAdapter(c) ==
  /\ cpc[c] = "search"
  /\ coreLock = Nobody
  /\ LET m == Wants(c) IN
       At(c, IF m \in list /\ target[c][2] < adapters[m] THEN "bus" ELSE "done")
  /\ UNCHANGED <<muxVars, list, listLock, coreLock, bus, reg, target>>

\* The list is searched with the lock held; -ENODEV if there is no such channel.
Search(c) ==
  /\ cpc[c] = "search"
  /\ LET m == Wants(c) IN
       At(c, IF m \in list /\ target[c][2] < adapters[m] THEN "bus" ELSE "done")
  /\ UNCHANGED <<muxVars, list, listLock, coreLock, bus, reg, target>>

\* i2c_transfer() on the channel adapter: lock the parent bus.
LockBus(c) ==
  /\ cpc[c] = "bus"
  /\ bus[Wants(c)] = Nobody
  /\ bus' = [bus EXCEPT ![Wants(c)] = c]
  /\ At(c, "select")
  /\ UNCHANGED <<muxVars, list, listLock, coreLock, reg, target>>

\* Faulty variant of Select: the mask of two bits the driver once had.
SelectTwoBits(c) ==
  /\ cpc[c] = "select"
  /\ reg' = [reg EXCEPT ![Wants(c)] = target[c][2] % 4]
  /\ At(c, "transfer")
  /\ UNCHANGED <<muxVars, list, listLock, coreLock, bus, target>>

\* fpga_mux_select(): chan & 0x7.
Select(c) ==
  /\ cpc[c] = "select"
  /\ reg' = [reg EXCEPT ![Wants(c)] = target[c][2] % 8]
  /\ At(c, "transfer")
  /\ UNCHANGED <<muxVars, list, listLock, coreLock, bus, target>>

\* The transfer ends, fpga_mux_deselect() does nothing, the bus is unlocked.
Transferred(c) ==
  /\ cpc[c] = "transfer"
  /\ bus' = [bus EXCEPT ![Wants(c)] = Nobody]
  /\ At(c, "done")
  /\ UNCHANGED <<muxVars, list, listLock, coreLock, reg, target>>

\* The list lock or the reference is dropped.
Return(c) ==
  /\ cpc[c] = "done"
  /\ listLock' = IF listLock = c THEN Nobody ELSE listLock
  /\ target' = [target EXCEPT ![c] = NoTarget]
  /\ At(c, "idle")
  /\ UNCHANGED <<muxVars, list, coreLock, bus, reg>>

MuxStep(m) ==
  \/ AddAdapter(m) \/ UnwindProbe(m) \/ Publish(m)
  \/ Unlink(m) \/ RemoveLinks(m) \/ DeleteAdapter(m) \/ Unbound(m)
CallerStep(c) ==
  Lookup(c) \/ Search(c) \/ LockBus(c) \/ Select(c) \/ Transferred(c) \/ Return(c)

Next ==
  \/ \E m \in Mux : BeginProbe(m) \/ BeginRemove(m) \/ MuxStep(m)
  \/ \E c \in Caller : Call(c) \/ CallerStep(c)

\* Threads run on, and every waiter for a mutex gets it in the end; a transfer
\* ends because the controller's driver gives up after its timeout.
Fairness ==
  /\ \A m \in Mux : SF_vars(MuxStep(m))
  /\ \A c \in Caller : SF_vars(CallerStep(c))

Spec == Init /\ [][Next]_vars
FairSpec == Spec /\ Fairness
-----------------------------------------------------------------------------
(* Properties.                                                              *)

\* A transfer that is under way, or waits for the bus, goes to a channel
\* adapter that exists, and no other mux operation deletes it meanwhile.
TransferOnLiveChannel ==
  \A c \in Caller :
    cpc[c] \in {"bus", "select", "transfer"} => target[c][2] < adapters[Wants(c)]

\* What is on the wire goes to the channel that was asked for.
ChannelSelected ==
  \A c \in Caller : cpc[c] = "transfer" => reg[Wants(c)] = target[c][2]

\* "an entry still on the list is guaranteed to have live" channel adapters,
\* all of them, and a link never outlives its adapter.
ListedMuxIsComplete ==
  /\ \A m \in list : adapters[m] = CHANNELS[m]
  /\ \A m \in Mux : \A ch \in links[m] : ch < adapters[m]

\* A mux whose removal has begun is gone in the end, and every call returns: the
\* transfers that hold the list lock end, and neither side waits for a lock that
\* the other one holds.
RemovalsAndCallsEnd ==
  /\ \A m \in Mux : mpc[m] = "unlink" ~> mpc[m] = "unbound"
  /\ \A c \in Caller : cpc[c] # "idle" ~> cpc[c] = "idle"
=============================================================================
