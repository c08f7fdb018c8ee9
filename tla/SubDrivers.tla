----------------------------- MODULE SubDrivers -----------------------------
(***************************************************************************)
(* The sub-drivers that are little but sysfs attributes on an auxiliary       *)
(* device: nh_fpga_info, nh_xcvr_ctrl, nh_fpga_asic_temp and nh_fpga_psu.     *)
(* Each device is bound and unbound by the driver core while threads are      *)
(* inside its attributes; the stores to transceiver signals change registers  *)
(* that several ports share, under one lock for all ports.                   *)
(*                                                                          *)
(* External are the driver core (devres goes in the reverse order, then the   *)
(* driver data is cleared), sysfs (a file lets nobody in once it is           *)
(* deactivated, and goes when the last callback has left) and hwmon (a device *)
(* of its own, whose data is there as long as it is).                        *)
(***************************************************************************)
EXTENDS Naturals, Sequences

CONSTANTS
  Device,      \* auxiliary devices
  Kinds,       \* which driver each of them may have
  Thread,      \* threads that read and write attributes
  CellOf,      \* CellOf[d][s]: <<register, bit>> of signal s of port d
  ActiveHigh,  \* ports whose group says reset_active_high
  NoLpMode,    \* ports whose group says no_lp_mode
  Nobody       \* no lock holder, and no request

Kind == {"info", "xcvr", "asic_temp", "psu"}
Control == {"reset", "low_power"}

\* The signals of the ports are at places of their own, and the placeholder is
\* neither a thread nor a request.
ASSUME PortsOK ==
  /\ Kinds \subseteq [Device -> Kind]
  /\ ActiveHigh \subseteq Device /\ NoLpMode \subseteq Device
  /\ \A d, e \in Device : \A s, r \in Control :
       CellOf[d][s] = CellOf[e][r] => d = e /\ s = r
  /\ Nobody \notin Thread /\ Nobody \notin Device \X Control \X BOOLEAN

VARIABLES
  kind,     \* the driver of each device, which never changes
  pc,       \* control point of the driver core for each device
  step,     \* steps of probe that are done
  held,     \* what devres holds
  drvdata,  \* auxiliary_set_drvdata() has stored a pointer
  reg,      \* register bits that are 1
  shadow,   \* ctrl->lp_mode_shadow
  lock,     \* xcvr_reg_lock, one for all devices
  cpc,      \* control point of each thread
  op,       \* the attribute it is in
  local     \* the register it has read

devVars == <<pc, step, held, drvdata>>
callVars == <<lock, cpc, op, local>>
vars == <<kind, devVars, reg, shadow, callVars>>

\* What a call can be: the show of an attribute, the show of the firmware version
\* of a PSU, or the store of a signal of a transceiver.
Shows(d) == [dev : {d}, what : {"show"}]
Versions(d) == [dev : {d}, what : {"fw_version"}]
Stores(d) == [dev : {d}, what : Control, value : BOOLEAN]
Call == UNION {Shows(d) \cup Versions(d) \cup Stores(d) : d \in Device}
Calls(k, d) ==
  CASE k = "xcvr" -> Shows(d) \cup Stores(d)
    [] k = "psu" -> Shows(d) \cup Versions(d)
    [] OTHER -> Shows(d)

NoOp == [dev |-> Nobody]

Cell == {CellOf[d][s] : d \in Device, s \in Control}
Register(r) == {c \in Cell : c[1] = r}

\* The pin of a signal; a port with no_lp_mode has none for low power.
HasPin(d, s) == s = "reset" \/ d \notin NoLpMode

DevicePC == {"unbound", "probe", "bound", "release", "drain"}
Using == {"use", "transfer", "shadow", "lock", "write"}
CallPC == {"idle", "load", "oops"} \cup Using

\* Type invariant; the mutex excludes.
TypeOK ==
  /\ kind \in Kinds
  /\ pc \in [Device -> DevicePC]
  /\ step \in [Device -> 0 .. 2]
  /\ held \in [Device -> SUBSET {"data", "files"}]
  /\ drvdata \in [Device -> BOOLEAN]
  /\ reg \subseteq Cell
  /\ shadow \in [Device -> BOOLEAN]
  /\ lock \in Thread \cup {Nobody}
  /\ cpc \in [Thread -> CallPC]
  /\ op \in [Thread -> Call \cup {NoOp}]
  /\ local \in [Thread -> SUBSET Cell]
  /\ \A t \in Thread : lock = t <=> cpc[t] = "write"

\* No device is bound; the registers are as the hardware has them.
Init ==
  /\ kind \in Kinds
  /\ pc = [d \in Device |-> "unbound"]
  /\ step = [d \in Device |-> 0]
  /\ held = [d \in Device |-> {}]
  /\ drvdata = [d \in Device |-> FALSE]
  /\ reg \in SUBSET UNION {{CellOf[d][s] : s \in {r \in Control : HasPin(d, r)}} :
                              d \in {e \in Device : kind[e] = "xcvr"}}
  /\ shadow = [d \in Device |-> FALSE]
  /\ lock = Nobody
  /\ cpc = [t \in Thread |-> "idle"]
  /\ op = [t \in Thread |-> NoOp]
  /\ local = [t \in Thread |-> {}]

Go(d, where) == pc' = [pc EXCEPT ![d] = where]
-----------------------------------------------------------------------------
(* Probe.  What each driver acquires, in its order: its structure (with  *)
(* the names and attributes it allocates), the files (an attribute group of   *)
(* the device or a hwmon device), and the pointer in the auxiliary device.   *)

info_probe == <<"data", "files", "drvdata">>
xcvr_probe == <<"data", "files", "drvdata">>
asic_temp_probe == <<"data", "files", "drvdata">>
psu_probe == <<"data", "drvdata", "files">>

\* Faulty variant of ProbeOrder: the files are there before what they need.
ProbeOrderFilesFirst(k) ==
  CASE k = "info" -> info_probe
    [] k = "xcvr" -> xcvr_probe
    [] k = "asic_temp" -> <<"files", "data", "drvdata">>
    [] k = "psu" -> psu_probe

ProbeOrder(k) ==
  CASE k = "info" -> info_probe
    [] k = "xcvr" -> xcvr_probe
    [] k = "asic_temp" -> asic_temp_probe
    [] k = "psu" -> psu_probe

Doing(d, what) == pc[d] = "probe" /\ ProbeOrder(kind[d])[step[d] + 1] = what

\* The next step of probe, or its end.
Advance(d) ==
  LET last == step[d] + 1 = Len(ProbeOrder(kind[d])) IN
  /\ step' = [step EXCEPT ![d] = IF last THEN 0 ELSE @ + 1]
  /\ Go(d, IF last THEN "bound" ELSE "probe")

BeginProbe(d) ==
  /\ pc[d] = "unbound"
  /\ Go(d, "probe")
  /\ UNCHANGED <<kind, step, held, drvdata, reg, shadow, callVars>>

\* devm_kzalloc(), and all that is allocated for the attributes.
Allocate(d) ==
  /\ Doing(d, "data")
  /\ held' = [held EXCEPT ![d] = @ \cup {"data"}]
  /\ shadow' = [shadow EXCEPT ![d] = FALSE]
  /\ Advance(d)
  /\ UNCHANGED <<kind, drvdata, reg, callVars>>

\* devm_device_add_group() or devm_hwmon_device_register_with_groups().
AddFiles(d) ==
  /\ Doing(d, "files")
  /\ held' = [held EXCEPT ![d] = @ \cup {"files"}]
  /\ Advance(d)
  /\ UNCHANGED <<kind, drvdata, reg, shadow, callVars>>

SetDrvdata(d) ==
  /\ Doing(d, "drvdata")
  /\ drvdata' = [drvdata EXCEPT ![d] = TRUE]
  /\ Advance(d)
  /\ UNCHANGED <<kind, held, reg, shadow, callVars>>

\* A call fails: the driver core releases what has been acquired.
ProbeFails(d) ==
  /\ pc[d] = "probe"
  /\ ~ Doing(d, "drvdata")
  /\ step' = [step EXCEPT ![d] = 0]
  /\ Go(d, "release")
  /\ UNCHANGED <<kind, held, drvdata, reg, shadow, callVars>>
-----------------------------------------------------------------------------
(* Remove.                                                                  *)

\* Whether remove() clears the driver data.
info_remove == TRUE
xcvr_remove == FALSE
asic_temp_remove == TRUE
psu_remove == TRUE

ClearsData(k) ==
  CASE k = "info" -> info_remove
    [] k = "xcvr" -> xcvr_remove
    [] k = "asic_temp" -> asic_temp_remove
    [] k = "psu" -> psu_remove

Remove(d) ==
  /\ pc[d] = "bound"
  /\ drvdata' = [drvdata EXCEPT ![d] = @ /\ ~ ClearsData(kind[d])]
  /\ Go(d, "release")
  /\ UNCHANGED <<kind, step, held, reg, shadow, callVars>>

Inside(t, d) == cpc[t] # "idle" /\ op[t].dev = d

\* devres: the files were acquired last and go first.  They let nobody in any
\* more, and wait for those who are inside.
Deactivate(d) ==
  /\ pc[d] = "release"
  /\ Go(d, "drain")
  /\ UNCHANGED <<kind, step, held, drvdata, reg, shadow, callVars>>

\* They are gone, the memory is freed, and the driver core clears its pointer.
Free(d) ==
  /\ pc[d] = "drain"
  /\ \A t \in Thread : ~ Inside(t, d)
  /\ held' = [held EXCEPT ![d] = {}]
  /\ drvdata' = [drvdata EXCEPT ![d] = FALSE]
  /\ Go(d, "unbound")
  /\ UNCHANGED <<kind, step, reg, shadow, callVars>>
-----------------------------------------------------------------------------
(* The attributes.                                                          *)

At(t, where) == cpc' = [cpc EXCEPT ![t] = where]

\* A thread leaves its callback.
Leave(t) == At(t, "idle") /\ op' = [op EXCEPT ![t] = NoOp]

\* A read or write of a file that is there and active.  The value written has
\* been parsed; what is no number is refused with no effect.
Enter(t, d) ==
  /\ cpc[t] = "idle"
  /\ "files" \in held[d] /\ pc[d] # "drain"
  /\ \E c \in Calls(kind[d], d) : op' = [op EXCEPT ![t] = c]
  /\ At(t, "load")
  /\ UNCHANGED <<kind, devVars, reg, shadow, lock, local>>

\* dev_get_drvdata(): of the hwmon device, which has its pointer from the start,
\* or of the auxiliary device.
HasData(d) == kind[d] \in {"asic_temp", "psu"} \/ drvdata[d]

\* xcvr_low_power_store() of a port without the pin.
SetsShadow(o) == o.what \in Control /\ ~ HasPin(o.dev, o.what)

\* The callback fetches its structure and uses it; a NULL pointer ends the thread
\* inside the file.
Load(t) ==
  /\ cpc[t] = "load"
  /\ At(t, IF ~ HasData(op[t].dev) THEN "oops"
           ELSE IF SetsShadow(op[t]) THEN "shadow"
           ELSE IF op[t].what \in Control THEN "lock" ELSE "use")
  /\ UNCHANGED <<kind, devVars, reg, shadow, lock, op, local>>

\* A show reads a register, the version in the structure or the shadow.
\* psu_fw_version_show() of a PSU that is there goes on to read it.
Show(t) ==
  /\ cpc[t] = "use"
  /\ \/ Leave(t)
     \/ op[t].what = "fw_version" /\ At(t, "transfer") /\ UNCHANGED op
  /\ UNCHANGED <<kind, devVars, reg, shadow, lock, local>>

\* nh_fpga_mux_channel_xfer() returns, with or without the version.
Transferred(t) ==
  /\ cpc[t] = "transfer"
  /\ Leave(t)
  /\ UNCHANGED <<kind, devVars, reg, shadow, lock, local>>

StoreShadow(t) ==
  /\ cpc[t] = "shadow"
  /\ shadow' = [shadow EXCEPT ![op[t].dev] = op[t].value]
  /\ Leave(t)
  /\ UNCHANGED <<kind, devVars, reg, lock, local>>

\* What ioread32() of the register of signal o.what gives.
ReadFor(o) == reg \cap Register(CellOf[o.dev][o.what][1])

\* Faulty variant of LockAndRead: a lock for each port.
LockOfPort(t) ==
  /\ cpc[t] = "lock"
  /\ \A u \in Thread : cpc[u] = "write" => op[u].dev # op[t].dev
  /\ lock' = t
  /\ local' = [local EXCEPT ![t] = ReadFor(op[t])]
  /\ At(t, "write")
  /\ UNCHANGED <<kind, devVars, reg, shadow, op>>

\* nh_xcvr_ctrl_write_reg() takes the lock and reads the register ...
LockAndRead(t) ==
  /\ cpc[t] = "lock"
  /\ lock = Nobody
  /\ lock' = t
  /\ local' = [local EXCEPT ![t] = ReadFor(op[t])]
  /\ At(t, "write")
  /\ UNCHANGED <<kind, devVars, reg, shadow, op>>

\* The bit that stands for a value: "keeps the platform-wide active-low
\* convention".
Raw(d, s, v) == IF s = "reset" /\ d \in ActiveHigh THEN ~ v ELSE v

\* The registers after the store o was written on top of what had been read.
Written(o, read) ==
  LET c == CellOf[o.dev][o.what] IN
  (reg \ Register(c[1])) \cup
    IF Raw(o.dev, o.what, o.value) THEN read \cup {c} ELSE read \ {c}

\* Faulty variant of Write: the unlock is forgotten.
WriteKeepsLock(t) ==
  /\ cpc[t] = "write"
  /\ reg' = Written(op[t], local[t])
  /\ local' = [local EXCEPT ![t] = {}]
  /\ Leave(t)
  /\ UNCHANGED <<kind, devVars, shadow, lock>>

\* ... and writes it with the bit of its signal changed.
Write(t) ==
  /\ cpc[t] = "write"
  /\ reg' = Written(op[t], local[t])
  /\ lock' = Nobody
  /\ local' = [local EXCEPT ![t] = {}]
  /\ Leave(t)
  /\ UNCHANGED <<kind, devVars, shadow>>
-----------------------------------------------------------------------------
Acquire(d) == Allocate(d) \/ AddFiles(d) \/ SetDrvdata(d)
Release(d) == Deactivate(d) \/ Free(d)
CallStep(t) ==
  \/ Load(t) \/ Show(t) \/ Transferred(t)
  \/ StoreShadow(t) \/ LockAndRead(t) \/ Write(t)

Next ==
  \/ \E d \in Device : BeginProbe(d) \/ Acquire(d) \/ ProbeFails(d) \/ Remove(d) \/ Release(d)
  \/ \E t \in Thread : CallStep(t) \/ \E d \in Device : Enter(t, d)

\* Threads in the kernel go on, a waiter for the mutex gets it in the end, and
\* a transfer ends after its timeout.  Nobody has to bind, unbind or call.
Fairness ==
  /\ \A d \in Device : WF_vars(Release(d))
  /\ \A t \in Thread : SF_vars(CallStep(t))

Spec == Init /\ [][Next]_vars
FairSpec == Spec /\ Fairness
-----------------------------------------------------------------------------
(* Properties.                                                              *)

\* A callback runs on memory that is there: the driver's structure and the
\* attributes are freed only when nobody can be inside ("removed on unbind before
\* devres frees the attribute memory").  And it finds its structure whenever the
\* device is bound, and beyond that but for two cases: the info driver clears the
\* pointer before its files go ("to prevent further access", which it does not),
\* and the info and transceiver drivers add the files before they set the pointer.
CallbacksFindData ==
  \A t \in Thread :
    /\ cpc[t] \in Using => "data" \in held[op[t].dev]
    /\ cpc[t] = "load" /\ ~ HasData(op[t].dev) =>
         \/ kind[op[t].dev] = "info" /\ pc[op[t].dev] # "bound"
         \/ kind[op[t].dev] = "xcvr" /\ pc[op[t].dev] = "probe"

\* A device that is being unbound is unbound in the end: whoever is inside its
\* attributes leaves, also one that waits for the lock of all ports or for a
\* transfer; unless a thread was ended inside an attribute of this very device.
UnbindEnds ==
  \A d \in Device :
    pc[d] = "release" ~>
      (pc[d] = "unbound" \/ \E t \in Thread : cpc[t] = "oops" /\ op[t].dev = d)

\* What the attribute of a signal reads.
Shown(d, s) ==
  IF ~ HasPin(d, s) THEN shadow[d]
  ELSE (CellOf[d][s] \in reg) # (s = "reset" /\ d \in ActiveHigh)

Signals == INSTANCE XcvrSignals WITH
  Port <- Device,
  Shadowed <- NoLpMode,
  None <- Nobody,
  shown <- [ds \in Device \X Control |-> Shown(ds[1], ds[2])],
  asked <- [t \in Thread |->
              IF cpc[t] \in {"shadow", "lock", "write"}
              THEN <<op[t].dev, op[t].what, op[t].value>> ELSE Nobody]

\* "one lock serializes RMW across all xcvr port devices": every store sets the
\* signal it was made to and no other, whatever other ports share its register,
\* and a show gives back what was stored, with the polarity undone.
ImplementsSignals == Signals!Spec
=============================================================================
