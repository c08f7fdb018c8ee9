-------------------------------- MODULE Fbiob --------------------------------
(***************************************************************************)
(* The fbiob_pci driver (nh_fpga_fbiob_main.c and nh_fpga_aux.c): binding   *)
(* and unbinding of FPGAs, the minor-number bitmap, the character device    *)
(* and its /dev node, the devres stack, and the NEW_DEVICE / DEL_DEVICE     *)
(* ioctls that create and remove auxiliary devices under the per-FPGA       *)
(* mutex.                                                                   *)
(*                                                                          *)
(* Per FPGA there is one driver-core thread, at control point pc[f]; per    *)
(* user thread t there is at most one open file and one ioctl, at control   *)
(* point tpc[t].  A step is a stretch of code between two points where the  *)
(* other threads can observe or change shared state.                        *)
(***************************************************************************)
EXTENDS Naturals, Sequences

CONSTANTS
  FPGA,         (* the PCI functions that match nh_fpga_pci_ids             *)
  Thread,       (* user-space threads that open the /dev nodes              *)
  Key,          (* auxiliary device names: (name, id) of struct fbiob_aux_id *)
  MAX_DEVICES,  (* FBIOB_MAX_DEVICES, the size of minor_bitmap              *)
  NodeName,     (* the /dev name of an FPGA: its four PCI ids               *)
  HOT_UNBIND,   (* may a bound FPGA be unbound through sysfs or unplugged?  *)
                (* FALSE: only rmmod unbinds, and it waits for open files   *)
  Nobody        (* no lock owner, no open file                              *)

\* An open file whose fbiob_dev has been freed; the model does not go on with
\* a thread that holds one, because what it then reads is arbitrary.
Dangling == "dangling"

ASSUME ConstantsOK ==
  /\ MAX_DEVICES \in Nat
  /\ HOT_UNBIND \in BOOLEAN
  /\ FPGA \cap Thread = {}
  /\ Nobody \notin FPGA \cup Thread
  /\ Dangling \notin FPGA \cup {Nobody}

Minor == 0 .. MAX_DEVICES - 1
NoMinor == MAX_DEVICES        \* fbiob_dev->minor before it is set

VARIABLES
  module,    \* "live", or "going" while rmmod runs
  minors,    \* minor_bitmap
  pc,        \* control point of the driver-core thread of each FPGA
  minor,     \* fbiob_dev->minor
  devres,    \* the devres stack of the PCI device, last acquired at the end
  enabled,   \* pci_enable_device() without its pci_disable_device()
  cdev,      \* the cdev is in the character-device map
  node,      \* device_create()d, so the /dev node exists
  lock,      \* owner of fbiob_dev->lock
  auxList,   \* fbiob_dev->aux_dev_list
  taken,     \* devices_to_remove in nh_fpga_pci_remove()
  bus,       \* the auxiliary bus: <<key, fpga>> pairs
  file,      \* the FPGA whose fbiob_dev is private_data of t's open file
  tpc,       \* control point of each user thread
  key,       \* the id its ioctl was called with
  ret        \* what its last ioctl returned, until the next call

drvVars == <<module, minors, pc, minor, devres, enabled, cdev, node>>
auxVars == <<lock, auxList, taken, bus>>
userVars == <<file, tpc, key, ret>>
vars == <<drvVars, auxVars, userVars>>

\* What devres holds, in the order probe acquires it: fbiob_dev itself, the
\* BAR mapping, the MSI vectors, the regmap-irq chips and the reference clock.
Resource == {"mem", "bar", "vectors", "chips", "clk"}

ProbePC == {"enable", "map", "irq", "cdev", "node"}
RemovePC == {"splice", "drain"}
UnwindPC == {"delcdev", "disable", "putminor", "devres"}
PC == {"unbound", "bound"} \cup ProbePC \cup RemovePC \cup UnwindPC
NewPC == {"new", "new_check", "new_add", "new_link"}
DelPC == {"del", "del_find", "del_unreg"}
TPC == {"idle"} \cup NewPC \cup DelPC
Ret == {"none", "ok", "EEXIST", "ENODEV", "ENOMEM"}

\* Type invariant; the list, the minor set and the bus stay within what probe
\* and the ioctls can put there.
TypeOK ==
  /\ module \in {"live", "going"}
  /\ minors \in SUBSET Minor
  /\ pc \in [FPGA -> PC]
  /\ minor \in [FPGA -> Minor \cup {NoMinor}]
  /\ devres \in [FPGA -> Seq(Resource)]
  /\ enabled \in [FPGA -> BOOLEAN]
  /\ cdev \in [FPGA -> BOOLEAN]
  /\ node \in [FPGA -> BOOLEAN]
  /\ lock \in [FPGA -> Thread \cup {Nobody}]
  /\ auxList \in [FPGA -> SUBSET Key]
  /\ taken \in [FPGA -> SUBSET Key]
  /\ bus \in SUBSET (Key \X FPGA)
  /\ file \in [Thread -> FPGA \cup {Nobody, Dangling}]
  /\ tpc \in [Thread -> TPC]
  /\ key \in [Thread -> Key \cup {Nobody}]
  /\ \A t \in Thread : tpc[t] # "idle" => key[t] \in Key
  /\ ret \in [Thread -> Ret]

Init ==
  /\ module = "live"
  /\ minors = {}
  /\ pc = [f \in FPGA |-> "unbound"]
  /\ minor = [f \in FPGA |-> NoMinor]
  /\ devres = [f \in FPGA |-> <<>>]
  /\ enabled = [f \in FPGA |-> FALSE]
  /\ cdev = [f \in FPGA |-> FALSE]
  /\ node = [f \in FPGA |-> FALSE]
  /\ lock = [f \in FPGA |-> Nobody]
  /\ auxList = [f \in FPGA |-> {}]
  /\ taken = [f \in FPGA |-> {}]
  /\ bus = {}
  /\ file = [t \in Thread |-> Nobody]
  /\ tpc = [t \in Thread |-> "idle"]
  /\ key = [t \in Thread |-> Nobody]
  /\ ret = [t \in Thread |-> "none"]
-----------------------------------------------------------------------------
(* Module load and unload.  fbiob_fops.owner is THIS_MODULE: an open file   *)
(* keeps the module, and once rmmod has begun open() fails.                 *)

BeginRmmod ==
  /\ module = "live"
  /\ \A t \in Thread : file[t] = Nobody
  /\ module' = "going"
  /\ UNCHANGED <<minors, pc, minor, devres, enabled, cdev, node>>
  /\ UNCHANGED <<auxVars, userVars>>

Reload ==
  /\ module = "going"
  /\ \A f \in FPGA : pc[f] = "unbound"
  /\ module' = "live"
  /\ UNCHANGED <<minors, pc, minor, devres, enabled, cdev, node>>
  /\ UNCHANGED <<auxVars, userVars>>
-----------------------------------------------------------------------------
(* nh_fpga_pci_probe(), one action per call that can fail.                  *)

Push(f, resources) == devres' = [devres EXCEPT ![f] = @ \o resources]
Go(f, where) == pc' = [pc EXCEPT ![f] = where]

FreeMinors == Minor \ minors

\* Faulty variant of GetMinor: a full bitmap's MAX_DEVICES is taken for a bit.
GetMinorWhenFull(f) ==
  /\ pc[f] = "unbound"
  /\ module = "live"
  /\ \E m \in FreeMinors \cup {MAX_DEVICES} :
       /\ \A n \in FreeMinors : m <= n
       /\ minor' = [minor EXCEPT ![f] = m]
       /\ minors' = minors \cup {m}
  /\ Go(f, "enable")
  /\ UNCHANGED <<module, devres, enabled, cdev, node>>
  /\ UNCHANGED <<auxVars, userVars>>

\* Faulty variant of GetMinor: the bit is found but not set.
GetMinorUnmarked(f) ==
  /\ pc[f] = "unbound"
  /\ module = "live"
  /\ \E m \in FreeMinors :
       /\ \A n \in FreeMinors : m <= n
       /\ minor' = [minor EXCEPT ![f] = m]
  /\ Go(f, "enable")
  /\ UNCHANGED <<module, minors, devres, enabled, cdev, node>>
  /\ UNCHANGED <<auxVars, userVars>>

\* find_first_zero_bit and set_bit under nh_fpga_devices_lock.  With no free
\* bit the probe returns -ENOSPC and nothing has changed.
GetMinor(f) ==
  /\ pc[f] = "unbound"
  /\ module = "live"
  /\ \E m \in FreeMinors :
       /\ \A n \in FreeMinors : m <= n
       /\ minor' = [minor EXCEPT ![f] = m]
       /\ minors' = minors \cup {m}
  /\ Go(f, "enable")
  /\ UNCHANGED <<module, devres, enabled, cdev, node>>
  /\ UNCHANGED <<auxVars, userVars>>

\* devm_kzalloc, mutex_init and pci_enable_device.
EnableDevice(f) ==
  /\ pc[f] = "enable"
  /\ \/ /\ Go(f, "putminor")                   \* no memory
        /\ UNCHANGED <<devres, enabled, lock>>
     \/ /\ Push(f, <<"mem">>)                  \* pci_enable_device fails
        /\ lock' = [lock EXCEPT ![f] = Nobody]
        /\ Go(f, "putminor")
        /\ UNCHANGED enabled
     \/ /\ Push(f, <<"mem">>)
        /\ lock' = [lock EXCEPT ![f] = Nobody]
        /\ enabled' = [enabled EXCEPT ![f] = TRUE]
        /\ Go(f, "map")
  /\ UNCHANGED <<module, minors, minor, cdev, node, auxList, taken, bus>>
  /\ UNCHANGED userVars

\* pci_iomap, its devm action and the DMA mask.  When the action cannot be
\* added devm_add_action_or_reset() itself unmaps the BAR.
MapBar(f) ==
  /\ pc[f] = "map"
  /\ \/ Go(f, "disable") /\ UNCHANGED devres          \* not mapped
     \/ Go(f, "disable") /\ Push(f, <<"bar">>)        \* no DMA mask
     \/ Go(f, "irq") /\ Push(f, <<"bar">>)
  /\ UNCHANGED <<module, minors, minor, enabled, cdev, node>>
  /\ UNCHANGED <<auxVars, userVars>>

\* Faulty variant of SetupInterrupts: the vectors are handed to devres after
\* the chips that use them.
SetupInterruptsChipsFirst(f) ==
  /\ pc[f] = "irq"
  /\ \/ Go(f, "cdev") /\ UNCHANGED devres
     \/ Go(f, "disable") /\ \E s \in {<<>>, <<"chips">>, <<"chips", "vectors">>} : Push(f, s)
     \/ Go(f, "cdev") /\ Push(f, <<"chips", "vectors", "clk">>)
  /\ UNCHANGED <<module, minors, minor, enabled, cdev, node>>
  /\ UNCHANGED <<auxVars, userVars>>

\* nh_fpga_setup_i2c_interrupts(): skipped when the platform has no irq_cfg or
\* the bitstream is too old; otherwise it may fail at any of its three steps.
SetupInterrupts(f) ==
  /\ pc[f] = "irq"
  /\ \/ Go(f, "cdev") /\ UNCHANGED devres
     \/ Go(f, "disable") /\ \E s \in {<<>>, <<"vectors">>, <<"vectors", "chips">>} : Push(f, s)
     \/ Go(f, "cdev") /\ Push(f, <<"vectors", "chips", "clk">>)
  /\ UNCHANGED <<module, minors, minor, enabled, cdev, node>>
  /\ UNCHANGED <<auxVars, userVars>>

\* INIT_LIST_HEAD, cdev_init and cdev_add.
AddCdev(f) ==
  /\ pc[f] = "cdev"
  /\ auxList' = [auxList EXCEPT ![f] = {}]
  /\ \/ Go(f, "disable") /\ UNCHANGED cdev
     \/ Go(f, "node") /\ cdev' = [cdev EXCEPT ![f] = TRUE]
  /\ UNCHANGED <<module, minors, minor, devres, enabled, node>>
  /\ UNCHANGED <<lock, taken, bus, userVars>>

\* device_create(): a name of the class denotes one device, and the driver
\* builds it from the PCI ids alone.  Then pci_set_drvdata().
CreateNode(f) ==
  /\ pc[f] = "node"
  /\ \/ Go(f, "delcdev") /\ UNCHANGED node
     \/ /\ \A g \in FPGA : node[g] => NodeName[g] # NodeName[f]
        /\ node' = [node EXCEPT ![f] = TRUE]
        /\ Go(f, "bound")
  /\ UNCHANGED <<module, minors, minor, devres, enabled, cdev>>
  /\ UNCHANGED <<auxVars, userVars>>

Probe(f) ==
  \/ EnableDevice(f) \/ MapBar(f) \/ SetupInterrupts(f) \/ AddCdev(f) \/ CreateNode(f)
-----------------------------------------------------------------------------
(* nh_fpga_pci_remove(), whose tail is also the unwinding of a failed probe. *)

BeginRemove(f) ==
  /\ pc[f] = "bound"
  /\ HOT_UNBIND \/ module = "going"
  /\ Go(f, "splice")
  /\ UNCHANGED <<module, minors, minor, devres, enabled, cdev, node>>
  /\ UNCHANGED <<auxVars, userVars>>

\* list_splice_init() under the lock.
RemoveSplice(f) ==
  /\ pc[f] = "splice"
  /\ lock[f] = Nobody
  /\ taken' = [taken EXCEPT ![f] = auxList[f]]
  /\ auxList' = [auxList EXCEPT ![f] = {}]
  /\ Go(f, "drain")
  /\ UNCHANGED <<module, minors, minor, devres, enabled, cdev, node, lock, bus>>
  /\ UNCHANGED userVars

\* One round of the loop over devices_to_remove, without the lock.
RemoveOne(f) ==
  /\ pc[f] = "drain"
  /\ \E k \in taken[f] :
       /\ taken' = [taken EXCEPT ![f] = @ \ {k}]
       /\ bus' = bus \ {<<k, f>>}
  /\ UNCHANGED <<drvVars, lock, auxList, userVars>>

\* Faulty variant of DestroyNode: the node goes before the loop has ended.
DestroyNodeEarly(f) ==
  /\ pc[f] = "drain"
  /\ node' = [node EXCEPT ![f] = FALSE]
  /\ Go(f, "delcdev")
  /\ UNCHANGED <<module, minors, minor, devres, enabled, cdev>>
  /\ UNCHANGED <<auxVars, userVars>>

\* The loop has ended: device_destroy().
DestroyNode(f) ==
  /\ pc[f] = "drain"
  /\ taken[f] = {}
  /\ node' = [node EXCEPT ![f] = FALSE]
  /\ Go(f, "delcdev")
  /\ UNCHANGED <<module, minors, minor, devres, enabled, cdev>>
  /\ UNCHANGED <<auxVars, userVars>>

DelCdev(f) ==
  /\ pc[f] = "delcdev"
  /\ cdev' = [cdev EXCEPT ![f] = FALSE]
  /\ Go(f, "disable")
  /\ UNCHANGED <<module, minors, minor, devres, enabled, node>>
  /\ UNCHANGED <<auxVars, userVars>>

DisableDevice(f) ==
  /\ pc[f] = "disable"
  /\ enabled' = [enabled EXCEPT ![f] = FALSE]
  /\ Go(f, "putminor")
  /\ UNCHANGED <<module, minors, minor, devres, cdev, node>>
  /\ UNCHANGED <<auxVars, userVars>>

PutMinor(f) ==
  /\ pc[f] = "putminor"
  /\ minors' = minors \ {minor[f]}
  /\ minor' = [minor EXCEPT ![f] = NoMinor]
  /\ Go(f, "devres")
  /\ UNCHANGED <<module, devres, enabled, cdev, node>>
  /\ UNCHANGED <<auxVars, userVars>>

\* The driver core runs the devres actions, last acquired first.  Freeing
\* fbiob_dev leaves every file that was opened on it dangling.
ReleaseDevres(f) ==
  /\ pc[f] = "devres"
  /\ devres[f] # <<>>
  /\ LET n == Len(devres[f]) IN
       /\ devres' = [devres EXCEPT ![f] = SubSeq(@, 1, n - 1)]
       /\ file' = IF devres[f][n] = "mem"
                    THEN [t \in Thread |-> IF file[t] = f THEN Dangling ELSE file[t]]
                    ELSE file
  /\ UNCHANGED <<module, minors, pc, minor, enabled, cdev, node>>
  /\ UNCHANGED <<auxVars, tpc, key, ret>>

Unbound(f) ==
  /\ pc[f] = "devres"
  /\ devres[f] = <<>>
  /\ Go(f, "unbound")
  /\ UNCHANGED <<module, minors, minor, devres, enabled, cdev, node>>
  /\ UNCHANGED <<auxVars, userVars>>

Unwind(f) ==
  \/ RemoveOne(f) \/ DestroyNode(f) \/ DelCdev(f) \/ DisableDevice(f)
  \/ PutMinor(f) \/ ReleaseDevres(f) \/ Unbound(f)
-----------------------------------------------------------------------------
(* open(), close() and the ioctls.                                          *)

At(t, where) == tpc' = [tpc EXCEPT ![t] = where]

Return(t, result) ==
  /\ At(t, "idle")
  /\ ret' = [ret EXCEPT ![t] = result]
  /\ key' = [key EXCEPT ![t] = Nobody]

Acquire(t, f) ==
  /\ lock[f] = Nobody
  /\ lock' = [lock EXCEPT ![f] = t]
Release(f) == lock' = [lock EXCEPT ![f] = Nobody]

\* Faulty variant of Open: fbiob_fops without .owner.
OpenAnyTime(t, f) ==
  /\ file[t] = Nobody
  /\ node[f]
  /\ file' = [file EXCEPT ![t] = f]
  /\ UNCHANGED <<drvVars, auxVars, tpc, key, ret>>

\* User space reaches the cdev by the node devtmpfs keeps for it; cdev_get()
\* fails once the module is going.
Open(t, f) ==
  /\ file[t] = Nobody
  /\ node[f]
  /\ module = "live"
  /\ file' = [file EXCEPT ![t] = f]
  /\ UNCHANGED <<drvVars, auxVars, tpc, key, ret>>

Close(t) ==
  /\ file[t] \in FPGA
  /\ tpc[t] = "idle"
  /\ file' = [file EXCEPT ![t] = Nobody]
  /\ ret' = [ret EXCEPT ![t] = "none"]
  /\ UNCHANGED <<drvVars, auxVars, tpc, key>>

\* fbiob_ioctl() with arguments that pass the copy and offset checks; the others
\* make it return before it touches anything the threads share.
Ioctl(t, k) ==
  /\ file[t] \in FPGA
  /\ tpc[t] = "idle"
  /\ At(t, "new") \/ At(t, "del")
  /\ key' = [key EXCEPT ![t] = k]
  /\ ret' = [ret EXCEPT ![t] = "none"]
  /\ UNCHANGED <<drvVars, auxVars, file>>

(* nh_fpga_create_aux_device() *)

NewLock(t, f) ==
  /\ tpc[t] = "new"
  /\ Acquire(t, f)
  /\ At(t, "new_check")
  /\ UNCHANGED <<drvVars, auxList, taken, bus, file, key, ret>>

\* Faulty variant of NewCheck: the duplicate's early return misses the unlock.
NewCheckKeepsLock(t, f) ==
  /\ tpc[t] = "new_check"
  /\ \/ /\ key[t] \in auxList[f]
        /\ Return(t, "EEXIST")
        /\ UNCHANGED lock
     \/ /\ key[t] \notin auxList[f]
        /\ Return(t, "ENOMEM")
        /\ Release(f)
     \/ /\ key[t] \notin auxList[f]
        /\ At(t, "new_add")
        /\ UNCHANGED <<lock, key, ret>>
  /\ UNCHANGED <<drvVars, auxList, taken, bus, file>>

\* The list is searched for the id, then kzalloc and auxiliary_device_init().
NewCheck(t, f) ==
  /\ tpc[t] = "new_check"
  /\ \/ /\ key[t] \in auxList[f]
        /\ Return(t, "EEXIST")
        /\ Release(f)
     \/ /\ key[t] \notin auxList[f]
        /\ Return(t, "ENOMEM")
        /\ Release(f)
     \/ /\ key[t] \notin auxList[f]
        /\ At(t, "new_add")
        /\ UNCHANGED <<lock, key, ret>>
  /\ UNCHANGED <<drvVars, auxList, taken, bus, file>>

OnBus(k) == \E g \in FPGA : <<k, g>> \in bus

\* Faulty variant of NewAdd: the bus accepts a second device of the same name.
NewAddUnnamed(t, f) ==
  /\ tpc[t] = "new_add"
  /\ \/ /\ Return(t, "ENOMEM")
        /\ Release(f)
        /\ UNCHANGED bus
     \/ /\ bus' = bus \cup {<<key[t], f>>}
        /\ At(t, "new_link")
        /\ UNCHANGED <<lock, key, ret>>
  /\ UNCHANGED <<drvVars, auxList, taken, file>>

\* auxiliary_device_add(): the bus names the device "fbiob_pci.<name>.<id>",
\* so a name is taken on every FPGA at once.
NewAdd(t, f) ==
  /\ tpc[t] = "new_add"
  /\ \/ /\ OnBus(key[t])
        /\ Return(t, "EEXIST")
        /\ Release(f)
        /\ UNCHANGED bus
     \/ /\ Return(t, "ENOMEM")
        /\ Release(f)
        /\ UNCHANGED bus
     \/ /\ ~ OnBus(key[t])
        /\ bus' = bus \cup {<<key[t], f>>}
        /\ At(t, "new_link")
        /\ UNCHANGED <<lock, key, ret>>
  /\ UNCHANGED <<drvVars, auxList, taken, file>>

\* list_add_tail() and unlock.
NewLink(t, f) ==
  /\ tpc[t] = "new_link"
  /\ auxList' = [auxList EXCEPT ![f] = @ \cup {key[t]}]
  /\ Release(f)
  /\ Return(t, "ok")
  /\ UNCHANGED <<drvVars, taken, bus, file>>

(* nh_fpga_remove_aux_device() *)

DelLock(t, f) ==
  /\ tpc[t] = "del"
  /\ Acquire(t, f)
  /\ At(t, "del_find")
  /\ UNCHANGED <<drvVars, auxList, taken, bus, file, key, ret>>

\* Faulty variant of DelFind: the lock is dropped before the device is deleted.
DelFindUnlocks(t, f) ==
  /\ tpc[t] = "del_find"
  /\ Release(f)
  /\ \/ /\ key[t] \notin auxList[f]
        /\ Return(t, "ENODEV")
        /\ UNCHANGED auxList
     \/ /\ key[t] \in auxList[f]
        /\ auxList' = [auxList EXCEPT ![f] = @ \ {key[t]}]
        /\ At(t, "del_unreg")
        /\ UNCHANGED <<key, ret>>
  /\ UNCHANGED <<drvVars, taken, bus, file>>

\* The entry leaves the list first, "to prevent new references".
DelFind(t, f) ==
  /\ tpc[t] = "del_find"
  /\ \/ /\ key[t] \notin auxList[f]
        /\ Return(t, "ENODEV")
        /\ Release(f)
        /\ UNCHANGED auxList
     \/ /\ key[t] \in auxList[f]
        /\ auxList' = [auxList EXCEPT ![f] = @ \ {key[t]}]
        /\ At(t, "del_unreg")
        /\ UNCHANGED <<lock, key, ret>>
  /\ UNCHANGED <<drvVars, taken, bus, file>>

\* auxiliary_device_delete() and uninit() with the lock still held.
DelUnregister(t, f) ==
  /\ tpc[t] = "del_unreg"
  /\ bus' = bus \ {<<key[t], f>>}
  /\ Release(f)
  /\ Return(t, "ok")
  /\ UNCHANGED <<drvVars, auxList, taken, file>>

Locking(t, f) == NewLock(t, f) \/ DelLock(t, f)
Working(t, f) ==
  \/ NewCheck(t, f) \/ NewAdd(t, f) \/ NewLink(t, f)
  \/ DelFind(t, f) \/ DelUnregister(t, f)

Next ==
  \/ BeginRmmod
  \/ Reload
  \/ \E f \in FPGA :
       GetMinor(f) \/ Probe(f) \/ BeginRemove(f) \/ RemoveSplice(f) \/ Unwind(f)
  \/ \E t \in Thread :
       \/ Close(t)
       \/ \E k \in Key : Ioctl(t, k)
       \/ \E f \in FPGA :
            Open(t, f) \/ (file[t] = f /\ (Locking(t, f) \/ Working(t, f)))

\* A driver-core thread that has begun runs on, and so does a thread inside
\* the kernel; a mutex is handed to every waiter in the end.  Nothing obliges
\* anyone to bind, unbind, open or call.
Fairness ==
  /\ \A f \in FPGA :
       /\ WF_vars(Probe(f))
       /\ WF_vars(Unwind(f))
       /\ SF_vars(RemoveSplice(f))
  /\ \A t \in Thread : \A f \in FPGA :
       /\ SF_vars(file[t] = f /\ Locking(t, f))
       /\ WF_vars(file[t] = f /\ Working(t, f))

Spec == Init /\ [][Next]_vars
FairSpec == Spec /\ Fairness
-----------------------------------------------------------------------------
(* Properties.                                                              *)

MinorHeld == PC \ {"unbound", "devres"}

\* Two FPGAs never share a minor number, the bitmap marks exactly the minors
\* in use (none leaks on a failed probe, none is handed out twice), and the
\* "/dev" node lives inside the life of the cdev, which lives inside that of
\* the minor ("Release minor number last").
MinorsExact ==
  /\ \A f \in FPGA : (pc[f] \in MinorHeld) <=> (minor[f] # NoMinor)
  /\ \A m \in Minor : m \in minors <=> \E f \in FPGA : minor[f] = m
  /\ \A f, g \in FPGA : (f # g /\ minor[f] = minor[g]) => minor[f] = NoMinor
  /\ \A f \in FPGA : (node[f] => cdev[f]) /\ (cdev[f] => minor[f] # NoMinor)

DevresHolds(f, r) == \E i \in 1 .. Len(devres[f]) : devres[f][i] = r

\* The regmap-irq chips write the BAR and free their interrupts while they are
\* torn down: whenever chips exist, the BAR is mapped and the vectors are
\* allocated, on every path of probe, of its unwinding and of remove.
BarOutlivesChips ==
  \A f \in FPGA :
    /\ DevresHolds(f, "chips") => DevresHolds(f, "bar") /\ DevresHolds(f, "vectors")
    /\ DevresHolds(f, "bar") => DevresHolds(f, "mem")

\* The keys registered on the bus for f.
OnBusFor(f) == {k \in Key : <<k, f>> \in bus}

InService == {"bound"} \cup RemovePC

\* When no ioctl holds the lock of an FPGA in service, what its two lists name
\* is exactly what it has registered on the bus.
ListsMatchBus ==
  \A f \in FPGA :
    (pc[f] \in InService /\ lock[f] = Nobody) =>
      /\ auxList[f] \cup taken[f] = OnBusFor(f)
      /\ auxList[f] \cap taken[f] = {}

\* An unbound FPGA has no device left on the bus: neither a failed probe nor a
\* completed remove leaves one behind ("Remove all auxiliary devices"), and
\* nothing could remove it any more.
NoOrphans == \A f \in FPGA : pc[f] = "unbound" => OnBusFor(f) = {}

\* An open file refers to a bound FPGA whose memory is still allocated, so no
\* ioctl runs on a freed fbiob_dev.
FilesOnBoundFpgas ==
  \A t \in Thread :
    /\ file[t] # Dangling
    /\ file[t] \in FPGA => pc[file[t]] = "bound" /\ DevresHolds(file[t], "mem")

\* An FPGA whose removal began is unbound in the end, whatever the ioctls do.
RemovalCompletes == \A f \in FPGA : pc[f] = "splice" ~> pc[f] = "unbound"

\* Every ioctl returns.
IoctlsReturn == \A t \in Thread : tpc[t] # "idle" ~> tpc[t] = "idle"

\* The abstract registry: an FPGA is attached from device_create() to
\* device_destroy().
Registry == INSTANCE AuxRegistry WITH
  attached <- {f \in FPGA : pc[f] \in InService},
  registered <- bus

\* The ioctls under the mutex implement atomic changes of one registry of
\* names, in which a new device belongs to an attached FPGA.
ImplementsRegistry == Registry!Spec
-----------------------------------------------------------------------------
(* The strengthenings from which FbiobProofs derives the properties above.  *)

\* Which control points hold a cdev and a node.
ShapeInv ==
  /\ \A f \in FPGA : node[f] <=> pc[f] \in InService
  /\ \A f \in FPGA : cdev[f] <=> pc[f] \in InService \cup {"node", "delcdev"}

Critical == {"new_check", "new_add", "new_link", "del_find", "del_unreg"}

\* Without hot unbinding, files pin the module and with it every binding.
FileInv ==
  \A t \in Thread :
    /\ file[t] # Dangling
    /\ file[t] \in FPGA => module = "live" /\ pc[file[t]] = "bound"
    /\ tpc[t] # "idle" => file[t] \in FPGA

RemoveInv == \A f \in FPGA : pc[f] \in RemovePC => module = "going"

\* The devres stack is a prefix of the order of acquisition, as long as the
\* control point says.
DevresOrder == <<"mem", "bar", "vectors", "chips", "clk">>
OrderedPrefix(s) ==
  Len(s) <= 5 /\ \A i \in 1 .. Len(s) : s[i] = DevresOrder[i]
DepthOK(where, n) ==
  /\ where \in {"unbound", "enable"} => n = 0
  /\ where = "map" => n = 1
  /\ where = "irq" => n = 2
  /\ where \in {"cdev", "node", "bound"} => n >= 2
DevresInv ==
  \A f \in FPGA : OrderedPrefix(devres[f]) /\ DepthOK(pc[f], Len(devres[f]))

\* The lock belongs to the thread inside the critical section of its FPGA.
LockInv ==
  /\ \A t \in Thread : tpc[t] \in Critical => lock[file[t]] = t
  /\ \A f \in FPGA : lock[f] # Nobody => file[lock[f]] = f /\ tpc[lock[f]] \in Critical

\* Between auxiliary_device_add() and list_add_tail(), and between list_del()
\* and auxiliary_device_delete(), a device is on the bus and on no list.
HandPC == {"new_link", "del_unreg"}
InHand(k, f) ==
  \E t \in Thread : file[t] = f /\ tpc[t] \in HandPC /\ key[t] = k

BusInvOf(f) ==
  /\ \A k \in Key :
       <<k, f>> \in bus <=> (k \in auxList[f] \/ k \in taken[f] \/ InHand(k, f))
  /\ auxList[f] # {} => pc[f] \in {"bound", "splice"}
  /\ taken[f] # {} => pc[f] = "drain"
  /\ \A k \in auxList[f] : ~ InHand(k, f)
BusInv == \A f \in FPGA : BusInvOf(f)
=============================================================================
