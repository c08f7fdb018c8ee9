----------------------------- MODULE AuxRegistry -----------------------------
(***************************************************************************)
(* What the fbiob_pci driver promises its users: an FPGA is either attached *)
(* to the driver or not, sub-devices ("auxiliary devices") are registered   *)
(* one at a time and only on an attached FPGA, a sub-device name exists at  *)
(* most once in the system, and an FPGA leaves only after every one of its  *)
(* sub-devices has left.  Module Fbiob implements this with a character     *)
(* device, ioctls, a mutex and two list passes.                             *)
(***************************************************************************)
CONSTANTS FPGA,  (* the PCI functions the driver can bind to               *)
          Key    (* sub-device names, the (name, id) pairs of the ioctl    *)

VARIABLES attached,    (* the FPGAs whose sub-devices can be managed       *)
          registered   (* the <<key, fpga>> pairs on the auxiliary bus     *)

vars == <<attached, registered>>

\* Type invariant: only an attached FPGA has names.
TypeOK ==
  /\ attached \in SUBSET FPGA
  /\ registered \in SUBSET (Key \X FPGA)

DevicesOf(f) == {k \in Key : <<k, f>> \in registered}

Init ==
  /\ attached = {}
  /\ registered = {}

Attach(f) ==
  /\ f \notin attached
  /\ DevicesOf(f) = {}
  /\ attached' = attached \cup {f}
  /\ UNCHANGED registered

Detach(f) ==
  /\ f \in attached
  /\ DevicesOf(f) = {}
  /\ attached' = attached \ {f}
  /\ UNCHANGED registered

Register(k, f) ==
  /\ f \in attached
  /\ \A g \in FPGA : <<k, g>> \notin registered
  /\ registered' = registered \cup {<<k, f>>}
  /\ UNCHANGED attached

Unregister(k, f) ==
  /\ f \in attached
  /\ <<k, f>> \in registered
  /\ registered' = registered \ {<<k, f>>}
  /\ UNCHANGED attached

Next ==
  \E f \in FPGA :
    \/ Attach(f)
    \/ Detach(f)
    \/ \E k \in Key : Register(k, f) \/ Unregister(k, f)

Spec == Init /\ [][Next]_vars

\* The two facts a client of the registry relies on: sub-devices exist on
\* attached FPGAs only, and a name denotes one sub-device.
OnAttachedOnly == \A p \in registered : p[2] \in attached
NamesUnique ==
  \A k \in Key : \A f, g \in FPGA :
    (<<k, f>> \in registered /\ <<k, g>> \in registered) => f = g
=============================================================================
