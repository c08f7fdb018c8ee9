----------------------------- MODULE XcvrSignals -----------------------------
(***************************************************************************)
(* What nh_xcvr_ctrl promises of the signals of the transceivers: each port   *)
(* has a reset and a low-power signal of its own; a store that has been       *)
(* accepted sets the signal it was made to, in one step and to the value that *)
(* was stored, and touches no other signal of any port.  A low-power signal   *)
(* that exists in software only starts from 0 whenever its driver is bound.   *)
(***************************************************************************)
CONSTANTS
  Port,      \* transceiver ports
  Thread,    \* user threads
  Shadowed,  \* ports without a low-power pin
  None       \* no request

VARIABLES
  shown,     \* what xcvr_reset_N and xcvr_low_power_N read
  asked      \* the store of each thread that is under way

vars == <<shown, asked>>

Signal == {"reset", "low_power"}
Request == Port \X Signal \X BOOLEAN

\* The signals come up as the hardware has them.
Init ==
  /\ shown \in [Port \X Signal -> BOOLEAN]
  /\ asked = [t \in Thread |-> None]

Ask(t) ==
  /\ asked[t] = None
  /\ \E r \in Request : asked' = [asked EXCEPT ![t] = r]
  /\ UNCHANGED shown

Apply(t) ==
  /\ asked[t] # None
  /\ shown' = [shown EXCEPT ![<<asked[t][1], asked[t][2]>>] = asked[t][3]]
  /\ asked' = [asked EXCEPT ![t] = None]

Rebind(p) ==
  /\ p \in Shadowed
  /\ shown' = [shown EXCEPT ![<<p, "low_power">>] = FALSE]
  /\ UNCHANGED asked

Next ==
  \/ \E t \in Thread : Ask(t) \/ Apply(t)
  \/ \E p \in Port : Rebind(p)

Spec == Init /\ [][Next]_vars
=============================================================================
