------------------------------ MODULE AtomicLeds ------------------------------
(***************************************************************************)
(* What the status and port LED drivers promise of the registers they share: *)
(* every change of an LED is one step that touches the bits of that LED and  *)
(* no others, of which the other color of a port is one.                     *)
(***************************************************************************)
CONSTANTS
  Led,          \* LED class devices
  Platform,
  LitOn(_, _),  \* bits set when an LED is on, on a platform
  DarkOn(_, _), \* bits cleared when it is turned on: its field, the other color
  BlinkOn(_, _) \* its blink bit, as a set; empty if it has none

VARIABLES
  platform,     \* the platform, which never changes
  value         \* the bits that are 1

Init ==
  /\ platform \in Platform
  /\ value \subseteq UNION {LitOn(platform, l) \cup DarkOn(platform, l) \cup BlinkOn(platform, l) :
                             l \in Led}

TurnOn(l) == value' = (value \ DarkOn(platform, l)) \cup LitOn(platform, l)
TurnOff(l) == value' = value \ LitOn(platform, l)

\* The other color goes dark first where it lives in another register.
Clear(l) == value' = value \ DarkOn(platform, l)

SetBlink(l) == value' \in {value \cup BlinkOn(platform, l), value \ BlinkOn(platform, l)}

Next ==
  /\ \E l \in Led : TurnOn(l) \/ TurnOff(l) \/ Clear(l) \/ SetBlink(l)
  /\ UNCHANGED platform

Spec == Init /\ [][Next]_<<platform, value>>
=============================================================================
