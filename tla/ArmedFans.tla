------------------------------ MODULE ArmedFans ------------------------------
(***************************************************************************)
(* What the root helper promises to those who call it, with no more detail *)
(* than that: a channel runs a custom curve only while it is armed, no     *)
(* curve starts while the helper is shut, and a clean stop leaves nothing  *)
(* behind.  FanHelper implements it; FanControl relies on it.              *)
(***************************************************************************)
CONSTANT Fans

VARIABLES
  custom,  \* channels that run a custom curve
  armed,   \* channels the next process would return to Auto
  gate     \* "open", "shut", or "clean" after a stop that restored all

vars == <<custom, armed, gate>>

Init ==
  /\ armed \in SUBSET Fans /\ custom \in SUBSET armed
  /\ gate = "shut"

Arm(fan) ==
  /\ gate = "open"
  /\ armed' = armed \union {fan}
  /\ UNCHANGED <<custom, gate>>

Enable(fan) ==
  /\ gate = "open" /\ fan \in armed
  /\ custom' = custom \union {fan}
  /\ UNCHANGED <<armed, gate>>

\* The helper or the firmware returns a channel to Auto, at any time.
Release(fan) ==
  /\ custom' = custom \ {fan}
  /\ UNCHANGED <<armed, gate>>

Forget(fans) ==
  /\ gate # "clean"
  /\ fans \intersect custom = {}
  /\ armed' = armed \ fans
  /\ UNCHANGED <<custom, gate>>

Turn(next) ==
  /\ <<gate, next>> \in {<<"shut", "open">>, <<"open", "shut">>,
                         <<"shut", "clean">>, <<"clean", "shut">>}
  /\ next = "clean" => custom = {} /\ armed = {}
  /\ gate' = next
  /\ UNCHANGED <<custom, armed>>

Next ==
  \/ \E fan \in Fans : Arm(fan) \/ Enable(fan) \/ Release(fan)
  \/ \E fans \in SUBSET Fans : Forget(fans)
  \/ \E next \in {"open", "shut", "clean"} : Turn(next)

Spec == Init /\ [][Next]_vars

=============================================================================
