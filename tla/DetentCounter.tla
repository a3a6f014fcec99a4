--------------------------- MODULE DetentCounter ---------------------------
(* What tuning with a detented dial promises, whatever counters it is      *)
(* built from: a command runs when, and only when, Thresh detents of one   *)
(* turn in a row have been acted on since the last command.                *)
EXTENDS Naturals

CONSTANTS Turns, Thresh, None
VARIABLES turn, count, fired

Init == turn = None /\ count = 0 /\ fired = None

\* How many detents of turn t in a row there are with one more.
InARow(t) == IF turn = t THEN count + 1 ELSE 1

Count(t) ==
  /\ InARow(t) < Thresh
  /\ turn' = t /\ count' = InARow(t) /\ fired' = None

Fire(t) ==
  /\ InARow(t) = Thresh
  /\ turn' = None /\ count' = 0 /\ fired' = t

\* Anything else that is done in between has no say in it.
Other == fired' = None /\ UNCHANGED <<turn, count>>

Next == Other \/ \E t \in Turns : Count(t) \/ Fire(t)

Spec == Init /\ [][Next]_<<turn, count, fired>>
============================================================================
