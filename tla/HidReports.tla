----------------------------- MODULE HidReports -----------------------------
(***************************************************************************)
(* What hid_read promises of the reports a device sends: they come in the  *)
(* order they were sent in and none comes twice.  One may be lost when     *)
(* Room of them wait already, and all that wait when the device is closed. *)
(***************************************************************************)
EXTENDS Naturals, Sequences

CONSTANT Room

VARIABLES
  sent,    \* how many reports the device has sent
  waiting, \* those that have arrived and were not read, by number
  got      \* the number of the report read last

vars == <<sent, waiting, got>>

Init == sent = 0 /\ waiting = <<>> /\ got = 0

Without(w, i) == [j \in 1..(Len(w) - 1) |-> IF j < i THEN w[j] ELSE w[j + 1]]

Send ==
  /\ sent' = sent + 1 /\ UNCHANGED got
  /\ LET w == Append(waiting, sent + 1) IN
       \/ waiting' = w
       \/ Len(waiting) >= Room /\ \E i \in 1..Len(w) : waiting' = Without(w, i)

Read ==
  /\ waiting # <<>>
  /\ got' = Head(waiting) /\ waiting' = Tail(waiting)
  /\ UNCHANGED sent

Discard == waiting' = <<>> /\ UNCHANGED <<sent, got>>

Next == Send \/ Read \/ Discard

Spec == Init /\ [][Next]_vars
=============================================================================
