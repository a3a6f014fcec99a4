------------------------------ MODULE Following ------------------------------
(***************************************************************************)
(* What one side promises to keep of what the other side changes, when a   *)
(* job queue lies between them: a readout, a lamp or a frequency of a      *)
(* panel follows X-Plane, a switch of X-Plane follows the panel.  Each     *)
(* change is owed, then on its way, then there, unless it is lost.  What   *)
(* is there is right, whatever else is on its way, and nothing gets there  *)
(* that was not sent, nor is sent that was not owed.                       *)
(***************************************************************************)
CONSTANT Things

VARIABLES
  phase,  \* of each thing: "lost", "owed", "coming" or "there"
  agrees  \* of each thing: whether both sides have the same of it

vars == <<phase, agrees>>

Init == phase = [x \in Things |-> "lost"] /\ agrees \in [Things -> BOOLEAN]

(* Any thing may change, and is owed again or lost; a message is sent of   *)
(* what is owed; and others about a thing may be behind the one that       *)
(* arrives.                                                                *)
Phases == {"lost", "owed", "coming", "there"}
Edges  == (Phases \X {"owed", "lost"})
            \cup { <<"owed", "coming">>, <<"coming", "coming">>,
                   <<"coming", "there">>, <<"there", "there">> }

\* One step may concern many things: loading a plane owes all of them.
Next == LET was == phase
            is  == phase'
        IN \A x \in Things : /\ <<was[x], is[x]>> \in Edges
                              /\ is[x] = "there" => agrees'[x]

Spec == Init /\ [][Next]_vars
=============================================================================
