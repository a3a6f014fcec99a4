---------------------------- MODULE MCRadioPanel ----------------------------
(* The user at one knob or at both; frequencies more than a step apart.    *)
EXTENDS RadioPanel

TwoFreqs == {1, 4}
NoKeys == {}
NoneUnheard == {}

\* COM1 alone, tuned on the upper line; X-Plane tunes its standby frequency too.
OnlyCom1 == {"com1"}
Tuning == [l \in Lines |-> [knob |-> IF l = "upper" THEN "com1" ELSE "other",
                            turn |-> "none", flip |-> FALSE]]
TuneReports == {[Tuning EXCEPT !["upper"].turn = t] : t \in {"fineUp", "coarseUp", "coarseDn"}}
Com1Stdby == {<<"com1", "stdby">>}

OneActive == Init /\ sim[<<"com1", "active">>] = 1 /\ knob["lower"] = "other"
SpecTuning == OneActive /\ [][Next]_vars

\* Both radios: the knobs change places, and both lines' buttons are pressed.
BothRadios == {"com1", "com2"}
Flipping == [l \in Lines |-> [knob |-> IF l = "upper" THEN "com1" ELSE "com2",
                              turn |-> "none", flip |-> FALSE]]
KnobReports ==
  { [Flipping EXCEPT !["upper"].knob = "com2", !["lower"].knob = "com1", !["upper"].flip = TRUE],
    [Flipping EXCEPT !["lower"].flip = TRUE] }
FlipCom1 == {<<"flip", "com1">>}

\* Starting with two frequencies, the same in each radio, and the lower knob at neither.
TwoEach == /\ Init /\ knob["lower"] = "other"
           /\ sim = [n \in Names |-> IF n[2] = "active" THEN 1 ELSE 4]
SpecTwoEach == TwoEach /\ [][Next]_vars
=============================================================================
