---------------------------- MODULE MCMultiPanel ----------------------------
(* Two dials, and the handlers as multipanel_refs.cpp registers them: the  *)
(* one of autothrottle on twice, that of autothrottle off never.           *)
EXTENDS MultiPanel

TwoDials == {"alt", "hdg"}
AsRegistered ==
  [c \in Watched |-> CASE c = <<"throttle", "on">>  -> 2
                       [] c = <<"throttle", "off">> -> 0
                       [] OTHER -> 1]

Idle == [btn |-> "none", flaps |-> "none", trim |-> "none", tuning |-> "none",
         knob |-> "alt", throttle |-> "on"]

\* Turns of one dial both ways and of another, with the autothrottle switch on.
TurnReports == { [Idle EXCEPT !.tuning = "up"], [Idle EXCEPT !.tuning = "dn"],
                 [Idle EXCEPT !.knob = "hdg", !.tuning = "up"] }

\* Every control, and reports in which two controls or both bits are set.
ControlReports ==
  { [Idle EXCEPT !.flaps = "up"], [Idle EXCEPT !.flaps = "dn", !.tuning = "up"],
    [Idle EXCEPT !.flaps = "both", !.throttle = "off"], [Idle EXCEPT !.trim = "up"],
    [Idle EXCEPT !.btn = "other", !.flaps = "up"], [Idle EXCEPT !.btn = "alt"],
    [Idle EXCEPT !.btn = "many", !.trim = "dn"], [Idle EXCEPT !.trim = "both"] }
AllControls == TurnReports \cup ControlReports
============================================================================
