---------------------------- MODULE MCSwitchPanel ----------------------------
(* A switch of each kind, the knob and the lever; planes of several sizes. *)
EXTENDS SwitchPanel

OneLight == <<"taxi">>
Parked == [on |-> {"masterBat"}, knob |-> "off", gear |-> {"up"}]
SomeReports ==
  { Parked, [Parked EXCEPT !.knob = "both", !.on = {"taxi"}, !.gear = {"down"}],
    [Parked EXCEPT !.knob = "between", !.on = {"taxi", "panel"}, !.gear = {}] }

\* More engines than generators, which the plugin takes for their number.
SomePlanes == { [engines |-> 4, generators |-> 2] }
GearAndLight == {"gear", "taxi"}

\* X-Plane starts with all switches off and the gear down.
ColdAndDark ==
  /\ panel = Parked /\ bright = 0 /\ gear = "down"
  /\ sim = [s \in Masters \cup Lights |-> "off"] /\ mags = [e \in Engine |-> "off"]
  /\ Init
SpecCold == ColdAndDark /\ [][Next]_vars
=============================================================================
