--------------------------- MODULE MCMultiDisplay ---------------------------
(* Altitude and vertical speed with NAV and a queue of one; heading and    *)
(* course, which share a buffer, with a queue of two and the power going   *)
(* off and on; or the airspeed alone, with a queue of two.                 *)
EXTENDS MultiDisplay

AltVs == {"alt", "vs"}
AltVsVals == [d \in AltVs |-> IF d = "alt" THEN {399} ELSE {-301}]
OneButton == {"nav"}
NoneUnheard == {}
AltVsCommands == { <<"dn", "vs">>, <<"btn", "nav">>, <<"otto", "off">>, <<"fdUpOne">> }
OnlyBatteryOn == { [avionics |-> FALSE, battery |-> TRUE] }

\* X-Plane starts with the autopilot off.
QuietAltVs ==
  /\ sim = [d \in AltVs |-> IF d = "alt" THEN 399 ELSE -301]
  /\ status = [b \in OneButton \cup {"ap"} |-> 0]
  /\ Init
SpecAltVs == QuietAltVs /\ [][Next]_vars

HdgCrs == {"hdg", "crs"}
NoButtons == {}
NoCommands == {}
HdgCrsVals == [d \in HdgCrs |-> IF d = "hdg" THEN {540} ELSE {180}]
SpecHdgCrs == Init /\ [][Next]_vars

\* Unloading a plane takes the power off one flag and puts it on the other.
OneSwitchOn == { [avionics |-> TRUE, battery |-> FALSE], [avionics |-> FALSE, battery |-> TRUE] }
ArmedHdgCrs == status = [b \in {"ap"} |-> 1] /\ Init
SpecArmedHdgCrs == ArmedHdgCrs /\ [][Next]_vars

\* Two airspeeds, so that an old one in the queue differs from a new one;
\* unloading a plane takes the power off both flags.
Ias == {"ias"}
IasVals == [d \in Ias |-> {241, 300}]
IasUp == { <<"up", "ias">> }
BothSwitchesOn == { [avionics |-> TRUE, battery |-> TRUE] }
ArmedIas == sim = [d \in Ias |-> 241] /\ status = [b \in {"ap"} |-> 1] /\ Init
SpecIas == ArmedIas /\ [][Next]_vars
=============================================================================
