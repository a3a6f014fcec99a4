----------------------------- MODULE SwitchPanel -----------------------------
(***************************************************************************)
(* The switch panel: every report names the position of every switch, and  *)
(* FromPanelThread posts up to eight messages to X-Plane and at most two,  *)
(* for the LEDs of the landing gear, to the panel itself.  X-Plane's main  *)
(* thread runs the commands, those of engines for as many engines as it    *)
(* takes the plane to have; ToPanelThread lights the LEDs.  X-Plane        *)
(* answers nothing: its handlers let all commands pass and post nothing.   *)
(***************************************************************************)
EXTENDS Integers, Sequences

CONSTANTS
  LightOrder, \* the lights with switches, in the order of the code:
              \* of beacon, nav, strobe, taxi, landing
  Limit,     \* how many messages a job queue holds
  Reports,   \* the reports the user makes the panel send
  Levels,    \* the steps of X-Plane's panel brightness
  Planes,    \* the planes X-Plane loads
  Unheard    \* what the user changes in X-Plane by other means

Lights  == {LightOrder[i] : i \in DOMAIN LightOrder}
Masters == {"masterBat", "masterAlt", "avionics", "fuelPump", "deIce", "pitotHeat", "cowl"}
Toggles == Masters \cup {"panel"} \cup Lights
Turned  == {"off", "right", "left", "both", "start"}
Engine  == 1..4

(* Bits set in a report: the knob has a bit for each position and none is  *)
(* set, or several are, between two of them; so has the gear lever.        *)
Position == [on : SUBSET Toggles, knob : Turned \cup {"between"}, gear : SUBSET {"up", "down"}]

\* A plane: how many engines it has, and generators.
Plane == [engines : Nat, generators : Nat]
NoPlane == <<>>

ASSUME SwitchAssumption ==
  /\ LightOrder \in Seq({"beacon", "nav", "strobe", "taxi", "landing"})
  /\ Limit \in Nat \ {0} /\ Levels \in Nat
  /\ Reports \subseteq Position /\ Planes \subseteq Plane
  /\ Unheard \subseteq Lights \cup {"gear"}

(* A message is a switch and its position, or a screen: all LEDs of one    *)
(* colour.                                                                 *)
Cmds == (Toggles \X {"on", "off"}) \cup ({"knob"} \X Turned) \cup ({"gear"} \X {"up", "down"})
Colours == {"green", "red", "blank"}
Screens == {"leds"} \X Colours
Blank == <<"leds", "blank">>

VARIABLES
  enabled, planeLoaded, \* gPluginEnabled, gPlaneLoaded
  at, op,      \* where in XPluginEnable or XPluginDisable the main thread is
  trig,        \* gSpTrigger
  plane,       \* the plane X-Plane has loaded
  count,       \* gNumberOfEngines
  panel,       \* where the user left the switches, the knob and the lever
  outbox,      \* FromPanelThread: what it has still to post of its report
  ijq, ojq,    \* gSp_ijq, gSp_ojq
  getting,     \* ToPanelThread is past the wait for its trigger
  sim, gear,   \* the switches and the gear in X-Plane
  mags,        \* the ignition key of each engine there
  bright,      \* the brightness of its panel
  leds,        \* what the LEDs show
  stale        \* what parted panel and X-Plane, or panel and LEDs, last

pluginVars == <<enabled, planeLoaded, at, op, trig>>
simVars == <<sim, gear, mags, bright>>
toVars  == <<getting, leds>>
vars == <<pluginVars, plane, count, panel, outbox, ijq, ojq, toVars, simVars, stale>>

Things == Lights \cup {"knob", "gear", "leds"}

Init ==
  /\ enabled = FALSE /\ planeLoaded = FALSE /\ at = "idle" /\ op = "none"
  /\ trig = FALSE /\ getting = FALSE
  /\ plane = NoPlane /\ count = 1
  /\ panel \in Reports /\ outbox = <<>> /\ ijq = <<>> /\ ojq = <<>>
  /\ sim \in [Masters \cup Lights -> {"on", "off"}] /\ gear \in {"up", "down"}
  /\ mags \in [Engine -> Turned] /\ bright \in 0..Levels
  /\ leds = "blank" /\ stale = Things
----------------------------------------------------------------------------
(* FromPanelThread::sp_processing.  From the battery to the panel lights   *)
(* each switch overwrites the message of the one before; only the last of  *)
(* them, and every light after it, is posted.                              *)
Posted == <<"panel">> \o LightOrder
ToSim(m) == <<"ijq", m>>
ToLeds(c) == <<"ojq", <<"leds", c>> >>
Pos(r, s) == IF s \in r.on THEN "on" ELSE "off"

KnobPosts(r) == IF r.knob = "between" THEN <<>> ELSE << ToSim(<<"knob", r.knob>>) >>

\* Faults: the lights are posted only when on; the lever down makes no screen.
SwitchPostsOn(r) ==
  LET on == SelectSeq(Posted, LAMBDA s : s \in r.on) IN
  [i \in 1..Len(on) |-> ToSim(<<on[i], "on">>)]
GearPostsNoRed(r) ==
  (IF "up" \in r.gear THEN << ToLeds("green") >> ELSE <<>>) \o
  (IF "down" \in r.gear THEN << ToSim(<<"gear", "down">>) >>
   ELSE IF "up" \in r.gear THEN << ToSim(<<"gear", "up">>) >> ELSE <<>>)

SwitchPosts(r) == [i \in 1..Len(Posted) |-> ToSim(<<Posted[i], Pos(r, Posted[i])>>)]

\* With both bits both screens are posted, and one command, the latter.
GearPosts(r) ==
  (IF "up" \in r.gear THEN << ToLeds("green") >> ELSE <<>>) \o
  (IF "down" \in r.gear THEN << ToLeds("red"), ToSim(<<"gear", "down">>) >>
   ELSE IF "up" \in r.gear THEN << ToSim(<<"gear", "up">>) >> ELSE <<>>)

\* Where the panel's controls are: between two positions, where they were.
Left(r) == [on |-> r.on, knob |-> IF r.knob = "between" THEN panel.knob ELSE r.knob,
            gear |-> IF r.gear = {} THEN panel.gear ELSE r.gear]

Report(r) ==
  /\ enabled /\ outbox = <<>>
  /\ outbox' = KnobPosts(r) \o SwitchPosts(r) \o GearPosts(r)
  /\ panel' = Left(r)
  /\ UNCHANGED <<pluginVars, plane, count, ijq, ojq, toVars, simVars, stale>>

\* FromPanelThread::execute reads and forgets what comes while disabled.
Forget(r) ==
  /\ ~enabled /\ outbox = <<>>
  /\ panel' = Left(r) /\ stale' = Things
  /\ UNCHANGED <<pluginVars, plane, count, outbox, ijq, ojq, toVars, simVars>>

Post(q, m) == Len(q) < Limit /\ q' = Append(q, m)

Deliver ==
  /\ outbox # <<>>
  /\ LET m == Head(outbox)[2] IN
     \/ Head(outbox)[1] = "ijq" /\ Post(ijq, m) /\ UNCHANGED ojq
     \/ Head(outbox)[1] = "ojq" /\ Post(ojq, m) /\ UNCHANGED ijq
  /\ outbox' = Tail(outbox)
  /\ UNCHANGED <<pluginVars, plane, count, panel, toVars, simVars, stale>>
----------------------------------------------------------------------------
(* SwitchPanelFlightLoopCallback, one message.  R goes to the first half   *)
(* of the engines and L to the other one, all else to all; with no engine  *)
(* or more than four, none gets a command.                                 *)
Half(n) == (n + 1) \div 2

\* Fault: the last engine is left out.
EnginesButLast(pos, n) == IF n \notin Engine THEN {} ELSE 1..(n - 1)

Engines(pos, n) ==
  CASE n \notin Engine -> {}
    [] n \in Engine /\ pos = "right" -> 1..Half(n)
    [] n \in Engine /\ pos = "left"  -> IF n = 1 THEN {1} ELSE (Half(n) + 1)..n
    [] OTHER -> 1..n

(* What X-Plane does of a command.  Lights of the panel on is a command    *)
(* that dims it by a step.  The commands of the gear have names the other  *)
(* way round: the lever up is the gear down.                               *)
Dimmed(b) == IF b = 0 THEN 0 ELSE b - 1
Brighter(b) == IF b = Levels THEN b ELSE b + 1
Geared(pos) == IF pos = "up" THEN "down" ELSE "up"

RunKnob(pos) == mags' = [e \in Engine |-> IF e \in Engines(pos, count) THEN pos ELSE mags[e]]
                /\ UNCHANGED <<sim, gear, bright>>
RunPanel(pos) == bright' = (IF pos = "on" THEN Dimmed(bright) ELSE Brighter(bright))
                 /\ UNCHANGED <<sim, gear, mags>>
RunGear(pos) == gear' = Geared(pos) /\ UNCHANGED <<sim, mags, bright>>
RunSwitch(s, pos) == sim' = [sim EXCEPT ![s] = pos] /\ UNCHANGED <<gear, mags, bright>>

Execute(m) ==
  \/ m[1] = "knob"  /\ RunKnob(m[2])
  \/ m[1] = "panel" /\ RunPanel(m[2])
  \/ m[1] = "gear"  /\ RunGear(m[2])
  \/ m[1] \in Masters \cup Lights /\ RunSwitch(m[1], m[2])

Idle == at = "idle"

FlightLoop ==
  /\ Idle /\ enabled /\ ijq # <<>>
  /\ Execute(Head(ijq)) /\ ijq' = Tail(ijq)
  /\ stale' = stale \ {Head(ijq)[1]}
  /\ UNCHANGED <<pluginVars, plane, count, panel, outbox, ojq, toVars>>

\* The user changes a light or the gear in X-Plane; SwitchPanelCommandHandler passes it.
Silent(s) ==
  /\ Idle
  /\ \/ s = "gear" /\ gear' \in {"up", "down"} /\ UNCHANGED sim
     \/ s # "gear" /\ (\E pos \in {"on", "off"} : sim' = [sim EXCEPT ![s] = pos]) /\ UNCHANGED gear
  /\ stale' = stale \cup {s}
  /\ UNCHANGED <<pluginVars, plane, count, panel, outbox, ijq, ojq, toVars, mags, bright>>

(* XPluginReceiveMessage with sp_do_init, which takes the generators of    *)
(* the plane for its engines.  A disabled plugin gets no message.          *)
LoadPlane(p) ==
  /\ Idle /\ plane = NoPlane
  /\ plane' = p
  /\ IF enabled /\ ~planeLoaded
     THEN planeLoaded' = TRUE /\ count' = p.generators /\ stale' = stale \cup {"knob"}
     ELSE UNCHANGED <<planeLoaded, count, stale>>
  /\ UNCHANGED <<enabled, at, op, trig, panel, outbox, ijq, ojq, toVars, simVars>>

UnloadPlane ==
  /\ Idle /\ plane # NoPlane
  /\ plane' = NoPlane
  /\ planeLoaded' = IF enabled THEN FALSE ELSE planeLoaded
  /\ UNCHANGED <<enabled, at, op, trig, count, panel, outbox, ijq, ojq, toVars, simVars, stale>>
----------------------------------------------------------------------------
(* XPluginEnable and XPluginDisable with purge_queues.                     *)
Enable ==
  /\ Idle /\ ~enabled
  /\ at' = "purgeOut" /\ op' = "enable"
  /\ UNCHANGED <<enabled, planeLoaded, trig, plane, count, panel, outbox, ijq, ojq,
                 toVars, simVars, stale>>

\* Fault: the urgent post does not wait for room.
DisableOverfull ==
  /\ Idle /\ enabled
  /\ ojq' = <<Blank>> \o ojq
  /\ enabled' = FALSE /\ at' = "park" /\ op' = "disable" /\ stale' = stale \cup {"leds"}
  /\ UNCHANGED <<planeLoaded, trig, plane, count, panel, outbox, ijq, toVars, simVars>>

Disable ==
  /\ Idle /\ enabled
  /\ Len(ojq) < Limit /\ ojq' = <<Blank>> \o ojq
  /\ enabled' = FALSE /\ at' = "park" /\ op' = "disable" /\ stale' = stale \cup {"leds"}
  /\ UNCHANGED <<planeLoaded, trig, plane, count, panel, outbox, ijq, toVars, simVars>>

DisablePark ==
  /\ at = "park"
  /\ trig' = FALSE /\ at' = "purgeOut"
  /\ UNCHANGED <<enabled, planeLoaded, op, plane, count, panel, outbox, ijq, ojq,
                 toVars, simVars, stale>>

PurgeTake ==
  /\ \/ /\ at = "purgeOut" /\ ojq # <<>>
        /\ ojq' = Tail(ojq) /\ stale' = stale \cup {"leds"} /\ UNCHANGED ijq
     \/ /\ at = "purgeIn" /\ ijq # <<>>
        /\ ijq' = Tail(ijq) /\ stale' = stale \cup ({Head(ijq)[1]} \cap Things) /\ UNCHANGED ojq
  /\ UNCHANGED <<pluginVars, plane, count, panel, outbox, toVars, simVars>>

PurgeNext ==
  /\ \/ /\ at = "purgeOut" /\ ojq = <<>>
        /\ at' = "purgeIn" /\ UNCHANGED <<enabled, trig, op>>
     \/ /\ at = "purgeIn" /\ ijq = <<>>
        /\ at' = "idle" /\ op' = "none"
        /\ enabled' = (op = "enable") /\ trig' = (op = "enable")
  /\ UNCHANGED <<planeLoaded, plane, count, panel, outbox, ijq, ojq, toVars, simVars, stale>>
----------------------------------------------------------------------------
\* ToPanelThread::execute, and sp_processing: each message is a whole screen.
ToWake ==
  /\ ~getting /\ trig
  /\ getting' = TRUE
  /\ UNCHANGED <<pluginVars, plane, count, panel, outbox, ijq, ojq, leds, simVars, stale>>

ToShow ==
  /\ getting /\ ojq # <<>>
  /\ leds' = Head(ojq)[2] /\ ojq' = Tail(ojq) /\ getting' = FALSE
  /\ stale' = IF Head(ojq) = Blank THEN stale ELSE stale \ {"leds"}
  /\ UNCHANGED <<pluginVars, plane, count, panel, outbox, ijq, simVars>>

Next ==
  \/ (\E r \in Reports : Report(r) \/ Forget(r)) \/ Deliver
  \/ FlightLoop \/ (\E s \in Unheard : Silent(s))
  \/ (\E p \in Planes : LoadPlane(p)) \/ UnloadPlane
  \/ Enable \/ Disable \/ DisablePark \/ PurgeTake \/ PurgeNext
  \/ ToWake \/ ToShow

Spec == Init /\ [][Next]_vars
----------------------------------------------------------------------------
\* The values of every variable; no queue holds more than its limit.
TypeOK ==
  /\ enabled \in BOOLEAN /\ planeLoaded \in BOOLEAN /\ trig \in BOOLEAN
  /\ at \in {"idle", "park", "purgeOut", "purgeIn"} /\ op \in {"none", "enable", "disable"}
  /\ plane \in Planes \cup {NoPlane} /\ count \in Nat /\ panel \in Position
  /\ outbox \in Seq(({"ijq"} \X Cmds) \cup ({"ojq"} \X Screens))
  /\ ijq \in Seq(Cmds) /\ Len(ijq) <= Limit
  /\ ojq \in Seq(Screens) /\ Len(ojq) <= Limit
  /\ getting \in BOOLEAN /\ leds \in Colours
  /\ sim \in [Masters \cup Lights -> {"on", "off"}] /\ gear \in {"up", "down"}
  /\ mags \in [Engine -> Turned] /\ bright \in 0..Levels
  /\ stale \subseteq Things

(* Nothing is on its way from the panel to X-Plane, nor to the LEDs.       *)
SettledIn  == outbox = <<>> /\ ijq = <<>>
Settled    == SettledIn /\ ojq = <<>>

(* Each light of X-Plane is as its switch on the panel is, once the posts  *)
(* of the last report have been acted on: through reports that overtake    *)
(* the flight loop, purges in between, and changes in X-Plane that a later *)
(* report takes back.                                                      *)
LightsFollow ==
  SettledIn => \A s \in Lights \ stale : sim[s] = Pos(panel, s)

(* The LEDs and the gear go by two queues that different threads empty and *)
(* one callback purges: when both have arrived, green is gear down.        *)
GearLedAgrees ==
  Settled /\ stale \cap {"gear", "leds"} = {} => (leds = "green" <=> gear = "down")

(* Off, both and start reach every engine the plugin counts, also after    *)
(* another plane was loaded.                                               *)
EnginesFollow ==
  SettledIn /\ "knob" \notin stale /\ panel.knob \in {"off", "both", "start"} /\ count \in Engine
    => \A e \in 1..count : mags[e] = panel.knob

(* Each light, the knob and the lever, by itself: what FromPanelThread has *)
(* to post of it is owed, then on its way, and once X-Plane ran it, it is  *)
(* as on the panel, no matter what else has been moved meanwhile.  While   *)
(* the plugin is disabled a command about what was moved unseen is lost.   *)
Controls == Lights \cup {"knob", "gear"}
Lever(r) == IF "down" \in r.gear THEN "down" ELSE "up"
KnobDone == panel.knob \in {"off", "both", "start"} /\ count \in Engine
              => \A e \in 1..count : mags[e] = panel.knob
Done(x) == IF x = "knob" THEN KnobDone
           ELSE IF x = "gear" THEN gear = Geared(Lever(panel)) ELSE sim[x] = Pos(panel, x)
IsOwed(x)   == \E i \in DOMAIN outbox : outbox[i][2][1] = x
IsComing(x) == \E i \in DOMAIN ijq : ijq[i][1] = x
IsLost(x)   == x \in stale /\ (~enabled \/ ~IsComing(x))
Phase(x) == IF IsOwed(x) THEN "owed" ELSE IF IsLost(x) THEN "lost"
            ELSE IF IsComing(x) THEN "coming" ELSE "there"
Followed == INSTANCE Following WITH
              Things <- Controls, phase <- [x \in Controls |-> Phase(x)],
              agrees <- [x \in Controls |-> Done(x)]
ControlsFollow == Followed!Spec
=============================================================================
