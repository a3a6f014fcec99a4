---------------------------- MODULE MultiDisplay ----------------------------
(***************************************************************************)
(* The LEDs of the multi panel.  After every command of the autopilot that *)
(* X-Plane has run, MultiPanelCommandHandler posts the value or the state  *)
(* of the button it changed; loading a plane posts all of them, and flags  *)
(* for avionics and battery.  FromPanelThread posts the position of the    *)
(* mode knob.  ToPanelThread keeps what it is told, draws the two rows for *)
(* the knob and lights the buttons, as long as it takes the power to be on *)
(* and the autopilot not to be off.                                        *)
(***************************************************************************)
EXTENDS Integers, Sequences

CONSTANTS
  Dials,     \* the readouts: of alt, vs, ias, hdg, crs
  Buttons,   \* the buttons: of alt, apr, rev, hdg, nav, ias, vs
  SimVals,   \* per readout: the values it takes in X-Plane, in halves
  Limit,     \* how many messages the job queue holds
  Commands,  \* the commands the panel or somebody else has X-Plane run
  Unheard,   \* the readouts X-Plane may change without a command
  Switches   \* how X-Plane's power switches may stand when a plane is unloaded

Bits == {"ap", "alt", "apr", "rev", "hdg", "nav", "ias", "vs"}
Turns == {"up", "dn"} \X Dials
Presses == ({"btn"} \X Buttons) \cup ({"otto"} \X {"on", "armed", "off"}) \cup {<<"fdUpOne">>}

ASSUME DisplayAssumption ==
  /\ Dials \subseteq {"alt", "vs", "ias", "hdg", "crs"} /\ Buttons \subseteq Bits \ {"ap"}
  /\ "hdg" \in Dials <=> "crs" \in Dials
  /\ SimVals \in [Dials -> SUBSET Int]
  /\ \A d \in Dials : SimVals[d] # {} /\ (d # "vs" => SimVals[d] \subseteq Nat)
  /\ Limit \in Nat \ {0} /\ Commands \subseteq Turns \cup Presses /\ Unheard \subseteq Dials
  /\ Switches \subseteq [{"avionics", "battery"} -> BOOLEAN]

(* A message is a power flag, a readout with its value and its sign, the   *)
(* state of a button, the position of the knob, or a word of its own.      *)
Power  == {"power"} \X {"avionics", "battery"} \X BOOLEAN
Knobs  == {"knob"} \X Dials
States == {"btn"} \X (Buttons \cup {"ap"}) \X (0..2)
Blank  == <<"blank">>
Crash  == <<"crash">>
Update == <<"updateLeds">>
NoMsg  == <<>>

VARIABLES
  enabled, planeLoaded, \* gPluginEnabled, gPlaneLoaded
  at, op,      \* where in XPluginEnable or XPluginDisable the main thread is
  trig,        \* gMpTrigger
  sim, status, \* X-Plane's readouts, and its states of the buttons
  gPower,      \* gAvPwrOn, gBat1On
  answers,     \* what the main thread has still to post
  outbox,      \* the knob position FromPanelThread has still to post
  ojq,         \* gMp_ojq
  loc, taken,  \* where ToPanelThread is, and the message it took
  power,       \* mAvionicsOn, mBat1On
  knob,        \* mKnobPos
  vals, sign,  \* mModeVals
  btns,        \* mBtns
  doInit,      \* mDoInit
  report,      \* mPanelReport: digits and bits
  leds, lit,   \* the report sent last, and whether a blank one came later
  stale        \* what the panel was not told, or has lost, since it changed

pluginVars == <<enabled, planeLoaded, at, op, trig>>
simVars    == <<sim, status>>
mainVars   == <<gPower, answers>>
keptVars   == <<power, knob, vals, sign, btns, doInit, report>>
toVars     == <<loc, taken, keptVars, leds, lit>>
vars == <<pluginVars, simVars, mainVars, outbox, ojq, toVars, stale>>

Things == ({"dial"} \X Dials) \cup ({"btn"} \X (Buttons \cup {"ap"}))
            \cup ({"power"} \X {"avionics", "battery"})
AllOff == [p \in {"avionics", "battery"} |-> FALSE]
Zeros  == [digits |-> [top |-> 0, bottom |-> 0, sign |-> "none"], bits |-> [b \in Bits |-> FALSE]]

Init ==
  /\ enabled = FALSE /\ planeLoaded = FALSE /\ at = "idle" /\ op = "none" /\ trig = FALSE
  /\ sim \in {f \in [Dials -> UNION {SimVals[d] : d \in Dials}] : \A d \in Dials : f[d] \in SimVals[d]}
  /\ status \in [Buttons \cup {"ap"} -> 0..2]
  /\ gPower = AllOff /\ answers = <<>> /\ outbox = NoMsg /\ ojq = <<>>
  /\ loc = "wait" /\ taken = NoMsg
  /\ power = AllOff /\ knob = "none" /\ vals = [d \in Dials |-> 0] /\ sign = "none"
  /\ btns = [b \in Bits |-> FALSE] /\ doInit = TRUE
  /\ report = Zeros /\ leds = Zeros /\ lit = FALSE /\ stale = Things
----------------------------------------------------------------------------
(* The values the handler and mp_do_init post of a readout of f halves.    *)
Size(f)     == IF f < 0 THEN -f ELSE f
Floor(f)    == Size(f) \div 2
Ceil(f)     == (f + 1) \div 2
Fours(x)    == x - (x % 4)
Hundreds(x) == IF x % 100 = 0 THEN x ELSE x - (x % 100) + 100

Value(how, d, f) ==
  CASE how = "up" /\ d \in {"alt", "vs"} -> Fours(Floor(f))
    [] how = "dn" /\ d = "alt" -> Hundreds(Ceil(f))
    [] how = "dn" /\ d = "vs"  -> Hundreds(Floor(f))
    [] how = "init" \/ d \notin {"alt", "vs"} -> Floor(f)
Sign(f) == IF f < 0 THEN "minus" ELSE "plus"

ValueMsg(how, d) == <<"val", d, Value(how, d, sim[d]), Sign(sim[d])>>

(* What the main thread posts for an item of answers.  Flight director     *)
(* modes have their own names: 2 is on and 1 armed.                        *)
Message(a) ==
  CASE a[1] \in {"up", "dn", "init"} -> ValueMsg(a[1], a[2])
    [] a[1] = "shared" -> <<"shared", "hdg", Value("init", "hdg", sim["hdg"])>>
    [] a[1] = "freed"  -> <<"freed", Value("init", "crs", sim["crs"])>>
    [] a[1] = "btn"    -> <<"btn", a[2], status[a[2]]>>
    [] a[1] = "otto"   -> <<"btn", "ap", CASE a[2] = "on" -> 2 [] a[2] = "armed" -> 1
                                           [] a[2] = "off" -> 0>>
    [] a[1] \in {"power", "updateLeds", "crash"} -> a

(* The thing a message is about; whether one is still on its way.          *)
About(m) ==
  CASE m[1] = "val"   -> {<<"dial", m[2]>>}
    [] m[1] = "shared" -> {<<"dial", m[2]>>}
    [] m[1] = "freed" -> {<<"dial", "crs">>}
    [] m[1] \in {"btn", "power"} -> {<<m[1], m[2]>>}
    [] m[1] \in {"knob", "blank", "crash", "updateLeds"} -> {}
Coming(x) == \E i \in DOMAIN ojq : x \in About(ojq[i])
Lost(things) == {x \in things : ~Coming(x)}
----------------------------------------------------------------------------
(* MultiPanelCommandHandler is called after X-Plane has begun a command,   *)
(* and again after it has ended it.  Flight director up one, which the AP  *)
(* button runs, makes a message and does not post it.                      *)
Idle == at = "idle" /\ answers = <<>>

Turn(c) ==
  /\ c \in Turns /\ \E f \in SimVals[c[2]] : sim' = [sim EXCEPT ![c[2]] = f]
  /\ answers' = <<c, c>>
  /\ UNCHANGED <<status, stale>>
Press(c) ==
  /\ c \in {"btn"} \X Buttons /\ \E s \in 0..2 : status' = [status EXCEPT ![c[2]] = s]
  /\ answers' = <<c, c>>
  /\ UNCHANGED <<sim, stale>>
Otto(c) ==
  /\ c \in {"otto"} \X {"on", "armed", "off"}
  /\ status' = [status EXCEPT !["ap"] = CASE c[2] = "on" -> 2 [] c[2] = "armed" -> 1
                                          [] c[2] = "off" -> 0]
  /\ answers' = <<c, c>>
  /\ UNCHANGED <<sim, stale>>
FdUpOne(c) ==
  /\ c = <<"fdUpOne">> /\ status["ap"] < 2
  /\ status' = [status EXCEPT !["ap"] = @ + 1] /\ stale' = stale \cup {<<"btn", "ap">>}
  /\ UNCHANGED <<sim, answers>>

Command(c) ==
  /\ Idle /\ enabled
  /\ Turn(c) \/ Press(c) \/ Otto(c) \/ FdUpOne(c)
  /\ UNCHANGED <<pluginVars, gPower, outbox, ojq, toVars>>

\* X-Plane changes a readout itself, or by a command while the plugin is disabled.
Silent(d) ==
  /\ Idle
  /\ \E f \in SimVals[d] : sim' = [sim EXCEPT ![d] = f]
  /\ stale' = stale \cup {<<"dial", d>>}
  /\ UNCHANGED <<pluginVars, status, mainVars, outbox, ojq, toVars>>

(* XPluginReceiveMessage: mp_do_init posts everything; unloading a plane   *)
(* posts the opposite of X-Plane's switches; a crash has the panel blank.  *)
When(c, items) == IF c THEN items ELSE <<>>
InitVal(d) == When(d \in Dials, << <<"init", d>> >>)
InitBtn(b) == When(b \in Buttons, << <<"btn", b>> >>)
InitItems ==
  << <<"power", "avionics", TRUE>>, <<"power", "battery", TRUE>> >>
  \o InitVal("alt") \o InitVal("vs") \o InitVal("ias")
  \o When("crs" \in Dials, << <<"shared">>, <<"rename">>, <<"rewrite">>, <<"freed">> >>)
  \o << <<"btn", "ap">> >> \o InitBtn("alt") \o InitBtn("apr") \o InitBtn("rev")
  \o InitBtn("hdg") \o InitBtn("nav") \o InitBtn("ias") \o InitBtn("vs") \o << Update >>

PlaneLoaded ==
  /\ Idle /\ enabled /\ ~planeLoaded
  /\ answers' = InitItems /\ planeLoaded' = TRUE
  /\ UNCHANGED <<enabled, at, op, trig, simVars, gPower, outbox, ojq, toVars, stale>>

PlaneUnloaded ==
  /\ Idle /\ enabled
  /\ \E on \in Switches : answers' = << <<"power", "avionics", ~on["avionics"]>>,
                                       <<"power", "battery", ~on["battery"]>> >>
  /\ planeLoaded' = FALSE
  /\ UNCHANGED <<enabled, at, op, trig, simVars, gPower, outbox, ojq, toVars, stale>>

PlaneCrashed ==
  /\ Idle /\ enabled
  /\ answers' = << Crash >>
  /\ UNCHANGED <<pluginVars, simVars, gPower, outbox, ojq, toVars, stale>>

Post(m) == Len(ojq) < Limit /\ ojq' = Append(ojq, m)

MainPost ==
  /\ answers # <<>> /\ Head(answers)[1] \notin {"rename", "rewrite"}
  /\ LET m == Message(Head(answers)) IN
     /\ Post(m) /\ stale' = stale \ About(m)
     /\ gPower' = IF m[1] = "power" THEN [gPower EXCEPT ![m[2]] = m[3]] ELSE gPower
  /\ answers' = Tail(answers)
  /\ UNCHANGED <<pluginVars, simVars, outbox, toVars>>

(* The CRS value has no buffer of its own: it is written, first the kind   *)
(* and then the value, into that of the HDG value, which may be in the     *)
(* queue still, or taken and not read, or read and freed.  Then the same   *)
(* buffer is posted once more.                                             *)
Rewritten(m, item) ==
  IF m = NoMsg \/ m[1] # "shared" THEN m
  ELSE IF item = <<"rename">> THEN <<"shared", "crs", m[3]>>
  ELSE <<"val", "crs", Value("init", "crs", sim["crs"]), "plus">>

MainRewrite ==
  /\ answers # <<>> /\ Head(answers)[1] \in {"rename", "rewrite"}
  /\ ojq' = [i \in DOMAIN ojq |-> Rewritten(ojq[i], Head(answers))]
  /\ taken' = Rewritten(taken, Head(answers))
  /\ answers' = Tail(answers)
  /\ UNCHANGED <<pluginVars, simVars, gPower, outbox, loc, keptVars, leds, lit, stale>>
----------------------------------------------------------------------------
\* FromPanelThread::mp_processing ends with the position of the knob.
Report(d) ==
  /\ enabled /\ outbox = NoMsg
  /\ outbox' = <<"knob", d>>
  /\ UNCHANGED <<pluginVars, simVars, mainVars, ojq, toVars, stale>>

Deliver ==
  /\ outbox # NoMsg /\ Post(outbox)
  /\ outbox' = NoMsg
  /\ UNCHANGED <<pluginVars, simVars, mainVars, toVars, stale>>

(* XPluginEnable and XPluginDisable with purge_queues.                     *)
Enable ==
  /\ Idle /\ ~enabled
  /\ at' = "purge" /\ op' = "enable"
  /\ UNCHANGED <<enabled, planeLoaded, trig, simVars, mainVars, outbox, ojq, toVars, stale>>

\* Fault: the urgent post does not wait for room.
DisableOverfull ==
  /\ Idle /\ enabled
  /\ ojq' = <<Blank>> \o ojq
  /\ enabled' = FALSE /\ at' = "park" /\ op' = "disable"
  /\ UNCHANGED <<planeLoaded, trig, simVars, mainVars, outbox, toVars, stale>>

Disable ==
  /\ Idle /\ enabled
  /\ Len(ojq) < Limit /\ ojq' = <<Blank>> \o ojq
  /\ enabled' = FALSE /\ at' = "park" /\ op' = "disable"
  /\ UNCHANGED <<planeLoaded, trig, simVars, mainVars, outbox, toVars, stale>>

DisablePark ==
  /\ at = "park"
  /\ trig' = FALSE /\ at' = "purge"
  /\ UNCHANGED <<enabled, planeLoaded, op, simVars, mainVars, outbox, ojq, toVars, stale>>

PurgeTake ==
  /\ at = "purge" /\ ojq # <<>>
  /\ ojq' = Tail(ojq) /\ stale' = stale \cup About(Head(ojq))
  /\ UNCHANGED <<pluginVars, simVars, mainVars, outbox, toVars>>

PurgeNext ==
  /\ at = "purge" /\ ojq = <<>>
  /\ at' = "idle" /\ op' = "none"
  /\ enabled' = (op = "enable") /\ trig' = (op = "enable")
  /\ UNCHANGED <<planeLoaded, simVars, mainVars, outbox, ojq, toVars, stale>>
----------------------------------------------------------------------------
(* ToPanelThread::mp_processing.  The rows show the low decimal digits     *)
(* (dec2bcd): altitude and vertical speed at both of their positions, else *)
(* the one readout the knob is at.                                         *)
Unlit == -1
Val(v, d) == IF d \in Dials THEN v[d] ELSE 0
Digits(k, v, s) ==
  CASE k \in {"alt", "vs"} -> [top |-> Val(v, "alt") % 100000, bottom |-> Val(v, "vs") % 10000,
                               sign |-> s]
    [] k = "ias" -> [top |-> v[k] % 10000, bottom |-> Unlit, sign |-> "plus"]
    [] k \in {"hdg", "crs"} -> [top |-> v[k] % 1000, bottom |-> Unlit, sign |-> "plus"]

Send == leds' = report' /\ lit' = TRUE
SendBlank == lit' = FALSE /\ UNCHANGED <<leds, report>>
Redraw(k, v, s) == report' = [report EXCEPT !.digits = Digits(k, v, s)]

\* Fault: the battery off takes the flag of avionics.
ShowPowerMixed(m) ==
  /\ power' = [power EXCEPT ![IF m[3] THEN m[2] ELSE "avionics"] = m[3]]
  /\ UNCHANGED <<knob, vals, sign, btns, doInit, report, leds, lit, stale>>

ShowPower(m) ==
  /\ power' = [power EXCEPT ![m[2]] = m[3]]
  /\ UNCHANGED <<knob, vals, sign, btns, doInit, report, leds, lit, stale>>

ShowBlank(m) ==
  /\ SendBlank /\ doInit' = (doInit \/ m = Crash)
  /\ UNCHANGED <<power, knob, vals, sign, btns, stale>>

\* Without power a message is lost, and all readouts with it.
ShowDark(m) ==
  /\ SendBlank /\ vals' = [d \in Dials |-> 0]
  /\ stale' = stale \cup Lost(About(m) \cup {"dial"} \X Dials)
  /\ UNCHANGED <<power, knob, sign, btns, doInit>>

ShowKnob(d) ==
  /\ knob' = d /\ Redraw(d, vals, sign) /\ Send
  /\ UNCHANGED <<power, vals, sign, btns, doInit, stale>>

\* Fault: the value is kept and not drawn.
ShowValUndrawn(d, x, s) ==
  /\ vals' = [vals EXCEPT ![d] = x] /\ sign' = IF d = "vs" THEN s ELSE sign
  /\ UNCHANGED <<power, knob, btns, doInit, report, leds, lit, stale>>

ShowVal(d, x, s) ==
  /\ vals' = [vals EXCEPT ![d] = x] /\ sign' = IF d = "vs" THEN s ELSE sign
  /\ IF knob = d THEN Redraw(d, vals', sign') /\ Send ELSE UNCHANGED <<report, leds, lit>>
  /\ UNCHANGED <<power, knob, btns, doInit, stale>>

\* Autopilot off wipes the report, digits and bits.
ShowAp(s) ==
  /\ btns' = [btns EXCEPT !["ap"] = (s # 0)]
  /\ report' = IF s = 0 THEN Zeros ELSE [report EXCEPT !.bits["ap"] = TRUE]
  /\ stale' = IF s = 0 THEN stale \cup Lost({"btn"} \X Buttons) ELSE stale
  /\ Send /\ UNCHANGED <<power, knob, vals, sign, doInit>>

\* Fault: a button that goes off stays lit.
BitAfterOn(b, s) == IF b \in {"apr", "rev"} /\ s # 0 THEN ~report.bits[b] ELSE TRUE

(* The bit of a button, captured (2), armed (1) or off: HDG captured goes  *)
(* dark, VS lights the bit of ALT, and APR and REV toggle theirs.          *)
BitAfter(b, s) ==
  CASE s = 0 -> FALSE
    [] s # 0 /\ b \in {"apr", "rev"} -> ~report.bits[b]
    [] s # 0 /\ b = "hdg" -> s = 1
    [] s # 0 /\ b \notin {"apr", "rev", "hdg"} -> TRUE
BitOf(b, s) == IF b = "vs" /\ s # 0 THEN "alt" ELSE b

ShowBtn(b, s) ==
  IF btns["ap"]
  THEN /\ btns' = [btns EXCEPT ![b] = (s # 0)]
       /\ report' = [report EXCEPT !.bits[BitOf(b, s)] = BitAfter(b, s)]
       /\ Send /\ UNCHANGED <<power, knob, vals, sign, doInit, stale>>
  ELSE /\ stale' = stale \cup Lost({<<"btn", b>>})
       /\ UNCHANGED <<keptVars, leds, lit>>

\* MP_UPDATE_LEDS redoes the report and does not send it; HDG comes out inverted.
ShowUpdate ==
  /\ report' = [digits |-> IF knob = "none" THEN report.digits ELSE Digits(knob, vals, sign),
                bits |-> [b \in Bits |-> IF b = "hdg" THEN ~btns[b] ELSE btns[b]]]
  /\ UNCHANGED <<power, knob, vals, sign, btns, doInit, leds, lit, stale>>

Powered == power["avionics"] /\ power["battery"]
Ignore == UNCHANGED <<keptVars, leds, lit, stale>>

\* A freed buffer holds what was written there, or something else by now.
ShowFreed(x) == ShowVal("crs", x, "plus") \/ Ignore

Show(m) ==
  \/ m[1] = "power" /\ ShowPower(m)
  \/ m \in {Blank, Crash} /\ ShowBlank(m)
  \/ m[1] \notin {"power", "blank", "crash"} /\ ~Powered /\ ShowDark(m)
  \/ m[1] \notin {"power", "blank", "crash"} /\ Powered /\
       \/ m[1] = "knob"   /\ ShowKnob(m[2])
       \/ m[1] = "val"    /\ ShowVal(m[2], m[3], m[4])
       \/ m[1] = "shared" /\ ShowVal(m[2], m[3], "plus")
       \/ m[1] = "freed"  /\ ShowFreed(m[2])
       \/ m[1] = "btn"    /\ (IF m[2] = "ap" THEN ShowAp(m[3]) ELSE ShowBtn(m[2], m[3]))
       \/ m = Update      /\ ShowUpdate

(* ToPanelThread::execute: a blank report first of all and after a crash,  *)
(* then one message, of which it reads the words after it has taken it.    *)
ToWake ==
  /\ loc = "wait" /\ trig
  /\ loc' = "get" /\ doInit' = FALSE /\ lit' = (lit /\ ~doInit)
  /\ UNCHANGED <<pluginVars, simVars, mainVars, outbox, ojq, taken, power, knob, vals, sign,
                 btns, report, leds, stale>>

ToTake ==
  /\ loc = "get" /\ ojq # <<>>
  /\ loc' = "show" /\ taken' = Head(ojq) /\ ojq' = Tail(ojq)
  /\ UNCHANGED <<pluginVars, simVars, mainVars, outbox, keptVars, leds, lit, stale>>

ToShow ==
  /\ loc = "show"
  /\ Show(taken)
  /\ loc' = "wait" /\ taken' = NoMsg
  /\ UNCHANGED <<pluginVars, simVars, mainVars, outbox, ojq>>

Next ==
  \/ (\E c \in Commands : Command(c)) \/ (\E d \in Unheard : Silent(d))
  \/ PlaneLoaded \/ PlaneUnloaded \/ PlaneCrashed \/ MainPost \/ MainRewrite
  \/ (\E d \in Dials : Report(d)) \/ Deliver
  \/ Enable \/ Disable \/ DisablePark \/ PurgeTake \/ PurgeNext
  \/ ToWake \/ ToTake \/ ToShow

Spec == Init /\ [][Next]_vars
----------------------------------------------------------------------------
Vals   == {"val"} \X Dials \X Nat \X {"plus", "minus"}
Shared == {"shared"} \X {"hdg", "crs"} \X Nat
Msg    == Power \cup Knobs \cup States \cup Vals \cup Shared \cup ({"freed"} \X Nat)
            \cup {Blank, Crash, Update}

DigitRows == [top : Nat, bottom : Nat \cup {Unlit}, sign : {"none", "plus", "minus"}]
PanelReport == [digits : DigitRows, bits : [Bits -> BOOLEAN]]

\* The values of every variable; the queue does not hold more than its limit.
TypeOK ==
  /\ enabled \in BOOLEAN /\ planeLoaded \in BOOLEAN /\ trig \in BOOLEAN
  /\ at \in {"idle", "park", "purge"} /\ op \in {"none", "enable", "disable"}
  /\ \A d \in Dials : sim[d] \in SimVals[d]
  /\ status \in [Buttons \cup {"ap"} -> 0..2]
  /\ gPower \in [{"avionics", "battery"} -> BOOLEAN]
  /\ outbox \in Knobs \cup {NoMsg}
  /\ ojq \in Seq(Msg) /\ Len(ojq) <= Limit
  /\ loc \in {"wait", "get", "show"} /\ taken \in Msg \cup {NoMsg}
  /\ power \in [{"avionics", "battery"} -> BOOLEAN]
  /\ knob \in Dials \cup {"none"} /\ vals \in [Dials -> Nat]
  /\ sign \in {"none", "plus", "minus"} /\ btns \in [Bits -> BOOLEAN] /\ doInit \in BOOLEAN
  /\ report \in PanelReport /\ leds \in PanelReport /\ lit \in BOOLEAN
  /\ stale \subseteq Things

(* Nothing is on its way to ToPanelThread.                                 *)
Settled == answers = <<>> /\ ojq = <<>> /\ taken = NoMsg

(* A value of the panel is X-Plane's but for what the handlers round off.  *)
Near(x, f) == 2 * x - Size(f) > -8 /\ 2 * x - Size(f) < 200

(* The readout the knob is at shows X-Plane's value on a lit panel, and a  *)
(* vertical speed its sign: after commands from anywhere, turns of the     *)
(* knob in between, outages and crashes.  Autopilot off leaves zeros there *)
(* until the next report of the panel.                                     *)
Shown(d) == IF d = "vs" THEN leds.digits.bottom ELSE leds.digits.top
ReadoutAgrees ==
  Settled /\ lit => \A d \in Dials \cap {"alt", "vs", "ias"} :
    knob = d /\ <<"dial", d>> \notin stale /\ leds.digits # Zeros.digits =>
      /\ Near(Shown(d), sim[d])
      /\ d = "vs" => leds.digits.sign = Sign(sim[d])

(* The AP, NAV and IAS buttons of a lit panel are lit when the autopilot   *)
(* has them armed or captured.                                             *)
ButtonsAgree ==
  Settled /\ lit => \A b \in (Buttons \cup {"ap"}) \cap {"ap", "nav", "ias"} :
    <<"btn", b>> \notin stale => (leds.bits[b] <=> status[b] # 0)

(* The power ToPanelThread goes by is the one the flight loop goes by: the *)
(* panel is not dark while its controls act, nor lit while they do not.    *)
PowerAgrees ==
  Settled => \A p \in {"avionics", "battery"} :
    <<"power", p>> \notin stale => power[p] = gPower[p]

(* Each power flag, each of the lamps AP, NAV and IAS, and each readout    *)
(* but heading and course, by itself: what the main thread has to post of  *)
(* it is owed, then on its way, and once ToPanelThread has shown it the    *)
(* panel keeps and draws what X-Plane has, no matter what else is in the   *)
(* queue.  Where the autopilot was switched off, the rows are zeros.       *)
Powers   == {"power"} \X {"avionics", "battery"}
Lamps    == {"btn"} \X ((Buttons \cup {"ap"}) \cap {"ap", "nav", "ias"})
Readouts == {"dial"} \X (Dials \cap {"alt", "vs", "ias"})
Told     == Powers \cup Lamps \cup Readouts

Drawn(g, d) ==
  g = Zeros.digits \/ /\ Near(IF d = "vs" THEN g.bottom ELSE g.top, sim[d])
                      /\ d = "vs" => g.sign = Sign(sim[d])
PowerKept(p) == power[p] = gPower[p]
LampKept(b) ==
  /\ btns[b] <=> status[b] # 0
  /\ report.bits[b] <=> status[b] # 0
  /\ lit => (leds.bits[b] <=> status[b] # 0)
ReadoutKept(d) ==
  /\ Near(vals[d], sim[d]) /\ (d = "vs" => sign = Sign(sim[d]))
  /\ knob = d => Drawn(report.digits, d) /\ (lit => Drawn(leds.digits, d))
Kept(x) == IF x[1] = "power" THEN PowerKept(x[2])
           ELSE IF x[1] = "btn" THEN LampKept(x[2]) ELSE ReadoutKept(x[2])

Asked(a) == CASE a[1] \in {"up", "dn", "init"} -> {<<"dial", a[2]>>}
              [] a[1] \in {"btn", "power"} -> {<<a[1], a[2]>>}
              [] a[1] = "otto" -> {<<"btn", "ap">>}
              [] OTHER -> {}
IsOwed(x)   == \E i \in DOMAIN answers : x \in Asked(answers[i])
IsComing(x) == Coming(x) \/ (taken # NoMsg /\ x \in About(taken))
Phase(x) == IF IsOwed(x) THEN "owed" ELSE IF x \in stale THEN "lost"
            ELSE IF IsComing(x) THEN "coming" ELSE "there"
Followed == INSTANCE Following WITH
              Things <- Told, phase <- [x \in Told |-> Phase(x)],
              agrees <- [x \in Told |-> Kept(x)]
ThingsFollow == Followed!Spec

(* After "HDG val init" the panel has X-Plane's heading.                   *)
HeadingAgrees ==
  Settled /\ "hdg" \in Dials /\ <<"dial", "hdg">> \notin stale => Near(vals["hdg"], sim["hdg"])
=============================================================================
