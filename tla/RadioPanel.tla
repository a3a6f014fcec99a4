----------------------------- MODULE RadioPanel -----------------------------
(***************************************************************************)
(* The radio panel, from the tuning knobs to X-Plane and back to the LEDs. *)
(* FromPanelThread posts every tuning step twice, to X-Plane and to the    *)
(* panel itself.  X-Plane's main thread runs the command, and its handler  *)
(* posts the frequency X-Plane has now; ToPanelThread, which may have made *)
(* a step of its own in the meantime or not yet, keeps the frequencies and *)
(* shows, on each of two lines, those of the radio its knob selects.       *)
(***************************************************************************)
EXTENDS Integers, Sequences

CONSTANTS
  Radios,    \* the radios with messages: of "com1" and "com2"
  Thresh,    \* gRpTuningThresh: detents that make one local step
  Word,      \* a frequency is kept in an unsigned word: 2^32 values
  Places,    \* of which the LEDs show five decimal places: 10^5 values
  Freqs,     \* the frequencies X-Plane tunes to
  Limit,     \* how many messages a job queue holds
  Reports,   \* the reports the user makes the panel send
  Keys,      \* the commands given from elsewhere than the panel
  Unheard    \* the frequencies X-Plane may change without any command

Lines  == {"upper", "lower"}
Kinds  == {"coarseUp", "coarseDn", "fineUp", "fineDn"}
Names  == Radios \X {"active", "stdby"}
Values == 0..(Word - 1)

(* A message is a command, a position of a knob, a frequency, or BLANK.    *)
Turns == {"turn"} \X Radios \X Kinds
Flips == {"flip"} \X Radios
Cmds  == Turns \cup Flips
Knobs == {"knob"} \X Lines \X (Radios \cup {"other"})
Blank == <<"blank">>
NoMsg == <<>>

\* One line of a report: "both" is both directions at once.
Control == [knob : Radios \cup {"other"}, turn : Kinds \cup {"none", "both"}, flip : BOOLEAN]

ASSUME RadioAssumption ==
  /\ "com1" \in Radios /\ Radios \subseteq {"com1", "com2"}
  /\ Thresh \in Nat \ {0} /\ Word \in Nat \ {0} /\ Places \in Nat \ {0}
  /\ Limit \in Nat \ {0} /\ Freqs \subseteq Values /\ Freqs # {}
  /\ Reports \subseteq [Lines -> Control]
  /\ Keys \subseteq Cmds /\ Unheard \subseteq Names

VARIABLES
  enabled, planeLoaded, \* gPluginEnabled, gPlaneLoaded
  at, op,      \* where in XPluginEnable or XPluginDisable the main thread is
  trig,        \* gRpTrigger
  sim,         \* the frequencies X-Plane has
  answers,     \* those the main thread has still to post
  outbox,      \* FromPanelThread: what it has still to post of its report
  ijq, ojq,    \* gRp_ijq, gRp_ojq
  getting,     \* ToPanelThread is past the wait for its trigger
  modeVals,    \* mRpModeVals
  knob,        \* mRpUpperKnobPos, mRpLowerKnobPos
  cnt,         \* gRpUpper{Coarse,Fine}Tune{Up,Down}Cnt
  report,      \* mRpReport
  shown,       \* what the LEDs show: the report sent last
  stale        \* frequencies the panel was not told since they parted

pluginVars == <<enabled, planeLoaded, at, op, trig>>
toVars == <<getting, modeVals, knob, cnt, report, shown>>
vars == <<pluginVars, sim, answers, outbox, ijq, ojq, toVars, stale>>

(* What is in memory nobody initialised, and what BLANK leaves on the LEDs. *)
Junk == <<"junk">>
Dark == <<"dark">>

Init ==
  /\ enabled = FALSE /\ planeLoaded = FALSE /\ at = "idle" /\ op = "none"
  /\ trig = FALSE /\ getting = FALSE
  /\ sim \in [Names -> Freqs] /\ answers = <<>>
  /\ outbox = <<>> /\ ijq = <<>> /\ ojq = <<>>
  /\ modeVals = [n \in Names |-> 0]
  /\ knob \in [Lines -> Radios \cup {"other"}]   \* not initialised by the code
  /\ cnt = [k \in Kinds |-> 0]
  /\ report = [l \in Lines |-> Junk] /\ shown = [l \in Lines |-> Dark]
  /\ stale = Names

----------------------------------------------------------------------------
(* FromPanelThread::rp_processing: of the controls a report names, the     *)
(* last one makes the message, or none if its knob is at another radio.    *)
Command(kind, c) == IF c.knob = "other" THEN NoMsg
                    ELSE IF kind = "flip" THEN <<"flip", c.knob>>
                    ELSE <<"turn", c.knob, c.turn>>
LineAsks(c) ==
  (IF c.turn \in Kinds THEN << Command("turn", c) >> ELSE <<>>) \o
  (IF c.flip THEN << Command("flip", c) >> ELSE <<>>)
Asked(r) == LET asks == LineAsks(r["upper"]) \o LineAsks(r["lower"]) IN
            IF asks = <<>> THEN NoMsg ELSE asks[Len(asks)]

KnobPosts(r) == << <<"ojq", <<"knob", "upper", r["upper"].knob>> >>,
                   <<"ojq", <<"knob", "lower", r["lower"].knob>> >> >>
Report(r) ==
  /\ enabled /\ outbox = <<>>
  /\ outbox' = (IF Asked(r) = NoMsg THEN <<>>
                ELSE << <<"ijq", Asked(r)>>, <<"ojq", Asked(r)>> >>) \o KnobPosts(r)
  /\ UNCHANGED <<pluginVars, sim, answers, ijq, ojq, toVars, stale>>

Post(q, m) == Len(q) < Limit /\ q' = Append(q, m)

Deliver ==
  /\ outbox # <<>>
  /\ LET m == Head(outbox)[2] IN
     \/ Head(outbox)[1] = "ijq" /\ Post(ijq, m) /\ UNCHANGED ojq
     \/ Head(outbox)[1] = "ojq" /\ Post(ojq, m) /\ UNCHANGED ijq
  /\ outbox' = Tail(outbox)
  /\ UNCHANGED <<pluginVars, sim, answers, toVars, stale>>

----------------------------------------------------------------------------
(* X-Plane runs a command, then RadioPanelCommandHandler, for its Begin    *)
(* and for its End, posts what became of the frequencies.                  *)
Idle == at = "idle" /\ answers = <<>>

\* Faults: a flip answers with the standby frequency only; or a turn not at all.
AnswersNoActive(c) == << <<c[2], "stdby">>, <<c[2], "stdby">> >>
AnswersNoTurn(c) ==
  IF c \in Turns THEN <<>>
  ELSE << <<c[2], "stdby">>, <<c[2], "active">>, <<c[2], "stdby">>, <<c[2], "active">> >>

Answers(c) ==
  IF c \in Turns THEN << <<c[2], "stdby">>, <<c[2], "stdby">> >>
  ELSE << <<c[2], "stdby">>, <<c[2], "active">>, <<c[2], "stdby">>, <<c[2], "active">> >>

Execute(c) ==
  /\ \E f \in Freqs :
       sim' = IF c \in Turns THEN [sim EXCEPT ![<<c[2], "stdby">>] = f]
              ELSE [sim EXCEPT ![<<c[2], "active">>] = sim[<<c[2], "stdby">>],
                               ![<<c[2], "stdby">>] = sim[<<c[2], "active">>]]
  /\ answers' = Answers(c)

FlightLoop ==
  /\ Idle /\ enabled /\ ijq # <<>>
  /\ Execute(Head(ijq)) /\ ijq' = Tail(ijq)
  /\ UNCHANGED <<pluginVars, outbox, ojq, toVars, stale>>

Keyboard(c) ==
  /\ Idle /\ enabled
  /\ Execute(c)
  /\ UNCHANGED <<pluginVars, outbox, ijq, ojq, toVars, stale>>

\* X-Plane changes a frequency itself, or by a command while the plugin is disabled.
Silent(n) ==
  /\ Idle
  /\ \E f \in Freqs : sim' = [sim EXCEPT ![n] = f]
  /\ stale' = stale \cup {n}
  /\ UNCHANGED <<pluginVars, answers, outbox, ijq, ojq, toVars>>

MainPost ==
  /\ answers # <<>>
  /\ LET n == Head(answers) IN
     /\ Post(ojq, <<"val", n[1], n[2], sim[n]>>)
     /\ stale' = stale \ {n}
  /\ answers' = Tail(answers)
  /\ UNCHANGED <<pluginVars, sim, outbox, ijq, toVars>>

(* XPluginReceiveMessage with rp_do_init.                                  *)
InitNames(r) == IF r \in Radios THEN << <<r, "active">>, <<r, "stdby">> >> ELSE <<>>
PlaneLoaded ==
  /\ Idle /\ enabled /\ ~planeLoaded
  /\ answers' = InitNames("com1") \o InitNames("com2")
  /\ planeLoaded' = TRUE
  /\ UNCHANGED <<enabled, at, op, trig, sim, outbox, ijq, ojq, toVars, stale>>

PlaneUnloaded ==
  /\ Idle /\ enabled
  /\ planeLoaded' = FALSE
  /\ UNCHANGED <<enabled, at, op, trig, sim, answers, outbox, ijq, ojq, toVars, stale>>

----------------------------------------------------------------------------
(* XPluginEnable and XPluginDisable with purge_queues.                     *)
Enable ==
  /\ Idle /\ ~enabled
  /\ at' = "purgeOut" /\ op' = "enable"
  /\ UNCHANGED <<enabled, planeLoaded, trig, sim, answers, outbox, ijq, ojq, toVars, stale>>

Disable ==
  /\ Idle /\ enabled
  /\ Len(ojq) < Limit /\ ojq' = <<Blank>> \o ojq
  /\ enabled' = FALSE /\ at' = "park" /\ op' = "disable"
  /\ UNCHANGED <<planeLoaded, trig, sim, answers, outbox, ijq, toVars, stale>>

DisablePark ==
  /\ at = "park"
  /\ trig' = FALSE /\ at' = "purgeOut"
  /\ UNCHANGED <<enabled, planeLoaded, op, sim, answers, outbox, ijq, ojq, toVars, stale>>

\* The frequencies a purged message leaves the panel and X-Plane apart in.
Parts(m) == IF m[1] = "val" THEN { <<m[2], m[3]>> } ELSE {}
PartsIn(m) == IF m \in Turns THEN { <<m[2], "stdby">> } ELSE {}

PurgeTake ==
  /\ \/ /\ at = "purgeOut" /\ ojq # <<>>
        /\ ojq' = Tail(ojq) /\ stale' = stale \cup Parts(Head(ojq)) /\ UNCHANGED ijq
     \/ /\ at = "purgeIn" /\ ijq # <<>>
        /\ ijq' = Tail(ijq) /\ stale' = stale \cup PartsIn(Head(ijq)) /\ UNCHANGED ojq
  /\ UNCHANGED <<pluginVars, sim, answers, outbox, toVars>>

PurgeNext ==
  /\ \/ /\ at = "purgeOut" /\ ojq = <<>>
        /\ at' = "purgeIn" /\ UNCHANGED <<enabled, trig, op>>
     \/ /\ at = "purgeIn" /\ ijq = <<>>
        /\ at' = "idle" /\ op' = "none"
        /\ enabled' = (op = "enable") /\ trig' = (op = "enable")
  /\ UNCHANGED <<planeLoaded, sim, answers, outbox, ijq, ojq, toVars, stale>>

----------------------------------------------------------------------------
(* ToPanelThread::rp_processing.  The LEDs get the five low decimal places *)
(* of a frequency (dec2bcd); the report holds both lines.                  *)
LedsOf(r, v) == << v[<<r, "active">>] % Places, v[<<r, "stdby">>] % Places >>
Fill(ls, r, v) == report' = [l \in Lines |-> IF l \in ls THEN LedsOf(r, v) ELSE report[l]]
Send == shown' = report'
At(r) == {l \in Lines : knob[l] = r}

Redraw(ls, r, v) == Fill(ls, r, v) /\ IF ls # {} THEN Send ELSE UNCHANGED shown

\* Fault: the line is not drawn anew.
ShowKnobUndrawn(l, r) ==
  /\ knob' = (IF r \in Radios THEN [knob EXCEPT ![l] = r] ELSE knob)
  /\ UNCHANGED <<report, shown, modeVals, cnt>>

ShowKnob(l, r) ==
  IF r \in Radios /\ knob[l] # r
  THEN knob' = [knob EXCEPT ![l] = r] /\ Redraw({l}, r, modeVals) /\ UNCHANGED <<modeVals, cnt>>
  ELSE UNCHANGED <<knob, report, shown, modeVals, cnt>>

ShowVal(n, x) ==
  /\ modeVals' = [modeVals EXCEPT ![n] = x]
  /\ IF modeVals[n] # x THEN Redraw(At(n[1]), n[1], modeVals') ELSE UNCHANGED <<report, shown>>
  /\ UNCHANGED <<knob, cnt>>

(* COM2_VAL falls through into COM2_STDBY_VAL: the data becomes the        *)
(* standby frequency as well, and is sent only if that was another one.    *)
ShowCom2Active(x) ==
  LET old == modeVals[<<"com2", "stdby">>] IN
  /\ modeVals' = [modeVals EXCEPT ![<<"com2", "active">>] = x, ![<<"com2", "stdby">>] = x]
  /\ IF modeVals' # modeVals THEN Fill(At("com2"), "com2", modeVals') ELSE UNCHANGED report
  /\ IF old # x /\ At("com2") # {} THEN Send ELSE UNCHANGED shown
  /\ UNCHANGED <<knob, cnt>>

(* A local step of COM1.  A coarse step up counts in the counter of fine   *)
(* ones; only the upper line is drawn anew.  A counter is of use up to the *)
(* threshold and kept no further (CntBound).                               *)
CntBound == Thresh
Counter(t)  == IF t = "coarseUp" THEN "fineUp" ELSE t
Opposite(t) == [coarseUp |-> "coarseDn", coarseDn |-> "coarseUp",
                fineUp |-> "fineDn", fineDn |-> "fineUp"][t]

\* Faults: the word does not wrap; the step is not drawn.
StepSigned(t, x) == IF t \in {"coarseUp", "fineUp"} THEN x + 1 ELSE x - 1
Step(t, x) == IF t \in {"coarseUp", "fineUp"} THEN (x + 1) % Word ELSE (x - 1) % Word

Count(t, n) ==
  cnt' = [k \in Kinds |-> IF k = Opposite(t) \/ (k = t /\ n >= Thresh) THEN 0
                          ELSE IF k # Counter(t) THEN cnt[k]
                          ELSE IF n > CntBound THEN CntBound ELSE n]

ShowTurnUndrawn(t) ==
  LET n == cnt[Counter(t)] + 1 IN
  /\ Count(t, n)
  /\ modeVals' = IF n >= Thresh THEN [modeVals EXCEPT ![<<"com1", "stdby">>] = Step(t, @)]
                 ELSE modeVals
  /\ UNCHANGED <<knob, report, shown>>

ShowTurn(t) ==
  LET n == cnt[Counter(t)] + 1 IN
  /\ Count(t, n)
  /\ IF n >= Thresh
     THEN /\ modeVals' = [modeVals EXCEPT ![<<"com1", "stdby">>] = Step(t, @)]
          /\ Redraw(At("com1") \cap {"upper"}, "com1", modeVals')
     ELSE UNCHANGED <<modeVals, report, shown>>
  /\ UNCHANGED knob

\* A turn of COM2, and a flip, draw what is there once more.
ShowAgain(r) == Redraw(At(r), r, modeVals) /\ UNCHANGED <<modeVals, knob, cnt>>

ShowBlank == shown' = [l \in Lines |-> Dark] /\ UNCHANGED <<modeVals, knob, cnt, report>>

Show(m) ==
  \/ m = Blank /\ ShowBlank
  \/ m \in Knobs /\ ShowKnob(m[2], m[3])
  \/ m \in Turns /\ (IF m[2] = "com1" THEN ShowTurn(m[3]) ELSE ShowAgain("com2"))
  \/ m \in Flips /\ ShowAgain(m[2])
  \/ m[1] = "val" /\ (IF m[2] = "com2" /\ m[3] = "active" THEN ShowCom2Active(m[4])
                      ELSE ShowVal(<<m[2], m[3]>>, m[4]))

\* ToPanelThread::execute: wait for the trigger, then for one message.
ToWake ==
  /\ ~getting /\ trig
  /\ getting' = TRUE
  /\ UNCHANGED <<pluginVars, sim, answers, outbox, ijq, ojq, modeVals, knob, cnt,
                 report, shown, stale>>

ToShow ==
  /\ getting /\ ojq # <<>>
  /\ Show(Head(ojq)) /\ ojq' = Tail(ojq)
  /\ getting' = FALSE
  /\ UNCHANGED <<pluginVars, sim, answers, outbox, ijq, stale>>

----------------------------------------------------------------------------
Next ==
  \/ (\E r \in Reports : Report(r)) \/ Deliver
  \/ FlightLoop \/ (\E c \in Keys : Keyboard(c)) \/ (\E n \in Unheard : Silent(n))
  \/ MainPost \/ PlaneLoaded \/ PlaneUnloaded
  \/ Enable \/ Disable \/ DisablePark \/ PurgeTake \/ PurgeNext
  \/ ToWake \/ ToShow

Spec == Init /\ [][Next]_vars
----------------------------------------------------------------------------
Msg == Cmds \cup Knobs \cup {Blank} \cup {"val"} \X Radios \X {"active", "stdby"} \X Freqs
Leds == (0..(Places - 1)) \X (0..(Places - 1))

\* The values of every variable; no queue holds more than its limit.
TypeOK ==
  /\ enabled \in BOOLEAN /\ planeLoaded \in BOOLEAN /\ trig \in BOOLEAN
  /\ at \in {"idle", "park", "purgeOut", "purgeIn"} /\ op \in {"none", "enable", "disable"}
  /\ sim \in [Names -> Freqs] /\ answers \in Seq(Names)
  /\ outbox \in Seq(({"ijq"} \X Cmds) \cup ({"ojq"} \X (Cmds \cup Knobs)))
  /\ ijq \in Seq(Cmds) /\ Len(ijq) <= Limit
  /\ ojq \in Seq(Msg) /\ Len(ojq) <= Limit
  /\ getting \in BOOLEAN /\ modeVals \in [Names -> Values]
  /\ knob \in [Lines -> Radios \cup {"other"}] /\ cnt \in [Kinds -> 0..CntBound]
  /\ report \in [Lines -> Leds \cup {Junk}] /\ shown \in [Lines -> Leds \cup {Junk, Dark}]
  /\ stale \subseteq Names

(* Nothing is on its way from the panel to X-Plane or back.                *)
Settled == outbox = <<>> /\ ijq = <<>> /\ ojq = <<>> /\ answers = <<>>
Near(x, y) == x \in {y, (y + 1) % Word, (y - 1) % Word}

(* However the local steps and X-Plane's answers overtake each other, once *)
(* all is delivered the standby frequency of COM1 is off by one local step *)
(* at most, that of the last detent.                                       *)
DriftIsOneStep ==
  Settled /\ <<"com1", "stdby">> \notin stale =>
    Near(modeVals[<<"com1", "stdby">>], sim[<<"com1", "stdby">>])

(* The active frequencies nobody changes locally: once all is delivered    *)
(* they are X-Plane's, after flips in either place and a reloaded plane.   *)
ActiveAgrees ==
  Settled => \A r \in Radios : <<r, "active">> \notin stale =>
    modeVals[<<r, "active">>] = sim[<<r, "active">>]

(* A lit line shows the frequencies ToPanelThread keeps of the radio its   *)
(* knob selects, through all the branches that change them: the upper line *)
(* for COM1, and both lines for COM2 unless its two frequencies are equal. *)
Lit(l) == shown[l] \notin {Junk, Dark}
LitLinesCurrent ==
  /\ Lit("upper") /\ knob["upper"] = "com1" => shown["upper"] = LedsOf("com1", modeVals)
  /\ \A l \in {l \in Lines : Lit(l) /\ knob[l] = "com2"} :
       modeVals[<<"com2", "active">>] # modeVals[<<"com2", "stdby">>] =>
         shown[l] = LedsOf("com2", modeVals)

(* Each active frequency, by itself: what the main thread has to post of   *)
(* it is owed, then on its way, and once it was read the panel has it, no  *)
(* matter what else is in the queues or being tuned.                       *)
Active == Radios \X {"active"}
IsOwed(n)   == \E i \in DOMAIN answers : answers[i] = n
IsComing(n) == \E i \in DOMAIN ojq : n \in Parts(ojq[i])
Phase(n) == IF IsOwed(n) THEN "owed" ELSE IF n \in stale THEN "lost"
            ELSE IF IsComing(n) THEN "coming" ELSE "there"
Followed == INSTANCE Following WITH
              Things <- Active, phase <- [n \in Active |-> Phase(n)],
              agrees <- [n \in Active |-> modeVals[n] = sim[n]]
ActivesFollow == Followed!Spec

(* The right field of a line is the standby frequency: when nothing is on  *)
(* its way, it is the one X-Plane has.                                     *)
StandbyShown(r) ==
  Settled /\ <<r, "stdby">> \notin stale =>
    \A l \in At(r) : Lit(l) => shown[l][2] = sim[<<r, "stdby">>] % Places
Com1StandbyShown == StandbyShown("com1")
Com2StandbyShown == StandbyShown("com2")
=============================================================================
