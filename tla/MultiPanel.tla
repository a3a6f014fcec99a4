----------------------------- MODULE MultiPanel -----------------------------
(***************************************************************************)
(* What the user does with the multi panel and what X-Plane gets of it:    *)
(* FromPanelThread turns USB reports into messages, and on X-Plane's main  *)
(* thread MultiPanelFlightLoopCallback turns messages into commands, some  *)
(* of which pass through MultiPanelCommandHandler on their way, as do the  *)
(* same commands when they come from the keyboard.  The ten detent         *)
(* counters, the pending counters of the watched commands and the two      *)
(* power flags are the state this goes by.                                 *)
(***************************************************************************)
EXTENDS Integers, Sequences

CONSTANTS
  Thresh,       \* gMpTuningThresh: detents that make one command
  Dials,        \* the positions of the mode knob: ALT, VS, IAS, HDG, CRS
  Registered,   \* per watched command: how often its handler is registered
  Reports,      \* the reports the user makes the panel send
  QueueBound,   \* bound on the messages in ijq
  PendingBound  \* bound on a pending counter that nothing decrements

(* A message is named by what it asks for: one more detent of a turn, or a *)
(* command.  The watched commands are those with a pending counter.        *)
Dirs    == {"up", "dn"}
Turns   == {"turn"} \X Dials \X Dirs
Flaps   == {"flaps"} \X Dirs
Watched == Flaps \cup {"throttle"} \X {"on", "off", "toggle"}
Plain   == {"trim"} \X Dirs \cup {"button"} \X {"alt", "other"}
Msg     == Turns \cup Watched \cup Plain
None    == <<>>

\* What one USB report says: "both" and "many" are bits that exclude another.
AllReports ==
  [btn : {"none", "alt", "other", "many"}, flaps : {"none", "up", "dn", "both"},
   trim : {"none", "up", "dn", "both"}, tuning : {"none", "up", "dn"},
   knob : Dials, throttle : {"on", "off"}]

ASSUME MultiAssumption ==
  /\ Thresh \in Nat \ {0} /\ QueueBound \in Nat /\ PendingBound \in Nat
  /\ Reports \subseteq AllReports
  /\ Registered \in [Watched -> Nat]

VARIABLES
  enabled,      \* gPluginEnabled
  planeLoaded,  \* gPlaneLoaded
  avOn, batOn,  \* gAvPwrOn, gBat1On
  outbox,       \* FromPanelThread: what it still has to post of its report
  ijq,          \* gMp_ijq
  cnt,          \* gMp{Alt,Vs,Ias,Hdg,Crs}Tune{Up,Dn}Cnt
  pending,      \* gMp{FlapsUp,FlapsDn,Autothrottle_*}Pending
  sim,          \* the command X-Plane was made to execute last, None if eaten
  held          \* watched commands X-Plane saw begin and not yet end

powerVars == <<planeLoaded, avOn, batOn>>
simVars   == <<pending, sim, held>>
vars == <<enabled, powerVars, outbox, ijq, cnt, simVars>>

Init ==
  /\ enabled = FALSE /\ planeLoaded = FALSE /\ avOn = FALSE /\ batOn = FALSE
  /\ outbox = <<>> /\ ijq = <<>>
  /\ cnt = [t \in Turns |-> 0] /\ pending = [c \in Watched |-> 0]
  /\ sim = None /\ held = {}

----------------------------------------------------------------------------
(* FromPanelThread::mp_processing: of buttons, flaps, trim and tuning the  *)
(* first that is there excludes the others; the state of the autothrottle  *)
(* switch follows in any case.                                             *)
Asked(r) ==
  CASE r.btn # "none"    -> IF r.btn = "many" THEN <<>> ELSE << <<"button", r.btn>> >>
    [] r.btn = "none" /\ r.flaps # "none" ->
         IF r.flaps = "both" THEN <<>> ELSE << <<"flaps", r.flaps>> >>
    [] r.btn = "none" /\ r.flaps = "none" /\ r.trim # "none" ->
         IF r.trim = "both" THEN <<>> ELSE << <<"trim", r.trim>> >>
    [] r.btn = "none" /\ r.flaps = "none" /\ r.trim = "none" ->
         IF r.tuning = "none" THEN <<>> ELSE << <<"turn", r.knob, r.tuning>> >>

Report(r) ==
  /\ enabled /\ outbox = <<>>
  /\ outbox' = Append(Asked(r), <<"throttle", r.throttle>>)
  /\ UNCHANGED <<enabled, powerVars, ijq, cnt, simVars>>

\* ijq->post; the thread may be anywhere between its posts for any time.
Deliver ==
  /\ outbox # <<>> /\ Len(ijq) < QueueBound
  /\ ijq' = Append(ijq, Head(outbox)) /\ outbox' = Tail(outbox)
  /\ UNCHANGED <<enabled, powerVars, cnt, simVars>>

----------------------------------------------------------------------------
(* A phase of command c reaches X-Plane only if every handler registered   *)
(* for it lets it pass; each does so by taking one off the pending count,  *)
(* and at zero eats the event.  XPLMCommandOnce runs two phases.           *)
\* Fault: a handler looks at the pending count and does not decrement it.
PassesKeep(c, n) == [pass |-> n >= Registered[c], left |-> n]

Passes(c, n) == [pass |-> n >= Registered[c],
                 left |-> IF n >= Registered[c] THEN n - Registered[c] ELSE 0]

CommandOnce(c, n) ==
  LET begin == Passes(c, n)
      end   == Passes(c, begin.left) IN
  /\ pending' = [pending EXCEPT ![c] = end.left]
  /\ sim' = IF begin.pass THEN c ELSE None
  /\ held' = IF end.pass THEN held \ {c} ELSE IF begin.pass THEN held \cup {c} ELSE held

(* From the keyboard, or another plugin.  While the plugin is disabled its *)
(* handlers let everything pass.                                           *)
Keyboard(c) ==
  /\ \/ enabled /\ CommandOnce(c, pending[c])
     \/ ~enabled /\ sim' = c /\ held' = held \ {c} /\ UNCHANGED pending
  /\ UNCHANGED <<enabled, powerVars, outbox, ijq, cnt>>

----------------------------------------------------------------------------
(* MultiPanelFlightLoopCallback, one message.                              *)
Powered == avOn /\ batOn
TakeMsg(m) == enabled /\ ijq # <<>> /\ m = Head(ijq) /\ ijq' = Tail(ijq)

Drop ==
  /\ TakeMsg(Head(ijq)) /\ ~Powered
  /\ UNCHANGED <<enabled, powerVars, outbox, cnt, simVars>>

\* Faults: a turn forgets to reset the others; or the limit is passed by one.
TurnNoReset(t) ==
  /\ TakeMsg(t) /\ Powered
  /\ cnt' = [cnt EXCEPT ![t] = IF @ + 1 >= Thresh THEN 0 ELSE @ + 1]
  /\ sim' = IF cnt[t] + 1 >= Thresh THEN t ELSE None
  /\ UNCHANGED <<enabled, powerVars, outbox, pending, held>>

TurnLate(t) ==
  /\ TakeMsg(t) /\ Powered
  /\ cnt' = [u \in Turns |-> IF u = t /\ cnt[t] < Thresh THEN cnt[t] + 1 ELSE 0]
  /\ sim' = IF cnt[t] >= Thresh THEN t ELSE None
  /\ UNCHANGED <<enabled, powerVars, outbox, pending, held>>

Turn(t) ==
  /\ TakeMsg(t) /\ Powered
  /\ cnt' = [u \in Turns |-> IF u = t /\ cnt[t] + 1 < Thresh THEN cnt[t] + 1 ELSE 0]
  /\ sim' = IF cnt[t] + 1 >= Thresh THEN t ELSE None
  /\ UNCHANGED <<enabled, powerVars, outbox, pending, held>>

\* Fault: the command is run without counting it as pending first.
WatchedOnceUncounted(c) ==
  /\ TakeMsg(c) /\ Powered /\ pending[c] < PendingBound
  /\ CommandOnce(c, pending[c])
  /\ UNCHANGED <<enabled, powerVars, outbox, cnt>>

WatchedOnce(c) ==
  /\ TakeMsg(c) /\ Powered /\ pending[c] < PendingBound
  /\ CommandOnce(c, pending[c] + 1)
  /\ UNCHANGED <<enabled, powerVars, outbox, cnt>>

\* The ALT button passes the address of the command reference, no command.
PlainOnce(c) ==
  /\ TakeMsg(c) /\ Powered
  /\ sim' = IF c = <<"button", "alt">> THEN None ELSE c
  /\ UNCHANGED <<enabled, powerVars, outbox, cnt, pending, held>>

----------------------------------------------------------------------------
(* XPluginEnable and XPluginDisable; what is in ijq when purge_queues is   *)
(* through with it is gone, what FromPanelThread posts later is not.       *)
Enable  == ~enabled /\ enabled' = TRUE /\ ijq' = <<>>
           /\ UNCHANGED <<powerVars, outbox, cnt, simVars>>
Disable == enabled /\ enabled' = FALSE /\ ijq' = <<>>
           /\ UNCHANGED <<powerVars, outbox, cnt, simVars>>

(* XPluginReceiveMessage: mp_do_init takes the power to be on; unloading   *)
(* the plane sets each flag to the opposite of X-Plane's switch.           *)
PlaneLoaded ==
  /\ enabled /\ ~planeLoaded
  /\ planeLoaded' = TRUE /\ avOn' = TRUE /\ batOn' = TRUE
  /\ UNCHANGED <<enabled, outbox, ijq, cnt, simVars>>

PlaneUnloaded ==
  /\ enabled
  /\ \E av, bat \in BOOLEAN : avOn' = ~av /\ batOn' = ~bat
  /\ planeLoaded' = FALSE
  /\ UNCHANGED <<enabled, outbox, ijq, cnt, simVars>>

Next ==
  \/ (\E r \in Reports : Report(r)) \/ Deliver
  \/ (\E c \in Watched : Keyboard(c) \/ WatchedOnce(c))
  \/ Drop \/ (\E t \in Turns : Turn(t)) \/ (\E c \in Plain : PlainOnce(c))
  \/ Enable \/ Disable \/ PlaneLoaded \/ PlaneUnloaded

Spec == Init /\ [][Next]_vars
----------------------------------------------------------------------------
\* The values of every variable; a detent counter stays below the threshold.
TypeOK ==
  /\ enabled \in BOOLEAN /\ planeLoaded \in BOOLEAN /\ avOn \in BOOLEAN /\ batOn \in BOOLEAN
  /\ outbox \in Seq(Msg) /\ ijq \in Seq(Msg) /\ Len(ijq) <= QueueBound
  /\ cnt \in [Turns -> 0..(Thresh - 1)]
  /\ pending \in [Watched -> Nat]
  /\ sim \in Msg \cup {None} /\ held \subseteq Watched

(* Of the ten detent counters at most one is not zero: detents of two      *)
(* turns, however they are mixed with other messages, never add up.        *)
OneTurnCounts == \A t, u \in Turns : cnt[t] > 0 /\ cnt[u] > 0 => t = u

(* Between callbacks no watched command that a handler is registered for   *)
(* is pending: a count left behind would let one command of the keyboard   *)
(* pass that the plugin means to eat.                                      *)
NothingLeftPending == \A c \in Watched : Registered[c] > 0 => pending[c] = 0

(* While the plugin is enabled, X-Plane moves the flaps only when the      *)
(* flight loop acts on a message of the panel that asks for just that.     *)
OnlyPanelMovesFlaps ==
  [][\A f \in Flaps : enabled /\ sim # f /\ sim' = f
                        => ijq # <<>> /\ Head(ijq) = f /\ ijq' = Tail(ijq)]_vars

(* A watched command of the panel the flight loop acts on is executed, as  *)
(* long as its handler is registered no more than once.                    *)
PanelCommandPasses ==
  [][\A c \in Watched :
       /\ enabled /\ enabled' /\ Powered /\ Registered[c] <= 1
       /\ ijq # <<>> /\ Head(ijq) = c /\ ijq' = Tail(ijq)
       => sim' = c]_vars

(* A tuning command runs after Thresh detents of one turn in a row, not    *)
(* counting what is dropped or purged, and not otherwise: the ten counters *)
(* implement one.                                                          *)
TurnOf(c)  == IF \E t \in Turns : c[t] > 0 THEN CHOOSE t \in Turns : c[t] > 0 ELSE None
CountOf(c) == IF \E t \in Turns : c[t] > 0 THEN c[TurnOf(c)] ELSE 0
Fired(s)   == IF s \in Turns THEN s ELSE None
Detents == INSTANCE DetentCounter WITH
             turn <- TurnOf(cnt), count <- CountOf(cnt), fired <- Fired(sim)
CountsDetents == Detents!Spec

(* What XPLMCommandOnce promises of a command, that it begins and ends     *)
(* immediately, goes for the panel's commands as well.                     *)
CommandsEnd == held = {}

(* A button of the panel the flight loop acts on makes X-Plane execute a   *)
(* command.                                                                *)
ButtonsExecute ==
  [][\A c \in Plain : /\ enabled /\ enabled' /\ Powered
                      /\ ijq # <<>> /\ Head(ijq) = c /\ ijq' = Tail(ijq)
                      => sim' = c]_vars
============================================================================
