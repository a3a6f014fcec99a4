----------------------- MODULE PluginShutdown_proofs -----------------------
(* What PluginLifecycle leaves behind when it is disabled or stopped: the  *)
(* messages in the queues, and the places the threads end at.              *)
EXTENDS PluginLifecycle_proofs

(* The callback in progress tells what X-Plane knows of the plugin, and    *)
(* while the threads are to run, none is gone.                             *)
Ending ==
  \/ at \in {"sleep", "close", "forget", "reset"}
  \/ op = "stop" /\ at \in {"purgeOut", "purgeIn"}

Serving ==
  /\ op \in {"disable", "command", "loaded", "crashed", "unloaded"} => plugin = "enabled"
  /\ op = "enable" => plugin = "disabled"
  /\ op = "stop" => plugin \in {"disabled", "enabled"}
  /\ plugin \in {"disabled", "enabled"} /\ ~Ending => threadsRun
  /\ threadsRun => \A p \in Panels : tpc[p] \notin {"none", "gone"}
  /\ at \in {"blank", "park"} => trig[EnableOrder[i]]
  /\ plugin = "enabled" /\ at \in {"idle", "post"} =>
       \A p \in Panels : handle[p] => enabled
  /\ plugin = "enabled" /\ at \in {"farewell", "release"} =>
       \A p \in Panels : handle[p] => trig[p]

LEMMA ServingInit == Init => Serving
BY DEF Init, Serving, Ending

LEMMA ServingCallback == HandshakeInv /\ Serving /\ CallbackStep => Serving'
<1> SUFFICES ASSUME HandshakeInv, Serving, CallbackStep PROVE Serving' OBVIOUS
<1> USE Orders DEF HandshakeInv, TypeOK, MainTypes, SharedTypes, Control, Armed, Serving,
        Ending, Begin, Goto, NextPanel, Return, mainVars, flagVars, hidVars, toVars
<1>1. CASE Start BY <1>1 DEF Start
<1>2. CASE PurgeTake BY <1>2 DEF PurgeTake
<1>3. CASE PurgeNext BY <1>3 DEF PurgeNext
<1>4. CASE EnableBegin BY <1>4 DEF EnableBegin
<1>5. CASE EnableArm BY <1>5 DEF EnableArm
<1>6. CASE EnableFlag BY <1>6 DEF EnableFlag
<1>7. CASE DisableBegin BY <1>7 DEF DisableBegin
<1>8. CASE DisableWake BY <1>8 DEF DisableWake
<1>9. CASE DisableBlank BY <1>9 DEF DisableBlank
<1>10. CASE DisablePark BY <1>10 DEF DisablePark
<1>11. CASE StopBegin BY <1>11 DEF StopBegin
<1>12. CASE StopBlank BY <1>12 DEF StopBlank
<1>13. CASE StopRelease BY <1>13 DEF StopRelease
<1>14. CASE StopHalt BY <1>14 DEF StopHalt
<1>15. CASE StopSleep BY <1>15 DEF StopSleep
<1>16. CASE CloseDevice BY <1>16 DEF CloseDevice
<1>17. CASE CloseForget BY <1>17 DEF CloseForget
<1>18. CASE CloseReset BY <1>18 DEF CloseReset
<1>19. CASE MainPosted BY <1>19 DEF MainPosted
<1>20. QED
  BY <1>1, <1>2, <1>3, <1>4, <1>5, <1>6, <1>7, <1>8, <1>9, <1>10, <1>11, <1>12, <1>13, <1>14, <1>15, <1>16, <1>17, <1>18, <1>19
  DEF CallbackStep

(* A command or plane event begins, or posts.                              *)
LEMMA PostingKeeps ==
  ASSUME PostingStep
  PROVE  /\ UNCHANGED <<plugin, flagVars, hidVars, trig, toVars, fromVars>>
         /\ \/ /\ plugin = "enabled" /\ op = "idle" /\ at' = "post"
               /\ op' \in {"command", "loaded", "crashed", "unloaded"}
               /\ UNCHANGED ojq
            \/ at = "post" /\ UNCHANGED <<op, at, i>>
<1>1. ASSUME NEW e \in Events, PlaneEvent(e)
      PROVE  /\ UNCHANGED <<plugin, flagVars, hidVars, trig, toVars, fromVars, ojq>>
             /\ plugin = "enabled" /\ op = "idle" /\ op' = e /\ at' = "post"
  BY <1>1 DEF PlaneEvent, Begin, queues
<1>2. ASSUME NEW p \in Panels, SimCommand(p) \/ FlightLoop(p)
      PROVE  /\ UNCHANGED <<plugin, flagVars, hidVars, trig, toVars, fromVars, ojq>>
             /\ plugin = "enabled" /\ op = "idle" /\ op' = "command" /\ at' = "post"
  BY <1>2 DEF SimCommand, FlightLoop, Begin, queues
<1>3. ASSUME NEW p \in Panels, MainPost(p)
      PROVE  /\ UNCHANGED <<plugin, flagVars, hidVars, trig, toVars, fromVars>>
             /\ at = "post" /\ UNCHANGED <<op, at, i>>
  BY <1>3 DEF MainPost
<1>4. CASE \E e \in Events : PlaneEvent(e) BY <1>1, <1>4 DEF Events
<1>5. CASE \E p \in Panels : SimCommand(p) \/ FlightLoop(p) BY <1>2, <1>5
<1>6. CASE \E p \in Panels : MainPost(p) BY <1>3, <1>6
<1>7. QED BY <1>4, <1>5, <1>6 DEF PostingStep

LEMMA ThreadKeeps ==
  ASSUME NEW p \in Panels, ToStep(p) \/ FromStep(p) \/ Input(p)
  PROVE  UNCHANGED <<mainVars, flagVars, hidVars, trig>>
BY DEF ToStep, ToTest, ToWake, ToInit, ToInitWrite, ToGet, ToCheck, ToWrite,
       FromStep, FromTest, FromWake, FromLook, FromGate, FromPause, FromDecide,
       FromPost, FromPosted, Input

LEMMA ServingThread ==
  ASSUME HandshakeInv, Serving, NEW p \in Panels, ToStep(p) \/ FromStep(p) \/ Input(p)
  PROVE  Serving'
<1>1. UNCHANGED <<plugin, op, at, i, enabled, threadsRun, handle, trig>>
  BY ThreadKeeps DEF mainVars, flagVars, hidVars
<1>2. threadsRun => \A q \in Panels : tpc'[q] \notin {"none", "gone"}
  <2> USE DEF HandshakeInv, TypeOK, ThreadTypes, Serving
  <2>1. CASE ToStep(p)
    BY <2>1 DEF ToStep, ToTest, ToWake, ToInit, ToInitWrite, ToGet, ToCheck, ToWrite, ToGoto
  <2>2. CASE FromStep(p) \/ Input(p)
    BY <2>2 DEF FromStep, FromTest, FromWake, FromLook, FromGate, FromPause, FromDecide,
       FromPost, FromPosted, Input, toVars
  <2>3. QED BY <2>1, <2>2
<1>3. QED BY <1>1, <1>2 DEF Serving, Ending

LEMMA NextKinds ==
  ASSUME [Next]_vars
  PROVE  \/ CallbackStep \/ PostingStep \/ UNCHANGED vars
         \/ \E p \in Panels : ToStep(p) \/ FromStep(p) \/ Input(p)
BY DEF Next, MainStep, Callback, CallbackStep, PostingStep

LEMMA ServingNext == HandshakeInv /\ Serving /\ [Next]_vars => Serving'
<1> SUFFICES ASSUME HandshakeInv, Serving, [Next]_vars PROVE Serving' OBVIOUS
<1>1. CASE CallbackStep BY <1>1, ServingCallback
<1>2. CASE PostingStep
  <2>1. plugin = "enabled" /\ at \in {"idle", "post"}
    BY <1>2, PostingKeeps DEF HandshakeInv, Control, Serving
  <2>2. QED BY <1>2, <2>1, PostingKeeps DEF HandshakeInv, Control, Serving, Ending, flagVars, hidVars, toVars
<1>3. CASE \E p \in Panels : ToStep(p) \/ FromStep(p) \/ Input(p)
  BY <1>3, ServingThread
<1>4. CASE UNCHANGED vars
  BY <1>4 DEF vars, mainVars, flagVars, hidVars, toVars, Serving, Ending
<1>5. QED BY <1>1, <1>2, <1>3, <1>4, NextKinds

----------------------------------------------------------------------------
(* What disabling leaves in the queues.  A report FromPanelThread is in    *)
(* when gPluginEnabled is cleared can still be posted, but no other.  Once *)
(* purge_queues has been through a queue, it holds what was posted since.  *)
Within(n, p) == n = 0 \/ \E r \in Reports[p] : n <= Len(r)

\* Both queues of p have been purged since the plugin was disabled.
Bygone(p) ==
  \/ plugin = "disabled" /\ op \in {"idle", "enable"}
  \/ /\ op = "disable" /\ at \in {"purgeOut", "purgeIn"}
     /\ \E k \in 1..N : k < i /\ OpenOrder[k] = p
  \/ /\ plugin = "disabled" /\ at \in {"farewell", "release"}
     /\ handle[p] /\ ~trig[p] /\ ~(at = "release" /\ p = OpenOrder[i])

\* At least its ojq has.
HalfBygone(p) ==
  Bygone(p) \/ (op = "disable" /\ at = "purgeIn" /\ p = OpenOrder[i])

Knobs(s) == \A k \in 1..Len(s) : s[k] = "knob"

Leavings(p) ==
  /\ Within(Len(outbox[p]), p)
  /\ HalfBygone(p) => Knobs(ojq[p]) /\ Within(Len(ojq[p]) + Len(outbox[p]), p)
  /\ Bygone(p) => Within(Len(ojq[p]) + Len(ijq[p]) + Len(outbox[p]), p)

LeftInv ==
  /\ HandshakeInv /\ Serving
  /\ plugin = "unloaded" =>
       \A p \in Panels : ojq[p] = <<>> /\ ijq[p] = <<>> /\ outbox[p] = <<>>
  /\ \A p \in Panels : Leavings(p)

LEMMA Fewer ==
  ASSUME NEW p \in Panels, NEW m \in Nat, NEW n \in Nat, n <= m, Within(m, p)
  PROVE  Within(n, p)
<1>1. CASE m = 0 BY <1>1 DEF Within
<1>2. CASE \E r \in Reports[p] : m <= Len(r)
  <2>1. PICK r \in Reports[p] : m <= Len(r) BY <1>2
  <2>2. r \in Seq({"ijq", "ojq"}) BY PostsAssumption
  <2>3. Len(r) \in Nat BY <2>2
  <2>4. n <= Len(r) BY <2>1, <2>3
  <2>5. QED BY <2>4 DEF Within
<1>3. QED BY <1>1, <1>2 DEF Within

LEMMA Lengths ==
  ASSUME TypeOK, NEW p \in Panels
  PROVE  /\ ojq[p] \in Seq(Msg) /\ ijq[p] \in Seq(Msg) /\ outbox[p] \in Seq({"ijq", "ojq"})
         /\ Len(ojq[p]) \in Nat /\ Len(ijq[p]) \in Nat /\ Len(outbox[p]) \in Nat
<1>1. /\ ojq[p] \in Seq(Msg) /\ ijq[p] \in Seq(Msg)
      /\ outbox[p] \in Seq({"ijq", "ojq"})
  BY DEF TypeOK, QueueOK, ThreadTypes
<1>2. QED BY <1>1

(* A step that purges nothing and moves no message keeps what is left.     *)
LEMMA LeavingsKept ==
  ASSUME NEW p \in Panels, Leavings(p), Bygone(p)' => Bygone(p),
         HalfBygone(p)' => HalfBygone(p),
         UNCHANGED <<ojq[p], ijq[p], outbox[p]>>
  PROVE  Leavings(p)'
BY DEF Leavings, Within

LEMMA TailFacts ==
  ASSUME NEW S, NEW s \in Seq(S), s # <<>>
  PROVE  /\ Tail(s) \in Seq(S) /\ Len(Tail(s)) \in Nat /\ Len(s) = Len(Tail(s)) + 1
         /\ Knobs(s) => Knobs(Tail(s))
<1>1. Tail(s) \in Seq(S) /\ Len(Tail(s)) \in Nat /\ Len(s) = Len(Tail(s)) + 1 OBVIOUS
<1>2. ASSUME Knobs(s), NEW k \in 1..Len(Tail(s)) PROVE Tail(s)[k] = "knob"
  <2>1. Tail(s)[k] = s[k + 1] /\ k + 1 \in 1..Len(s) BY <1>1
  <2>2. QED BY <2>1, <1>2 DEF Knobs
<1>3. QED BY <1>1, <1>2 DEF Knobs

LEMMA AppendFacts ==
  ASSUME NEW S, NEW s \in Seq(S), "knob" \in S
  PROVE  /\ Len(Append(s, "knob")) = Len(s) + 1
         /\ Knobs(s) => Knobs(Append(s, "knob"))
<1>1. Len(Append(s, "knob")) = Len(s) + 1 /\ Len(s) \in Nat OBVIOUS
<1>2. ASSUME Knobs(s), NEW k \in 1..Len(Append(s, "knob"))
      PROVE  Append(s, "knob")[k] = "knob"
  <2>1. CASE k = Len(s) + 1 BY <2>1
  <2>2. CASE k # Len(s) + 1
    <3>1. k \in 1..Len(s) BY <2>2, <1>1
    <3>2. Append(s, "knob")[k] = s[k] BY <3>1
    <3>3. QED BY <3>1, <3>2, <1>2 DEF Knobs
  <2>3. QED BY <2>1, <2>2
<1>3. QED BY <1>1, <1>2 DEF Knobs

(* Messages taken out of queues, or moved from a report into one.          *)
LEMMA LeavingsTaken ==
  ASSUME TypeOK, TypeOK', NEW p \in Panels, Leavings(p),
         Bygone(p)' => Bygone(p), HalfBygone(p)' => HalfBygone(p),
         Len(outbox'[p]) <= Len(outbox[p]),
         Len(ojq'[p]) + Len(outbox'[p]) <= Len(ojq[p]) + Len(outbox[p]),
         Len(ojq'[p]) + Len(ijq'[p]) + Len(outbox'[p])
           <= Len(ojq[p]) + Len(ijq[p]) + Len(outbox[p]),
         Knobs(ojq[p]) => Knobs(ojq'[p])
  PROVE  Leavings(p)'
<1> DEFINE a == Len(ojq[p])
           b == Len(ijq[p])
           c == Len(outbox[p])
           a1 == Len(ojq'[p])
           b1 == Len(ijq'[p])
           c1 == Len(outbox'[p])
<1>1. a \in Nat /\ b \in Nat /\ c \in Nat BY Lengths
<1>2. a1 \in Nat /\ b1 \in Nat /\ c1 \in Nat BY Lengths
<1>3. c1 <= c /\ a1 + c1 <= a + c /\ a1 + b1 + c1 <= a + b + c OBVIOUS
<1>4. Within(c, p) => Within(c1, p)
  <2> HIDE DEF a, b, c, a1, b1, c1
  <2>1. QED BY <1>1, <1>2, <1>3, Fewer
<1>5. Within(a + c, p) => Within(a1 + c1, p)
  <2> HIDE DEF a, b, c, a1, b1, c1
  <2>1. a + c \in Nat /\ a1 + c1 \in Nat BY <1>1, <1>2
  <2>2. QED BY <1>3, <2>1, Fewer
<1>6. Within(a + b + c, p) => Within(a1 + b1 + c1, p)
  <2> HIDE DEF a, b, c, a1, b1, c1
  <2>1. a + b + c \in Nat /\ a1 + b1 + c1 \in Nat BY <1>1, <1>2
  <2>2. QED BY <1>3, <2>1, Fewer
<1>7. QED BY <1>4, <1>5, <1>6 DEF Leavings, Within, Knobs

(* purge_queues goes through the panels: a queue found empty holds what    *)
(* FromPanelThread has posted since, that is nothing.                      *)
LEMMA LeftPurgeNext ==
  ASSUME LeftInv, PurgeNext, NEW p \in Panels
  PROVE  Leavings(p)'
<1> DEFINE cur == OpenOrder[i]
<1>0. HandshakeInv /\ Serving /\ Leavings(p) /\ TypeOK BY DEF LeftInv, HandshakeInv
<1>1. i \in 1..N /\ N \in Nat BY <1>0, Orders DEF TypeOK, MainTypes
<1>2. UNCHANGED <<ojq, ijq, outbox, handle, trig>>
  BY DEF PurgeNext, queues, fromVars, hidVars
<1>3. CASE at = "purgeOut"
  <2>1. ojq[cur] = <<>> /\ at' = "purgeIn" /\ UNCHANGED <<plugin, op, i>>
    BY <1>3 DEF PurgeNext, Goto
  <2>2. Bygone(p)' => Bygone(p) BY <1>3, <2>1, <1>2 DEF Bygone
  <2>3. CASE p = cur
    <3>1. Knobs(ojq[p]) /\ Within(Len(ojq[p]) + Len(outbox[p]), p)
      <4>1. Len(<<>>) = 0 OBVIOUS
      <4>2. Len(ojq[p]) = 0 BY <2>1, <2>3, <4>1
      <4>3. Len(ojq[p]) + Len(outbox[p]) = Len(outbox[p]) BY <4>2, <1>0, Lengths
      <4>4. 1..Len(ojq[p]) = {} BY <4>2
      <4>5. QED BY <1>0, <4>3, <4>4 DEF Leavings, Knobs
    <3>2. QED BY <3>1, <2>2, <1>0, <1>2 DEF Leavings, Within, Knobs
  <2>4. CASE p # cur
    <3>1. HalfBygone(p)' => HalfBygone(p) BY <2>1, <2>2, <2>4, <1>2 DEF HalfBygone
    <3>2. QED BY <3>1, <2>2, <1>0, <1>2, LeavingsKept
  <2>5. QED BY <2>3, <2>4
<1>4. CASE at = "purgeIn"
  <2>1. ijq[cur] = <<>> BY <1>4 DEF PurgeNext
  <2>2. /\ i < N => at' \in {"purgeOut", "purgeIn"} /\ i' = i + 1 /\ UNCHANGED <<plugin, op>>
        /\ ~(i < N) /\ op = "enable" => at' = "arm" /\ UNCHANGED <<plugin, op>>
        /\ ~(i < N) /\ op = "disable" => plugin' = "disabled" /\ op' = "idle" /\ at' = "idle"
        /\ ~(i < N) => op \in {"enable", "disable", "stop"}
        /\ ~(i < N) /\ op = "stop" => plugin' = "stopped" /\ op' = "idle"
    BY <1>4, <1>1 DEF PurgeNext, NextPanel, Return
  <2>3. at' # "purgeIn"
    BY <1>4, <1>1 DEF PurgeNext, NextPanel, Return
  <2>4. CASE op = "disable" /\ p = cur
    <3>1. Knobs(ojq[p]) /\ Within(Len(ojq[p]) + Len(outbox[p]), p)
      BY <1>0, <1>4, <2>4 DEF Leavings, HalfBygone
    <3>2. Within(Len(ojq[p]) + Len(ijq[p]) + Len(outbox[p]), p)
      <4>1. Len(<<>>) = 0 OBVIOUS
      <4>2. Len(ijq[p]) = 0 BY <2>1, <2>4, <4>1
      <4>3. Len(ojq[p]) + Len(ijq[p]) + Len(outbox[p]) = Len(ojq[p]) + Len(outbox[p])
        BY <4>2, <1>0, Lengths
      <4>4. QED BY <3>1, <4>3
    <3>3. QED BY <3>1, <3>2, <1>0, <1>2 DEF Leavings, Within, Knobs
  <2>5. CASE op = "disable" /\ p # cur
    <3>1. CASE i < N
      <4>1. Bygone(p)' => Bygone(p)
        BY <1>1, <1>4, <2>2, <2>5, <3>1 DEF Bygone
      <4>2. HalfBygone(p)' => HalfBygone(p) BY <4>1, <2>3 DEF HalfBygone
      <4>3. QED BY <4>1, <4>2, <1>0, <1>2, LeavingsKept
    <3>2. CASE ~(i < N)
      <4>1. PICK k \in 1..N : OpenOrder[k] = p BY OrderAssumption
      <4>2. k < i BY <4>1, <3>2, <2>5, <1>1
      <4>3. Bygone(p) BY <4>1, <4>2, <2>5, <1>4 DEF Bygone
      <4>4. QED BY <4>3, <1>0, <1>2, LeavingsKept DEF HalfBygone
    <3>3. QED BY <3>1, <3>2
  <2>6. CASE op # "disable"
    <3>1. Bygone(p)' => Bygone(p)
      BY <1>0, <1>4, <2>2, <2>6, <1>1 DEF Bygone, HandshakeInv, Control, Serving
    <3>2. HalfBygone(p)' => HalfBygone(p) BY <3>1, <2>3 DEF HalfBygone
    <3>3. QED BY <3>1, <3>2, <1>0, <1>2, LeavingsKept
  <2>7. QED BY <2>4, <2>5, <2>6
<1>5. QED BY <1>3, <1>4 DEF PurgeNext

LEMMA LeftPurgeTake ==
  ASSUME LeftInv, PurgeTake, NEW p \in Panels
  PROVE  Leavings(p)'
<1> DEFINE cur == OpenOrder[i]
<1>0. HandshakeInv /\ Leavings(p) /\ TypeOK /\ TypeOK'
  BY TypeQueueStep DEF LeftInv, HandshakeInv
<1>1. cur \in Panels BY <1>0, Orders DEF TypeOK, MainTypes
<1>2. UNCHANGED <<plugin, op, at, i, outbox, handle, trig>>
  BY DEF PurgeTake, mainVars, hidVars, fromVars
<1>3. (Bygone(p)' => Bygone(p)) /\ (HalfBygone(p)' => HalfBygone(p))
  BY <1>2 DEF Bygone, HalfBygone
<1>4. ojq \in [Panels -> Seq(Msg)] /\ ijq \in [Panels -> Seq(Msg)]
  BY <1>0 DEF TypeOK, QueueOK
<1>5. /\ Len(ojq'[p]) <= Len(ojq[p]) /\ Len(ijq'[p]) <= Len(ijq[p])
      /\ Knobs(ojq[p]) => Knobs(ojq'[p])
  <2>1. CASE Take(ojq, cur) /\ UNCHANGED ijq
    <3>1. CASE p = cur
      <4>1. ojq'[p] = Tail(ojq[p]) /\ ojq[p] # <<>> /\ ijq'[p] = ijq[p]
        BY <2>1, <3>1, <1>1, <1>4 DEF Take
      <4>2. QED BY <4>1, <1>0, TailFacts, Lengths
    <3>2. CASE p # cur BY <2>1, <3>2, <1>0, <1>1, <1>4, Lengths DEF Take
    <3>3. QED BY <3>1, <3>2
  <2>2. CASE Take(ijq, cur) /\ UNCHANGED ojq
    <3>1. CASE p = cur
      <4>1. ijq'[p] = Tail(ijq[p]) /\ ijq[p] # <<>> /\ ojq'[p] = ojq[p]
        BY <2>2, <3>1, <1>1, <1>4 DEF Take
      <4>2. QED BY <4>1, <1>0, TailFacts, Lengths
    <3>2. CASE p # cur BY <2>2, <3>2, <1>0, <1>1, <1>4, Lengths DEF Take
    <3>3. QED BY <3>1, <3>2
  <2>3. QED BY <2>1, <2>2 DEF PurgeTake
<1>6. /\ Len(ojq'[p]) \in Nat /\ Len(ijq'[p]) \in Nat
      /\ Len(ojq[p]) \in Nat /\ Len(ijq[p]) \in Nat
      /\ Len(outbox[p]) \in Nat /\ outbox'[p] = outbox[p]
  BY <1>0, <1>2, Lengths
<1>7. /\ Len(outbox'[p]) <= Len(outbox[p])
      /\ Len(ojq'[p]) + Len(outbox'[p]) <= Len(ojq[p]) + Len(outbox[p])
      /\ Len(ojq'[p]) + Len(ijq'[p]) + Len(outbox'[p])
           <= Len(ojq[p]) + Len(ijq[p]) + Len(outbox[p])
  <2>1. ASSUME NEW a \in Nat, NEW b \in Nat, NEW c \in Nat, NEW a1 \in Nat, NEW b1 \in Nat,
               a1 <= a, b1 <= b
        PROVE  c <= c /\ a1 + c <= a + c /\ a1 + b1 + c <= a + b + c
    BY <2>1
  <2>2. QED BY <2>1, <1>5, <1>6
<1>8. QED BY <1>0, <1>3, <1>5, <1>7, LeavingsTaken

(* The other steps of the callbacks post to queues nothing is said about.  *)
LEMMA LeftCallback ==
  ASSUME LeftInv, CallbackStep, NEW p \in Panels
  PROVE  Leavings(p)'
<1>0. HandshakeInv /\ Serving /\ Leavings(p) /\ TypeOK BY DEF LeftInv, HandshakeInv
<1>1. CASE PurgeNext BY <1>1, LeftPurgeNext
<1>2. CASE PurgeTake BY <1>2, LeftPurgeTake
<1>3. CASE Start
  <2>1. ojq'[p] = <<>> /\ ijq'[p] = <<>> /\ outbox'[p] = <<>>
    BY <1>3 DEF LeftInv, Start, queues
  <2>2. Len(<<>>) = 0 /\ 1..0 = {} /\ 0 + 0 = 0 /\ 0 + 0 + 0 = 0 OBVIOUS
  <2>3. QED BY <2>1, <2>2 DEF Leavings, Within, Knobs
<1>4. CASE DisableBlank
  <2>1. ~HalfBygone(p)' /\ ~Bygone(p)'
    BY <1>0, <1>4 DEF DisableBlank, Goto, HalfBygone, Bygone, HandshakeInv, Control, Serving
  <2>2. outbox' = outbox BY <1>4 DEF DisableBlank, fromVars
  <2>3. QED BY <1>0, <2>1, <2>2 DEF Leavings, Within
<1>5. CASE StopBlank
  <2> DEFINE cur == OpenOrder[i]
  <2>1. cur \in Panels /\ i \in 1..N BY <1>0, Orders DEF TypeOK, MainTypes
  <2>2. /\ UNCHANGED <<plugin, op, handle, trig, ijq, outbox>> /\ op = "stop" /\ at = "farewell"
        /\ at' \in {"release", "farewell", "halt"}
    BY <1>0, <1>5 DEF StopBlank, Goto, NextPanel, HandshakeInv, Control, hidVars, fromVars
  <2>3. CASE handle[cur] /\ p = cur
    <3>1. at' = "release" /\ i' = i BY <1>5, <2>3 DEF StopBlank, Goto
    <3>2. ~HalfBygone(p)' /\ ~Bygone(p)' BY <2>2, <2>3, <3>1 DEF HalfBygone, Bygone
    <3>3. QED BY <1>0, <2>2, <3>2 DEF Leavings, Within
  <2>4. CASE ~(handle[cur] /\ p = cur)
    <3>1. ojq'[p] = ojq[p] BY <1>0, <1>5, <2>1, <2>4 DEF StopBlank, PostUrgent, TypeOK, QueueOK
    <3>2. Bygone(p)' => Bygone(p) BY <2>2 DEF Bygone
    <3>3. HalfBygone(p)' => HalfBygone(p) BY <2>2, <3>2 DEF HalfBygone
    <3>4. QED BY <1>0, <2>2, <3>1, <3>2, <3>3, LeavingsKept
  <2>5. QED BY <2>3, <2>4
<1>6. CASE \/ EnableBegin \/ EnableArm \/ EnableFlag
           \/ DisableBegin \/ DisableWake \/ DisablePark
           \/ StopBegin \/ StopRelease \/ StopHalt \/ StopSleep
           \/ CloseDevice \/ CloseForget \/ CloseReset \/ MainPosted
  <2>1. UNCHANGED <<ojq, ijq, outbox>>
    BY <1>6 DEF EnableBegin, EnableArm, EnableFlag, DisableBegin, DisableWake, DisablePark,
       StopBegin, StopRelease, StopHalt, StopSleep, CloseDevice, CloseForget, CloseReset,
       MainPosted, queues, fromVars
  <2>2. Bygone(p)' => Bygone(p)
    <3> USE <1>0, Orders DEF HandshakeInv, TypeOK, MainTypes, SharedTypes, Control, Serving,
            Bygone, Begin, Goto, NextPanel, Return, mainVars, hidVars
    <3>1. CASE EnableBegin BY <3>1 DEF EnableBegin
    <3>2. CASE EnableArm BY <3>2 DEF EnableArm
    <3>3. CASE EnableFlag BY <3>3 DEF EnableFlag
    <3>4. CASE DisableBegin BY <3>4 DEF DisableBegin
    <3>5. CASE DisableWake BY <3>5 DEF DisableWake
    <3>6. CASE DisablePark BY <3>6 DEF DisablePark
    <3>7. CASE StopBegin BY <3>7 DEF StopBegin
    <3>8. CASE StopRelease BY <3>8 DEF StopRelease
    <3>9. CASE StopHalt BY <3>9 DEF StopHalt
    <3>10. CASE StopSleep BY <3>10 DEF StopSleep
    <3>11. CASE CloseDevice BY <3>11 DEF CloseDevice
    <3>12. CASE CloseForget BY <3>12 DEF CloseForget
    <3>13. CASE CloseReset BY <3>13 DEF CloseReset
    <3>14. CASE MainPosted BY <3>14 DEF MainPosted
    <3>15. QED BY <1>6, <3>1, <3>2, <3>3, <3>4, <3>5, <3>6, <3>7, <3>8, <3>9, <3>10, <3>11,
              <3>12, <3>13, <3>14
  <2>3. at' # "purgeIn"
    BY <1>6 DEF EnableBegin, EnableArm, EnableFlag, DisableBegin, DisableWake, DisablePark,
       StopBegin, StopRelease, StopHalt, StopSleep, CloseDevice, CloseForget, CloseReset,
       MainPosted, Begin, Goto, NextPanel, Return
  <2>4. HalfBygone(p)' => HalfBygone(p) BY <2>2, <2>3 DEF HalfBygone
  <2>5. QED BY <1>0, <2>1, <2>2, <2>4, LeavingsKept
<1>7. QED BY <1>1, <1>2, <1>3, <1>4, <1>5, <1>6 DEF CallbackStep

(* Threads empty queues, or go on posting a report they decided on before. *)
LEMMA LeftThread ==
  ASSUME LeftInv, NEW q \in Panels, ToStep(q) \/ FromStep(q) \/ Input(q), NEW p \in Panels
  PROVE  Leavings(p)'
<1>0. HandshakeInv /\ Serving /\ Leavings(p) /\ TypeOK /\ TypeOK'
  BY TypeThread DEF LeftInv, HandshakeInv
<1>1. UNCHANGED <<plugin, op, at, i, enabled, handle, trig>>
  BY ThreadKeeps DEF mainVars, flagVars, hidVars
<1>2. (Bygone(p)' => Bygone(p)) /\ (HalfBygone(p)' => HalfBygone(p))
  BY <1>1 DEF Bygone, HalfBygone
<1>3. /\ ojq \in [Panels -> Seq(Msg)] /\ ijq \in [Panels -> Seq(Msg)]
      /\ outbox \in [Panels -> Seq({"ijq", "ojq"})]
  BY <1>0 DEF TypeOK, QueueOK, ThreadTypes
<1>4. CASE ToGet(q)
  <2>1. ojq[q] # <<>> /\ ojq' = [ojq EXCEPT ![q] = Tail(@)] /\ UNCHANGED <<ijq, outbox>>
    BY <1>4 DEF ToGet, Take, fromVars
  <2>2. /\ Len(ojq'[p]) <= Len(ojq[p]) /\ Len(ojq'[p]) \in Nat
        /\ Knobs(ojq[p]) => Knobs(ojq'[p])
    <3>1. CASE p = q
      <4>1. ojq'[p] = Tail(ojq[p]) /\ ojq[p] # <<>> BY <2>1, <3>1, <1>3
      <4>2. QED BY <4>1, <1>0, TailFacts, Lengths
    <3>2. CASE p # q BY <2>1, <3>2, <1>0, <1>3, Lengths
    <3>3. QED BY <3>1, <3>2
  <2>3. /\ Len(ojq[p]) \in Nat /\ Len(ijq[p]) \in Nat /\ Len(outbox[p]) \in Nat
        /\ ijq'[p] = ijq[p] /\ outbox'[p] = outbox[p]
    BY <1>0, <2>1, Lengths
  <2>4. ASSUME NEW a \in Nat, NEW b \in Nat, NEW c \in Nat, NEW a1 \in Nat, a1 <= a
        PROVE  c <= c /\ a1 + c <= a + c /\ a1 + b + c <= a + b + c
    BY <2>4
  <2>5. QED BY <1>0, <1>2, <2>2, <2>3, <2>4, LeavingsTaken
<1>5. CASE FromPost(q)
  <2>1. /\ outbox[q] # <<>> /\ outbox' = [outbox EXCEPT ![q] = Tail(@)]
        /\ \/ ijq' = [ijq EXCEPT ![q] = Append(@, "knob")] /\ UNCHANGED ojq
           \/ ojq' = [ojq EXCEPT ![q] = Append(@, "knob")] /\ UNCHANGED ijq
    BY <1>5 DEF FromPost, Post
  <2>2. CASE p # q
    <3>1. UNCHANGED <<ojq[p], ijq[p], outbox[p]>> BY <2>1, <2>2, <1>3
    <3>2. QED BY <3>1, <1>0, <1>2, LeavingsKept
  <2>3. CASE p = q
    <3>1. outbox[p] # <<>> /\ outbox'[p] = Tail(outbox[p]) BY <2>1, <2>3, <1>3
    <3>2. Len(outbox'[p]) \in Nat /\ Len(outbox[p]) = Len(outbox'[p]) + 1
      BY <3>1, <1>0, TailFacts, Lengths
    <3>3. \/ ijq'[p] = Append(ijq[p], "knob") /\ ojq'[p] = ojq[p]
          \/ ojq'[p] = Append(ojq[p], "knob") /\ ijq'[p] = ijq[p]
      BY <2>1, <2>3, <1>3
    <3>4. "knob" \in Msg BY DEF Msg
    <3>5. Len(ojq[p]) \in Nat /\ Len(ijq[p]) \in Nat BY <1>0, Lengths
    <3>6. /\ \/ Len(ijq'[p]) = Len(ijq[p]) + 1 /\ Len(ojq'[p]) = Len(ojq[p])
             \/ Len(ojq'[p]) = Len(ojq[p]) + 1 /\ Len(ijq'[p]) = Len(ijq[p])
          /\ Knobs(ojq[p]) => Knobs(ojq'[p])
      BY <3>3, <3>4, <1>0, AppendFacts, Lengths
    <3> DEFINE a == Len(ojq[p])
                 b == Len(ijq[p])
                 c == Len(outbox[p])
                 a1 == Len(ojq'[p])
                 b1 == Len(ijq'[p])
                 c1 == Len(outbox'[p])
    <3>7. c1 <= c /\ a1 + c1 <= a + c /\ a1 + b1 + c1 <= a + b + c
      <4>1. a \in Nat /\ b \in Nat /\ c1 \in Nat /\ c = c1 + 1 BY <3>2, <3>5
      <4>2. (b1 = b + 1 /\ a1 = a) \/ (a1 = a + 1 /\ b1 = b) BY <3>6
      <4> HIDE DEF a, b, c, a1, b1, c1
      <4>3. QED BY <4>1, <4>2
    <3>8. QED BY <3>6, <3>7, <1>0, <1>2, LeavingsTaken
  <2>4. QED BY <2>2, <2>3
<1>6. CASE FromDecide(q)
  <2>1. UNCHANGED <<ojq, ijq>> BY <1>6 DEF FromDecide, queues
  <2>2. CASE enabled /\ p = q
    <3>1. ~HalfBygone(p) /\ ~Bygone(p)
      BY <1>0, <2>2 DEF HandshakeInv, Control, Serving, HalfBygone, Bygone
    <3>2. PICK r \in Reports[q] : outbox' = [outbox EXCEPT ![q] = r]
      BY <1>6, <2>2 DEF FromDecide
    <3>3. r \in Seq({"ijq", "ojq"}) BY PostsAssumption
    <3>4. outbox'[p] = r /\ Len(r) \in Nat BY <3>2, <3>3, <2>2, <1>3
    <3>5. Len(outbox'[p]) <= Len(r) BY <3>4
    <3>6. Within(Len(outbox'[p]), p) BY <3>5, <2>2 DEF Within
    <3>7. QED BY <3>1, <3>6, <1>2 DEF Leavings, Within
  <2>3. CASE ~(enabled /\ p = q)
    <3>1. outbox'[p] = outbox[p] BY <1>6, <2>3, <1>3 DEF FromDecide
    <3>2. QED BY <2>1, <3>1, <1>0, <1>2, LeavingsKept
  <2>4. QED BY <2>2, <2>3
<1>7. CASE ~ToGet(q) /\ ~FromPost(q) /\ ~FromDecide(q)
  <2>1. UNCHANGED <<ojq, ijq, outbox>>
    BY <1>7 DEF ToStep, ToTest, ToWake, ToInit, ToInitWrite, ToCheck, ToWrite, FromStep,
       FromTest, FromWake, FromLook, FromGate, FromPause, FromPosted, Input, queues, fromVars
  <2>2. QED BY <2>1, <1>0, <1>2, LeavingsKept
<1>8. QED BY <1>4, <1>5, <1>6, <1>7

LEMMA LeftInit == Init => LeftInv
<1> SUFFICES ASSUME Init PROVE LeftInv OBVIOUS
<1>1. \A p \in Panels : ojq[p] = <<>> /\ ijq[p] = <<>> /\ outbox[p] = <<>> BY DEF Init
<1>2. Len(<<>>) = 0 /\ 1..0 = {} /\ 0 + 0 = 0 /\ 0 + 0 + 0 = 0 OBVIOUS
<1>3. \A p \in Panels : Leavings(p) BY <1>1, <1>2 DEF Leavings, Within, Knobs
<1>4. QED BY <1>1, <1>3, HandshakeInit, ServingInit DEF LeftInv

LEMMA LeftNext == LeftInv /\ [Next]_vars => LeftInv'
<1> SUFFICES ASSUME LeftInv, [Next]_vars PROVE LeftInv' OBVIOUS
<1>1. HandshakeInv' /\ Serving' BY HandshakeNext, ServingNext DEF LeftInv
<1>2. \A p \in Panels : Leavings(p)'
  <2> TAKE p \in Panels
  <2>0. HandshakeInv /\ Serving /\ Leavings(p) BY DEF LeftInv
  <2>1. CASE CallbackStep BY <2>1, LeftCallback
  <2>2. CASE PostingStep
    <3>1. UNCHANGED outbox BY <2>2, PostingKeeps DEF fromVars
    <3>2. ~HalfBygone(p)' /\ ~Bygone(p)'
      BY <2>0, <2>2, PostingKeeps DEF HandshakeInv, Control, Serving, HalfBygone, Bygone
    <3>3. QED BY <2>0, <3>1, <3>2 DEF Leavings, Within
  <2>3. CASE \E q \in Panels : ToStep(q) \/ FromStep(q) \/ Input(q) BY <2>3, LeftThread
  <2>4. CASE UNCHANGED vars
    <3>1. (Bygone(p)' => Bygone(p)) /\ (HalfBygone(p)' => HalfBygone(p))
      BY <2>4 DEF vars, mainVars, hidVars, Bygone, HalfBygone
    <3>2. QED BY <2>0, <2>4, <3>1, LeavingsKept DEF vars, queues, fromVars
  <2>5. QED BY <2>1, <2>2, <2>3, <2>4, NextKinds
<1>3. plugin' = "unloaded" =>
        \A p \in Panels : ojq'[p] = <<>> /\ ijq'[p] = <<>> /\ outbox'[p] = <<>>
  <2> SUFFICES ASSUME plugin' = "unloaded"
               PROVE  \A p \in Panels : ojq'[p] = <<>> /\ ijq'[p] = <<>> /\ outbox'[p] = <<>>
    OBVIOUS
  <2>1. CASE CallbackStep
    <3>1. FALSE
      BY <2>1 DEF LeftInv, HandshakeInv, Control, Serving, CallbackStep, Start, PurgeTake, PurgeNext, EnableBegin,
         EnableArm, EnableFlag, DisableBegin, DisableWake, DisableBlank, DisablePark, StopBegin,
         StopBlank, StopRelease, StopHalt, StopSleep, CloseDevice, CloseForget, CloseReset,
         MainPosted, Begin, Goto, NextPanel, Return, mainVars
    <3>2. QED BY <3>1
  <2>2. CASE PostingStep
    BY <2>2, PostingKeeps DEF LeftInv, HandshakeInv, Control
  <2>3. CASE \E q \in Panels : ToStep(q) \/ FromStep(q) \/ Input(q)
    <3>1. PICK q \in Panels : ToStep(q) \/ FromStep(q) \/ Input(q) BY <2>3
    <3>2. plugin = "unloaded" BY <3>1, ThreadKeeps DEF mainVars
    <3>3. tpc[q] = "none" /\ fpc[q] = "none" BY <3>2 DEF LeftInv, HandshakeInv, Control
    <3>4. QED
      BY <3>1, <3>3 DEF ToStep, ToTest, ToWake, ToInit, ToInitWrite, ToGet, ToCheck, ToWrite,
         FromStep, FromTest, FromWake, FromLook, FromGate, FromPause, FromDecide, FromPost,
         FromPosted, Input
  <2>4. CASE UNCHANGED vars BY <2>4 DEF LeftInv, vars, mainVars, queues, fromVars
  <2>5. QED BY <2>1, <2>2, <2>3, <2>4, NextKinds
<1>4. QED BY <1>1, <1>2, <1>3 DEF LeftInv

LEMMA LeftInvariant == Spec => []LeftInv
BY LeftInit, LeftNext, PTL DEF Spec

(* A disabled plugin keeps of what X-Plane said nothing, and of the user's *)
(* reports at most the one FromPanelThread was in.                         *)
THEOREM OneReportStays == Spec => []LeftoverIsOneReport
<1>1. LeftInv => LeftoverIsOneReport
  <2> SUFFICES ASSUME LeftInv, plugin = "disabled" /\ op = "idle", NEW p \in Panels
               PROVE  ojq[p] \o ijq[p] = <<>> \/ OneReportLeft(ojq, ijq, p)
    BY DEF LeftoverIsOneReport
  <2>1. TypeOK /\ Leavings(p) /\ Bygone(p) /\ HalfBygone(p)
    BY DEF LeftInv, HandshakeInv, Bygone, HalfBygone
  <2>2. /\ Knobs(ojq[p]) /\ Within(Len(ojq[p]) + Len(ijq[p]) + Len(outbox[p]), p)
        /\ Len(ojq[p]) + Len(ijq[p]) \in Nat
        /\ Len(ojq[p]) + Len(ijq[p]) + Len(outbox[p]) \in Nat
        /\ Len(ojq[p]) + Len(ijq[p]) <= Len(ojq[p]) + Len(ijq[p]) + Len(outbox[p])
    <3> DEFINE a == Len(ojq[p])
               b == Len(ijq[p])
               c == Len(outbox[p])
    <3>1. Knobs(ojq[p]) /\ Within(a + b + c, p) BY <2>1 DEF Leavings
    <3>2. a \in Nat /\ b \in Nat /\ c \in Nat BY <2>1, Lengths
    <3>3. a + b \in Nat /\ a + b + c \in Nat /\ a + b <= a + b + c
      <4> HIDE DEF a, b, c
      <4>1. QED BY <3>2
    <3>4. QED BY <3>1, <3>3
  <2>3. Within(Len(ojq[p]) + Len(ijq[p]), p) BY <2>2, Fewer
  <2>4. CASE Len(ojq[p]) + Len(ijq[p]) = 0
    <3> DEFINE a == Len(ojq[p])
               b == Len(ijq[p])
    <3>1. a = 0 /\ b = 0
      <4>1. a \in Nat /\ b \in Nat /\ a + b = 0 BY <2>1, <2>4, Lengths
      <4> HIDE DEF a, b
      <4>2. QED BY <4>1
    <3>2. ojq[p] \in Seq(Msg) /\ ijq[p] \in Seq(Msg) BY <2>1, Lengths
    <3>3. ojq[p] = <<>> /\ ijq[p] = <<>> BY <3>1, <3>2
    <3>4. QED BY <3>3
  <2>5. CASE \E r \in Reports[p] : Len(ojq[p]) + Len(ijq[p]) <= Len(r)
    BY <2>2, <2>5 DEF OneReportLeft, Knobs
  <2>6. QED BY <2>3, <2>4, <2>5 DEF Within
<1>2. QED BY <1>1, LeftInvariant, PTL

(* Nothing X-Plane said in an earlier session waits where the plugin is    *)
(* enabled again.                                                          *)
THEOREM EnabledClean == Spec => CleanEnable
<1>1. LeftInv /\ [Next]_vars =>
        [~enabled /\ enabled' =>
           \A p \in Panels : \A k \in 1..Len(ojq[p]) : ojq[p][k] = "knob"]_vars
  <2> SUFFICES ASSUME LeftInv, Next, ~enabled, enabled', NEW p \in Panels
               PROVE  Knobs(ojq[p])
    BY DEF Knobs
  <2>1. EnableFlag
    <3>1. CASE CallbackStep
      BY <3>1 DEF LeftInv, HandshakeInv, Control, CallbackStep, Start, PurgeTake, PurgeNext,
         EnableBegin, EnableArm, DisableBegin, DisableWake, DisableBlank, DisablePark, StopBegin,
         StopBlank, StopRelease, StopHalt, StopSleep, CloseDevice, CloseForget, CloseReset,
         MainPosted, flagVars
    <3>2. CASE PostingStep BY <3>2, PostingKeeps DEF flagVars
    <3>3. CASE \E q \in Panels : ToStep(q) \/ FromStep(q) \/ Input(q)
      BY <3>3, ThreadKeeps DEF flagVars
    <3>4. CASE UNCHANGED vars BY <3>4 DEF vars, flagVars
    <3>5. QED BY <3>1, <3>2, <3>3, <3>4, NextKinds
  <2>2. op = "enable" /\ plugin = "disabled"
    BY <2>1 DEF LeftInv, HandshakeInv, Control, Serving, EnableFlag
  <2>3. HalfBygone(p) /\ Leavings(p) BY <2>2 DEF LeftInv, HalfBygone, Bygone
  <2>4. QED BY <2>3 DEF Leavings
<1>2. QED BY <1>1, LeftInvariant, PTL DEF Spec, CleanEnable

(* The main thread never waits for room in the queue of an open panel      *)
(* whose ToPanelThread sleeps or is gone: XPluginStop posts to a queue     *)
(* before it wakes the thread, but then the queue has room.                *)
THEOREM BlockedPostsServed == Spec => []BlockedPostHasConsumer
<1>1. LeftInv => BlockedPostHasConsumer
  <2> SUFFICES ASSUME LeftInv, NEW p \in Panels, MainPostsTo(p), handle[p], Len(ojq[p]) = Limit
               PROVE  trig[p] /\ tpc[p] \notin {"none", "gone"}
    BY DEF BlockedPostHasConsumer
  <2>0. HandshakeInv /\ Serving /\ Leavings(p) /\ TypeOK BY DEF LeftInv, HandshakeInv
  <2>1. at \in {"post", "blank", "farewell"} BY DEF MainPostsTo
  <2>2. plugin \in {"disabled", "enabled"} /\ ~Ending
    <3>1. plugin # "unloaded" BY <2>0 DEF HandshakeInv, Control
    <3>2. QED BY <2>0, <2>1, <3>1 DEF HandshakeInv, Control, Serving, Ending
  <2>3. tpc[p] \notin {"none", "gone"} BY <2>0, <2>2 DEF Serving
  <2>4. CASE at = "post"
    <3>1. plugin = "enabled" BY <2>0, <2>4 DEF HandshakeInv, Control, Serving
    <3>2. enabled BY <2>0, <2>4, <3>1 DEF Serving
    <3>3. QED BY <2>0, <2>3, <3>2 DEF HandshakeInv, Armed
  <2>5. CASE at = "blank" BY <2>0, <2>3, <2>5 DEF Serving, MainPostsTo
  <2>6. CASE at = "farewell" /\ plugin = "enabled" BY <2>0, <2>3, <2>6 DEF Serving
  <2>7. CASE at = "farewell" /\ plugin = "disabled"
    <3>1. SUFFICES ASSUME ~trig[p] PROVE FALSE BY <2>3
    <3>2. Bygone(p) /\ HalfBygone(p) BY <2>7, <3>1 DEF Bygone, HalfBygone
    <3>3. Within(Len(ojq[p]) + Len(outbox[p]), p) BY <2>0, <3>2 DEF Leavings
    <3>4. /\ Len(ojq[p]) \in Nat /\ Len(ojq[p]) + Len(outbox[p]) \in Nat
          /\ Len(ojq[p]) <= Len(ojq[p]) + Len(outbox[p])
      BY <2>0, Lengths
    <3>5. Within(Len(ojq[p]), p) BY <3>3, <3>4, Fewer
    <3>6. Limit \in Nat \ {0} BY PostsAssumption
    <3>7. PICK r \in Reports[p] : Limit <= Len(r) BY <3>5, <3>6 DEF Within
    <3>8. r \in Seq({"ijq", "ojq"}) BY PostsAssumption
    <3>9. Len(r) < Limit /\ Len(r) \in Nat BY <3>8, RoomAssumption
    <3>10. QED BY <3>6, <3>7, <3>9
  <2>8. QED BY <2>1, <2>2, <2>4, <2>5, <2>6, <2>7
<1>2. QED BY <1>1, LeftInvariant, PTL

----------------------------------------------------------------------------
(* What XPluginStop may close.  The pause outlasts the threads, so that at *)
(* its end each is gone or blocked, and until its handle is NULL nothing   *)
(* unblocks it but the user.                                               *)
Past ==
  \/ at \in {"close", "forget", "reset"}
  \/ op = "stop" /\ at \in {"purgeOut", "purgeIn"}
  \/ plugin = "stopped"

\* An open device has a handle until XPluginStop closes it.
Opened ==
  \A p \in Panels : device[p] # "none" /\ (device[p] = "closed" \/ ~handle[p]) => Past

\* The threads of the panels it is through with are released, and told to end.
Released ==
  /\ at \in {"farewell", "release"} =>
       \A k \in 1..N : k < i /\ handle[OpenOrder[k]] => trig[OpenOrder[k]]
  /\ at \in {"halt", "sleep"} => \A p \in Panels : handle[p] => trig[p]

Halted == at = "sleep" \/ Past => ~threadsRun /\ ~enabled

\* The handles of those it has closed are NULL.
Forgotten ==
  /\ at \in {"halt", "sleep"} => i = 1
  /\ at \in {"close", "forget", "reset"} => \A k \in 1..N : k < i => ~handle[OpenOrder[k]]
  /\ plugin = "stopped" \/ (op = "stop" /\ at \in {"purgeOut", "purgeIn"}) =>
       \A p \in Panels : ~handle[p]

Started ==
  plugin # "unloaded" => \A p \in Panels : tpc[p] # "none" /\ fpc[p] # "none"

Leaving == Opened /\ Released /\ Halted /\ Forgotten /\ Started

\* FromPanelThread waits for room in the queue of its next message.
Stuck(p) ==
  /\ outbox[p] # <<>>
  /\ Len(IF Head(outbox[p]) = "ijq" THEN ijq[p] ELSE ojq[p]) >= Limit

\* Where the threads of p are once devices are being closed.
Quiet(p) ==
  /\ tpc[p] \in {"gone", "get", "check", "test"}
  /\ fpc[p] \in {"gone", "read", "decide", "test", "post"}
  /\ handle[p] => /\ tpc[p] \in {"gone", "get"}
                  /\ tpc[p] = "get" => ojq[p] = <<>>
                  /\ fpc[p] = "post" => Stuck(p)

CloseInv ==
  /\ HandshakeInv /\ Serving /\ Leaving
  /\ Past => \A p \in Panels : device[p] # "none" => Quiet(p)

LEMMA LeavingInit == Init => Leaving
BY DEF Init, Leaving, Opened, Released, Halted, Forgotten, Started, Past

LEMMA OpenedCallback == HandshakeInv /\ Serving /\ Leaving /\ CallbackStep => Opened'
<1> SUFFICES ASSUME HandshakeInv, Serving, Leaving, CallbackStep PROVE Opened' OBVIOUS
<1> USE Orders DEF HandshakeInv, TypeOK, MainTypes, SharedTypes, Control, Serving, Leaving,
        Opened, Past, Begin, Goto, NextPanel, Return, mainVars, flagVars, hidVars
<1>1. CASE Start
  <2>1. PICK found \in Plugged :
          /\ handle' = [p \in Panels |-> p \in found]
          /\ device' = [p \in Panels |-> IF p \in found THEN "open" ELSE "none"]
    BY <1>1 DEF Start
  <2>2. ASSUME NEW p \in Panels, device'[p] # "none" PROVE device'[p] = "open" /\ handle'[p]
    BY <2>1, <2>2
  <2>3. QED BY <2>2
<1>2. CASE PurgeTake BY <1>2 DEF PurgeTake
<1>3. CASE PurgeNext BY <1>3 DEF PurgeNext
<1>4. CASE EnableBegin BY <1>4 DEF EnableBegin
<1>5. CASE EnableArm BY <1>5 DEF EnableArm
<1>6. CASE EnableFlag BY <1>6 DEF EnableFlag
<1>7. CASE DisableBegin BY <1>7 DEF DisableBegin
<1>8. CASE DisableWake BY <1>8 DEF DisableWake
<1>9. CASE DisableBlank BY <1>9 DEF DisableBlank
<1>10. CASE DisablePark BY <1>10 DEF DisablePark
<1>11. CASE StopBegin BY <1>11 DEF StopBegin
<1>12. CASE StopBlank BY <1>12 DEF StopBlank
<1>13. CASE StopRelease BY <1>13 DEF StopRelease
<1>14. CASE StopHalt BY <1>14 DEF StopHalt
<1>15. CASE StopSleep BY <1>15 DEF StopSleep
<1>16. CASE CloseDevice BY <1>16 DEF CloseDevice
<1>17. CASE CloseForget BY <1>17 DEF CloseForget
<1>18. CASE CloseReset BY <1>18 DEF CloseReset
<1>19. CASE MainPosted BY <1>19 DEF MainPosted
<1>20. QED
  BY <1>1, <1>2, <1>3, <1>4, <1>5, <1>6, <1>7, <1>8, <1>9, <1>10, <1>11, <1>12, <1>13, <1>14, <1>15, <1>16, <1>17, <1>18, <1>19
  DEF CallbackStep

LEMMA ReleasedRelease == HandshakeInv /\ Leaving /\ StopRelease => Released'
<1> SUFFICES ASSUME HandshakeInv, Leaving, StopRelease PROVE Released' OBVIOUS
<1>1. /\ at = "release" /\ UNCHANGED handle
      /\ trig' = [trig EXCEPT ![OpenOrder[i]] = TRUE]
      /\ IF i < N THEN at' = "farewell" /\ i' = i + 1 ELSE at' = "halt"
  BY DEF StopRelease, NextPanel, hidVars
<1>2. i \in 1..N /\ N \in Nat /\ trig \in [Panels -> BOOLEAN]
  BY Orders DEF HandshakeInv, TypeOK, MainTypes, SharedTypes
<1>3. \A k \in 1..N : k < i /\ handle[OpenOrder[k]] => trig[OpenOrder[k]]
  BY <1>1 DEF Leaving, Released
<1>4. ASSUME NEW k \in 1..N, k <= i, handle[OpenOrder[k]] PROVE trig'[OpenOrder[k]]
  <2>1. OpenOrder[k] \in Panels BY Orders
  <2>2. CASE OpenOrder[k] = OpenOrder[i] BY <1>1, <1>2, <2>1, <2>2
  <2>3. CASE OpenOrder[k] # OpenOrder[i]
    <3>1. k # i BY <2>3
    <3>2. k < i BY <1>2, <1>4, <3>1
    <3>3. trig[OpenOrder[k]] BY <1>3, <1>4, <3>2
    <3>4. QED BY <1>1, <1>2, <2>1, <2>3, <3>3
  <2>4. QED BY <2>2, <2>3
<1>5. CASE i < N
  <2>1. at' = "farewell" /\ i' = i + 1 BY <1>1, <1>5
  <2>2. \A k \in 1..N : k < i' => k <= i BY <1>2, <2>1
  <2>3. QED BY <1>1, <1>4, <2>1, <2>2 DEF Released
<1>6. CASE ~(i < N)
  <2>1. at' = "halt" /\ i = N BY <1>1, <1>2, <1>6
  <2>2. \A p \in Panels : \E k \in 1..N : OpenOrder[k] = p BY OrderAssumption
  <2>3. \A k \in 1..N : k <= i BY <1>2, <2>1
  <2>4. \A p \in Panels : handle'[p] => trig'[p] BY <1>1, <1>4, <2>2, <2>3
  <2>5. QED BY <2>1, <2>4 DEF Released
<1>7. QED BY <1>5, <1>6

LEMMA ReleasedCallback == HandshakeInv /\ Serving /\ Leaving /\ CallbackStep => Released'
<1> SUFFICES ASSUME HandshakeInv, Serving, Leaving, CallbackStep PROVE Released' OBVIOUS
<1> USE Orders DEF HandshakeInv, TypeOK, MainTypes, SharedTypes, Control, Serving, Leaving,
        Released, Past, Begin, Goto, NextPanel, Return, mainVars, flagVars, hidVars
<1>1. CASE Start BY <1>1 DEF Start
<1>2. CASE PurgeTake BY <1>2 DEF PurgeTake
<1>3. CASE PurgeNext BY <1>3 DEF PurgeNext
<1>4. CASE EnableBegin BY <1>4 DEF EnableBegin
<1>5. CASE EnableArm BY <1>5 DEF EnableArm
<1>6. CASE EnableFlag BY <1>6 DEF EnableFlag
<1>7. CASE DisableBegin BY <1>7 DEF DisableBegin
<1>8. CASE DisableWake BY <1>8 DEF DisableWake
<1>9. CASE DisableBlank BY <1>9 DEF DisableBlank
<1>10. CASE DisablePark BY <1>10 DEF DisablePark
<1>11. CASE StopBegin BY <1>11 DEF StopBegin
<1>12. CASE StopBlank
  <2>1. at = "farewell" /\ UNCHANGED <<handle, trig>> /\ i \in 1..N BY <1>12 DEF StopBlank
  <2>2. CASE handle[OpenOrder[i]]
    <3>1. at' = "release" /\ i' = i BY <1>12, <2>2 DEF StopBlank
    <3>2. QED BY <2>1, <3>1
  <2>3. CASE ~handle[OpenOrder[i]]
    <3>1. IF i < N THEN at' = "farewell" /\ i' = i + 1 ELSE at' = "halt"
      BY <1>12, <2>3 DEF StopBlank
    <3>2. ASSUME NEW k \in 1..N, k <= i, handle[OpenOrder[k]] PROVE trig[OpenOrder[k]]
      <4>1. k # i BY <2>3, <3>2
      <4>2. k < i BY <2>1, <3>2, <4>1
      <4>3. QED BY <2>1, <3>2, <4>2
    <3>3. CASE i < N BY <2>1, <3>1, <3>2, <3>3
    <3>4. CASE ~(i < N)
      <4>1. at' = "halt" /\ i = N BY <2>1, <3>1, <3>4
      <4>2. \A p \in Panels : \E k \in 1..N : OpenOrder[k] = p BY OrderAssumption
      <4>3. \A p \in Panels : handle[p] => trig[p] BY <3>2, <4>1, <4>2
      <4>4. QED BY <2>1, <4>1, <4>3
    <3>5. QED BY <3>3, <3>4
  <2>4. QED BY <2>2, <2>3
<1>13. CASE StopRelease BY <1>13, ReleasedRelease
<1>14. CASE StopHalt BY <1>14 DEF StopHalt
<1>15. CASE StopSleep BY <1>15 DEF StopSleep
<1>16. CASE CloseDevice BY <1>16 DEF CloseDevice
<1>17. CASE CloseForget BY <1>17 DEF CloseForget
<1>18. CASE CloseReset BY <1>18 DEF CloseReset
<1>19. CASE MainPosted BY <1>19 DEF MainPosted
<1>20. QED
  BY <1>1, <1>2, <1>3, <1>4, <1>5, <1>6, <1>7, <1>8, <1>9, <1>10, <1>11, <1>12, <1>13, <1>14, <1>15, <1>16, <1>17, <1>18, <1>19
  DEF CallbackStep

LEMMA HaltedCallback == HandshakeInv /\ Serving /\ Leaving /\ CallbackStep => Halted'
<1> SUFFICES ASSUME HandshakeInv, Serving, Leaving, CallbackStep PROVE Halted' OBVIOUS
<1> USE Orders DEF HandshakeInv, TypeOK, MainTypes, SharedTypes, Control, Serving, Leaving,
        Halted, Past, Begin, Goto, NextPanel, Return, mainVars, flagVars, hidVars
<1>1. CASE Start BY <1>1 DEF Start
<1>2. CASE PurgeTake BY <1>2 DEF PurgeTake
<1>3. CASE PurgeNext BY <1>3 DEF PurgeNext
<1>4. CASE EnableBegin BY <1>4 DEF EnableBegin
<1>5. CASE EnableArm BY <1>5 DEF EnableArm
<1>6. CASE EnableFlag BY <1>6 DEF EnableFlag
<1>7. CASE DisableBegin BY <1>7 DEF DisableBegin
<1>8. CASE DisableWake BY <1>8 DEF DisableWake
<1>9. CASE DisableBlank BY <1>9 DEF DisableBlank
<1>10. CASE DisablePark BY <1>10 DEF DisablePark
<1>11. CASE StopBegin BY <1>11 DEF StopBegin
<1>12. CASE StopBlank BY <1>12 DEF StopBlank
<1>13. CASE StopRelease BY <1>13 DEF StopRelease
<1>14. CASE StopHalt BY <1>14 DEF StopHalt
<1>15. CASE StopSleep BY <1>15 DEF StopSleep
<1>16. CASE CloseDevice BY <1>16 DEF CloseDevice
<1>17. CASE CloseForget BY <1>17 DEF CloseForget
<1>18. CASE CloseReset BY <1>18 DEF CloseReset
<1>19. CASE MainPosted BY <1>19 DEF MainPosted
<1>20. QED
  BY <1>1, <1>2, <1>3, <1>4, <1>5, <1>6, <1>7, <1>8, <1>9, <1>10, <1>11, <1>12, <1>13, <1>14, <1>15, <1>16, <1>17, <1>18, <1>19
  DEF CallbackStep

LEMMA ForgottenCallback == HandshakeInv /\ Serving /\ Leaving /\ CallbackStep => Forgotten'
<1> SUFFICES ASSUME HandshakeInv, Serving, Leaving, CallbackStep PROVE Forgotten' OBVIOUS
<1> USE Orders DEF HandshakeInv, TypeOK, MainTypes, SharedTypes, Control, Serving, Leaving,
        Forgotten, Past, Begin, Goto, NextPanel, Return, mainVars, flagVars, hidVars
<1>1. CASE Start BY <1>1 DEF Start
<1>2. CASE PurgeTake BY <1>2 DEF PurgeTake
<1>3. CASE PurgeNext BY <1>3 DEF PurgeNext
<1>4. CASE EnableBegin BY <1>4 DEF EnableBegin
<1>5. CASE EnableArm BY <1>5 DEF EnableArm
<1>6. CASE EnableFlag BY <1>6 DEF EnableFlag
<1>7. CASE DisableBegin BY <1>7 DEF DisableBegin
<1>8. CASE DisableWake BY <1>8 DEF DisableWake
<1>9. CASE DisableBlank BY <1>9 DEF DisableBlank
<1>10. CASE DisablePark BY <1>10 DEF DisablePark
<1>11. CASE StopBegin BY <1>11 DEF StopBegin
<1>12. CASE StopBlank BY <1>12 DEF StopBlank
<1>13. CASE StopRelease BY <1>13 DEF StopRelease
<1>14. CASE StopHalt BY <1>14 DEF StopHalt
<1>15. CASE StopSleep BY <1>15 DEF StopSleep
<1>16. CASE CloseDevice /\ handle[OpenOrder[i]]
  BY <1>16 DEF CloseDevice
<1>21. CASE CloseDevice /\ ~handle[OpenOrder[i]]
  <2>1. /\ at = "close" /\ UNCHANGED <<plugin, op, handle>> /\ i \in 1..N
        /\ ~handle[OpenOrder[i]]
        /\ IF i < N THEN at' = "close" /\ i' = i + 1 ELSE at' = "purgeOut"
    BY <1>21 DEF CloseDevice
  <2>2. ASSUME NEW k \in 1..N, k <= i PROVE ~handle'[OpenOrder[k]]
    <3>1. CASE k = i BY <2>1, <3>1
    <3>2. CASE k # i
      <4>1. k < i BY <2>1, <2>2, <3>2
      <4>2. QED BY <2>1, <4>1
    <3>3. QED BY <3>1, <3>2
  <2>3. CASE i < N BY <2>1, <2>2, <2>3
  <2>4. CASE ~(i < N)
    <3>1. at' = "purgeOut" /\ i = N BY <2>1, <2>4
    <3>2. \A p \in Panels : \E k \in 1..N : OpenOrder[k] = p BY OrderAssumption
    <3>3. \A p \in Panels : ~handle'[p] BY <2>2, <3>1, <3>2
    <3>4. QED BY <3>1, <3>3
  <2>5. QED BY <2>3, <2>4
<1>17. CASE CloseForget BY <1>17 DEF CloseForget
<1>18. CASE CloseReset
  <2>1. /\ at = "reset" /\ UNCHANGED <<plugin, op, handle>> /\ i \in 1..N
        /\ ~handle[OpenOrder[i]]
        /\ IF i < N THEN at' = "close" /\ i' = i + 1 ELSE at' = "purgeOut"
    BY <1>18 DEF CloseReset
  <2>2. ASSUME NEW k \in 1..N, k <= i PROVE ~handle'[OpenOrder[k]]
    <3>1. CASE k = i BY <2>1, <3>1
    <3>2. CASE k # i
      <4>1. k < i BY <2>1, <2>2, <3>2
      <4>2. QED BY <2>1, <4>1
    <3>3. QED BY <3>1, <3>2
  <2>3. CASE i < N BY <2>1, <2>2, <2>3
  <2>4. CASE ~(i < N)
    <3>1. at' = "purgeOut" /\ i = N BY <2>1, <2>4
    <3>2. \A p \in Panels : \E k \in 1..N : OpenOrder[k] = p BY OrderAssumption
    <3>3. \A p \in Panels : ~handle'[p] BY <2>2, <3>1, <3>2
    <3>4. QED BY <3>1, <3>3
  <2>5. QED BY <2>3, <2>4
<1>19. CASE MainPosted BY <1>19 DEF MainPosted
<1>20. QED
  BY <1>1, <1>2, <1>3, <1>4, <1>5, <1>6, <1>7, <1>8, <1>9, <1>10, <1>11, <1>12, <1>13, <1>14, <1>15, <1>16, <1>17, <1>18, <1>19,
     <1>21
  DEF CallbackStep

LEMMA StartedCallback == HandshakeInv /\ Serving /\ Leaving /\ CallbackStep => Started'
<1> SUFFICES ASSUME HandshakeInv, Serving, Leaving, CallbackStep PROVE Started' OBVIOUS
<1> USE Orders DEF HandshakeInv, TypeOK, MainTypes, SharedTypes, Control, Serving, Leaving,
        Started, toVars, fromVars, Past, Begin, Goto, NextPanel, Return, mainVars, flagVars, hidVars
<1>1. CASE Start BY <1>1 DEF Start
<1>2. CASE PurgeTake BY <1>2 DEF PurgeTake
<1>3. CASE PurgeNext BY <1>3 DEF PurgeNext
<1>4. CASE EnableBegin BY <1>4 DEF EnableBegin
<1>5. CASE EnableArm BY <1>5 DEF EnableArm
<1>6. CASE EnableFlag BY <1>6 DEF EnableFlag
<1>7. CASE DisableBegin BY <1>7 DEF DisableBegin
<1>8. CASE DisableWake BY <1>8 DEF DisableWake
<1>9. CASE DisableBlank BY <1>9 DEF DisableBlank
<1>10. CASE DisablePark BY <1>10 DEF DisablePark
<1>11. CASE StopBegin BY <1>11 DEF StopBegin
<1>12. CASE StopBlank BY <1>12 DEF StopBlank
<1>13. CASE StopRelease BY <1>13 DEF StopRelease
<1>14. CASE StopHalt BY <1>14 DEF StopHalt
<1>15. CASE StopSleep BY <1>15 DEF StopSleep
<1>16. CASE CloseDevice BY <1>16 DEF CloseDevice
<1>17. CASE CloseForget BY <1>17 DEF CloseForget
<1>18. CASE CloseReset BY <1>18 DEF CloseReset
<1>19. CASE MainPosted BY <1>19 DEF MainPosted
<1>20. QED
  BY <1>1, <1>2, <1>3, <1>4, <1>5, <1>6, <1>7, <1>8, <1>9, <1>10, <1>11, <1>12, <1>13, <1>14, <1>15, <1>16, <1>17, <1>18, <1>19
  DEF CallbackStep

LEMMA LeavingNext == HandshakeInv /\ Serving /\ Leaving /\ [Next]_vars => Leaving'
<1> SUFFICES ASSUME HandshakeInv, Serving, Leaving, [Next]_vars PROVE Leaving' OBVIOUS
<1>1. CASE CallbackStep
  BY <1>1, OpenedCallback, ReleasedCallback, HaltedCallback, ForgottenCallback, StartedCallback
  DEF Leaving
<1>2. CASE PostingStep
  <2>1. UNCHANGED <<plugin, enabled, threadsRun, handle, device, trig, tpc, fpc>>
    BY <1>2, PostingKeeps DEF flagVars, hidVars, toVars, fromVars
  <2>2. /\ plugin = "enabled" /\ op # "stop" /\ op' # "stop"
        /\ at \in {"idle", "post"} /\ at' = "post"
    BY <1>2, PostingKeeps DEF HandshakeInv, Control, Serving
  <2>3. ~Past BY <2>2 DEF Past
  <2>4. QED
    BY <2>1, <2>2, <2>3 DEF Leaving, Opened, Released, Halted, Forgotten, Started, Past
<1>3. CASE \E p \in Panels : ToStep(p) \/ FromStep(p) \/ Input(p)
  <2>1. PICK p \in Panels : ToStep(p) \/ FromStep(p) \/ Input(p) BY <1>3
  <2>2. UNCHANGED <<mainVars, flagVars, hidVars, trig>> BY <2>1, ThreadKeeps
  <2>3. Opened' /\ Released' /\ Halted' /\ Forgotten'
    BY <2>2 DEF Leaving, Opened, Released, Halted, Forgotten, Past, mainVars, flagVars, hidVars
  <2>4. Started'
    <3> USE <2>2 DEF HandshakeInv, TypeOK, ThreadTypes, Leaving, Started, mainVars
    <3>1. CASE ToStep(p)
      BY <3>1 DEF ToStep, ToTest, ToWake, ToInit, ToInitWrite, ToGet, ToCheck, ToWrite,
         ToGoto, fromVars
    <3>2. CASE FromStep(p) \/ Input(p)
      BY <3>2 DEF FromStep, FromTest, FromWake, FromLook, FromGate, FromPause, FromDecide,
         FromPost, FromPosted, Input, FromGoto, toVars
    <3>3. QED BY <2>1, <3>1, <3>2
  <2>5. QED BY <2>3, <2>4 DEF Leaving
<1>4. CASE UNCHANGED vars
  BY <1>4 DEF vars, mainVars, flagVars, hidVars, toVars, fromVars,
     Leaving, Opened, Released, Halted, Forgotten, Started, Past
<1>5. QED BY <1>1, <1>2, <1>3, <1>4, NextKinds

(* At the end of the pause every thread of an open panel has settled.      *)
LEMMA QuietAfterPause ==
  ASSUME SleepOutlasts, CloseInv, StopSleep, NEW p \in Panels, device[p] # "none"
  PROVE  Quiet(p)'
<1>1. at = "sleep" /\ ~Past
  BY DEF StopSleep, Past, CloseInv, HandshakeInv, Control, Serving
<1>2. handle[p] /\ trig[p] BY <1>1 DEF CloseInv, Leaving, Opened, Released
<1>3. plugin # "unloaded" BY <1>1 DEF CloseInv, HandshakeInv, Control
<1>4. Settled(p) BY DEF StopSleep
<1>5. tpc[p] # "none" /\ fpc[p] # "none" BY <1>3 DEF CloseInv, Leaving, Started
<1>6. UNCHANGED <<tpc, fpc, ojq, ijq, outbox, handle>>
  BY DEF StopSleep, toVars, fromVars, queues, hidVars
<1>7. Quiet(p) BY <1>2, <1>4, <1>5 DEF Settled, Quiet, Stuck
<1>8. QED BY <1>6, <1>7 DEF Quiet, Stuck

(* Steps of the threads while devices are being closed.                    *)
LEMMA QuietThread ==
  ASSUME CloseInv, Past, NEW q \in Panels, ToStep(q) \/ FromStep(q) \/ Input(q),
         NEW p \in Panels, device[p] # "none"
  PROVE  Quiet(p)'
<1>0. TypeOK /\ TypeOK' /\ Quiet(p) BY TypeThread DEF CloseInv, HandshakeInv
<1>1. ~threadsRun /\ ~enabled BY DEF CloseInv, Leaving, Halted
<1>2. UNCHANGED <<handle, device>> BY ThreadKeeps DEF hidVars
<1>3. /\ tpc \in [Panels -> {"none", "test", "wait", "init", "initWrite", "get",
                             "check", "write", "gone"}]
      /\ fpc \in [Panels -> {"none", "test", "wait", "look", "gate", "nap", "poll",
                             "read", "decide", "post", "gone"}]
      /\ outbox \in [Panels -> Seq({"ijq", "ojq"})]
      /\ ojq \in [Panels -> Seq(Msg)] /\ ijq \in [Panels -> Seq(Msg)]
  BY <1>0 DEF TypeOK, ThreadTypes, QueueOK
<1>4. CASE q # p
  <2>1. UNCHANGED <<tpc[p], fpc[p], ojq[p], ijq[p], outbox[p]>>
    <3>1. CASE ToStep(q)
      BY <1>3, <1>4, <3>1 DEF ToStep, ToTest, ToWake, ToInit, ToInitWrite, ToGet, ToCheck,
         ToWrite, ToGoto, Take, queues, fromVars
    <3>2. CASE FromStep(q) \/ Input(q)
      BY <1>3, <1>4, <3>2 DEF FromStep, FromTest, FromWake, FromLook, FromGate, FromPause,
         FromDecide, FromPost, FromPosted, Input, FromGoto, Post, queues, toVars
    <3>3. QED BY <3>1, <3>2
  <2>2. QED BY <1>0, <1>2, <2>1 DEF Quiet, Stuck
<1>5. CASE q = p /\ ToStep(q)
  <2>1. CASE ToGet(p)
    <3>1. tpc[p] = "get" /\ ojq[p] # <<>> /\ tpc'[p] = "check" /\ UNCHANGED <<fpc, outbox>>
      BY <1>3, <2>1 DEF ToGet, Take, ToGoto, fromVars
    <3>2. ~handle[p] BY <1>0, <3>1 DEF Quiet
    <3>3. QED BY <1>0, <1>2, <3>1, <3>2 DEF Quiet
  <2>2. CASE ToTest(p) \/ ToCheck(p)
    <3>1. /\ tpc[p] \in {"test", "check"} /\ UNCHANGED <<fpc, outbox>>
          /\ tpc'[p] \in {"gone", "test"} \/ handle[p]
      BY <1>1, <1>3, <2>2 DEF ToTest, ToCheck, ToGoto, fromVars
    <3>2. ~handle[p] BY <1>0, <3>1 DEF Quiet
    <3>3. QED BY <1>0, <1>2, <3>1, <3>2 DEF Quiet
  <2>3. CASE ToWake(p) \/ ToInit(p) \/ ToInitWrite(p) \/ ToWrite(p)
    BY <1>0, <2>3 DEF Quiet, ToWake, ToInit, ToInitWrite, ToWrite
  <2>4. QED BY <1>5, <2>1, <2>2, <2>3 DEF ToStep
<1>6. CASE q = p /\ (FromStep(q) \/ Input(q))
  <2>0. UNCHANGED tpc
    BY <1>6 DEF FromStep, FromTest, FromWake, FromLook, FromGate, FromPause, FromDecide,
       FromPost, FromPosted, Input, toVars
  <2>1. CASE FromPost(p)
    <3>1. /\ fpc[p] = "post" /\ outbox[p] # <<>> /\ UNCHANGED fpc
          /\ \/ Head(outbox[p]) = "ijq" /\ Len(ijq[p]) < Limit
             \/ Head(outbox[p]) = "ojq" /\ Len(ojq[p]) < Limit
      BY <2>1 DEF FromPost, Post
    <3>2. Len(ojq[p]) \in Nat /\ Len(ijq[p]) \in Nat /\ Limit \in Nat
      BY <1>0, Lengths, LimitNat
    <3>3. ~Stuck(p) BY <3>1, <3>2 DEF Stuck
    <3>4. ~handle[p] BY <1>0, <3>1, <3>3 DEF Quiet
    <3>5. QED BY <1>0, <1>2, <2>0, <3>1, <3>4 DEF Quiet
  <2>2. CASE FromPosted(p)
    <3>1. fpc[p] = "post" /\ ~Stuck(p) /\ fpc'[p] = "test"
      BY <1>3, <2>2 DEF FromPosted, FromGoto, Stuck
    <3>2. ~handle[p] BY <1>0, <3>1 DEF Quiet
    <3>3. QED BY <1>0, <1>2, <2>0, <3>1, <3>2 DEF Quiet
  <2>3. CASE FromTest(p) \/ FromDecide(p) \/ Input(p)
    <3>1. /\ fpc'[p] \in {"gone", "test", "decide"} /\ UNCHANGED <<ojq, ijq>>
      BY <1>1, <1>3, <2>3 DEF FromTest, FromDecide, Input, FromGoto, queues
    <3>2. QED BY <1>0, <1>2, <2>0, <3>1 DEF Quiet
  <2>4. CASE FromWake(p) \/ FromLook(p) \/ FromGate(p) \/ FromPause(p)
    BY <1>0, <2>4 DEF Quiet, FromWake, FromLook, FromGate, FromPause
  <2>5. QED BY <1>6, <2>1, <2>2, <2>3, <2>4 DEF FromStep
<1>7. QED BY <1>4, <1>5, <1>6

(* Steps of XPluginStop from close_hid on.                                 *)
LEMMA QuietCallback ==
  ASSUME CloseInv, Past, CallbackStep, NEW p \in Panels, device'[p] # "none"
  PROVE  Quiet(p)'
<1>0. HandshakeInv /\ Serving /\ Leaving BY DEF CloseInv
<1>1. CASE PurgeTake \/ PurgeNext
  <2>1. op = "stop" \/ plugin = "stopped"
    BY <1>0, <1>1 DEF PurgeTake, PurgeNext, HandshakeInv, Control, Past
  <2>2. ~handle[p]
    BY <1>0, <1>1, <2>1 DEF PurgeTake, PurgeNext, Leaving, Forgotten
  <2>3. UNCHANGED <<tpc, fpc, outbox, handle, device>>
    BY <1>1 DEF PurgeTake, PurgeNext, toVars, fromVars, hidVars
  <2>4. QED BY <2>2, <2>3 DEF CloseInv, Quiet
<1>2. CASE CloseDevice \/ CloseForget \/ CloseReset
  <2>1. /\ UNCHANGED <<tpc, fpc, outbox, ojq, ijq>>
        /\ handle' = [handle EXCEPT ![OpenOrder[i]] = FALSE] \/ handle' = handle
    BY <1>2 DEF CloseDevice, CloseForget, CloseReset, toVars, fromVars, queues, hidVars
  <2>2. handle'[p] => handle[p]
    BY <1>0, <2>1 DEF HandshakeInv, TypeOK, SharedTypes
  <2>3. device[p] # "none"
    <3>1. CASE CloseDevice
      <4>1. handle[OpenOrder[i]] => device[OpenOrder[i]] # "none"
        BY <1>0, Orders DEF HandshakeInv, TypeOK, MainTypes, Closed
      <4>2. QED BY <1>0, <3>1, <4>1 DEF CloseDevice, HandshakeInv, TypeOK, SharedTypes
    <3>2. CASE CloseForget \/ CloseReset BY <3>2 DEF CloseForget, CloseReset, hidVars
    <3>3. QED BY <1>2, <3>1, <3>2
  <2>4. Quiet(p) BY <2>3 DEF CloseInv
  <2>5. QED BY <2>1, <2>2, <2>4 DEF Quiet, Stuck
<1>3. CASE \/ Start \/ EnableBegin \/ EnableArm \/ EnableFlag
           \/ DisableBegin \/ DisableWake \/ DisableBlank \/ DisablePark
           \/ StopBegin \/ StopBlank \/ StopRelease \/ StopHalt \/ StopSleep \/ MainPosted
  BY <1>0, <1>3 DEF HandshakeInv, Control, Serving, Past, Start, EnableBegin, EnableArm,
     EnableFlag, DisableBegin, DisableWake, DisableBlank, DisablePark, StopBegin, StopBlank,
     StopRelease, StopHalt, StopSleep, MainPosted
<1>4. QED BY <1>1, <1>2, <1>3 DEF CallbackStep

LEMMA CloseNext ==
  ASSUME SleepOutlasts, CloseInv, [Next]_vars
  PROVE  CloseInv'
<1>1. HandshakeInv' /\ Serving' /\ Leaving'
  BY HandshakeNext, ServingNext, LeavingNext DEF CloseInv
<1>2. ASSUME Past', NEW p \in Panels, device'[p] # "none" PROVE Quiet(p)'
  <2>1. CASE StopSleep
    <3>1. device[p] # "none" BY <1>2, <2>1 DEF StopSleep, hidVars
    <3>2. QED BY <2>1, <3>1, QuietAfterPause
  <2>2. CASE CallbackStep /\ ~StopSleep
    <3>1. Past
      BY <1>2, <2>2 DEF CloseInv, HandshakeInv, Control, Serving, Past, CallbackStep, Start,
         PurgeTake, PurgeNext, EnableBegin, EnableArm, EnableFlag, DisableBegin, DisableWake,
         DisableBlank, DisablePark, StopBegin, StopBlank, StopRelease, StopHalt, CloseDevice,
         CloseForget, CloseReset, MainPosted, Begin, Goto, NextPanel, Return, mainVars
    <3>2. QED BY <1>2, <2>2, <3>1, QuietCallback
  <2>3. CASE PostingStep
    BY <1>2, <2>3, PostingKeeps DEF CloseInv, HandshakeInv, Control, Serving, Past
  <2>4. CASE \E q \in Panels : ToStep(q) \/ FromStep(q) \/ Input(q)
    <3>1. PICK q \in Panels : ToStep(q) \/ FromStep(q) \/ Input(q) BY <2>4
    <3>2. UNCHANGED <<mainVars, flagVars, hidVars>> BY <3>1, ThreadKeeps
    <3>3. Past /\ device[p] # "none" BY <1>2, <3>2 DEF Past, mainVars, hidVars
    <3>4. QED BY <3>1, <3>3, QuietThread
  <2>5. CASE UNCHANGED vars
    BY <1>2, <2>5 DEF vars, mainVars, hidVars, queues, toVars, fromVars, CloseInv, Past,
       Quiet, Stuck
  <2>6. QED BY <2>1, <2>2, <2>3, <2>4, <2>5, NextKinds
<1>3. QED BY <1>1, <1>2 DEF CloseInv

(* If the half second of XPluginStop outlasts what the threads have to do, *)
(* none starts to use a device that hid_close was called on.               *)
THEOREM ClosedUnused == SleepOutlasts => (Spec => []NoUseAfterClose)
<1> SUFFICES ASSUME SleepOutlasts PROVE Spec => []NoUseAfterClose OBVIOUS
<1>1. Init => CloseInv
  BY HandshakeInit, ServingInit, LeavingInit DEF CloseInv, Init, Past
<1>2. CloseInv /\ [Next]_vars => CloseInv' BY CloseNext
<1>3. CloseInv => NoUseAfterClose
  BY DEF CloseInv, Leaving, Opened, Quiet, NoUseAfterClose
<1>4. QED BY <1>1, <1>2, <1>3, PTL DEF Spec
============================================================================
