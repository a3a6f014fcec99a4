---------------------- MODULE PluginLifecycle_proofs ----------------------
(* Theorems about PluginLifecycle: they hold for any set of panels, any    *)
(* order of the callbacks over them, any reports and any queue limit.      *)
EXTENDS PluginLifecycle, TLAPS

LEMMA LimitNat == Limit \in Nat
BY PostsAssumption

(* The orders are indexed by 1..N and name panels.                         *)
LEMMA Orders ==
  /\ N \in Nat \ {0}
  /\ \A k \in 1..N : OpenOrder[k] \in Panels /\ EnableOrder[k] \in Panels
  /\ \A p \in Panels : \E k \in 1..N : EnableOrder[k] = p
<1>1. OpenOrder \in Seq(Panels) /\ EnableOrder \in Seq(Panels) BY OrderAssumption
<1>2. N = Len(OpenOrder) /\ N = Len(EnableOrder) BY OrderAssumption DEF N
<1>3. ASSUME NEW s \in Seq(Panels), NEW k \in 1..Len(s) PROVE s[k] \in Panels
  OBVIOUS
<1>4. \A k \in 1..N : OpenOrder[k] \in Panels /\ EnableOrder[k] \in Panels
  BY <1>1, <1>2, <1>3
<1>5. QED BY <1>2, <1>4, OrderAssumption

----------------------------------------------------------------------------
(* What one step does to a job queue of the right type.                    *)
LEMMA QueuePost ==
  ASSUME NEW q, NEW q1, NEW p \in Panels, NEW m \in Msg, QueueOK(q),
         Len(q[p]) < Limit,
         \/ q1 = [q EXCEPT ![p] = Append(@, m)]
         \/ q1 = [q EXCEPT ![p] = <<m>> \o @]
  PROVE  QueueOK(q1)
<1>1. q[p] \in Seq(Msg) BY DEF QueueOK
<1>2. Append(q[p], m) \in Seq(Msg) /\ Len(Append(q[p], m)) = Len(q[p]) + 1
  BY <1>1
<1>3. <<m>> \o q[p] \in Seq(Msg) /\ Len(<<m>> \o q[p]) = Len(q[p]) + 1
  BY <1>1
<1>4. Len(q[p]) \in Nat BY <1>1
<1>5. q1 \in [Panels -> Seq(Msg)] BY <1>2, <1>3 DEF QueueOK
<1>6. Len(q1[p]) <= Limit BY <1>2, <1>3, <1>4, LimitNat DEF QueueOK
<1>7. \A r \in Panels : Len(q1[r]) <= Limit BY <1>6 DEF QueueOK
<1>8. QED BY <1>5, <1>7 DEF QueueOK

LEMMA QueueTake ==
  ASSUME NEW q, NEW p \in Panels, QueueOK(q), q[p] # <<>>
  PROVE  QueueOK([q EXCEPT ![p] = Tail(@)]) /\ Head(q[p]) \in Msg
<1> DEFINE q1 == [q EXCEPT ![p] = Tail(@)]
<1>1. q[p] \in Seq(Msg) BY DEF QueueOK
<1>2. /\ Tail(q[p]) \in Seq(Msg) /\ Len(Tail(q[p])) = Len(q[p]) - 1
      /\ Head(q[p]) \in Msg
  BY <1>1
<1>3. Len(q[p]) \in Nat BY <1>1
<1>4. q1 \in [Panels -> Seq(Msg)] BY <1>2 DEF QueueOK
<1>5. Len(q1[p]) <= Limit BY <1>2, <1>3, LimitNat DEF QueueOK
<1>6. \A r \in Panels : Len(q1[r]) <= Limit BY <1>5 DEF QueueOK
<1>7. QED BY <1>2, <1>4, <1>6 DEF QueueOK

----------------------------------------------------------------------------
(* Type correctness.                                                       *)
LEMMA TypeInit == Init => TypeOK
<1> SUFFICES ASSUME Init PROVE TypeOK OBVIOUS
<1>1. MainTypes
  <2>1. 1 \in 1..N BY Orders
  <2>2. NoPosts \in [Panels -> Nat] BY DEF NoPosts
  <2>3. QED BY <2>1, <2>2 DEF Init, MainTypes
<1>2. SharedTypes BY DEF Init, SharedTypes
<1>3. QueueOK(ojq) /\ QueueOK(ijq)
  <2>1. <<>> \in Seq(Msg) /\ Len(<<>>) = 0 OBVIOUS
  <2>2. QED BY <2>1, PostsAssumption DEF Init, QueueOK
<1>4. ThreadTypes BY DEF Init, ThreadTypes
<1>5. QED BY <1>1, <1>2, <1>3, <1>4 DEF TypeOK

(* Steps of the callbacks that leave the queues alone.                     *)
LEMMA TypeCallback ==
  ASSUME TypeOK,
         \/ Start \/ EnableBegin \/ EnableArm \/ EnableFlag
         \/ DisableBegin \/ DisableWake \/ DisablePark
         \/ StopBegin \/ StopRelease \/ StopHalt \/ StopSleep
         \/ CloseDevice \/ CloseForget \/ CloseReset \/ PurgeNext \/ MainPosted
  PROVE  TypeOK'
<1>1. MainTypes'
  <2> USE Orders DEF TypeOK, MainTypes, Begin, Goto, Return, NextPanel
  <2>1. CASE Start BY <2>1 DEF Start
  <2>2. CASE EnableBegin BY <2>2 DEF EnableBegin
  <2>3. CASE EnableArm BY <2>3 DEF EnableArm
  <2>4. CASE EnableFlag BY <2>4 DEF EnableFlag
  <2>5. CASE DisableBegin BY <2>5 DEF DisableBegin
  <2>6. CASE DisableWake BY <2>6 DEF DisableWake
  <2>7. CASE DisablePark BY <2>7 DEF DisablePark
  <2>8. CASE StopBegin BY <2>8 DEF StopBegin
  <2>9. CASE StopRelease BY <2>9 DEF StopRelease
  <2>10. CASE StopHalt BY <2>10 DEF StopHalt
  <2>11. CASE StopSleep BY <2>11 DEF StopSleep
  <2>12. CASE CloseDevice BY <2>12 DEF CloseDevice
  <2>13. CASE CloseForget BY <2>13 DEF CloseForget
  <2>14. CASE CloseReset BY <2>14 DEF CloseReset
  <2>15. CASE PurgeNext BY <2>15 DEF PurgeNext
  <2>16. CASE MainPosted
    <3>1. planeLoaded' \in BOOLEAN BY <2>16 DEF MainPosted
    <3>2. UNCHANGED posts BY <2>16 DEF MainPosted
    <3>3. plugin' = "enabled" /\ op' = "idle" /\ at' = "idle" /\ i' = 1
      BY <2>16 DEF MainPosted
    <3>4. QED BY <3>1, <3>2, <3>3
  <2>17. QED BY <2>1, <2>2, <2>3, <2>4, <2>5, <2>6, <2>7, <2>8, <2>9, <2>10, <2>11, <2>12, <2>13, <2>14, <2>15, <2>16
<1>2. SharedTypes'
  <2> USE Orders DEF TypeOK, MainTypes, SharedTypes, flagVars, hidVars
  <2>1. CASE Start BY <2>1 DEF Start
  <2>2. CASE EnableBegin BY <2>2 DEF EnableBegin
  <2>3. CASE EnableArm BY <2>3 DEF EnableArm
  <2>4. CASE EnableFlag BY <2>4 DEF EnableFlag
  <2>5. CASE DisableBegin BY <2>5 DEF DisableBegin
  <2>6. CASE DisableWake BY <2>6 DEF DisableWake
  <2>7. CASE DisablePark BY <2>7 DEF DisablePark
  <2>8. CASE StopBegin BY <2>8 DEF StopBegin
  <2>9. CASE StopRelease BY <2>9 DEF StopRelease
  <2>10. CASE StopHalt BY <2>10 DEF StopHalt
  <2>11. CASE StopSleep BY <2>11 DEF StopSleep
  <2>12. CASE CloseDevice BY <2>12 DEF CloseDevice
  <2>13. CASE CloseForget BY <2>13 DEF CloseForget
  <2>14. CASE CloseReset BY <2>14 DEF CloseReset
  <2>15. CASE PurgeNext BY <2>15 DEF PurgeNext
  <2>16. CASE MainPosted BY <2>16 DEF MainPosted
  <2>17. QED BY <2>1, <2>2, <2>3, <2>4, <2>5, <2>6, <2>7, <2>8, <2>9, <2>10, <2>11, <2>12, <2>13, <2>14, <2>15, <2>16
<1>3. UNCHANGED queues
  BY DEF Start, EnableBegin, EnableArm, EnableFlag, DisableBegin, DisableWake, DisablePark, StopBegin, StopRelease, StopHalt, StopSleep, CloseDevice, CloseForget, CloseReset, PurgeNext, MainPosted
<1>4. QueueOK(ojq)' /\ QueueOK(ijq)'
  BY <1>3 DEF TypeOK, QueueOK, queues
<1>5. ThreadTypes'
  BY DEF TypeOK, ThreadTypes, toVars, fromVars, Start, EnableBegin, EnableArm, EnableFlag, DisableBegin, DisableWake, DisablePark, StopBegin, StopRelease, StopHalt, StopSleep, CloseDevice, CloseForget, CloseReset, PurgeNext, MainPosted
<1>6. QED BY <1>1, <1>2, <1>4, <1>5 DEF TypeOK

(* Steps of the callbacks that post or take messages.                      *)
LEMMA TypeQueueStep ==
  ASSUME TypeOK,
         \/ PurgeTake \/ DisableBlank \/ StopBlank
         \/ \E e \in Events : PlaneEvent(e)
         \/ \E p \in Panels : SimCommand(p) \/ FlightLoop(p) \/ MainPost(p)
  PROVE  TypeOK'
<1> DEFINE p1 == OpenOrder[i]
           p2 == EnableOrder[i]
<1>0. p1 \in Panels /\ p2 \in Panels BY Orders DEF TypeOK, MainTypes
<1>m. NoPosts \in [Panels -> Nat] BY DEF NoPosts
<1> USE DEF TypeOK
<1>1. CASE PurgeTake
  <2>1. MainTypes' /\ SharedTypes' /\ ThreadTypes'
    BY <1>1 DEF PurgeTake, MainTypes, SharedTypes, ThreadTypes, mainVars, flagVars,
                hidVars, toVars, fromVars
  <2>2. QueueOK(ojq') /\ QueueOK(ijq')
    <3>1. ASSUME Take(ojq, p1), UNCHANGED ijq PROVE QueueOK(ojq') /\ QueueOK(ijq')
      <4> HIDE DEF p1
      <4>0. ojq[p1] # <<>> /\ ojq' = [ojq EXCEPT ![p1] = Tail(@)] BY <3>1 DEF Take
      <4>1. QueueOK([ojq EXCEPT ![p1] = Tail(@)]) BY <4>0, <1>0, QueueTake
      <4>2. QED BY <4>0, <4>1, <3>1
    <3>2. ASSUME Take(ijq, p1), UNCHANGED ojq PROVE QueueOK(ojq') /\ QueueOK(ijq')
      <4> HIDE DEF p1
      <4>0. ijq[p1] # <<>> /\ ijq' = [ijq EXCEPT ![p1] = Tail(@)] BY <3>2 DEF Take
      <4>1. QueueOK([ijq EXCEPT ![p1] = Tail(@)]) BY <4>0, <1>0, QueueTake
      <4>2. QED BY <4>0, <4>1, <3>2
    <3>3. QED BY <1>1, <3>1, <3>2 DEF PurgeTake
  <2>3. QED BY <2>1, <2>2 DEF QueueOK
<1>2. CASE DisableBlank
  <2>1. MainTypes' /\ SharedTypes' /\ ThreadTypes'
    BY <1>2 DEF DisableBlank, Goto, MainTypes, SharedTypes, ThreadTypes, flagVars,
                hidVars, toVars, fromVars
  <2>2. QueueOK(ojq')
    <3>1. "blank" \in Msg BY DEF Msg
    <3>2. PostUrgent(ojq, "blank", p2) BY <1>2 DEF DisableBlank
    <3>3. QED BY <3>1, <3>2, <1>0, QueuePost DEF PostUrgent
  <2>3. QueueOK(ijq') BY <1>2 DEF DisableBlank
  <2>4. QED BY <2>1, <2>2, <2>3 DEF QueueOK
<1>3. CASE StopBlank
  <2>1. MainTypes'
    BY <1>3, Orders DEF StopBlank, Goto, NextPanel, MainTypes
  <2>2. SharedTypes' /\ ThreadTypes'
    BY <1>3 DEF StopBlank, SharedTypes, ThreadTypes, flagVars, hidVars, toVars, fromVars
  <2>3. QueueOK(ojq')
    <3>1. "blank" \in Msg BY DEF Msg
    <3>2. PostUrgent(ojq, "blank", p1) \/ UNCHANGED ojq BY <1>3 DEF StopBlank
    <3>3. CASE PostUrgent(ojq, "blank", p1)
      BY <3>1, <3>3, <1>0, QueuePost DEF PostUrgent
    <3>4. QED BY <3>2, <3>3
  <2>4. QueueOK(ijq') BY <1>3 DEF StopBlank
  <2>5. QED BY <2>1, <2>2, <2>3, <2>4 DEF QueueOK
<1>4. ASSUME NEW e \in Events, PlaneEvent(e) PROVE TypeOK'
  <2>1. posts' \in [Panels -> Nat] BY <1>4, PostsAssumption DEF PlaneEvent
  <2>2. 1 \in 1..N BY Orders
  <2>3. MainTypes' BY <1>4, <2>1, <2>2 DEF PlaneEvent, Begin, MainTypes
  <2>4. SharedTypes' /\ ThreadTypes' /\ QueueOK(ojq') /\ QueueOK(ijq')
    BY <1>4 DEF PlaneEvent, SharedTypes, ThreadTypes, flagVars, hidVars, queues,
                toVars, fromVars
  <2>5. QED BY <2>3, <2>4 DEF QueueOK
<1>5. ASSUME NEW p \in Panels, SimCommand(p) PROVE TypeOK'
  <2>1. posts' \in [Panels -> Nat] BY <1>5, <1>m, PostsAssumption DEF SimCommand
  <2>2. 1 \in 1..N BY Orders
  <2>3. MainTypes' BY <1>5, <2>1, <2>2 DEF SimCommand, Begin, MainTypes
  <2>4. SharedTypes' /\ ThreadTypes' /\ QueueOK(ojq') /\ QueueOK(ijq')
    BY <1>5 DEF SimCommand, SharedTypes, ThreadTypes, flagVars, hidVars, queues,
                toVars, fromVars
  <2>5. QED BY <2>3, <2>4 DEF QueueOK
<1>6. ASSUME NEW p \in Panels, FlightLoop(p) PROVE TypeOK'
  <2>1. posts' \in [Panels -> Nat] BY <1>6, <1>m, PostsAssumption DEF FlightLoop
  <2>2. 1 \in 1..N BY Orders
  <2>3. MainTypes' BY <1>6, <2>1, <2>2 DEF FlightLoop, Begin, MainTypes
  <2>4. SharedTypes' /\ ThreadTypes' /\ QueueOK(ojq')
    BY <1>6 DEF FlightLoop, SharedTypes, ThreadTypes, flagVars, hidVars,
                toVars, fromVars
  <2>5. QueueOK(ijq')
    <3>1. Take(ijq, p) BY <1>6 DEF FlightLoop
    <3>2. QED BY <3>1, QueueTake DEF Take
  <2>6. QED BY <2>3, <2>4, <2>5 DEF QueueOK
<1>7. ASSUME NEW p \in Panels, MainPost(p) PROVE TypeOK'
  <2>1. posts' \in [Panels -> Nat]
    <3>1. posts[p] \in Nat /\ posts[p] > 0
      BY <1>7 DEF MainPost, PostTarget, MainTypes
    <3>2. posts' = [posts EXCEPT ![p] = @ - 1] BY <1>7 DEF MainPost
    <3>3. QED BY <3>1, <3>2 DEF MainTypes
  <2>2. MainTypes' BY <1>7, <2>1 DEF MainPost, MainTypes
  <2>3. SharedTypes' /\ ThreadTypes' /\ QueueOK(ijq')
    BY <1>7 DEF MainPost, SharedTypes, ThreadTypes, flagVars, hidVars, toVars, fromVars
  <2>4. QueueOK(ojq')
    <3>1. "sim" \in Msg /\ "crash" \in Msg BY DEF Msg
    <3>2. PICK m \in Msg : Post(ojq, m, p) BY <1>7, <3>1 DEF MainPost
    <3>3. QED BY <3>2, QueuePost DEF Post
  <2>5. QED BY <2>2, <2>3, <2>4 DEF QueueOK
<1>8. QED BY <1>1, <1>2, <1>3, <1>4, <1>5, <1>6, <1>7

(* Steps of the threads.                                                   *)
LEMMA TypeThread ==
  ASSUME TypeOK, NEW p \in Panels, ToStep(p) \/ FromStep(p) \/ Input(p)
  PROVE  TypeOK'
<1> USE DEF TypeOK
<1> DEFINE Frame == MainTypes' /\ SharedTypes'
<1>1. UNCHANGED <<mainVars, flagVars, hidVars, trig>>
  BY DEF ToStep, ToTest, ToWake, ToInit, ToInitWrite, ToGet, ToCheck, ToWrite,
         FromStep, FromTest, FromWake, FromLook, FromGate, FromPause, FromDecide,
         FromPost, FromPosted, Input
<1>2. MainTypes' /\ SharedTypes'
  BY <1>1 DEF MainTypes, SharedTypes, mainVars, flagVars, hidVars
<1>3. CASE ToGet(p)
  <2>1. QueueOK(ojq') /\ Head(ojq[p]) \in Msg BY <1>3, QueueTake DEF ToGet, Take
  <2>2. QueueOK(ijq') BY <1>3 DEF ToGet
  <2>3. ThreadTypes' BY <1>3, <2>1 DEF ToGet, ToGoto, ThreadTypes, fromVars
  <2>4. QED BY <1>2, <2>1, <2>2, <2>3 DEF QueueOK
<1>4. CASE FromPost(p)
  <2>1. outbox' \in [Panels -> Seq({"ijq", "ojq"})]
    <3>1. Tail(outbox[p]) \in Seq({"ijq", "ojq"}) BY <1>4 DEF FromPost, ThreadTypes
    <3>2. QED BY <1>4, <3>1 DEF FromPost, ThreadTypes
  <2>2. ThreadTypes' BY <1>4, <2>1 DEF FromPost, ThreadTypes, toVars
  <2>3. QueueOK(ojq') /\ QueueOK(ijq')
    <3>1. "knob" \in Msg BY DEF Msg
    <3>2. CASE Post(ijq, "knob", p) /\ UNCHANGED ojq
      BY <3>1, <3>2, QueuePost DEF Post
    <3>3. CASE Post(ojq, "knob", p) /\ UNCHANGED ijq
      BY <3>1, <3>3, QueuePost DEF Post
    <3>4. QED BY <1>4, <3>2, <3>3 DEF FromPost
  <2>4. QED BY <1>2, <2>2, <2>3 DEF QueueOK
<1>5. ASSUME ~ToGet(p), ~FromPost(p) PROVE UNCHANGED queues
  BY <1>5 DEF ToStep, ToTest, ToWake, ToInit, ToInitWrite, ToCheck, ToWrite,
         FromStep, FromTest, FromWake, FromLook, FromGate, FromPause, FromDecide,
         FromPosted, Input
<1>6. ASSUME ToStep(p), ~ToGet(p) PROVE ThreadTypes'
  BY <1>6 DEF ToStep, ToTest, ToWake, ToInit, ToInitWrite, ToCheck, ToWrite, ToGoto,
         ThreadTypes, fromVars
<1>7. CASE FromDecide(p)
  <2>1. outbox' \in [Panels -> Seq({"ijq", "ojq"})]
    <3>1. \A r \in Reports[p] : r \in Seq({"ijq", "ojq"}) BY PostsAssumption
    <3>2. outbox \in [Panels -> Seq({"ijq", "ojq"})] BY DEF ThreadTypes
    <3>3. (\E r \in Reports[p] : outbox' = [outbox EXCEPT ![p] = r]) \/ UNCHANGED outbox
      BY <1>7 DEF FromDecide
    <3>4. QED BY <3>1, <3>2, <3>3
  <2>2. QED BY <1>2, <1>7, <2>1 DEF FromDecide, FromGoto, ThreadTypes, toVars, queues, QueueOK
<1>8. ASSUME FromStep(p) \/ Input(p), ~FromPost(p), ~FromDecide(p) PROVE ThreadTypes'
  BY <1>8 DEF FromStep, FromTest, FromWake, FromLook, FromGate, FromPause,
         FromPosted, Input, FromGoto, ThreadTypes, toVars
<1>9. QED BY <1>2, <1>3, <1>4, <1>5, <1>6, <1>7, <1>8 DEF QueueOK, queues

LEMMA TypeNext == TypeOK /\ [Next]_vars => TypeOK'
<1> SUFFICES ASSUME TypeOK, [Next]_vars PROVE TypeOK' OBVIOUS
<1>1. CASE MainStep \/ Callback
  BY <1>1, TypeCallback, TypeQueueStep DEF MainStep, Callback
<1>2. CASE \E p \in Panels : ToStep(p) \/ FromStep(p) \/ Input(p)
  BY <1>2, TypeThread
<1>3. CASE UNCHANGED vars
  BY <1>3 DEF vars, mainVars, flagVars, hidVars, queues, toVars, fromVars,
         TypeOK, MainTypes, SharedTypes, QueueOK, ThreadTypes
<1>4. QED BY <1>1, <1>2, <1>3 DEF Next

(* Every variable keeps to its type, and no queue ever holds more than its *)
(* limit: whoever posts waits for room first (ptypes' jobqueue).           *)
THEOREM TypeCorrect == Spec => []TypeOK
<1>1. QED BY TypeInit, TypeNext, PTL DEF Spec

----------------------------------------------------------------------------
(* The handshake over the triggers.  Type correctness is not enough: which *)
(* triggers are set follows from how far the callback in progress is.      *)

\* Where each callback is, and that only a plugin at rest is enabled.
Control ==
  /\ plugin = "unloaded" =>
       /\ op = "idle" /\ ~enabled
       /\ \A p \in Panels : ~handle[p] /\ ~trig[p] /\ device[p] = "none"
                            /\ tpc[p] = "none" /\ fpc[p] = "none"
  /\ op = "idle" <=> at = "idle"
  /\ at = "post" => op \in {"command", "loaded", "crashed", "unloaded"}
  /\ enabled => at \in {"idle", "post"} /\ plugin = "enabled"
  /\ at \in {"arm", "flag"} => op = "enable"
  /\ at \in {"wake", "blank", "park"} => op = "disable"
  /\ at \in {"farewell", "release", "halt", "sleep", "close", "forget", "reset"}
       => op = "stop"
  /\ at = "release" => handle[OpenOrder[i]]
  /\ at \in {"blank", "park"} => handle[EnableOrder[i]]
  /\ at = "forget" => device[OpenOrder[i]] # "none"
  /\ at = "reset" => device[OpenOrder[i]] # "none" /\ ~handle[OpenOrder[i]]

\* XPluginEnable has armed the open panels it is through with.
Armed ==
  /\ at = "arm" => \A k \in 1..N :
       k < i /\ handle[EnableOrder[k]] => trig[EnableOrder[k]]
  /\ at = "flag" \/ enabled => \A p \in Panels : handle[p] => trig[p]

\* XPluginDisable has parked those it is through with.
Parked ==
  /\ at \in {"wake", "blank", "park"} => \A k \in 1..N :
       k < i /\ trig[EnableOrder[k]] => at # "wake" /\ EnableOrder[k] = EnableOrder[i]
  /\ op = "disable" /\ at \in {"purgeOut", "purgeIn"} => \A p \in Panels : ~trig[p]
  /\ plugin = "disabled" /\ op = "idle" => \A p \in Panels : ~trig[p]

\* No trigger is set without a handle, but in close_hid between the two.
Closed ==
  \A p \in Panels :
    /\ trig[p] /\ ~handle[p] => at = "reset" /\ p = OpenOrder[i]
    /\ handle[p] => device[p] # "none"

HandshakeInv == TypeOK /\ Control /\ Armed /\ Parked /\ Closed /\ AbsentNeverServed

LEMMA HandshakeInit == Init => HandshakeInv
<1> SUFFICES ASSUME Init PROVE HandshakeInv OBVIOUS
<1>1. Control /\ Armed /\ Parked /\ Closed /\ AbsentNeverServed
  BY Orders DEF Init, Control, Armed, Parked, Closed, AbsentNeverServed
<1>2. QED BY <1>1, TypeInit DEF HandshakeInv

(* The steps of the callbacks, but those that only fill or drain the posts *)
(* of a command or plane event.                                            *)
CallbackStep ==
  \/ Start \/ PurgeTake \/ PurgeNext \/ EnableBegin \/ EnableArm \/ EnableFlag
  \/ DisableBegin \/ DisableWake \/ DisableBlank \/ DisablePark
  \/ StopBegin \/ StopBlank \/ StopRelease \/ StopHalt \/ StopSleep
  \/ CloseDevice \/ CloseForget \/ CloseReset \/ MainPosted

LEMMA CallbackControl == HandshakeInv /\ CallbackStep => Control'
<1> SUFFICES ASSUME HandshakeInv, CallbackStep PROVE Control' OBVIOUS
<1> USE Orders DEF HandshakeInv, TypeOK, MainTypes, SharedTypes, Control, Control, Begin,
        Goto, NextPanel, Return, mainVars, flagVars, hidVars, toVars, fromVars
<1>1. CASE Start BY <1>1 DEF Start
<1>2. CASE PurgeTake BY <1>2 DEF PurgeTake
<1>3. CASE PurgeNext BY <1>3 DEF PurgeNext
<1>4. CASE EnableBegin BY <1>4 DEF EnableBegin
<1>5. CASE EnableArm BY <1>5 DEF EnableArm
<1>6. CASE EnableFlag BY <1>6 DEF EnableFlag
<1>7. CASE DisableBegin BY <1>7 DEF DisableBegin
<1>8. CASE DisableWake BY <1>8 DEF DisableWake
<1>9. CASE DisableBlank BY <1>9 DEF DisableBlank
<1>10. CASE DisablePark BY <1>10 DEF DisablePark
<1>11. CASE StopBegin BY <1>11 DEF StopBegin
<1>12. CASE StopBlank BY <1>12 DEF StopBlank
<1>13. CASE StopRelease BY <1>13 DEF StopRelease
<1>14. CASE StopHalt BY <1>14 DEF StopHalt
<1>15. CASE StopSleep BY <1>15 DEF StopSleep
<1>16. CASE CloseDevice BY <1>16 DEF CloseDevice
<1>17. CASE CloseForget BY <1>17 DEF CloseForget
<1>18. CASE CloseReset BY <1>18 DEF CloseReset
<1>19. CASE MainPosted BY <1>19 DEF MainPosted
<1>20. QED
  BY <1>1, <1>2, <1>3, <1>4, <1>5, <1>6, <1>7, <1>8, <1>9, <1>10, <1>11, <1>12, <1>13, <1>14, <1>15, <1>16, <1>17, <1>18, <1>19
  DEF CallbackStep

LEMMA CallbackArmed == HandshakeInv /\ CallbackStep => Armed'
<1> SUFFICES ASSUME HandshakeInv, CallbackStep PROVE Armed' OBVIOUS
<1>1. CASE EnableArm
  <2> DEFINE p == EnableOrder[i]
  <2>1. /\ at = "arm" /\ ~enabled /\ ~enabled' /\ handle' = handle
        /\ trig' = [trig EXCEPT ![p] = @ \/ handle[p]]
    BY <1>1 DEF HandshakeInv, Control, EnableArm, flagVars, hidVars
  <2>2. i \in 1..N /\ N \in Nat /\ trig \in [Panels -> BOOLEAN]
    BY Orders DEF HandshakeInv, TypeOK, MainTypes, SharedTypes
  <2>3. handle[p] => trig'[p] BY <2>1, <2>2, Orders
  <2>4. \A q \in Panels : trig[q] => trig'[q] BY <2>1, <2>2
  <2>5. \A k \in 1..i : handle[EnableOrder[k]] => trig'[EnableOrder[k]]
    <3> SUFFICES ASSUME NEW k \in 1..i, handle[EnableOrder[k]]
                 PROVE  trig'[EnableOrder[k]]
      OBVIOUS
    <3>1. CASE k = i BY <3>1, <2>3
    <3>2. CASE k # i
      <4>1. k \in 1..N /\ k < i BY <3>2, <2>2
      <4>2. trig[EnableOrder[k]] BY <4>1, <2>1 DEF HandshakeInv, Armed
      <4>3. QED BY <4>1, <4>2, <2>4, Orders
    <3>3. QED BY <3>1, <3>2
  <2>6. CASE i < N
    <3>1. at' = "arm" /\ i' = i + 1 BY <1>1, <2>6 DEF EnableArm, NextPanel
    <3>2. \A k \in 1..N : k < i' => k \in 1..i BY <3>1, <2>2
    <3>3. QED BY <3>1, <3>2, <2>1, <2>5 DEF Armed
  <2>7. CASE ~(i < N)
    <3>1. at' = "flag" /\ i = N BY <1>1, <2>7, <2>2 DEF EnableArm, NextPanel
    <3>2. \A q \in Panels : handle[q] => trig'[q] BY <3>1, <2>5, Orders
    <3>3. QED BY <3>1, <3>2, <2>1 DEF Armed
  <2>8. QED BY <2>6, <2>7
<1>2. CASE EnableFlag
  <2>1. at = "flag" /\ at' = "idle" /\ handle' = handle /\ trig' = trig
    BY <1>2 DEF EnableFlag, Return, hidVars
  <2>2. \A p \in Panels : handle[p] => trig[p]
    BY <2>1 DEF HandshakeInv, Armed
  <2>3. QED BY <2>1, <2>2 DEF Armed
<1>3. CASE MainPosted
  <2>1. /\ at' = "idle" /\ enabled' = enabled
        /\ handle' = handle /\ trig' = trig
    BY <1>3 DEF MainPosted, Return, flagVars, hidVars
  <2>2. enabled => \A p \in Panels : handle[p] => trig[p]
    BY DEF HandshakeInv, Armed
  <2>3. QED BY <2>1, <2>2 DEF Armed
<1>4. CASE PurgeNext
  <2>1. at' \in {"purgeOut", "purgeIn", "arm", "idle"} /\ ~enabled'
    BY <1>4 DEF HandshakeInv, Control, PurgeNext, Goto, NextPanel, Return, flagVars
  <2>2. at' = "arm" => i' = 1
    BY <1>4 DEF PurgeNext, Goto, NextPanel, Return
  <2>3. QED BY <2>1, <2>2, Orders DEF Armed
<1>5. CASE \/ Start \/ PurgeTake \/ EnableBegin
           \/ DisableBegin \/ DisableWake \/ DisableBlank \/ DisablePark
           \/ StopBegin \/ StopBlank \/ StopRelease \/ StopHalt \/ StopSleep
           \/ CloseDevice \/ CloseForget \/ CloseReset
  <2>1. at' \notin {"arm", "flag"} /\ ~enabled'
    BY <1>5 DEF HandshakeInv, Control, Start, PurgeTake, EnableBegin, DisableBegin,
       DisableWake, DisableBlank, DisablePark, StopBegin, StopBlank, StopRelease,
       StopHalt, StopSleep, CloseDevice, CloseForget, CloseReset,
       Begin, Goto, NextPanel, Return, mainVars, flagVars
  <2>2. QED BY <2>1 DEF Armed
<1>6. QED BY <1>1, <1>2, <1>3, <1>4, <1>5 DEF CallbackStep

LEMMA CallbackParked == HandshakeInv /\ CallbackStep => Parked'
<1> SUFFICES ASSUME HandshakeInv, CallbackStep PROVE Parked' OBVIOUS
<1> USE Orders DEF HandshakeInv, TypeOK, MainTypes, SharedTypes, Control, Parked, Begin,
        Goto, NextPanel, Return, mainVars, flagVars, hidVars, toVars, fromVars
<1>1. CASE Start BY <1>1 DEF Start, Closed
<1>2. CASE PurgeTake BY <1>2 DEF PurgeTake, Closed
<1>3. CASE PurgeNext BY <1>3 DEF PurgeNext, Closed
<1>4. CASE EnableBegin BY <1>4 DEF EnableBegin, Closed
<1>5. CASE EnableArm BY <1>5 DEF EnableArm, Closed
<1>6. CASE EnableFlag BY <1>6 DEF EnableFlag, Closed
<1>7. CASE DisableBegin BY <1>7 DEF DisableBegin, Closed
<1>8. CASE DisableWake
  <2>1. at = "wake" /\ UNCHANGED <<plugin, op>> BY <1>8 DEF DisableWake
  <2>2. CASE handle[EnableOrder[i]]
    <3>1. trig' = [trig EXCEPT ![EnableOrder[i]] = TRUE] /\ at' = "blank" /\ i' = i
      BY <1>8, <2>2 DEF DisableWake
    <3>2. ASSUME NEW k \in 1..N, k < i, trig'[EnableOrder[k]]
          PROVE  EnableOrder[k] = EnableOrder[i]
      BY <2>1, <3>1, <3>2
    <3>3. Parked'
      <4>1. \A k \in 1..N : k < i' /\ trig'[EnableOrder[k]] =>
               at' # "wake" /\ EnableOrder[k] = EnableOrder[i']
        BY <3>1, <3>2
      <4>2. op = "disable" BY <2>1
      <4>3. QED BY <2>1, <3>1, <4>1, <4>2
    <3>4. QED BY <3>3
  <2>3. CASE ~handle[EnableOrder[i]]
    <3>1. UNCHANGED trig /\ IF i < N THEN at' = "wake" /\ i' = i + 1 ELSE at' = "purgeOut"
      BY <1>8, <2>3 DEF DisableWake
    <3>2. ~trig[EnableOrder[i]] BY <2>1, <2>3 DEF Closed
    <3>3. \A k \in 1..N : k < i => ~trig[EnableOrder[k]] BY <2>1
    <3>4. ASSUME NEW k \in 1..N, k <= i PROVE ~trig'[EnableOrder[k]]
      <4>1. CASE k = i BY <4>1, <3>1, <3>2
      <4>2. CASE k < i BY <4>2, <3>1, <3>3
      <4>3. QED BY <3>4, <4>1, <4>2
    <3>5. CASE i < N BY <2>1, <3>1, <3>4, <3>5
    <3>6. CASE i = N
      <4>1. \A p \in Panels : ~trig'[p] BY <3>4, <3>6
      <4>2. QED BY <2>1, <3>1, <3>6, <4>1
    <3>7. QED BY <3>5, <3>6
  <2>4. QED BY <2>2, <2>3
<1>9. CASE DisableBlank BY <1>9 DEF DisableBlank, Closed
<1>10. CASE DisablePark
  <2>1. /\ at = "park" /\ UNCHANGED <<plugin, op>>
        /\ trig' = [trig EXCEPT ![EnableOrder[i]] = FALSE]
        /\ IF i < N THEN at' = "wake" /\ i' = i + 1 ELSE at' = "purgeOut"
    BY <1>10 DEF DisablePark
  <2>2. \A k \in 1..N : k < i /\ trig[EnableOrder[k]] => EnableOrder[k] = EnableOrder[i]
    BY <2>1
  <2>3. ASSUME NEW k \in 1..N, k <= i PROVE ~trig'[EnableOrder[k]]
    <3>1. EnableOrder[k] \in Panels /\ i \in 1..N OBVIOUS
    <3>2. CASE EnableOrder[k] = EnableOrder[i] BY <2>1, <3>1, <3>2
    <3>3. CASE EnableOrder[k] # EnableOrder[i]
      <4>1. k < i BY <2>3, <3>1, <3>3
      <4>2. ~trig[EnableOrder[k]] BY <2>2, <3>3, <4>1
      <4>3. QED BY <2>1, <3>1, <3>3, <4>2
    <3>4. QED BY <3>2, <3>3
  <2>4. CASE i < N BY <2>1, <2>3, <2>4
  <2>5. CASE i = N
    <3>1. \A p \in Panels : ~trig'[p] BY <2>3, <2>5
    <3>2. QED BY <2>1, <2>5, <3>1
  <2>6. QED BY <2>4, <2>5
<1>11. CASE StopBegin BY <1>11 DEF StopBegin, Closed
<1>12. CASE StopBlank BY <1>12 DEF StopBlank, Closed
<1>13. CASE StopRelease BY <1>13 DEF StopRelease, Closed
<1>14. CASE StopHalt BY <1>14 DEF StopHalt, Closed
<1>15. CASE StopSleep BY <1>15 DEF StopSleep, Closed
<1>16. CASE CloseDevice BY <1>16 DEF CloseDevice, Closed
<1>17. CASE CloseForget BY <1>17 DEF CloseForget, Closed
<1>18. CASE CloseReset BY <1>18 DEF CloseReset, Closed
<1>19. CASE MainPosted BY <1>19 DEF MainPosted, Closed
<1>20. QED
  BY <1>1, <1>2, <1>3, <1>4, <1>5, <1>6, <1>7, <1>8, <1>9, <1>10, <1>11, <1>12, <1>13, <1>14, <1>15, <1>16, <1>17, <1>18, <1>19
  DEF CallbackStep

LEMMA CallbackClosed == HandshakeInv /\ CallbackStep => Closed'
<1> SUFFICES ASSUME HandshakeInv, CallbackStep PROVE Closed' OBVIOUS
<1> USE Orders DEF HandshakeInv, TypeOK, MainTypes, SharedTypes, Control, Closed, Begin,
        Goto, NextPanel, Return, mainVars, flagVars, hidVars, toVars, fromVars
<1>1. CASE Start BY <1>1 DEF Start
<1>2. CASE PurgeTake BY <1>2 DEF PurgeTake
<1>3. CASE PurgeNext BY <1>3 DEF PurgeNext
<1>4. CASE EnableBegin BY <1>4 DEF EnableBegin
<1>5. CASE EnableArm BY <1>5 DEF EnableArm
<1>6. CASE EnableFlag BY <1>6 DEF EnableFlag
<1>7. CASE DisableBegin BY <1>7 DEF DisableBegin
<1>8. CASE DisableWake BY <1>8 DEF DisableWake
<1>9. CASE DisableBlank BY <1>9 DEF DisableBlank
<1>10. CASE DisablePark BY <1>10 DEF DisablePark
<1>11. CASE StopBegin BY <1>11 DEF StopBegin
<1>12. CASE StopBlank BY <1>12 DEF StopBlank
<1>13. CASE StopRelease BY <1>13 DEF StopRelease
<1>14. CASE StopHalt BY <1>14 DEF StopHalt
<1>15. CASE StopSleep BY <1>15 DEF StopSleep
<1>16. CASE CloseDevice BY <1>16 DEF CloseDevice
<1>17. CASE CloseForget BY <1>17 DEF CloseForget
<1>18. CASE CloseReset BY <1>18 DEF CloseReset
<1>19. CASE MainPosted BY <1>19 DEF MainPosted
<1>20. QED
  BY <1>1, <1>2, <1>3, <1>4, <1>5, <1>6, <1>7, <1>8, <1>9, <1>10, <1>11, <1>12, <1>13, <1>14, <1>15, <1>16, <1>17, <1>18, <1>19
  DEF CallbackStep

LEMMA CallbackAbsentNeverServed == HandshakeInv /\ CallbackStep => AbsentNeverServed'
<1> SUFFICES ASSUME HandshakeInv, CallbackStep PROVE AbsentNeverServed' OBVIOUS
<1> USE Orders DEF HandshakeInv, TypeOK, MainTypes, SharedTypes, Control, AbsentNeverServed, Begin,
        Goto, NextPanel, Return, mainVars, flagVars, hidVars, toVars, fromVars
<1>1. CASE Start BY <1>1 DEF Start, Closed
<1>2. CASE PurgeTake BY <1>2 DEF PurgeTake, Closed
<1>3. CASE PurgeNext BY <1>3 DEF PurgeNext, Closed
<1>4. CASE EnableBegin BY <1>4 DEF EnableBegin, Closed
<1>5. CASE EnableArm BY <1>5 DEF EnableArm, Closed
<1>6. CASE EnableFlag BY <1>6 DEF EnableFlag, Closed
<1>7. CASE DisableBegin BY <1>7 DEF DisableBegin, Closed
<1>8. CASE DisableWake BY <1>8 DEF DisableWake, Closed
<1>9. CASE DisableBlank BY <1>9 DEF DisableBlank, Closed
<1>10. CASE DisablePark BY <1>10 DEF DisablePark, Closed
<1>11. CASE StopBegin BY <1>11 DEF StopBegin, Closed
<1>12. CASE StopBlank BY <1>12 DEF StopBlank, Closed
<1>13. CASE StopRelease BY <1>13 DEF StopRelease, Closed
<1>14. CASE StopHalt BY <1>14 DEF StopHalt, Closed
<1>15. CASE StopSleep BY <1>15 DEF StopSleep, Closed
<1>16. CASE CloseDevice BY <1>16 DEF CloseDevice, Closed
<1>17. CASE CloseForget BY <1>17 DEF CloseForget, Closed
<1>18. CASE CloseReset BY <1>18 DEF CloseReset, Closed
<1>19. CASE MainPosted BY <1>19 DEF MainPosted, Closed
<1>20. QED
  BY <1>1, <1>2, <1>3, <1>4, <1>5, <1>6, <1>7, <1>8, <1>9, <1>10, <1>11, <1>12, <1>13, <1>14, <1>15, <1>16, <1>17, <1>18, <1>19
  DEF CallbackStep

(* The steps of the threads, and those of the main thread that post for a  *)
(* command or plane event, leave the triggers and the handles alone.       *)
PostingStep ==
  \/ \E e \in Events : PlaneEvent(e)
  \/ \E p \in Panels : SimCommand(p) \/ FlightLoop(p) \/ MainPost(p)

LEMMA HandshakePosting == HandshakeInv /\ PostingStep => HandshakeInv'
<1> SUFFICES ASSUME HandshakeInv, PostingStep PROVE HandshakeInv' OBVIOUS
<1>1. TypeOK'
  BY TypeQueueStep DEF PostingStep, HandshakeInv
<1>2. /\ UNCHANGED <<plugin, planeLoaded, flagVars, hidVars, trig, toVars, fromVars>>
      /\ \/ at = "idle" /\ at' = "post" /\ op' \in {"command", "loaded", "crashed", "unloaded"}
         \/ at = "post" /\ UNCHANGED <<at, op, i>>
      /\ plugin # "unloaded"
  <2>1. ASSUME NEW e \in Events, PlaneEvent(e)
        PROVE  /\ UNCHANGED <<plugin, planeLoaded, flagVars, hidVars, trig, toVars, fromVars>>
               /\ plugin = "enabled" /\ op = "idle" /\ op' = e /\ at' = "post"
    BY <2>1 DEF PlaneEvent, Begin
  <2>2. ASSUME NEW p \in Panels, SimCommand(p) \/ FlightLoop(p)
        PROVE  /\ UNCHANGED <<plugin, planeLoaded, flagVars, hidVars, trig, toVars, fromVars>>
               /\ plugin = "enabled" /\ op = "idle" /\ op' = "command" /\ at' = "post"
    BY <2>2 DEF SimCommand, FlightLoop, Begin
  <2>3. ASSUME NEW p \in Panels, MainPost(p)
        PROVE  /\ UNCHANGED <<plugin, planeLoaded, flagVars, hidVars, trig, toVars, fromVars>>
               /\ at = "post" /\ UNCHANGED <<at, op, i>>
    BY <2>3 DEF MainPost
  <2>4. CASE \E e \in Events : PlaneEvent(e)
    <3>1. PICK e \in Events : PlaneEvent(e) BY <2>4
    <3>2. at = "idle" /\ plugin # "unloaded" BY <2>1, <3>1 DEF HandshakeInv, Control
    <3>3. op' \in {"loaded", "crashed", "unloaded"} BY <2>1, <3>1 DEF Events
    <3>4. QED BY <2>1, <3>1, <3>2, <3>3
  <2>5. CASE \E p \in Panels : SimCommand(p) \/ FlightLoop(p)
    BY <2>2, <2>5 DEF HandshakeInv, Control
  <2>6. CASE \E p \in Panels : MainPost(p)
    BY <2>3, <2>6 DEF HandshakeInv, Control
  <2>7. QED BY <2>4, <2>5, <2>6 DEF PostingStep
<1>3. Control' /\ Armed' /\ Parked' /\ Closed' /\ AbsentNeverServed'
  BY <1>2 DEF HandshakeInv, Control, Armed, Parked, Closed, AbsentNeverServed, flagVars,
     hidVars, toVars, fromVars
<1>4. QED BY <1>1, <1>3 DEF HandshakeInv

LEMMA HandshakeThread ==
  ASSUME HandshakeInv, NEW p \in Panels, ToStep(p) \/ FromStep(p) \/ Input(p)
  PROVE  HandshakeInv'
<1>1. TypeOK' BY TypeThread DEF HandshakeInv
<1>2. UNCHANGED <<mainVars, flagVars, hidVars, trig>>
  BY DEF ToStep, ToTest, ToWake, ToInit, ToInitWrite, ToGet, ToCheck, ToWrite,
         FromStep, FromTest, FromWake, FromLook, FromGate, FromPause, FromDecide,
         FromPost, FromPosted, Input
<1>3. plugin # "unloaded"
  BY DEF HandshakeInv, Control, ToStep, ToTest, ToWake, ToInit, ToInitWrite, ToGet,
         ToCheck, ToWrite, FromStep, FromTest, FromWake, FromLook, FromGate, FromPause,
         FromDecide, FromPost, FromPosted, Input
<1>4. Control' /\ Armed' /\ Parked' /\ Closed'
  BY <1>2, <1>3 DEF HandshakeInv, Control, Armed, Parked, Closed, mainVars, flagVars, hidVars
<1>5. AbsentNeverServed'
  <2> USE <1>2 DEF HandshakeInv, TypeOK, ThreadTypes, AbsentNeverServed, hidVars
  <2>1. CASE ToStep(p)
    BY <2>1 DEF ToStep, ToTest, ToWake, ToInit, ToInitWrite, ToGet, ToCheck, ToWrite,
       ToGoto, fromVars
  <2>2. CASE FromStep(p) \/ Input(p)
    BY <2>2 DEF FromStep, FromTest, FromWake, FromLook, FromGate, FromPause, FromDecide,
       FromPost, FromPosted, Input, FromGoto, toVars
  <2>3. QED BY <2>1, <2>2
<1>6. QED BY <1>1, <1>4, <1>5 DEF HandshakeInv

LEMMA HandshakeNext == HandshakeInv /\ [Next]_vars => HandshakeInv'
<1> SUFFICES ASSUME HandshakeInv, [Next]_vars PROVE HandshakeInv' OBVIOUS
<1>1. CASE CallbackStep
  <2>1. Next BY <1>1 DEF CallbackStep, Next, MainStep, Callback
  <2>2. TypeOK' BY <2>1, TypeNext DEF HandshakeInv
  <2>3. QED
    BY <1>1, <2>2, CallbackControl, CallbackArmed, CallbackParked, CallbackClosed,
       CallbackAbsentNeverServed DEF HandshakeInv
<1>2. CASE PostingStep BY <1>2, HandshakePosting
<1>3. CASE \E p \in Panels : ToStep(p) \/ FromStep(p) \/ Input(p)
  BY <1>3, HandshakeThread
<1>4. CASE UNCHANGED vars
  <2>1. TypeOK' BY <1>4, TypeNext DEF HandshakeInv
  <2>2. QED
    BY <1>4, <2>1 DEF vars, mainVars, flagVars, hidVars, toVars, fromVars, HandshakeInv,
       Control, Armed, Parked, Closed, AbsentNeverServed
<1>5. QED BY <1>1, <1>2, <1>3, <1>4 DEF Next, MainStep, Callback, CallbackStep, PostingStep

LEMMA Handshake == Spec => []HandshakeInv
BY HandshakeInit, HandshakeNext, PTL DEF Spec

(* XPluginEnable, XPluginDisable and XPluginStop never leave the plugin    *)
(* enabled while the threads of a panel it opened wait on their trigger.   *)
THEOREM NoSleeperWhenEnabled == Spec => []AwakeWhenEnabled
<1>1. HandshakeInv => AwakeWhenEnabled BY DEF HandshakeInv, Armed, AwakeWhenEnabled
<1>2. QED BY <1>1, Handshake, PTL

(* A disabled plugin has parked the threads of every panel, whatever the   *)
(* two orders in which XPluginDisable and XPluginStop go through them.     *)
THEOREM DisabledParks == Spec => []ParkedWhenDisabled
<1>1. HandshakeInv => ParkedWhenDisabled BY DEF HandshakeInv, Parked, ParkedWhenDisabled
<1>2. QED BY <1>1, Handshake, PTL

(* The threads of a panel that was not opened never pass their first wait. *)
THEOREM AbsentSleeps == Spec => []AbsentNeverServed
<1>1. HandshakeInv => AbsentNeverServed BY DEF HandshakeInv
<1>2. QED BY <1>1, Handshake, PTL
============================================================================
