-------------------------- MODULE MultiPanel_proofs --------------------------
(* Theorems about MultiPanel, for any threshold, any set of dials, any     *)
(* reports, and any number of registrations of the command handler.        *)
EXTENDS MultiPanel, TLAPS

(* What mp_processing makes of a report.                                   *)
LEMMA AskedType ==
  ASSUME NEW r \in Reports
  PROVE  Append(Asked(r), <<"throttle", r.throttle>>) \in Seq(Msg)
<1>1. r \in AllReports BY MultiAssumption
<1>2. <<"throttle", r.throttle>> \in Msg BY <1>1 DEF AllReports, Msg, Watched
<1>3. Asked(r) \in Seq(Msg)
  <2>1. CASE r.btn # "none"
    <3>1. r.btn # "many" => <<"button", r.btn>> \in Msg
      BY <1>1, <2>1 DEF AllReports, Msg, Plain
    <3>2. Asked(r) = IF r.btn = "many" THEN <<>> ELSE << <<"button", r.btn>> >>
      BY <2>1 DEF Asked
    <3>3. QED BY <3>1, <3>2
  <2>2. CASE r.btn = "none" /\ r.flaps # "none"
    <3>1. r.flaps # "both" => <<"flaps", r.flaps>> \in Msg
      BY <1>1, <2>2 DEF AllReports, Msg, Watched, Flaps, Dirs
    <3>2. Asked(r) = IF r.flaps = "both" THEN <<>> ELSE << <<"flaps", r.flaps>> >>
      BY <2>2 DEF Asked
    <3>3. QED BY <3>1, <3>2
  <2>3. CASE r.btn = "none" /\ r.flaps = "none" /\ r.trim # "none"
    <3>1. r.trim # "both" => <<"trim", r.trim>> \in Msg
      BY <1>1, <2>3 DEF AllReports, Msg, Plain, Dirs
    <3>2. Asked(r) = IF r.trim = "both" THEN <<>> ELSE << <<"trim", r.trim>> >>
      BY <2>3 DEF Asked
    <3>3. QED BY <3>1, <3>2
  <2>4. CASE r.btn = "none" /\ r.flaps = "none" /\ r.trim = "none"
    <3>1. r.tuning # "none" => <<"turn", r.knob, r.tuning>> \in Msg
      BY <1>1, <2>4 DEF AllReports, Msg, Turns, Dirs
    <3>2. Asked(r) = IF r.tuning = "none" THEN <<>> ELSE << <<"turn", r.knob, r.tuning>> >>
      BY <2>4 DEF Asked
    <3>3. QED BY <3>1, <3>2
  <2>5. QED BY <2>1, <2>2, <2>3, <2>4
<1>4. QED BY <1>2, <1>3

(* What the handlers do to a pending count in one XPLMCommandOnce.         *)
LEMMA PendingLeft ==
  ASSUME NEW c \in Watched, NEW n \in Nat
  PROVE  LET b == Passes(c, n)
             e == Passes(c, b.left)
         IN  /\ e.left \in Nat
             /\ n <= 1 /\ Registered[c] > 0 => e.left = 0
<1>1. Registered[c] \in Nat BY MultiAssumption
<1>2. QED BY <1>1 DEF Passes

(* Taking a message leaves a queue of the right type.                      *)
LEMMA TakeType ==
  ASSUME TypeOK, NEW m, TakeMsg(m)
  PROVE  ijq' \in Seq(Msg) /\ Len(ijq') <= QueueBound /\ m \in Msg
<1>1. ijq \in Seq(Msg) /\ ijq # <<>> /\ ijq' = Tail(ijq) /\ m = Head(ijq)
  BY DEF TypeOK, TakeMsg
<1>2. Tail(ijq) \in Seq(Msg) /\ Len(Tail(ijq)) = Len(ijq) - 1 /\ Head(ijq) \in Msg
  BY <1>1
<1>3. Len(ijq) \in Nat /\ Len(ijq) <= QueueBound BY <1>1 DEF TypeOK
<1>4. QED BY <1>1, <1>2, <1>3, MultiAssumption

----------------------------------------------------------------------------
(* The invariant: OneTurnCounts is inductive with the types alone, and so  *)
(* is NothingLeftPending, as the flight loop counts a command as pending   *)
(* and runs it in one step of the main thread.                             *)
PanelInv == TypeOK /\ OneTurnCounts /\ NothingLeftPending

LEMMA PanelInit == Init => PanelInv
<1> SUFFICES ASSUME Init PROVE PanelInv OBVIOUS
<1>1. TypeOK
  <2>1. <<>> \in Seq(Msg) /\ Len(<<>>) = 0 OBVIOUS
  <2>2. 0 \in 0..(Thresh - 1) BY MultiAssumption
  <2>3. outbox \in Seq(Msg) /\ ijq \in Seq(Msg) /\ Len(ijq) <= QueueBound
    BY <2>1, MultiAssumption DEF Init
  <2>4. cnt \in [Turns -> 0..(Thresh - 1)] /\ pending \in [Watched -> Nat]
    BY <2>2 DEF Init
  <2>5. QED BY <2>3, <2>4 DEF Init, TypeOK
<1>2. OneTurnCounts /\ NothingLeftPending BY DEF Init, OneTurnCounts, NothingLeftPending
<1>3. QED BY <1>1, <1>2 DEF PanelInv

(* What XPLMCommandOnce does with at most one command pending.             *)
LEMMA OnceInv ==
  ASSUME PanelInv, NEW c \in Watched, NEW n \in Nat, CommandOnce(c, n),
         Registered[c] > 0 => n <= 1
  PROVE  /\ pending' \in [Watched -> Nat] /\ sim' \in Msg \cup {None}
         /\ held' \subseteq Watched /\ NothingLeftPending'
<1> DEFINE left == Passes(c, Passes(c, n).left).left
<1>1. left \in Nat /\ (Registered[c] > 0 => left = 0) BY PendingLeft
<1>2. pending' = [pending EXCEPT ![c] = left] BY DEF CommandOnce
<1>3. pending \in [Watched -> Nat] BY DEF PanelInv, TypeOK
<1>4. pending' \in [Watched -> Nat] BY <1>1, <1>2, <1>3
<1>5. NothingLeftPending'
  BY <1>1, <1>2, <1>3 DEF PanelInv, NothingLeftPending
<1>6. sim' \in Msg \cup {None} BY DEF CommandOnce, Msg
<1>7. held' \subseteq Watched BY DEF CommandOnce, PanelInv, TypeOK
<1>8. QED BY <1>4, <1>5, <1>6, <1>7

LEMMA PanelNext == PanelInv /\ [Next]_vars => PanelInv'
<1> SUFFICES ASSUME PanelInv, [Next]_vars PROVE PanelInv' OBVIOUS
<1> USE DEF PanelInv
<1>a. UNCHANGED cnt => OneTurnCounts' BY DEF OneTurnCounts
<1>b. UNCHANGED pending => NothingLeftPending' BY DEF NothingLeftPending
<1>1. ASSUME NEW r \in Reports, Report(r) PROVE PanelInv'
  <2>1. outbox' \in Seq(Msg) BY <1>1, AskedType DEF Report
  <2>2. TypeOK' BY <1>1, <2>1 DEF Report, TypeOK, powerVars, simVars
  <2>3. QED BY <1>1, <1>a, <1>b, <2>2 DEF Report, simVars
<1>2. CASE Deliver
  <2>1. outbox \in Seq(Msg) /\ outbox # <<>> /\ ijq \in Seq(Msg) /\ Len(ijq) < QueueBound
    BY <1>2 DEF Deliver, TypeOK
  <2>2. Head(outbox) \in Msg /\ Tail(outbox) \in Seq(Msg) BY <2>1
  <2>3. /\ Append(ijq, Head(outbox)) \in Seq(Msg)
        /\ Len(Append(ijq, Head(outbox))) = Len(ijq) + 1
    BY <2>1, <2>2
  <2>4. Len(ijq) + 1 <= QueueBound BY <2>1, MultiAssumption
  <2>5. TypeOK' BY <1>2, <2>2, <2>3, <2>4 DEF Deliver, TypeOK, powerVars, simVars
  <2>6. QED BY <1>2, <1>a, <1>b, <2>5 DEF Deliver, simVars
<1>3. ASSUME NEW c \in Watched, Keyboard(c) PROVE PanelInv'
  <2>1. /\ pending' \in [Watched -> Nat] /\ sim' \in Msg \cup {None}
        /\ held' \subseteq Watched /\ NothingLeftPending'
    <3>1. CASE CommandOnce(c, pending[c])
      <4>1. pending[c] \in Nat /\ (Registered[c] > 0 => pending[c] <= 1)
        BY DEF TypeOK, NothingLeftPending
      <4>2. QED BY <3>1, <4>1, OnceInv
    <3>2. CASE sim' = c /\ held' = held \ {c} /\ UNCHANGED pending
      BY <3>2, <1>b DEF TypeOK, Msg
    <3>3. QED BY <1>3, <3>1, <3>2 DEF Keyboard
  <2>2. TypeOK' BY <1>3, <2>1 DEF Keyboard, TypeOK, powerVars
  <2>3. QED BY <1>3, <1>a, <2>1, <2>2 DEF Keyboard
<1>4. ASSUME NEW c \in Watched, WatchedOnce(c) PROVE PanelInv'
  <2>1. /\ pending' \in [Watched -> Nat] /\ sim' \in Msg \cup {None}
        /\ held' \subseteq Watched /\ NothingLeftPending'
    <3>1. pending[c] + 1 \in Nat /\ (Registered[c] > 0 => pending[c] + 1 <= 1)
      BY DEF TypeOK, NothingLeftPending
    <3>2. QED BY <1>4, <3>1, OnceInv DEF WatchedOnce
  <2>2. ijq' \in Seq(Msg) /\ Len(ijq') <= QueueBound BY <1>4, TakeType DEF WatchedOnce
  <2>3. TypeOK' BY <1>4, <2>1, <2>2 DEF WatchedOnce, TypeOK, powerVars
  <2>4. QED BY <1>4, <1>a, <2>1, <2>3 DEF WatchedOnce
<1>5. CASE Drop
  <2>1. ijq' \in Seq(Msg) /\ Len(ijq') <= QueueBound BY <1>5, TakeType DEF Drop
  <2>2. TypeOK' BY <1>5, <2>1 DEF Drop, TypeOK, powerVars, simVars
  <2>3. QED BY <1>5, <1>a, <1>b, <2>2 DEF Drop, simVars
<1>6. ASSUME NEW t \in Turns, Turn(t) PROVE PanelInv'
  <2>1. ijq' \in Seq(Msg) /\ Len(ijq') <= QueueBound BY <1>6, TakeType DEF Turn
  <2>2. cnt[t] \in Nat /\ Thresh \in Nat /\ 0 \in 0..(Thresh - 1)
    BY MultiAssumption DEF TypeOK
  <2>3. cnt' = [u \in Turns |-> IF u = t /\ cnt[t] + 1 < Thresh THEN cnt[t] + 1 ELSE 0]
    BY <1>6 DEF Turn
  <2>4. cnt' \in [Turns -> 0..(Thresh - 1)]
    <3>1. cnt[t] + 1 < Thresh => cnt[t] + 1 \in 0..(Thresh - 1) BY <2>2
    <3>2. QED BY <2>2, <2>3, <3>1
  <2>5. OneTurnCounts' BY <2>3 DEF OneTurnCounts
  <2>6. sim' \in Msg \cup {None} BY <1>6 DEF Turn, Msg
  <2>7. TypeOK' BY <1>6, <2>1, <2>4, <2>6 DEF Turn, TypeOK, powerVars
  <2>8. QED BY <1>6, <1>b, <2>5, <2>7 DEF Turn
<1>7. ASSUME NEW c \in Plain, PlainOnce(c) PROVE PanelInv'
  <2>1. ijq' \in Seq(Msg) /\ Len(ijq') <= QueueBound BY <1>7, TakeType DEF PlainOnce
  <2>2. sim' \in Msg \cup {None} BY <1>7 DEF PlainOnce, Msg
  <2>3. TypeOK' BY <1>7, <2>1, <2>2 DEF PlainOnce, TypeOK, powerVars
  <2>4. QED BY <1>7, <1>a, <1>b, <2>3 DEF PlainOnce
<1>8. CASE Enable \/ Disable \/ PlaneLoaded \/ PlaneUnloaded
  <2>1. ijq' \in Seq(Msg) /\ Len(ijq') <= QueueBound
    <3>1. <<>> \in Seq(Msg) /\ Len(<<>>) <= QueueBound BY MultiAssumption
    <3>2. QED
      BY <1>8, <3>1 DEF Enable, Disable, PlaneLoaded, PlaneUnloaded, TypeOK
  <2>2. TypeOK'
    BY <1>8, <2>1 DEF Enable, Disable, PlaneLoaded, PlaneUnloaded, TypeOK, powerVars, simVars
  <2>3. QED
    BY <1>8, <1>a, <1>b, <2>2 DEF Enable, Disable, PlaneLoaded, PlaneUnloaded, simVars
<1>9. CASE UNCHANGED vars
  BY <1>9, <1>a, <1>b DEF vars, powerVars, simVars, TypeOK
<1>10. QED
  BY <1>1, <1>2, <1>3, <1>4, <1>5, <1>6, <1>7, <1>8, <1>9 DEF Next

LEMMA PanelInvariant == Spec => []PanelInv
BY PanelInit, PanelNext, PTL DEF Spec

(* Every variable keeps to its type; above all, no detent counter reaches  *)
(* the threshold.                                                          *)
THEOREM PanelTypes == Spec => []TypeOK
<1>1. PanelInv => TypeOK BY DEF PanelInv
<1>2. QED BY <1>1, PanelInvariant, PTL

(* However turns, buttons, power and purges follow each other, detents of  *)
(* two turns are never counted at the same time.                           *)
THEOREM TurnsNeverMix == Spec => []OneTurnCounts
<1>1. PanelInv => OneTurnCounts BY DEF PanelInv
<1>2. QED BY <1>1, PanelInvariant, PTL

(* However often the handler of a command is registered, once or more, no  *)
(* pending count outlives the callback that made it.                       *)
THEOREM PendingSettled == Spec => []NothingLeftPending
<1>1. PanelInv => NothingLeftPending BY DEF PanelInv
<1>2. QED BY <1>1, PanelInvariant, PTL

----------------------------------------------------------------------------
(* The ten counters implement the one of DetentCounter.                    *)
LEMMA Kinds ==
  /\ None \notin Turns
  /\ \A c \in Watched \cup Plain : c \notin Turns
<1>1. \A t \in Turns : Len(t) = 3 BY DEF Turns
<1>2. \A c \in Watched \cup Plain : Len(c) = 2 BY DEF Watched, Flaps, Plain
<1>3. Len(None) = 0 BY DEF None
<1>4. QED BY <1>1, <1>2, <1>3

\* The turn and count read off the ten counters.
LEMMA ReadNone ==
  ASSUME NEW c, \A t \in Turns : c[t] = 0
  PROVE  TurnOf(c) = None /\ CountOf(c) = 0
BY DEF TurnOf, CountOf

LEMMA ReadOne ==
  ASSUME NEW c, NEW t \in Turns, c[t] > 0, \A u \in Turns : c[u] > 0 => u = t
  PROVE  TurnOf(c) = t /\ CountOf(c) = c[t]
BY DEF TurnOf, CountOf

\* Counting one more detent of a turn, as one counter of ten or as the only.
LEMMA OneMore ==
  ASSUME PanelInv, NEW t \in Turns
  PROVE  Detents!InARow(t) = cnt[t] + 1
<1>1. cnt[t] \in Nat /\ \A u \in Turns : cnt[u] \in Nat BY DEF PanelInv, TypeOK
<1>2. CASE cnt[t] > 0
  <2>1. TurnOf(cnt) = t /\ CountOf(cnt) = cnt[t]
    BY <1>2, ReadOne DEF PanelInv, OneTurnCounts
  <2>2. QED BY <2>1 DEF Detents!InARow
<1>3. CASE cnt[t] = 0
  <2>1. TurnOf(cnt) # t
    <3>1. CASE \E u \in Turns : cnt[u] > 0
      <4>1. PICK u \in Turns : cnt[u] > 0 BY <3>1
      <4>2. TurnOf(cnt) = u BY <4>1, ReadOne DEF PanelInv, OneTurnCounts
      <4>3. QED BY <1>3, <4>1, <4>2
    <3>2. CASE \A u \in Turns : cnt[u] = 0
      BY <3>2, ReadNone, Kinds
    <3>3. QED BY <1>1, <3>1, <3>2
  <2>2. QED BY <1>3, <2>1 DEF Detents!InARow
<1>4. QED BY <1>1, <1>2, <1>3

LEMMA TurnCounts ==
  ASSUME PanelInv, NEW t \in Turns, Turn(t)
  PROVE  Detents!Count(t) \/ Detents!Fire(t)
<1>1. cnt[t] \in 0..(Thresh - 1) /\ Thresh \in Nat BY MultiAssumption DEF PanelInv, TypeOK
<1>2. Detents!InARow(t) = cnt[t] + 1 BY OneMore
<1>3. cnt' = [u \in Turns |-> IF u = t /\ cnt[t] + 1 < Thresh THEN cnt[t] + 1 ELSE 0]
  BY DEF Turn
<1>4. sim' = IF cnt[t] + 1 >= Thresh THEN t ELSE None BY DEF Turn
<1>5. CASE cnt[t] + 1 < Thresh
  <2>1. cnt'[t] = cnt[t] + 1 /\ \A u \in Turns : cnt'[u] > 0 => u = t BY <1>3, <1>5
  <2>2. TurnOf(cnt') = t /\ CountOf(cnt') = cnt[t] + 1 BY <1>1, <2>1, ReadOne
  <2>3. Fired(sim') = None BY <1>1, <1>4, <1>5, Kinds DEF Fired
  <2>4. QED BY <1>2, <1>5, <2>2, <2>3 DEF Detents!Count
<1>6. CASE cnt[t] + 1 >= Thresh
  <2>1. cnt[t] + 1 = Thresh BY <1>1, <1>6
  <2>2. TurnOf(cnt') = None /\ CountOf(cnt') = 0 BY <1>1, <1>3, <1>6, ReadNone
  <2>3. Fired(sim') = t BY <1>4, <1>6 DEF Fired
  <2>4. QED BY <1>2, <2>1, <2>2, <2>3 DEF Detents!Fire
<1>7. QED BY <1>1, <1>5, <1>6

LEMMA DetentNext ==
  PanelInv /\ [Next]_vars => [Detents!Next]_<<TurnOf(cnt), CountOf(cnt), Fired(sim)>>
<1> SUFFICES ASSUME PanelInv, [Next]_vars
             PROVE  [Detents!Next]_<<TurnOf(cnt), CountOf(cnt), Fired(sim)>>
  OBVIOUS
<1>1. ASSUME NEW t \in Turns, Turn(t) PROVE Detents!Next
  BY <1>1, TurnCounts DEF Detents!Next
<1>2. ASSUME UNCHANGED cnt, sim' \notin Turns PROVE Detents!Next
  BY <1>2 DEF Detents!Next, Detents!Other, Fired
<1>3. ASSUME UNCHANGED <<cnt, sim>>
      PROVE  UNCHANGED <<TurnOf(cnt), CountOf(cnt), Fired(sim)>>
  BY <1>3
<1>4. ASSUME NEW c \in Watched, Keyboard(c) \/ WatchedOnce(c) PROVE Detents!Next
  <2>1. UNCHANGED cnt /\ sim' \in {c, None}
    BY <1>4 DEF Keyboard, WatchedOnce, CommandOnce
  <2>2. QED BY <1>2, <2>1, Kinds
<1>5. ASSUME NEW c \in Plain, PlainOnce(c) PROVE Detents!Next
  <2>1. UNCHANGED cnt /\ sim' \in {c, None} BY <1>5 DEF PlainOnce
  <2>2. QED BY <1>2, <2>1, Kinds
<1>6. CASE (\E r \in Reports : Report(r)) \/ Deliver \/ Drop \/ Enable \/ Disable
           \/ PlaneLoaded \/ PlaneUnloaded \/ UNCHANGED vars
  <2>1. UNCHANGED <<cnt, sim>>
    BY <1>6 DEF Report, Deliver, Drop, Enable, Disable, PlaneLoaded, PlaneUnloaded, vars,
       simVars
  <2>2. QED BY <1>3, <2>1
<1>7. QED BY <1>1, <1>4, <1>5, <1>6 DEF Next

(* The command of a turn runs exactly when the flight loop has acted on    *)
(* Thresh detents of it in a row, whatever came in between.                *)
THEOREM TenCountersAreOne == Spec => CountsDetents
<1>1. Init => Detents!Init
  <2> SUFFICES ASSUME Init PROVE Detents!Init OBVIOUS
  <2>1. \A t \in Turns : cnt[t] = 0 BY DEF Init
  <2>2. TurnOf(cnt) = None /\ CountOf(cnt) = 0 BY <2>1, ReadNone
  <2>3. Fired(sim) = None BY Kinds DEF Init, Fired
  <2>4. QED BY <2>2, <2>3 DEF Detents!Init
<1>2. QED
  BY <1>1, DetentNext, PanelInvariant, PTL DEF Spec, CountsDetents, Detents!Spec

----------------------------------------------------------------------------
(* What the pending counts are for.                                        *)
LEMMA KindsApart ==
  ASSUME NEW c \in Watched
  PROVE  c # None /\ c \notin Turns /\ c \notin Plain
<1>1. Len(c) = 2 /\ c[1] \in {"flaps", "throttle"} BY DEF Watched, Flaps
<1>2. \A d \in Plain : d[1] \in {"trim", "button"} BY DEF Plain
<1>3. c # None BY <1>1, Len(<<>>) = 0 DEF None
<1>4. QED BY <1>1, <1>2, <1>3, Kinds

(* Which steps take a message out of ijq: those of the flight loop.        *)
LEMMA Takers ==
  ASSUME PanelInv, Next, enabled, enabled', ijq # <<>>, ijq' = Tail(ijq)
  PROVE  \/ Drop
         \/ \E t \in Turns : Turn(t) /\ Head(ijq) = t
         \/ \E c \in Plain : PlainOnce(c) /\ Head(ijq) = c
         \/ \E c \in Watched : WatchedOnce(c) /\ Head(ijq) = c
<1>1. ijq \in Seq(Msg) BY DEF PanelInv, TypeOK
<1>2. Len(Tail(ijq)) = Len(ijq) - 1 /\ Len(ijq) \in Nat BY <1>1
<1>3. Len(ijq') = Len(ijq) - 1 BY <1>2
<1>a. Len(ijq') # Len(ijq) /\ Len(ijq') # Len(ijq) + 1
  <2> DEFINE n == Len(ijq)
             n1 == Len(ijq')
  <2>1. n \in Nat /\ n1 = n - 1 BY <1>2, <1>3
  <2> HIDE DEF n, n1
  <2>2. n1 # n /\ n1 # n + 1 BY <2>1
  <2>3. QED BY <2>2 DEF n, n1
<1>b. ijq' # ijq BY <1>a
<1>4. ~Deliver
  <2>1. ASSUME Deliver PROVE Len(ijq') = Len(ijq) + 1
    <3>1. ijq' = Append(ijq, Head(outbox)) /\ outbox \in Seq(Msg) /\ outbox # <<>>
      BY <2>1 DEF Deliver, PanelInv, TypeOK
    <3>2. Head(outbox) \in Msg BY <3>1
    <3>3. QED BY <1>1, <3>1, <3>2
  <2>2. QED BY <1>a, <2>1
<1>5. ~Enable /\ ~Disable /\ ~PlaneLoaded /\ ~PlaneUnloaded
  BY <1>b DEF Enable, Disable, PlaneLoaded, PlaneUnloaded
<1>6. \A r \in Reports : ~Report(r) BY <1>b DEF Report
<1>7. \A c \in Watched : ~Keyboard(c) BY <1>b DEF Keyboard
<1>8. QED
  BY <1>4, <1>5, <1>6, <1>7 DEF Next, Turn, PlainOnce, WatchedOnce, TakeMsg

LEMMA PassesWhen ==
  ASSUME NEW c, NEW n
  PROVE  Passes(c, n).pass = (n >= Registered[c])
BY Zenon DEF Passes

(* While the plugin is enabled, no other way than the panel moves the      *)
(* flaps, if the handler is registered for both of their commands.         *)
THEOREM FlapsArePanels ==
  (\A f \in Flaps : Registered[f] > 0) => (Spec => OnlyPanelMovesFlaps)
<1> SUFFICES ASSUME \A f \in Flaps : Registered[f] > 0 PROVE Spec => OnlyPanelMovesFlaps
  OBVIOUS
<1>1. PanelInv /\ [Next]_vars =>
        [\A f \in Flaps : enabled /\ sim # f /\ sim' = f
            => ijq # <<>> /\ Head(ijq) = f /\ ijq' = Tail(ijq)]_vars
  <2> SUFFICES ASSUME PanelInv, Next, NEW f \in Flaps, enabled, sim # f, sim' = f
               PROVE  ijq # <<>> /\ Head(ijq) = f /\ ijq' = Tail(ijq)
    OBVIOUS
  <2>0. f \in Watched /\ f # None /\ f \notin Turns /\ f \notin Plain
    BY KindsApart DEF Watched
  <2>1. ASSUME NEW c \in Watched, Keyboard(c) PROVE FALSE
    <3>1. CommandOnce(c, pending[c]) BY <2>1 DEF Keyboard
    <3>2. c = f /\ Passes(c, pending[c]).pass BY <3>1, <2>0 DEF CommandOnce
    <3>3. pending[f] = 0 /\ Registered[f] \in Nat /\ Registered[f] > 0
      BY <2>0, MultiAssumption DEF PanelInv, NothingLeftPending
    <3>4. ~(pending[c] >= Registered[c]) BY <3>2, <3>3
    <3>5. QED BY <3>2, <3>4, PassesWhen
  <2>2. ASSUME NEW c \in Watched, WatchedOnce(c)
        PROVE  ijq # <<>> /\ Head(ijq) = f /\ ijq' = Tail(ijq)
    <3>1. c = f BY <2>0, <2>2 DEF WatchedOnce, CommandOnce
    <3>2. QED BY <2>2, <3>1 DEF WatchedOnce, TakeMsg
  <2>3. ASSUME NEW t \in Turns, Turn(t) PROVE FALSE BY <2>0, <2>3 DEF Turn
  <2>4. ASSUME NEW c \in Plain, PlainOnce(c) PROVE FALSE BY <2>0, <2>4 DEF PlainOnce
  <2>5. CASE \/ \E r \in Reports : Report(r)
             \/ Deliver \/ Drop \/ Enable \/ Disable \/ PlaneLoaded \/ PlaneUnloaded
    BY <2>5 DEF Report, Deliver, Drop, Enable, Disable, PlaneLoaded, PlaneUnloaded, simVars
  <2>6. QED BY <2>1, <2>2, <2>3, <2>4, <2>5 DEF Next
<1>2. QED BY <1>1, PanelInvariant, PTL DEF Spec, OnlyPanelMovesFlaps

(* A watched command of the panel that the flight loop acts on is never    *)
(* eaten, where the handler is registered once at most.                    *)
THEOREM PanelCommandsPass == Spec => PanelCommandPasses
<1>1. PanelInv /\ [Next]_vars =>
        [\A c \in Watched :
           /\ enabled /\ enabled' /\ Powered /\ Registered[c] <= 1
           /\ ijq # <<>> /\ Head(ijq) = c /\ ijq' = Tail(ijq)
           => sim' = c]_vars
  <2> SUFFICES ASSUME PanelInv, Next, NEW c \in Watched, enabled, enabled', Powered,
                      Registered[c] <= 1, ijq # <<>>, Head(ijq) = c, ijq' = Tail(ijq)
               PROVE  sim' = c
    OBVIOUS
  <2>1. ~Drop BY DEF Drop
  <2>2. WatchedOnce(c) BY <2>1, Takers, KindsApart
  <2>3. CommandOnce(c, pending[c] + 1) BY <2>2 DEF WatchedOnce
  <2>4. pending[c] \in Nat /\ Registered[c] \in Nat
    BY MultiAssumption DEF PanelInv, TypeOK
  <2>a. pending[c] + 1 >= Registered[c] BY <2>4
  <2>5. Passes(c, pending[c] + 1).pass BY <2>a, PassesWhen
  <2>6. QED BY <2>3, <2>5 DEF CommandOnce
<1>2. QED BY <1>1, PanelInvariant, PTL DEF Spec, PanelCommandPasses
============================================================================
