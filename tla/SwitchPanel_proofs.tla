------------------------- MODULE SwitchPanel_proofs -------------------------
(* Theorems about SwitchPanel: they hold for any lights, reports, planes,  *)
(* limit and brightness.                                                   *)
EXTENDS SwitchPanel, SequenceFacts, TLAPS

Posts == ({"ijq"} \X Cmds) \cup ({"ojq"} \X Screens)

\* Where a control is that X-Plane is to follow.
Want(x) == IF x = "knob" THEN panel.knob
           ELSE IF x = "gear" THEN Lever(panel) ELSE Pos(panel, x)

Among(q, x)  == \E i \in 1..Len(q) : q[i][1] = x
EndsIn(q, m) == \A i \in 1..Len(q) : q[i][1] = m[1] =>
                  q[i] = m \/ \E j \in (i + 1)..Len(q) : q[j][1] = m[1]

InOutbox(x) == \E i \in 1..Len(outbox) : outbox[i][2][1] = x
OutboxAgrees(x) ==
  \A i \in 1..Len(outbox) : outbox[i][2][1] = x => outbox[i] = <<"ijq", <<x, Want(x)>> >>

(* A control that X-Plane does not yet follow has a message under way: the *)
(* last one about it says where the control is.                            *)
Follows(x) ==
  \/ InOutbox(x)
  \/ x \in stale /\ ~enabled
  \/ EndsIn(ijq, <<x, Want(x)>>) /\ (Among(ijq, x) \/ x \in stale \/ Done(x))

\* Of the messages about the LEDs, each but one equal to w has another after it.
LedsEndIn(q, w) == \A i \in 1..Len(q) : q[i][2][1] = "leds" =>
                     q[i] = w \/ \E j \in (i + 1)..Len(q) : q[j][2][1] = "leds"
Shown(r)  == IF "down" \in r.gear THEN "red" ELSE "green"
ShowIt(r) == <<"ojq", <<"leds", Shown(r)>> >>

(* The LEDs: Blank is at the head of the queue only while the panel is     *)
(* being parked, and the last screen under way is the lever's, unless the  *)
(* lever was moved unseen: no command for the gear is then under way.      *)
ParkingOff == at # "idle" => ~enabled
BlankFirst == \A i \in 1..Len(ojq) : ojq[i] = Blank =>
                i = 1 /\ "leds" \in stale /\ at \in {"park", "purgeOut"}
ScreensSent == LedsEndIn(outbox, ShowIt(panel)) /\ \A i \in 1..Len(outbox) : outbox[i][2] # Blank
LastScreen == ojq = <<>> \/ ojq[Len(ojq)] \in {Blank, <<"leds", Shown(panel)>>}
LedsFollow ==
  \/ InOutbox("leds")
  \/ LastScreen /\ (ojq # <<>> \/ "leds" \in stale \/ leds = Shown(panel))
  \/ "gear" \in stale /\ ~InOutbox("gear") /\ (~enabled \/ ~Among(ijq, "gear"))

LedInv == ParkingOff /\ BlankFirst /\ ScreensSent /\ LedsFollow
FollowInv == TypeOK /\ \A x \in Controls : OutboxAgrees(x) /\ Follows(x)
----------------------------------------------------------------------------
(* The names: a light is neither the knob, nor the gear, nor the LEDs.     *)
LEMMA LightNames == Lights \subseteq {"beacon", "nav", "strobe", "taxi", "landing"}
<1>1. LightOrder \in Seq({"beacon", "nav", "strobe", "taxi", "landing"}) BY SwitchAssumption
<1>2. \A i \in DOMAIN LightOrder : LightOrder[i] \in {"beacon", "nav", "strobe", "taxi", "landing"}
  BY <1>1
<1>3. QED BY <1>2 DEF Lights

LEMMA Names ==
  /\ Toggles \cap {"knob", "gear", "leds"} = {} /\ "panel" \notin Lights
  /\ Masters \cap ({"panel"} \cup Lights) = {}
BY LightNames DEF Toggles, Masters

LEMMA CommandShape ==
  ASSUME NEW m \in Cmds
  PROVE  /\ m[1] \in Things \/ m[1] \in Toggles
         /\ m[1] = "knob" => m[2] \in Turned
         /\ m[1] = "gear" => m[2] \in {"up", "down"}
         /\ m[1] \in Toggles => m[2] \in {"on", "off"}
         /\ m = <<m[1], m[2]>>
<1>1. CASE m \in Toggles \X {"on", "off"} BY <1>1, Names
<1>2. CASE m \in {"knob"} \X Turned BY <1>2, Names DEF Things
<1>3. CASE m \in {"gear"} \X {"up", "down"} BY <1>3, Names DEF Things
<1>4. QED BY <1>1, <1>2, <1>3 DEF Cmds
----------------------------------------------------------------------------
(* What FromPanelThread makes of a report.                                 *)
LEMMA PostedNames ==
  /\ Posted \in Seq(Toggles)
  /\ \A s \in Lights : \E i \in 1..Len(Posted) : Posted[i] = s
<1>1. LightOrder \in Seq({"beacon", "nav", "strobe", "taxi", "landing"}) BY SwitchAssumption
<1>2. DOMAIN LightOrder = 1..Len(LightOrder) /\ Len(LightOrder) \in Nat BY <1>1
<1>3. LightOrder \in Seq(Toggles)
  <2>1. \A i \in 1..Len(LightOrder) : LightOrder[i] \in Toggles BY <1>2 DEF Lights, Toggles
  <2>2. QED BY <1>1, <2>1
<1>4. <<"panel">> \in Seq(Toggles) /\ Len(<<"panel">>) = 1 BY DEF Toggles
<1>5. Posted \in Seq(Toggles) BY <1>3, <1>4, Joined DEF Posted
<1>6. /\ Len(Posted) = Len(LightOrder) + 1
      /\ \A i \in 1..Len(Posted) : i > 1 => Posted[i] = LightOrder[i - 1]
  <2> DEFINE p == <<"panel">>
  <2>1. p \in Seq(Toggles) /\ Len(p) = 1 /\ Posted = p \o LightOrder BY <1>4 DEF Posted
  <2> HIDE DEF p
  <2>2. /\ Len(p \o LightOrder) = Len(p) + Len(LightOrder)
        /\ \A i \in 1..(Len(p) + Len(LightOrder)) :
             (p \o LightOrder)[i] = IF i <= Len(p) THEN p[i] ELSE LightOrder[i - Len(p)]
    BY <1>3, <2>1, Joined
  <2>3. QED BY <2>1, <2>2, <1>2
<1>7. ASSUME NEW s \in Lights PROVE \E i \in 1..Len(Posted) : Posted[i] = s
  <2>1. PICK j \in 1..Len(LightOrder) : LightOrder[j] = s BY <1>2 DEF Lights
  <2>2. Len(LightOrder) + 1 = Len(Posted) /\ Posted[j + 1] = LightOrder[j]
    BY <1>3, <1>4, <1>2, <1>6
  <2>3. j + 1 \in 1..Len(Posted) BY <1>2, <2>2
  <2>4. QED BY <2>1, <2>2, <2>3
<1>8. QED BY <1>5, <1>7

LEMMA KnobPostsShape ==
  ASSUME NEW r \in Position
  PROVE  /\ KnobPosts(r) \in Seq(Posts)
         /\ \A i \in 1..Len(KnobPosts(r)) :
              KnobPosts(r)[i] = <<"ijq", <<"knob", r.knob>> >> /\ r.knob # "between"
         /\ r.knob # "between" => \E i \in 1..Len(KnobPosts(r)) : KnobPosts(r)[i][2][1] = "knob"
<1>1. r.knob \in Turned \cup {"between"} BY DEF Position
<1>2. CASE r.knob = "between"
  <2>1. KnobPosts(r) = <<>> BY <1>2 DEF KnobPosts
  <2>2. QED BY <2>1, <1>2
<1>3. CASE r.knob # "between"
  <2>1. KnobPosts(r) = << <<"ijq", <<"knob", r.knob>> >> >> BY <1>3 DEF KnobPosts, ToSim
  <2>2. <<"ijq", <<"knob", r.knob>> >> \in Posts BY <1>1, <1>3 DEF Posts, Cmds
  <2>3. Len(KnobPosts(r)) = 1 /\ KnobPosts(r)[1] = <<"ijq", <<"knob", r.knob>> >> BY <2>1
  <2>4. KnobPosts(r) \in Seq(Posts) BY <2>1, <2>2
  <2>5. QED BY <2>3, <2>4, <1>3
<1>4. QED BY <1>2, <1>3

LEMMA SwitchPostsShape ==
  ASSUME NEW r \in Position
  PROVE  /\ SwitchPosts(r) \in Seq(Posts)
         /\ \A i \in 1..Len(SwitchPosts(r)) : \E s \in Toggles :
              SwitchPosts(r)[i] = <<"ijq", <<s, Pos(r, s)>> >>
         /\ \A s \in Lights : \E i \in 1..Len(SwitchPosts(r)) : SwitchPosts(r)[i][2][1] = s
<1>1. Posted \in Seq(Toggles) /\ Len(Posted) \in Nat BY PostedNames
<1>2. \A i \in 1..Len(Posted) : Posted[i] \in Toggles BY <1>1
<1>3. SwitchPosts(r) = [i \in 1..Len(Posted) |-> <<"ijq", <<Posted[i], Pos(r, Posted[i])>> >>]
  BY DEF SwitchPosts, ToSim
<1>4. \A s \in Toggles : <<"ijq", <<s, Pos(r, s)>> >> \in Posts BY DEF Posts, Cmds, Pos
<1>5. SwitchPosts(r) \in Seq(Posts) /\ Len(SwitchPosts(r)) = Len(Posted)
  BY <1>1, <1>2, <1>3, <1>4
<1>6. \A i \in 1..Len(Posted) : SwitchPosts(r)[i] = <<"ijq", <<Posted[i], Pos(r, Posted[i])>> >>
  BY <1>3
<1>7. ASSUME NEW s \in Lights
      PROVE  \E i \in 1..Len(SwitchPosts(r)) : SwitchPosts(r)[i][2][1] = s
  <2>1. PICK i \in 1..Len(Posted) : Posted[i] = s BY PostedNames
  <2>2. SwitchPosts(r)[i][2][1] = s BY <2>1, <1>6
  <2>3. QED BY <2>2, <1>5
<1>8. QED BY <1>2, <1>5, <1>6, <1>7

LEMMA GearPostsShape ==
  ASSUME NEW r \in Position
  PROVE  /\ GearPosts(r) \in Seq(Posts)
         /\ \A i \in 1..Len(GearPosts(r)) :
              /\ \/ GearPosts(r)[i] = <<"ijq", <<"gear", Lever(r)>> >> /\ r.gear # {}
                 \/ GearPosts(r)[i][2][1] = "leds"
              /\ GearPosts(r)[i][2] # Blank
         /\ r.gear # {} => /\ \E i \in 1..Len(GearPosts(r)) : GearPosts(r)[i][2][1] = "gear"
                           /\ \E i \in 1..Len(GearPosts(r)) : GearPosts(r)[i][2][1] = "leds"
         /\ r.gear = {} => Len(GearPosts(r)) = 0
         /\ LedsEndIn(GearPosts(r), ShowIt(r))
<1> DEFINE green == <<"ojq", <<"leds", "green">> >>
           red   == <<"ojq", <<"leds", "red">> >>
           up    == <<"ijq", <<"gear", "up">> >>
           down  == <<"ijq", <<"gear", "down">> >>
<1>0. {green, red, up, down} \subseteq Posts BY DEF Posts, Cmds, Screens, Colours
<1>1. CASE "down" \in r.gear /\ "up" \in r.gear
  <2>1. GearPosts(r) = << green >> \o << red, down >> BY <1>1 DEF GearPosts, ToLeds, ToSim
  <2>2. Lever(r) = "down" /\ Shown(r) = "red" BY <1>1 DEF Lever, Shown
  <2>3. GearPosts(r) \in Seq(Posts) /\ Len(GearPosts(r)) = 3 BY <1>0, <2>1, Listed
  <2>4. GearPosts(r)[1] = green /\ GearPosts(r)[2] = red /\ GearPosts(r)[3] = down
    BY <1>0, <2>1, Listed
  <2>5. LedsEndIn(GearPosts(r), ShowIt(r)) BY <2>2, <2>3, <2>4 DEF LedsEndIn, ShowIt
  <2>6. QED BY <1>1, <2>2, <2>3, <2>4, <2>5 DEF Blank
<1>2. CASE "down" \in r.gear /\ "up" \notin r.gear
  <2>1. GearPosts(r) = << red, down >> BY <1>2 DEF GearPosts, ToLeds, ToSim
  <2>2. Lever(r) = "down" /\ Shown(r) = "red" BY <1>2 DEF Lever, Shown
  <2>3. GearPosts(r) \in Seq(Posts) /\ Len(GearPosts(r)) = 2 BY <1>0, <2>1
  <2>4. GearPosts(r)[1] = red /\ GearPosts(r)[2] = down BY <2>1
  <2>5. LedsEndIn(GearPosts(r), ShowIt(r)) BY <2>2, <2>3, <2>4 DEF LedsEndIn, ShowIt
  <2>6. QED BY <1>2, <2>2, <2>3, <2>4, <2>5 DEF Blank
<1>3. CASE "down" \notin r.gear /\ "up" \in r.gear
  <2>1. GearPosts(r) = << green >> \o << up >> BY <1>3 DEF GearPosts, ToLeds, ToSim
  <2>2. Lever(r) = "up" /\ Shown(r) = "green" BY <1>3 DEF Lever, Shown
  <2>3. GearPosts(r) \in Seq(Posts) /\ Len(GearPosts(r)) = 2 BY <1>0, <2>1, Listed
  <2>4. GearPosts(r)[1] = green /\ GearPosts(r)[2] = up BY <1>0, <2>1, Listed
  <2>5. LedsEndIn(GearPosts(r), ShowIt(r)) BY <2>2, <2>3, <2>4 DEF LedsEndIn, ShowIt
  <2>6. QED BY <1>3, <2>2, <2>3, <2>4, <2>5 DEF Blank
<1>4. CASE "down" \notin r.gear /\ "up" \notin r.gear
  <2>1. GearPosts(r) = <<>> /\ Len(<<>>) = 0 BY <1>4 DEF GearPosts
  <2>2. r.gear = {} BY <1>4 DEF Position
  <2>3. GearPosts(r) \in Seq(Posts) BY <2>1
  <2>4. LedsEndIn(GearPosts(r), ShowIt(r)) BY <2>1 DEF LedsEndIn
  <2>5. QED BY <2>1, <2>2, <2>3, <2>4
<1>5. QED BY <1>1, <1>2, <1>3, <1>4
----------------------------------------------------------------------------
(* A whole report: nothing about a control in it says other than where the *)
(* control then is, and it says something of each light, and of the knob   *)
(* unless that is between two positions.                                   *)
ReportPosts(r) == KnobPosts(r) \o SwitchPosts(r) \o GearPosts(r)

LEMMA ReportShape ==
  ASSUME NEW r \in Position
  PROVE  /\ ReportPosts(r) \in Seq(Posts)
         /\ \A i \in 1..Len(ReportPosts(r)) :
              /\ \/ ReportPosts(r)[i] = <<"ijq", <<"knob", r.knob>> >> /\ r.knob # "between"
                 \/ \E s \in Toggles : ReportPosts(r)[i] = <<"ijq", <<s, Pos(r, s)>> >>
                 \/ ReportPosts(r)[i] = <<"ijq", <<"gear", Lever(r)>> >> /\ r.gear # {}
                 \/ ReportPosts(r)[i][2][1] = "leds"
              /\ ReportPosts(r)[i][2] # Blank
         /\ \A s \in Lights : \E i \in 1..Len(ReportPosts(r)) : ReportPosts(r)[i][2][1] = s
         /\ r.knob # "between" =>
              \E i \in 1..Len(ReportPosts(r)) : ReportPosts(r)[i][2][1] = "knob"
         /\ r.gear # {} =>
              /\ \E i \in 1..Len(ReportPosts(r)) : ReportPosts(r)[i][2][1] = "gear"
              /\ \E i \in 1..Len(ReportPosts(r)) : ReportPosts(r)[i][2][1] = "leds"
         /\ r.gear = {} =>
              \A i \in 1..Len(ReportPosts(r)) : ReportPosts(r)[i][2][1] \notin {"gear", "leds"}
         /\ LedsEndIn(ReportPosts(r), ShowIt(r))
<1> DEFINE k == KnobPosts(r)  w == SwitchPosts(r)  g == GearPosts(r)  kw == k \o w
<1>1. /\ k \in Seq(Posts)
      /\ \A i \in 1..Len(k) : k[i] = <<"ijq", <<"knob", r.knob>> >> /\ r.knob # "between"
      /\ r.knob # "between" => \E i \in 1..Len(k) : k[i][2][1] = "knob"
  BY KnobPostsShape
<1>2. /\ w \in Seq(Posts)
      /\ \A i \in 1..Len(w) : \E s \in Toggles : w[i] = <<"ijq", <<s, Pos(r, s)>> >>
      /\ \A s \in Lights : \E i \in 1..Len(w) : w[i][2][1] = s
  BY SwitchPostsShape
<1>3. /\ g \in Seq(Posts)
      /\ \A i \in 1..Len(g) :
           /\ \/ g[i] = <<"ijq", <<"gear", Lever(r)>> >> /\ r.gear # {}
              \/ g[i][2][1] = "leds"
           /\ g[i][2] # Blank
      /\ r.gear # {} => /\ \E i \in 1..Len(g) : g[i][2][1] = "gear"
                        /\ \E i \in 1..Len(g) : g[i][2][1] = "leds"
      /\ r.gear = {} => Len(g) = 0
      /\ LedsEndIn(g, ShowIt(r))
  BY GearPostsShape
<1>4. ReportPosts(r) = (k \o w) \o g BY DEF ReportPosts
<1> HIDE DEF k, w, g
<1>5. k \o w \in Seq(Posts) BY <1>1, <1>2, Joined
<1>6. Mixes(k \o w, k, w) BY <1>1, <1>2, JoinedFrom
<1> HIDE DEF kw
<1>7. kw = k \o w BY DEF kw
<1>8. kw \in Seq(Posts) BY <1>5, <1>7
<1>9. kw \o g \in Seq(Posts) /\ Mixes(kw \o g, kw, g) BY <1>3, <1>8, Joined, JoinedFrom
<1>10. ASSUME NEW i \in 1..Len(kw)
       PROVE  \/ kw[i] = <<"ijq", <<"knob", r.knob>> >> /\ r.knob # "between"
              \/ \E s \in Toggles : kw[i] = <<"ijq", <<s, Pos(r, s)>> >>
  <2>1. CASE \E j \in 1..Len(k) : kw[i] = k[j] BY <2>1, <1>1
  <2>2. CASE \E j \in 1..Len(w) : kw[i] = w[j] BY <2>2, <1>2
  <2>3. QED BY <2>1, <2>2, <1>6, <1>7 DEF Mixes
<1>11. ASSUME NEW s \in Lights PROVE \E i \in 1..Len(kw) : kw[i][2][1] = s
  <2>1. PICK j \in 1..Len(w) : w[j][2][1] = s BY <1>2
  <2>2. \E i \in 1..Len(kw) : kw[i] = w[j] BY <1>6, <1>7 DEF Mixes
  <2>3. QED BY <2>1, <2>2
<1>12. ASSUME r.knob # "between" PROVE \E i \in 1..Len(kw) : kw[i][2][1] = "knob"
  <2>1. PICK j \in 1..Len(k) : k[j][2][1] = "knob" BY <1>1, <1>12
  <2>2. \E i \in 1..Len(kw) : kw[i] = k[j] BY <1>6, <1>7 DEF Mixes
  <2>3. QED BY <2>1, <2>2
<1>13. ReportPosts(r) = kw \o g BY <1>4, <1>7
<1>14. ReportPosts(r) \in Seq(Posts) /\ Mixes(ReportPosts(r), kw, g) BY <1>9, <1>13
<1>15. \A i \in 1..Len(kw) : kw[i][2][1] \notin {"gear", "leds"} /\ kw[i][2] # Blank
  BY <1>10, Names DEF Blank
<1>16. LedsEndIn(ReportPosts(r), ShowIt(r))
  <2>1. /\ Len(ReportPosts(r)) = Len(kw) + Len(g) /\ Len(kw) \in Nat /\ Len(g) \in Nat
        /\ \A i \in 1..(Len(kw) + Len(g)) :
             ReportPosts(r)[i] = IF i <= Len(kw) THEN kw[i] ELSE g[i - Len(kw)]
    BY <1>3, <1>8, <1>13, Joined
  <2>2. SUFFICES ASSUME NEW i \in 1..Len(ReportPosts(r)), ReportPosts(r)[i][2][1] = "leds"
                 PROVE  \/ ReportPosts(r)[i] = ShowIt(r)
                        \/ \E j \in (i + 1)..Len(ReportPosts(r)) : ReportPosts(r)[j][2][1] = "leds"
    BY DEF LedsEndIn
  <2>3. i > Len(kw) BY <2>1, <2>2, <1>15
  <2>4. i - Len(kw) \in 1..Len(g) /\ ReportPosts(r)[i] = g[i - Len(kw)] BY <2>1, <2>3
  <2>5. CASE g[i - Len(kw)] = ShowIt(r) BY <2>4, <2>5
  <2>6. CASE \E j \in (i - Len(kw) + 1)..Len(g) : g[j][2][1] = "leds"
    <3>1. PICK j \in (i - Len(kw) + 1)..Len(g) : g[j][2][1] = "leds" BY <2>6
    <3>2. Len(kw) + j \in (i + 1)..Len(ReportPosts(r)) /\ ReportPosts(r)[Len(kw) + j] = g[j]
      BY <3>1, <2>1, <2>3
    <3>3. QED BY <3>1, <3>2
  <2>7. QED BY <2>2, <2>4, <2>5, <2>6, <1>3 DEF LedsEndIn
<1>17. ASSUME NEW i \in 1..Len(ReportPosts(r))
       PROVE  /\ \/ ReportPosts(r)[i] = <<"ijq", <<"knob", r.knob>> >> /\ r.knob # "between"
                 \/ \E s \in Toggles : ReportPosts(r)[i] = <<"ijq", <<s, Pos(r, s)>> >>
                 \/ ReportPosts(r)[i] = <<"ijq", <<"gear", Lever(r)>> >> /\ r.gear # {}
                 \/ ReportPosts(r)[i][2][1] = "leds"
              /\ ReportPosts(r)[i][2] # Blank
              /\ r.gear = {} => ReportPosts(r)[i][2][1] \notin {"gear", "leds"}
  <2>1. CASE \E j \in 1..Len(kw) : ReportPosts(r)[i] = kw[j]
    <3>1. PICK j \in 1..Len(kw) : ReportPosts(r)[i] = kw[j] BY <2>1
    <3>2. QED BY <3>1, <1>10, <1>15
  <2>2. CASE \E j \in 1..Len(g) : ReportPosts(r)[i] = g[j]
    <3>1. PICK j \in 1..Len(g) : ReportPosts(r)[i] = g[j] BY <2>2
    <3>2. r.gear # {} BY <3>1, <1>3
    <3>3. QED BY <3>1, <3>2, <1>3
  <2>3. QED BY <2>1, <2>2, <1>14 DEF Mixes
<1>18. ASSUME NEW x, \E i \in 1..Len(kw) : kw[i][2][1] = x
       PROVE  \E i \in 1..Len(ReportPosts(r)) : ReportPosts(r)[i][2][1] = x
  <2>1. PICK j \in 1..Len(kw) : kw[j][2][1] = x BY <1>18
  <2>2. \E i \in 1..Len(ReportPosts(r)) : ReportPosts(r)[i] = kw[j] BY <1>14 DEF Mixes
  <2>3. QED BY <2>1, <2>2
<1>19. ASSUME r.gear # {}
       PROVE  /\ \E i \in 1..Len(ReportPosts(r)) : ReportPosts(r)[i][2][1] = "gear"
              /\ \E i \in 1..Len(ReportPosts(r)) : ReportPosts(r)[i][2][1] = "leds"
  <2>1. PICK i \in 1..Len(g), j \in 1..Len(g) : g[i][2][1] = "gear" /\ g[j][2][1] = "leds"
    BY <1>3, <1>19
  <2>2. /\ \E n \in 1..Len(ReportPosts(r)) : ReportPosts(r)[n] = g[i]
        /\ \E n \in 1..Len(ReportPosts(r)) : ReportPosts(r)[n] = g[j]
    BY <1>14 DEF Mixes
  <2>3. QED BY <2>1, <2>2
<1>20. /\ \A s \in Lights : \E i \in 1..Len(ReportPosts(r)) : ReportPosts(r)[i][2][1] = s
       /\ r.knob # "between" =>
            \E i \in 1..Len(ReportPosts(r)) : ReportPosts(r)[i][2][1] = "knob"
  BY <1>11, <1>12, <1>18
<1>21. QED BY <1>14, <1>16, <1>17, <1>19, <1>20
----------------------------------------------------------------------------
(* The types.                                                              *)
LEMMA InitType == Init => TypeOK
<1>1. SUFFICES ASSUME Init PROVE TypeOK OBVIOUS
<1>2. Limit \in Nat /\ Reports \subseteq Position /\ Levels \in Nat BY SwitchAssumption
<1>3. \A S : <<>> \in Seq(S) /\ Len(<<>>) = 0 OBVIOUS
<1>4. enabled \in BOOLEAN /\ planeLoaded \in BOOLEAN /\ trig \in BOOLEAN /\ getting \in BOOLEAN
  BY <1>1 DEF Init
<1>5. count \in Nat /\ panel \in Position /\ leds \in Colours /\ stale \subseteq Things
  BY <1>1, <1>2 DEF Init, Colours
<1>6. outbox \in Seq(({"ijq"} \X Cmds) \cup ({"ojq"} \X Screens)) /\ ijq \in Seq(Cmds) /\ ojq \in Seq(Screens)
  BY <1>1, <1>3 DEF Init
<1>7. Len(ijq) <= Limit /\ Len(ojq) <= Limit BY <1>1, <1>2, <1>3 DEF Init
<1>8. QED BY <1>1, <1>4, <1>5, <1>6, <1>7 DEF Init, TypeOK

LEMMA ReportType ==
  ASSUME TypeOK, NEW r \in Reports, Report(r) \/ Forget(r)
  PROVE  TypeOK'
<1>1. r \in Position BY SwitchAssumption
<1>2. Left(r) \in Position BY <1>1 DEF TypeOK, Left, Position
<1>3. Report(r) => outbox' \in Seq(({"ijq"} \X Cmds) \cup ({"ojq"} \X Screens))
  BY <1>1, ReportShape DEF Report, ReportPosts, Posts
<1>4. panel' \in Position BY <1>2 DEF Report, Forget
<1>5. outbox' \in Seq(({"ijq"} \X Cmds) \cup ({"ojq"} \X Screens))
  BY <1>3 DEF TypeOK, Forget
<1>6. stale' \subseteq Things BY DEF TypeOK, Report, Forget
<1>7. QED BY <1>4, <1>5, <1>6 DEF TypeOK, Report, Forget, pluginVars, toVars, simVars

LEMMA DeliverType ==
  ASSUME TypeOK, Deliver
  PROVE  TypeOK'
<1>1. outbox # <<>> /\ outbox \in Seq(Posts) BY DEF Deliver, TypeOK, Posts
<1>2. Head(outbox) \in Posts /\ Tail(outbox) \in Seq(Posts) BY <1>1, Taken
<1>3. /\ Head(outbox)[1] = "ijq" => Head(outbox)[2] \in Cmds
      /\ Head(outbox)[1] = "ojq" => Head(outbox)[2] \in Screens
  BY <1>2 DEF Posts
<1>4. ijq \in Seq(Cmds) /\ ojq \in Seq(Screens) /\ Limit \in Nat
      /\ Len(ijq) <= Limit /\ Len(ojq) <= Limit
  BY SwitchAssumption DEF TypeOK
<1>5. ijq' \in Seq(Cmds) /\ Len(ijq') <= Limit
  <2>1. CASE ijq' = ijq BY <2>1, <1>4
  <2>2. CASE Head(outbox)[1] = "ijq" /\ Post(ijq, Head(outbox)[2])
    <3>1. Append(ijq, Head(outbox)[2]) \in Seq(Cmds)
          /\ Len(Append(ijq, Head(outbox)[2])) = Len(ijq) + 1 /\ Len(ijq) \in Nat
      BY <2>2, <1>3, <1>4, Appended
    <3>2. QED BY <3>1, <2>2, <1>4 DEF Post
  <2>3. QED BY <2>1, <2>2 DEF Deliver
<1>6. ojq' \in Seq(Screens) /\ Len(ojq') <= Limit
  <2>1. CASE ojq' = ojq BY <2>1, <1>4
  <2>2. CASE Head(outbox)[1] = "ojq" /\ Post(ojq, Head(outbox)[2])
    <3>1. Append(ojq, Head(outbox)[2]) \in Seq(Screens)
          /\ Len(Append(ojq, Head(outbox)[2])) = Len(ojq) + 1 /\ Len(ojq) \in Nat
      BY <2>2, <1>3, <1>4, Appended
    <3>2. QED BY <3>1, <2>2, <1>4 DEF Post
  <2>3. QED BY <2>1, <2>2 DEF Deliver
<1>7. outbox' \in Seq(({"ijq"} \X Cmds) \cup ({"ojq"} \X Screens)) BY <1>2 DEF Deliver, Posts
<1>8. UNCHANGED <<pluginVars, plane, count, panel, toVars, simVars, stale>> BY DEF Deliver
<1>9. QED BY <1>5, <1>6, <1>7, <1>8 DEF TypeOK, pluginVars, toVars, simVars

LEMMA FlightLoopType ==
  ASSUME TypeOK, FlightLoop
  PROVE  TypeOK'
<1> DEFINE m == Head(ijq)
<1>1. m \in Cmds /\ Tail(ijq) \in Seq(Cmds) /\ Len(Tail(ijq)) <= Limit
  <2>1. ijq \in Seq(Cmds) /\ ijq # <<>> /\ Len(ijq) <= Limit /\ Limit \in Nat
    BY SwitchAssumption DEF TypeOK, FlightLoop
  <2>2. Head(ijq) \in Cmds /\ Tail(ijq) \in Seq(Cmds) /\ Len(Tail(ijq)) = Len(ijq) - 1
        /\ Len(ijq) \in Nat \ {0}
    BY <2>1, Taken
  <2>3. QED BY <2>1, <2>2
<1>2. /\ m[1] = "knob" => m[2] \in Turned
      /\ m[1] = "gear" => m[2] \in {"up", "down"}
      /\ m[1] \in Toggles => m[2] \in {"on", "off"}
  BY <1>1, CommandShape
<1>3. Execute(m) BY DEF FlightLoop
<1> HIDE DEF m
<1>4. /\ mags' \in [Engine -> Turned] /\ gear' \in {"up", "down"}
      /\ sim' \in [Masters \cup Lights -> {"on", "off"}] /\ bright' \in 0..Levels
  <2>0. /\ mags \in [Engine -> Turned] /\ gear \in {"up", "down"}
        /\ sim \in [Masters \cup Lights -> {"on", "off"}] /\ bright \in 0..Levels
    BY DEF TypeOK
  <2>1. CASE m[1] = "knob" /\ RunKnob(m[2]) BY <2>0, <2>1, <1>2 DEF RunKnob
  <2>2. CASE m[1] = "panel" /\ RunPanel(m[2])
    <3>1. Levels \in Nat BY SwitchAssumption
    <3>2. Dimmed(bright) \in 0..Levels /\ Brighter(bright) \in 0..Levels
      BY <2>0, <3>1 DEF Dimmed, Brighter
    <3>3. QED BY <2>0, <2>2, <3>2 DEF RunPanel
  <2>3. CASE m[1] = "gear" /\ RunGear(m[2]) BY <2>0, <2>3 DEF RunGear, Geared
  <2>4. CASE m[1] \in Masters \cup Lights /\ RunSwitch(m[1], m[2])
    <3>1. m[2] \in {"on", "off"} BY <2>4, <1>2 DEF Toggles
    <3>2. QED BY <2>0, <2>4, <3>1 DEF RunSwitch
  <2>5. QED BY <1>3, <2>1, <2>2, <2>3, <2>4 DEF Execute
<1>5. /\ stale' \subseteq Things /\ ijq' = Tail(ijq)
      /\ UNCHANGED <<pluginVars, plane, count, panel, outbox, ojq, toVars>>
  BY DEF TypeOK, FlightLoop
<1>6. QED BY <1>1, <1>4, <1>5 DEF TypeOK, pluginVars, toVars

LEMMA PlaneType ==
  ASSUME TypeOK, \/ \E s \in Unheard : Silent(s)
                 \/ \E p \in Planes : LoadPlane(p)
                 \/ UnloadPlane
  PROVE  TypeOK'
<1>1. CASE \E s \in Unheard : Silent(s)
  <2>1. PICK s \in Unheard : Silent(s) BY <1>1
  <2>2. s \in Lights \cup {"gear"} BY SwitchAssumption
  <2>3. gear' \in {"up", "down"} /\ stale' \subseteq Things
    BY <2>1, <2>2 DEF Silent, TypeOK, Things
  <2>4. sim' \in [Masters \cup Lights -> {"on", "off"}] BY <2>1, <2>2 DEF Silent, TypeOK
  <2>5. QED BY <2>1, <2>3, <2>4 DEF Silent, TypeOK, pluginVars, toVars
<1>2. CASE \E p \in Planes : LoadPlane(p)
  <2>1. PICK p \in Planes : LoadPlane(p) BY <1>2
  <2>2. p.generators \in Nat BY SwitchAssumption DEF Plane
  <2>3. count' \in Nat /\ planeLoaded' \in BOOLEAN /\ stale' \subseteq Things
    BY <2>1, <2>2 DEF LoadPlane, TypeOK, Things
  <2>4. QED BY <2>1, <2>3 DEF LoadPlane, TypeOK, toVars, simVars
<1>3. CASE UnloadPlane
  <2>1. planeLoaded' \in BOOLEAN BY <1>3 DEF UnloadPlane, TypeOK
  <2>2. QED BY <1>3, <2>1 DEF UnloadPlane, TypeOK, toVars, simVars
<1>4. QED BY <1>1, <1>2, <1>3

LEMMA EnableType ==
  ASSUME TypeOK, Enable \/ Disable \/ DisablePark
  PROVE  TypeOK'
<1>1. CASE Enable BY <1>1 DEF Enable, TypeOK, toVars, simVars
<1>2. CASE DisablePark BY <1>2 DEF DisablePark, TypeOK, toVars, simVars
<1>3. CASE Disable
  <2>1. ojq \in Seq(Screens) /\ Len(ojq) < Limit /\ Limit \in Nat
    BY <1>3, SwitchAssumption DEF Disable, TypeOK
  <2>2. <<Blank>> \in Seq(Screens) /\ Len(<<Blank>>) = 1 BY DEF Blank, Screens, Colours
  <2>3. <<Blank>> \o ojq \in Seq(Screens) /\ Len(<<Blank>> \o ojq) = Len(<<Blank>>) + Len(ojq)
        /\ Len(ojq) \in Nat
    BY <2>1, <2>2, Joined
  <2>4. ojq' \in Seq(Screens) /\ Len(ojq') <= Limit BY <1>3, <2>1, <2>2, <2>3 DEF Disable
  <2>5. stale' \subseteq Things BY <1>3 DEF Disable, TypeOK, Things
  <2>6. QED BY <1>3, <2>4, <2>5 DEF Disable, TypeOK, toVars, simVars
<1>4. QED BY <1>1, <1>2, <1>3

LEMMA PurgeType ==
  ASSUME TypeOK, PurgeTake \/ PurgeNext
  PROVE  TypeOK'
<1>1. CASE PurgeTake
  <2>0. ijq \in Seq(Cmds) /\ ojq \in Seq(Screens) /\ Limit \in Nat
        /\ Len(ijq) <= Limit /\ Len(ojq) <= Limit
    BY SwitchAssumption DEF TypeOK
  <2>1. ijq # <<>> => Tail(ijq) \in Seq(Cmds) /\ Len(Tail(ijq)) <= Limit BY <2>0
  <2>2. ojq # <<>> => Tail(ojq) \in Seq(Screens) /\ Len(Tail(ojq)) <= Limit BY <2>0
  <2>3. ijq' \in Seq(Cmds) /\ Len(ijq') <= Limit BY <1>1, <2>0, <2>1 DEF PurgeTake
  <2>4. ojq' \in Seq(Screens) /\ Len(ojq') <= Limit BY <1>1, <2>0, <2>2 DEF PurgeTake
  <2>5. stale' \subseteq Things BY <1>1 DEF PurgeTake, TypeOK, Things
  <2>6. QED BY <1>1, <2>3, <2>4, <2>5 DEF PurgeTake, TypeOK, pluginVars, toVars, simVars
<1>2. CASE PurgeNext
  <2>1. enabled' \in BOOLEAN /\ trig' \in BOOLEAN BY <1>2 DEF PurgeNext, TypeOK
  <2>2. at' \in {"idle", "purgeIn"} /\ op' \in {"none", "enable", "disable"}
    BY <1>2 DEF PurgeNext, TypeOK
  <2>3. QED BY <1>2, <2>1, <2>2 DEF PurgeNext, TypeOK, toVars, simVars
<1>3. QED BY <1>1, <1>2

LEMMA ToPanelType ==
  ASSUME TypeOK, ToWake \/ ToShow
  PROVE  TypeOK'
<1>1. CASE ToWake BY <1>1 DEF ToWake, TypeOK, pluginVars, simVars
<1>2. CASE ToShow
  <2>0. ojq \in Seq(Screens) /\ ojq # <<>> /\ Len(ojq) <= Limit /\ Limit \in Nat
    BY <1>2, SwitchAssumption DEF TypeOK, ToShow
  <2>1. Head(ojq) \in Screens /\ Tail(ojq) \in Seq(Screens) /\ Len(Tail(ojq)) <= Limit
    BY <2>0
  <2>2. Head(ojq)[2] \in Colours BY <2>1 DEF Screens
  <2>3. ojq' = Tail(ojq) /\ leds' = Head(ojq)[2] /\ getting' = FALSE BY <1>2 DEF ToShow
  <2>4. stale' \subseteq Things BY <1>2 DEF ToShow, TypeOK
  <2>5. QED BY <1>2, <2>1, <2>2, <2>3, <2>4 DEF ToShow, TypeOK, pluginVars, simVars
<1>3. QED BY <1>1, <1>2

LEMMA StepType == TypeOK /\ [Next]_vars => TypeOK'
<1>1. SUFFICES ASSUME TypeOK, [Next]_vars PROVE TypeOK' OBVIOUS
<1>2. CASE UNCHANGED vars BY <1>1, <1>2 DEF TypeOK, vars, pluginVars, toVars, simVars
<1>3. CASE Next
  BY <1>1, <1>3, ReportType, DeliverType, FlightLoopType, PlaneType, EnableType, PurgeType,
     ToPanelType
  DEF Next
<1>4. QED BY <1>1, <1>2, <1>3

(* The model's types: no switch panel queue ever holds more than its limit *)
(* (SwitchPanel's job queues), whatever the lights, the reports, the       *)
(* planes and the limit.                                                   *)
THEOREM Types == Spec => []TypeOK
BY InitType, StepType, PTL DEF Spec
----------------------------------------------------------------------------
(* A queue that ends in m about m[1], or holds something about x, through  *)
(* a post at its end and a get at its head.                                *)
LEMMA EndsAppended ==
  ASSUME NEW q \in Seq(Cmds), NEW m \in Cmds, NEW w,
         m = w \/ (m[1] # w[1] /\ EndsIn(q, w))
  PROVE  EndsIn(Append(q, m), w)
<1> DEFINE a == Append(q, m)
<1>1. /\ Len(a) = Len(q) + 1 /\ Len(q) \in Nat /\ a[Len(q) + 1] = m
      /\ \A i \in 1..Len(q) : a[i] = q[i]
  BY Appended
<1> HIDE DEF a
<1>2. SUFFICES ASSUME NEW i \in 1..Len(a), a[i][1] = w[1]
               PROVE  a[i] = w \/ \E j \in (i + 1)..Len(a) : a[j][1] = w[1]
  BY DEF EndsIn, a
<1>3. CASE m = w
  <2>1. CASE i = Len(q) + 1 BY <2>1, <1>1, <1>3
  <2>2. CASE i # Len(q) + 1
    <3>1. Len(a) \in (i + 1)..Len(a) /\ a[Len(a)][1] = w[1] BY <2>2, <1>1, <1>3
    <3>2. QED BY <3>1
  <2>3. QED BY <2>1, <2>2
<1>4. CASE m[1] # w[1] /\ EndsIn(q, w)
  <2>1. i \in 1..Len(q) /\ q[i][1] = w[1] BY <1>1, <1>2, <1>4
  <2>2. CASE q[i] = w BY <2>1, <2>2, <1>1
  <2>3. CASE \E j \in (i + 1)..Len(q) : q[j][1] = w[1]
    <3>1. PICK j \in (i + 1)..Len(q) : q[j][1] = w[1] BY <2>3
    <3>2. j \in (i + 1)..Len(a) /\ a[j] = q[j] BY <3>1, <2>1, <1>1
    <3>3. QED BY <3>1, <3>2
  <2>4. QED BY <2>1, <2>2, <2>3, <1>4 DEF EndsIn
<1>5. QED BY <1>3, <1>4

LEMMA AmongAppended ==
  ASSUME NEW q \in Seq(Cmds), NEW m \in Cmds, NEW x, m[1] = x \/ Among(q, x)
  PROVE  Among(Append(q, m), x)
<1> DEFINE a == Append(q, m)
<1>1. /\ Len(a) = Len(q) + 1 /\ Len(q) \in Nat /\ a[Len(q) + 1] = m
      /\ \A i \in 1..Len(q) : a[i] = q[i]
  BY Appended
<1> HIDE DEF a
<1>2. CASE m[1] = x
  <2>1. Len(q) + 1 \in 1..Len(a) /\ a[Len(q) + 1][1] = x BY <1>1, <1>2
  <2>2. QED BY <2>1 DEF Among, a
<1>3. CASE Among(q, x)
  <2>1. PICK i \in 1..Len(q) : q[i][1] = x BY <1>3 DEF Among
  <2>2. i \in 1..Len(a) /\ a[i][1] = x BY <2>1, <1>1
  <2>3. QED BY <2>2 DEF Among, a
<1>4. QED BY <1>2, <1>3

LEMMA EndsTaken ==
  ASSUME NEW S, NEW q \in Seq(S), q # <<>>, NEW w, EndsIn(q, w)
  PROVE  /\ EndsIn(Tail(q), w)
         /\ Head(q)[1] = w[1] /\ ~Among(Tail(q), w[1]) => Head(q) = w
<1> DEFINE t == Tail(q)
<1>1. /\ Head(q) = q[1] /\ Len(q) \in Nat \ {0} /\ Len(t) = Len(q) - 1
      /\ \A i \in 1..Len(t) : t[i] = q[i + 1]
  BY Taken
<1> HIDE DEF t
<1>2. ASSUME NEW i \in 1..Len(t), t[i][1] = w[1]
      PROVE  t[i] = w \/ \E j \in (i + 1)..Len(t) : t[j][1] = w[1]
  <2>1. i + 1 \in 1..Len(q) /\ t[i] = q[i + 1] BY <1>1
  <2>2. CASE q[i + 1] = w BY <2>1, <2>2
  <2>3. CASE \E j \in (i + 1 + 1)..Len(q) : q[j][1] = w[1]
    <3>1. PICK j \in (i + 1 + 1)..Len(q) : q[j][1] = w[1] BY <2>3
    <3>2. j - 1 \in (i + 1)..Len(t) /\ j - 1 \in 1..Len(t) /\ (j - 1) + 1 = j BY <3>1, <1>1
    <3>3. t[j - 1] = q[j] BY <3>2, <1>1
    <3>4. QED BY <3>1, <3>2, <3>3
  <2>4. QED BY <2>1, <2>2, <2>3, <1>2 DEF EndsIn
<1>3. ASSUME Head(q)[1] = w[1], ~Among(t, w[1]) PROVE Head(q) = w
  <2>1. 1 \in 1..Len(q) /\ q[1][1] = w[1] BY <1>1, <1>3
  <2>2. CASE \E j \in (1 + 1)..Len(q) : q[j][1] = w[1]
    <3>1. PICK j \in (1 + 1)..Len(q) : q[j][1] = w[1] BY <2>2
    <3>2. j - 1 \in 1..Len(t) /\ (j - 1) + 1 = j BY <3>1, <1>1
    <3>3. t[j - 1] = q[j] BY <3>2, <1>1
    <3>4. QED BY <3>1, <3>2, <3>3, <1>3 DEF Among
  <2>3. QED BY <2>1, <2>2, <1>1 DEF EndsIn
<1>4. QED BY <1>2, <1>3 DEF EndsIn, t

LEMMA AmongTaken ==
  ASSUME NEW S, NEW q \in Seq(S), q # <<>>, NEW x, Among(q, x), Head(q)[1] # x
  PROVE  Among(Tail(q), x)
<1> DEFINE t == Tail(q)
<1>1. /\ Head(q) = q[1] /\ Len(q) \in Nat \ {0} /\ Len(t) = Len(q) - 1
      /\ \A i \in 1..Len(t) : t[i] = q[i + 1]
  BY Taken
<1> HIDE DEF t
<1>2. PICK j \in 1..Len(q) : q[j][1] = x BY DEF Among
<1>3. j - 1 \in 1..Len(t) /\ (j - 1) + 1 = j BY <1>1, <1>2
<1>4. t[j - 1] = q[j] BY <1>1, <1>3
<1>5. QED BY <1>2, <1>3, <1>4 DEF Among, t
----------------------------------------------------------------------------
(* X-Plane follows the panel: each step keeps OutboxAgrees and Follows for *)
(* every control.                                                          *)
LEMMA ControlNames ==
  /\ Controls \subseteq Things /\ "leds" \notin Controls /\ {"knob", "gear"} \cap Lights = {}
  /\ "panel" \notin Controls
BY Names DEF Controls, Things, Toggles

LEMMA InitFollows == Init => FollowInv
<1>1. SUFFICES ASSUME Init PROVE FollowInv OBVIOUS
<1>2. outbox = <<>> /\ Len(<<>>) = 0 /\ ~enabled /\ stale = Things BY <1>1 DEF Init
<1>3. \A x \in Controls : OutboxAgrees(x) BY <1>2 DEF OutboxAgrees
<1>4. \A x \in Controls : Follows(x) BY <1>2, ControlNames DEF Follows
<1>5. QED BY <1>1, <1>3, <1>4, InitType DEF FollowInv

\* The steps that move no message and no switch of the panel.
LEMMA CalmFollows ==
  ASSUME NEW x \in Controls, OutboxAgrees(x), Follows(x),
         UNCHANGED <<outbox, ijq, panel>>, enabled' => enabled,
         x \in stale => x \in stale', x \in stale' \/ (Done(x) => Done(x)')
  PROVE  OutboxAgrees(x)' /\ Follows(x)'
<1>1. Want(x)' = Want(x) BY DEF Want, Pos, Lever
<1>2. OutboxAgrees(x)' BY <1>1 DEF OutboxAgrees
<1>3. InOutbox(x)' <=> InOutbox(x) BY DEF InOutbox
<1>4. EndsIn(ijq, <<x, Want(x)>>)' <=> EndsIn(ijq, <<x, Want(x)>>) BY <1>1 DEF EndsIn
<1>5. Among(ijq, x)' <=> Among(ijq, x) BY DEF Among
<1>6. QED BY <1>2, <1>3, <1>4, <1>5 DEF Follows

LEMMA ReportFollows ==
  ASSUME FollowInv, NEW r \in Reports, Report(r), NEW x \in Controls
  PROVE  OutboxAgrees(x)' /\ Follows(x)'
<1>1. r \in Position BY SwitchAssumption
<1>2. /\ outbox' = ReportPosts(r) /\ panel' = Left(r) /\ outbox = <<>> /\ Len(<<>>) = 0
      /\ enabled' = enabled /\ stale' = stale /\ ijq' = ijq /\ count' = count /\ mags' = mags /\ gear' = gear
  BY DEF Report, ReportPosts, pluginVars, simVars
<1>3. /\ \A i \in 1..Len(outbox') :
           \/ outbox'[i] = <<"ijq", <<"knob", r.knob>> >> /\ r.knob # "between"
           \/ \E s \in Toggles : outbox'[i] = <<"ijq", <<s, Pos(r, s)>> >>
           \/ outbox'[i] = <<"ijq", <<"gear", Lever(r)>> >> /\ r.gear # {}
           \/ outbox'[i][2][1] = "leds"
      /\ \A s \in Lights : \E i \in 1..Len(outbox') : outbox'[i][2][1] = s
      /\ r.knob # "between" => \E i \in 1..Len(outbox') : outbox'[i][2][1] = "knob"
      /\ r.gear # {} => \E i \in 1..Len(outbox') : outbox'[i][2][1] = "gear"
  BY <1>1, <1>2, ReportShape
<1>4. \A s : Pos(panel', s) = Pos(r, s) BY <1>2 DEF Left, Pos
<1>5. /\ panel'.knob = IF r.knob = "between" THEN panel.knob ELSE r.knob
      /\ panel'.gear = IF r.gear = {} THEN panel.gear ELSE r.gear
  BY <1>2 DEF Left
<1>6. OutboxAgrees(x)'
  <2>1. SUFFICES ASSUME NEW i \in 1..Len(outbox'), outbox'[i][2][1] = x
                 PROVE  outbox'[i] = <<"ijq", <<x, Want(x)'>> >>
    BY DEF OutboxAgrees
  <2>2. CASE outbox'[i] = <<"ijq", <<"knob", r.knob>> >> /\ r.knob # "between"
    <3>1. x = "knob" BY <2>1, <2>2
    <3>2. Want(x)' = r.knob BY <3>1, <2>2, <1>5 DEF Want
    <3>3. QED BY <3>1, <3>2, <2>2
  <2>3. CASE \E s \in Toggles : outbox'[i] = <<"ijq", <<s, Pos(r, s)>> >>
    <3>1. x \in Toggles /\ outbox'[i] = <<"ijq", <<x, Pos(r, x)>> >> BY <2>1, <2>3
    <3>2. Want(x)' = Pos(r, x) BY <3>1, <1>4, Names DEF Want
    <3>3. QED BY <3>1, <3>2
  <2>4. CASE outbox'[i] = <<"ijq", <<"gear", Lever(r)>> >> /\ r.gear # {}
    <3>1. x = "gear" BY <2>1, <2>4
    <3>2. Want(x)' = Lever(r) BY <3>1, <2>4, <1>5 DEF Want, Lever
    <3>3. QED BY <3>1, <3>2, <2>4
  <2>5. QED BY <2>1, <2>2, <2>3, <2>4, <1>3, ControlNames
<1>7. Follows(x)'
  <2>1. CASE \/ x \in Lights
             \/ x = "knob" /\ r.knob # "between"
             \/ x = "gear" /\ r.gear # {}
    <3>1. InOutbox(x)' BY <2>1, <1>3 DEF InOutbox
    <3>2. QED BY <3>1 DEF Follows
  <2>2. CASE \/ x = "knob" /\ r.knob = "between"
             \/ x = "gear" /\ r.gear = {}
    <3>1. Want(x)' = Want(x) BY <2>2, <1>5 DEF Want, Lever
    <3>2. Done(x)' <=> Done(x) BY <2>2, <1>2, <1>5 DEF Done, KnobDone, Lever
    <3>3. ~InOutbox(x) BY <1>2 DEF InOutbox
    <3>4. EndsIn(ijq, <<x, Want(x)>>)' <=> EndsIn(ijq, <<x, Want(x)>>) BY <1>2, <3>1 DEF EndsIn
    <3>5. Among(ijq, x)' <=> Among(ijq, x) BY <1>2 DEF Among
    <3>6. QED BY <3>1, <3>2, <3>3, <3>4, <3>5, <1>2 DEF FollowInv, Follows
  <2>3. QED BY <2>1, <2>2 DEF Controls
<1>8. QED BY <1>6, <1>7

LEMMA ForgetFollows ==
  ASSUME FollowInv, NEW r \in Reports, Forget(r), NEW x \in Controls
  PROVE  OutboxAgrees(x)' /\ Follows(x)'
<1>1. outbox' = <<>> /\ Len(<<>>) = 0 /\ ~enabled' /\ stale' = Things BY DEF Forget, pluginVars
<1>2. OutboxAgrees(x)' BY <1>1 DEF OutboxAgrees
<1>3. Follows(x)' BY <1>1, ControlNames DEF Follows
<1>4. QED BY <1>2, <1>3

LEMMA DeliverFollows ==
  ASSUME FollowInv, Deliver, NEW x \in Controls
  PROVE  OutboxAgrees(x)' /\ Follows(x)'
<1> DEFINE p == Head(outbox)
<1>1. /\ outbox \in Seq(Posts) /\ outbox # <<>> /\ ijq \in Seq(Cmds)
      /\ OutboxAgrees(x) /\ Follows(x)
  BY DEF FollowInv, TypeOK, Deliver, Posts
<1>2. /\ p \in Posts /\ p = outbox[1] /\ Len(outbox) \in Nat \ {0}
      /\ Len(outbox') = Len(outbox) - 1 /\ \A i \in 1..Len(outbox') : outbox'[i] = outbox[i + 1]
  BY <1>1, Taken DEF Deliver
<1>3. /\ \/ p[1] = "ijq" /\ ijq' = Append(ijq, p[2])
         \/ p[1] = "ojq" /\ ijq' = ijq
      /\ enabled' = enabled /\ stale' = stale /\ panel' = panel
      /\ count' = count /\ mags' = mags /\ sim' = sim /\ gear' = gear
  BY DEF Deliver, Post, pluginVars, simVars
<1> HIDE DEF p
<1>4. Want(x)' = Want(x) /\ (Done(x)' <=> Done(x)) BY <1>3 DEF Want, Pos, Lever, Done, KnobDone
<1>5. OutboxAgrees(x)'
  <2>1. \A i \in 1..Len(outbox') : i + 1 \in 1..Len(outbox) BY <1>2
  <2>2. QED BY <1>1, <1>2, <1>4, <2>1 DEF OutboxAgrees
<1>6. p[1] = "ijq" => p[2] \in Cmds BY <1>2 DEF Posts
<1>7. Follows(x)'
  <2>1. CASE p[2][1] = x
    <3>1. 1 \in 1..Len(outbox) BY <1>2
    <3>2. p = <<"ijq", <<x, Want(x)>> >> BY <3>1, <2>1, <1>1, <1>2 DEF OutboxAgrees
    <3>3. ijq' = Append(ijq, <<x, Want(x)>>) /\ <<x, Want(x)>> \in Cmds
      BY <3>2, <1>3, <1>6
    <3>4. EndsIn(ijq', <<x, Want(x)>>)
      <4> DEFINE w == <<x, Want(x)>>
      <4>1. w \in Cmds BY <3>3
      <4> HIDE DEF w
      <4>2. EndsIn(Append(ijq, w), w) BY <4>1, <1>1, EndsAppended
      <4>3. QED BY <4>2, <3>3 DEF w
    <3>5. Among(ijq', x) BY <3>3, <1>1, AmongAppended
    <3>6. QED BY <3>4, <3>5, <1>4 DEF Follows
  <2>2. CASE p[2][1] # x
    <3>1. CASE InOutbox(x)
      <4>1. PICK i \in 1..Len(outbox) : outbox[i][2][1] = x BY <3>1 DEF InOutbox
      <4>2. i # 1 BY <4>1, <2>2, <1>2
      <4>3. i - 1 \in 1..Len(outbox') /\ (i - 1) + 1 = i BY <4>1, <4>2, <1>2
      <4>4. outbox'[i - 1] = outbox[i] BY <4>3, <1>2
      <4>5. InOutbox(x)' BY <4>1, <4>3, <4>4 DEF InOutbox
      <4>6. QED BY <4>5 DEF Follows
    <3>2. CASE x \in stale /\ ~enabled BY <3>2, <1>3 DEF Follows
    <3>3. CASE EndsIn(ijq, <<x, Want(x)>>) /\ (Among(ijq, x) \/ x \in stale \/ Done(x))
      <4> DEFINE w == <<x, Want(x)>>
      <4>1. EndsIn(ijq, w) /\ w[1] = x BY <3>3
      <4> HIDE DEF w
      <4>2. EndsIn(ijq', w)
        <5>1. CASE p[1] = "ijq" /\ ijq' = Append(ijq, p[2])
          <6>1. p[2] \in Cmds /\ p[2][1] # w[1] BY <5>1, <1>6, <2>2, <4>1
          <6>2. QED BY <6>1, <5>1, <4>1, <1>1, EndsAppended
        <5>2. CASE ijq' = ijq BY <5>2, <4>1
        <5>3. QED BY <5>1, <5>2, <1>3
      <4>3. Among(ijq, x) => Among(ijq', x)
        <5>1. CASE p[1] = "ijq" /\ ijq' = Append(ijq, p[2])
          <6>1. p[2] \in Cmds BY <5>1, <1>6
          <6>2. QED BY <6>1, <5>1, <1>1, AmongAppended
        <5>2. CASE ijq' = ijq BY <5>2
        <5>3. QED BY <5>1, <5>2, <1>3
      <4>4. QED BY <3>3, <4>2, <4>3, <1>3, <1>4 DEF Follows, w
    <3>4. QED BY <3>1, <3>2, <3>3, <1>1 DEF Follows
  <2>3. QED BY <2>1, <2>2
<1>8. QED BY <1>5, <1>7

\* A message that X-Plane's thread takes off the queue, to run or to drop it.
LEMMA TakenFollows ==
  ASSUME FollowInv, ijq # <<>>, ijq' = Tail(ijq), NEW x \in Controls,
         UNCHANGED <<outbox, panel>>, enabled' = enabled,
         Head(ijq)[1] = x => x \in stale' \/ (enabled /\ (Head(ijq) = <<x, Want(x)>> => Done(x)')),
         Head(ijq)[1] # x => (x \in stale => x \in stale') /\ (Done(x) => Done(x)')
  PROVE  OutboxAgrees(x)' /\ Follows(x)'
<1> DEFINE w == <<x, Want(x)>>
<1>1. ijq \in Seq(Cmds) /\ OutboxAgrees(x) /\ Follows(x) BY DEF FollowInv, TypeOK
<1>2. Want(x)' = Want(x) BY DEF Want, Pos, Lever
<1>3. OutboxAgrees(x)' BY <1>1, <1>2 DEF OutboxAgrees
<1>4. InOutbox(x)' <=> InOutbox(x) BY DEF InOutbox
<1>5. Follows(x)'
  <2>1. CASE InOutbox(x) BY <2>1, <1>4 DEF Follows
  <2>2. CASE x \in stale /\ ~enabled BY <2>2 DEF Follows
  <2>3. CASE EndsIn(ijq, w) /\ (Among(ijq, x) \/ x \in stale \/ Done(x))
    <3>1. w[1] = x OBVIOUS
    <3> HIDE DEF w
    <3>2. /\ EndsIn(ijq', w)
          /\ Head(ijq)[1] = w[1] /\ ~Among(Tail(ijq), w[1]) => Head(ijq) = w
      BY <2>3, <1>1, EndsTaken
    <3>3. Among(ijq, x) /\ Head(ijq)[1] # x => Among(ijq', x) BY <1>1, AmongTaken
    <3>4. Among(ijq', x) \/ x \in stale' \/ Done(x)'
      <4>1. CASE Head(ijq)[1] = x BY <4>1, <3>1, <3>2 DEF w
      <4>2. CASE Head(ijq)[1] # x BY <4>2, <2>3, <3>3
      <4>3. QED BY <4>1, <4>2
    <3>5. QED BY <3>2, <3>4, <1>2 DEF Follows, w
  <2>4. QED BY <2>1, <2>2, <2>3, <1>1 DEF Follows
<1>6. QED BY <1>3, <1>5

\* Off, both and start are commands for all engines the plugin counts.
LEMMA AllEngines ==
  ASSUME NEW pos \in {"off", "both", "start"}, NEW n \in Engine
  PROVE  Engines(pos, n) = 1..n
<1>1. pos # "right" /\ pos # "left" OBVIOUS
<1>2. QED BY <1>1 DEF Engines

LEMMA FlightLoopFollows ==
  ASSUME FollowInv, FlightLoop, NEW x \in Controls
  PROVE  OutboxAgrees(x)' /\ Follows(x)'
<1> DEFINE m == Head(ijq)
<1>1. /\ ijq # <<>> /\ ijq' = Tail(ijq) /\ enabled /\ enabled' = enabled
      /\ panel' = panel /\ outbox' = outbox /\ count' = count
      /\ stale' = stale \ {m[1]} /\ Execute(m)
  BY DEF FlightLoop, pluginVars
<1>2. /\ mags \in [Engine -> Turned] /\ sim \in [Masters \cup Lights -> {"on", "off"}]
  BY DEF FollowInv, TypeOK
<1> HIDE DEF m
<1>3. ASSUME m[1] = x, m = <<x, Want(x)>> PROVE Done(x)'
  <2>1. CASE x = "knob"
    <3>1. RunKnob(panel.knob) BY <2>1, <1>1, <1>3, Names DEF Execute, Toggles, Want
    <3>2. SUFFICES ASSUME panel.knob \in {"off", "both", "start"}, count \in Engine,
                          NEW e \in 1..count
                   PROVE  mags'[e] = panel.knob
      BY <2>1, <1>1 DEF Done, KnobDone
    <3>3. e \in Engines(panel.knob, count) /\ e \in Engine
      <4>1. Engines(panel.knob, count) = 1..count BY <3>2, AllEngines
      <4>2. QED BY <4>1, <3>2 DEF Engine
    <3>4. QED BY <3>1, <3>3 DEF RunKnob
  <2>2. CASE x \in Lights
    <3>1. x # "knob" /\ x # "panel" /\ x # "gear" BY <2>2, Names DEF Toggles
    <3>2. RunSwitch(x, Pos(panel, x)) BY <2>2, <3>1, <1>1, <1>3 DEF Execute, Want
    <3>3. sim'[x] = Pos(panel, x) BY <3>2, <2>2, <1>2 DEF RunSwitch
    <3>4. QED BY <3>1, <3>3, <1>1 DEF Done, Pos
  <2>3. CASE x = "gear"
    <3>1. RunGear(Lever(panel)) BY <2>3, <1>1, <1>3, Names DEF Execute, Toggles, Want
    <3>2. QED BY <2>3, <3>1, <1>1 DEF RunGear, Done, Lever
  <2>4. QED BY <2>1, <2>2, <2>3 DEF Controls
<1>4. ASSUME m[1] # x, Done(x) PROVE Done(x)'
  <2>1. CASE x = "knob"
    <3>1. mags' = mags BY <2>1, <1>1, <1>4 DEF Execute, RunPanel, RunGear, RunSwitch
    <3>2. QED BY <2>1, <3>1, <1>1, <1>4 DEF Done, KnobDone
  <2>2. CASE x \in Lights
    <3>1. sim'[x] = sim[x]
      BY <2>2, <1>1, <1>2, <1>4 DEF Execute, RunKnob, RunPanel, RunGear, RunSwitch
    <3>2. QED BY <2>2, <3>1, <1>1, <1>4, ControlNames DEF Done, Pos
  <2>3. CASE x = "gear"
    <3>1. gear' = gear BY <2>3, <1>1, <1>4 DEF Execute, RunKnob, RunPanel, RunSwitch
    <3>2. QED BY <2>3, <3>1, <1>1, <1>4 DEF Done, Lever
  <2>4. QED BY <2>1, <2>2, <2>3 DEF Controls
<1>5. m[1] # x => (x \in stale => x \in stale') BY <1>1
<1>6. QED BY <1>1, <1>3, <1>4, <1>5, TakenFollows DEF m

LEMMA PurgeFollows ==
  ASSUME FollowInv, PurgeTake \/ PurgeNext, NEW x \in Controls
  PROVE  OutboxAgrees(x)' /\ Follows(x)'
<1>1. OutboxAgrees(x) /\ Follows(x) BY DEF FollowInv
<1>2. CASE PurgeTake
  <2>1. /\ outbox' = outbox /\ panel' = panel /\ enabled' = enabled
        /\ count' = count /\ mags' = mags /\ sim' = sim /\ gear' = gear
    BY <1>2 DEF PurgeTake, pluginVars, simVars
  <2>2. Done(x)' <=> Done(x) BY <2>1 DEF Done, KnobDone, Pos, Lever
  <2>3. CASE ijq' = ijq /\ stale' = stale \cup {"leds"}
    BY <2>1, <2>2, <2>3, <1>1, CalmFollows
  <2>4. CASE ijq # <<>> /\ ijq' = Tail(ijq) /\ stale' = stale \cup ({Head(ijq)[1]} \cap Things)
    <3>1. Head(ijq)[1] = x => x \in stale' BY <2>4, ControlNames
    <3>2. x \in stale => x \in stale' BY <2>4
    <3>3. QED BY <2>1, <2>2, <2>4, <3>1, <3>2, TakenFollows
  <2>5. QED BY <1>2, <2>3, <2>4 DEF PurgeTake
<1>3. CASE PurgeNext
  <2>1. /\ outbox' = outbox /\ panel' = panel /\ ijq' = ijq /\ stale' = stale
        /\ count' = count /\ mags' = mags /\ sim' = sim /\ gear' = gear
        /\ enabled' = enabled \/ ijq = <<>>
    BY <1>3 DEF PurgeNext, simVars
  <2>2. Done(x)' <=> Done(x) BY <2>1 DEF Done, KnobDone, Pos, Lever
  <2>3. CASE enabled' => enabled BY <2>1, <2>2, <2>3, <1>1, CalmFollows
  <2>4. CASE enabled' /\ ~enabled
    <3>1. ijq' = <<>> /\ Len(<<>>) = 0
      <4>1. enabled \in BOOLEAN BY DEF FollowInv, TypeOK
      <4>2. QED BY <2>1, <2>4, <4>1
    <3>2. EndsIn(ijq', <<x, Want(x)'>>) BY <3>1 DEF EndsIn
    <3>3. Want(x)' = Want(x) BY <2>1 DEF Want, Pos, Lever
    <3>4. ~Among(ijq, x) BY <2>1, <3>1 DEF Among
    <3>5. InOutbox(x)' <=> InOutbox(x) BY <2>1 DEF InOutbox
    <3>6. OutboxAgrees(x)' BY <1>1, <2>1, <3>3 DEF OutboxAgrees
    <3>7. InOutbox(x) \/ x \in stale \/ Done(x) BY <1>1, <3>4 DEF Follows
    <3>8. QED BY <2>1, <2>2, <3>2, <3>5, <3>6, <3>7 DEF Follows
  <2>5. QED BY <2>3, <2>4
<1>4. QED BY <1>2, <1>3

LEMMA OthersFollow ==
  ASSUME FollowInv, NEW x \in Controls,
         \/ \E s \in Unheard : Silent(s)
         \/ \E p \in Planes : LoadPlane(p)
         \/ UnloadPlane \/ Enable \/ Disable \/ DisablePark \/ ToWake \/ ToShow
  PROVE  OutboxAgrees(x)' /\ Follows(x)'
<1>1. OutboxAgrees(x) /\ Follows(x) /\ sim \in [Masters \cup Lights -> {"on", "off"}]
  BY DEF FollowInv, TypeOK
<1>2. CASE \E s \in Unheard : Silent(s)
  <2>1. PICK s \in Unheard : Silent(s) BY <1>2
  <2>2. /\ outbox' = outbox /\ panel' = panel /\ ijq' = ijq /\ enabled' = enabled
        /\ count' = count /\ mags' = mags /\ stale' = stale \cup {s}
    BY <2>1 DEF Silent, pluginVars
  <2>3. x # s => (Done(x) => Done(x)')
    <3>1. x # s /\ x \in Lights => sim'[x] = sim[x] BY <2>1, <1>1 DEF Silent
    <3>2. "gear" # s => gear' = gear BY <2>1 DEF Silent
    <3>3. QED BY <3>1, <3>2, <2>2, ControlNames DEF Done, KnobDone, Pos, Lever, Controls
  <2>4. QED BY <2>2, <2>3, <1>1, CalmFollows
<1>3. CASE \E p \in Planes : LoadPlane(p)
  <2>1. PICK p \in Planes : LoadPlane(p) BY <1>3
  <2>2. /\ outbox' = outbox /\ panel' = panel /\ ijq' = ijq /\ enabled' = enabled
        /\ mags' = mags /\ sim' = sim /\ gear' = gear
        /\ \/ count' = count /\ stale' = stale
           \/ stale' = stale \cup {"knob"}
    BY <2>1 DEF LoadPlane, simVars
  <2>3. x \in stale' \/ (Done(x) => Done(x)') BY <2>2 DEF Done, KnobDone, Pos, Lever
  <2>4. QED BY <2>2, <2>3, <1>1, CalmFollows
<1>4. CASE UnloadPlane \/ Enable \/ Disable \/ DisablePark \/ ToWake \/ ToShow
  <2>1. /\ outbox' = outbox /\ panel' = panel /\ ijq' = ijq
        /\ count' = count /\ mags' = mags /\ sim' = sim /\ gear' = gear
    BY <1>4 DEF UnloadPlane, Enable, Disable, DisablePark, ToWake, ToShow, simVars
  <2>2. enabled' => enabled
    BY <1>4 DEF UnloadPlane, Enable, Disable, DisablePark, ToWake, ToShow, pluginVars
  <2>3. stale' = stale \/ stale' = stale \cup {"leds"} \/ stale' = stale \ {"leds"}
    <3>1. CASE UnloadPlane BY <3>1 DEF UnloadPlane
    <3>2. CASE Enable \/ DisablePark \/ ToWake BY <3>2 DEF Enable, DisablePark, ToWake
    <3>3. CASE Disable BY <3>3 DEF Disable
    <3>4. CASE ToShow BY <3>4 DEF ToShow
    <3>5. QED BY <1>4, <3>1, <3>2, <3>3, <3>4
  <2>4. x \in stale => x \in stale' BY <2>3, ControlNames
  <2>5. Done(x)' <=> Done(x) BY <2>1 DEF Done, KnobDone, Pos, Lever
  <2>6. QED BY <2>1, <2>2, <2>4, <2>5, <1>1, CalmFollows
<1>5. QED BY <1>2, <1>3, <1>4

LEMMA StepFollows == FollowInv /\ [Next]_vars => FollowInv'
<1>1. SUFFICES ASSUME FollowInv, [Next]_vars PROVE FollowInv' OBVIOUS
<1>2. TypeOK' BY <1>1, StepType DEF FollowInv
<1>3. ASSUME NEW x \in Controls PROVE OutboxAgrees(x)' /\ Follows(x)'
  <2>1. CASE UNCHANGED vars
    <3>1. OutboxAgrees(x) /\ Follows(x) BY <1>1 DEF FollowInv
    <3>2. UNCHANGED <<outbox, ijq, panel, enabled, stale, count, mags, sim, gear>>
      BY <2>1 DEF vars, pluginVars, simVars
    <3>3. Done(x)' <=> Done(x) BY <3>2 DEF Done, KnobDone, Pos, Lever
    <3>4. QED BY <3>1, <3>2, <3>3, CalmFollows
  <2>2. CASE Next
    BY <1>1, <2>2, ReportFollows, ForgetFollows, DeliverFollows, FlightLoopFollows,
       PurgeFollows, OthersFollow
    DEF Next
  <2>3. QED BY <1>1, <2>1, <2>2
<1>4. QED BY <1>2, <1>3 DEF FollowInv

LEMMA AllFollow == Spec => []FollowInv
BY InitFollows, StepFollows, PTL DEF Spec

(* Every light of X-Plane is as its switch is once the last report has     *)
(* been acted on (SwitchPanel!LightsFollow), for any number of lights, any *)
(* reports and any limit of the queues.                                    *)
THEOREM LightsFollowPanel == Spec => []LightsFollow
<1>1. FollowInv => LightsFollow
  <2>1. SUFFICES ASSUME FollowInv, SettledIn, NEW s \in Lights \ stale
                 PROVE  sim[s] = Pos(panel, s)
    BY DEF LightsFollow
  <2>2. outbox = <<>> /\ ijq = <<>> /\ Len(<<>>) = 0 BY <2>1 DEF SettledIn
  <2>3. ~InOutbox(s) /\ ~Among(ijq, s) BY <2>2 DEF InOutbox, Among
  <2>4. Done(s) BY <2>1, <2>3 DEF FollowInv, Follows, Controls
  <2>5. QED BY <2>4, ControlNames DEF Done
<1>2. QED BY <1>1, AllFollow, PTL

(* Off, both and start reach every engine the plugin counts                *)
(* (SwitchPanel!EnginesFollow), for any planes loaded meanwhile.           *)
THEOREM EnginesFollowKnob == Spec => []EnginesFollow
<1>1. FollowInv => EnginesFollow
  <2>1. SUFFICES ASSUME FollowInv, SettledIn, "knob" \notin stale PROVE KnobDone
    BY DEF EnginesFollow, KnobDone
  <2>2. outbox = <<>> /\ ijq = <<>> /\ Len(<<>>) = 0 BY <2>1 DEF SettledIn
  <2>3. ~InOutbox("knob") /\ ~Among(ijq, "knob") BY <2>2 DEF InOutbox, Among
  <2>4. Done("knob") BY <2>1, <2>3 DEF FollowInv, Follows, Controls
  <2>5. QED BY <2>4 DEF Done
<1>2. QED BY <1>1, AllFollow, PTL
----------------------------------------------------------------------------
(* Each control by itself, step by step.                                   *)
LEMMA AmongBefore ==
  ASSUME NEW q \in Seq(Cmds), NEW x
  PROVE  /\ \A m \in Cmds : Among(Append(q, m), x) => m[1] = x \/ Among(q, x)
         /\ q # <<>> /\ Among(Tail(q), x) => Among(q, x)
<1>1. ASSUME NEW m \in Cmds, Among(Append(q, m), x), m[1] # x PROVE Among(q, x)
  <2> DEFINE a == Append(q, m)
  <2>1. /\ Len(a) = Len(q) + 1 /\ Len(q) \in Nat /\ a[Len(q) + 1] = m
        /\ \A i \in 1..Len(q) : a[i] = q[i]
    BY Appended
  <2> HIDE DEF a
  <2>2. PICK i \in 1..Len(a) : a[i][1] = x BY <1>1 DEF Among, a
  <2>3. i # Len(q) + 1 BY <1>1, <2>1, <2>2
  <2>4. i \in 1..Len(q) BY <2>1, <2>3
  <2>5. QED BY <2>1, <2>2, <2>4 DEF Among
<1>2. ASSUME q # <<>>, Among(Tail(q), x) PROVE Among(q, x)
  <2> DEFINE t == Tail(q)
  <2>1. Len(q) \in Nat \ {0} /\ Len(t) = Len(q) - 1 /\ \A i \in 1..Len(t) : t[i] = q[i + 1]
    BY <1>2, Taken
  <2> HIDE DEF t
  <2>2. PICK i \in 1..Len(t) : t[i][1] = x BY <1>2 DEF Among, t
  <2>3. i + 1 \in 1..Len(q) /\ q[i + 1][1] = x BY <2>1, <2>2
  <2>4. QED BY <2>3 DEF Among
<1>3. QED BY <1>1, <1>2

\* What the phase of a control is read from, as the proofs above name it.
LEMMA PhaseReads ==
  ASSUME TypeOK, NEW x
  PROVE  (IsOwed(x) <=> InOutbox(x)) /\ (IsComing(x) <=> Among(ijq, x))
<1>1. DOMAIN outbox = 1..Len(outbox) /\ DOMAIN ijq = 1..Len(ijq) BY DEF TypeOK
<1>2. QED BY <1>1 DEF IsOwed, IsComing, InOutbox, Among

LEMMA PhaseReadsNext ==
  ASSUME TypeOK', NEW x
  PROVE  (IsOwed(x)' <=> InOutbox(x)') /\ (IsComing(x)' <=> Among(ijq', x))
<1>1. DOMAIN outbox' = 1..Len(outbox') /\ DOMAIN ijq' = 1..Len(ijq') BY DEF TypeOK
<1>2. QED BY <1>1 DEF IsOwed, IsComing, InOutbox, Among

\* Deliver takes a message about a control from the outbox to the queue.
LEMMA DeliverSends ==
  ASSUME FollowInv, Deliver, NEW x \in Controls
  PROVE  /\ InOutbox(x) => InOutbox(x)' \/ Among(ijq', x)
         /\ Among(ijq', x) => Among(ijq, x) \/ InOutbox(x)
<1> DEFINE p == Head(outbox)
<1>1. /\ outbox \in Seq(Posts) /\ outbox # <<>> /\ ijq \in Seq(Cmds) /\ OutboxAgrees(x)
  BY DEF FollowInv, TypeOK, Deliver, Posts
<1>2. /\ p \in Posts /\ p = outbox[1] /\ Len(outbox) \in Nat \ {0}
      /\ Len(outbox') = Len(outbox) - 1 /\ \A i \in 1..Len(outbox') : outbox'[i] = outbox[i + 1]
  BY <1>1, Taken DEF Deliver
<1>3. \/ p[1] = "ijq" /\ ijq' = Append(ijq, p[2])
      \/ p[1] = "ojq" /\ ijq' = ijq
  BY DEF Deliver, Post
<1> HIDE DEF p
<1>4. p[1] = "ijq" => p[2] \in Cmds BY <1>2 DEF Posts
<1>5. 1 \in 1..Len(outbox) BY <1>2
<1>6. InOutbox(x) => InOutbox(x)' \/ Among(ijq', x)
  <2>1. CASE p[2][1] = x
    <3>1. p = <<"ijq", <<x, Want(x)>> >> BY <1>5, <2>1, <1>1, <1>2 DEF OutboxAgrees
    <3>2. p[2] \in Cmds /\ ijq' = Append(ijq, p[2]) BY <3>1, <1>3, <1>4
    <3>3. QED BY <3>2, <2>1, <1>1, AmongAppended
  <2>2. ASSUME p[2][1] # x, NEW i \in 1..Len(outbox), outbox[i][2][1] = x PROVE InOutbox(x)'
    <3>1. i # 1 BY <2>2, <1>2
    <3>2. i - 1 \in 1..Len(outbox') /\ (i - 1) + 1 = i BY <3>1, <1>2
    <3>3. outbox'[i - 1] = outbox[i] BY <3>2, <1>2
    <3>4. QED BY <2>2, <3>2, <3>3 DEF InOutbox
  <2>3. QED BY <2>1, <2>2 DEF InOutbox
<1>7. Among(ijq', x) => Among(ijq, x) \/ InOutbox(x)
  <2>1. p[2][1] = x => InOutbox(x) BY <1>2, <1>5 DEF InOutbox
  <2>2. p[1] = "ijq" => (Among(Append(ijq, p[2]), x) => p[2][1] = x \/ Among(ijq, x))
    BY <1>1, <1>4, AmongBefore
  <2>3. QED BY <2>1, <2>2, <1>3
<1>8. QED BY <1>6, <1>7

(* What a step may do with what is owed of a control, on its way or stale. *)
LEMMA SentNext ==
  ASSUME FollowInv, Next, NEW x \in Controls
  PROVE  /\ InOutbox(x) => InOutbox(x)' \/ Among(ijq', x)
         /\ Among(ijq', x) => Among(ijq, x) \/ InOutbox(x)
         /\ x \in stale => x \in stale' \/ (enabled /\ Among(ijq, x))
         /\ enabled' => enabled \/ ~Among(ijq', x)
<1>1. ijq \in Seq(Cmds) /\ Len(<<>>) = 0 BY DEF FollowInv, TypeOK
<1>2. CASE Deliver
  <2>1. stale' = stale /\ enabled' = enabled BY <1>2 DEF Deliver, pluginVars
  <2>2. QED BY <1>2, <2>1, DeliverSends
<1>3. ASSUME NEW r \in Reports, Report(r) \/ Forget(r)
      PROVE  outbox = <<>> /\ ijq' = ijq /\ enabled' = enabled /\ (x \in stale => x \in stale')
  BY <1>3, ControlNames DEF Report, Forget, pluginVars
<1>4. outbox = <<>> => ~InOutbox(x) BY <1>1 DEF InOutbox
<1>5. CASE FlightLoop
  <2>1. /\ ijq # <<>> /\ ijq' = Tail(ijq) /\ outbox' = outbox /\ enabled /\ enabled' = enabled
        /\ stale' = stale \ {Head(ijq)[1]}
    BY <1>5 DEF FlightLoop, pluginVars
  <2>2. Among(ijq', x) => Among(ijq, x) BY <1>1, <2>1, AmongBefore
  <2>3. Head(ijq) = ijq[1] /\ 1 \in 1..Len(ijq)
    <3>1. Head(ijq) = ijq[1] /\ Len(ijq) \in Nat \ {0} BY <1>1, <2>1, Taken
    <3>2. QED BY <3>1
  <2>4. Head(ijq)[1] = x => Among(ijq, x) BY <2>3 DEF Among
  <2>5. InOutbox(x)' <=> InOutbox(x) BY <2>1 DEF InOutbox
  <2>6. QED BY <2>1, <2>2, <2>4, <2>5
<1>6. CASE PurgeTake
  <2>1. outbox' = outbox /\ enabled' = enabled /\ stale \subseteq stale'
    BY <1>6 DEF PurgeTake, pluginVars
  <2>2. ijq' = ijq \/ (ijq # <<>> /\ ijq' = Tail(ijq)) BY <1>6 DEF PurgeTake
  <2>3. Among(ijq', x) => Among(ijq, x) BY <1>1, <2>2, AmongBefore
  <2>4. InOutbox(x)' <=> InOutbox(x) BY <2>1 DEF InOutbox
  <2>5. QED BY <2>1, <2>3, <2>4
<1>7. CASE PurgeNext
  <2>1. /\ outbox' = outbox /\ ijq' = ijq /\ stale' = stale
        /\ enabled' = enabled \/ ijq = <<>>
    BY <1>7 DEF PurgeNext
  <2>2. ijq = <<>> => ~Among(ijq', x) BY <2>1, <1>1 DEF Among
  <2>3. InOutbox(x)' <=> InOutbox(x) BY <2>1 DEF InOutbox
  <2>4. QED BY <2>1, <2>2, <2>3
<1>8. ASSUME \/ \E s \in Unheard : Silent(s)
             \/ \E p \in Planes : LoadPlane(p)
             \/ UnloadPlane \/ Enable \/ Disable \/ DisablePark \/ ToWake
             \/ ToShow
      PROVE  /\ outbox' = outbox /\ ijq' = ijq /\ (x \in stale => x \in stale')
             /\ enabled' => enabled
  <2>1. (\E s \in Unheard : Silent(s)) =>
          UNCHANGED <<outbox, ijq, enabled>> /\ stale \subseteq stale'
    BY DEF Silent, pluginVars
  <2>2. (\E p \in Planes : LoadPlane(p)) =>
          UNCHANGED <<outbox, ijq, enabled>> /\ stale \subseteq stale'
    BY DEF LoadPlane
  <2>3. UnloadPlane \/ Enable \/ DisablePark \/ ToWake =>
          UNCHANGED <<outbox, ijq, enabled>> /\ stale \subseteq stale'
    BY DEF UnloadPlane, Enable, DisablePark, ToWake, pluginVars
  <2>4. Disable => UNCHANGED <<outbox, ijq>> /\ stale \subseteq stale' /\ ~enabled'
    BY DEF Disable
  <2>5. ToShow => UNCHANGED <<outbox, ijq, enabled>> /\ stale \ {"leds"} \subseteq stale'
    BY DEF ToShow, pluginVars
  <2>6. QED BY <1>8, <2>1, <2>2, <2>3, <2>4, <2>5, ControlNames
<1>9. outbox' = outbox => (InOutbox(x)' <=> InOutbox(x)) BY DEF InOutbox
<1>10. QED BY <1>2, <1>3, <1>4, <1>5, <1>6, <1>7, <1>8, <1>9 DEF Next

LEMMA EdgeNext ==
  ASSUME FollowInv, FollowInv', Next, NEW x \in Controls
  PROVE  /\ <<Phase(x), Phase(x)'>> \in Followed!Edges
         /\ Phase(x)' = "there" => Done(x)'
<1>1. /\ (IsOwed(x) <=> InOutbox(x)) /\ (IsComing(x) <=> Among(ijq, x))
      /\ (IsOwed(x)' <=> InOutbox(x)') /\ (IsComing(x)' <=> Among(ijq', x))
  BY PhaseReads, PhaseReadsNext DEF FollowInv
<1>2. /\ IsOwed(x) => IsOwed(x)' \/ IsComing(x)'
      /\ IsComing(x)' => IsComing(x) \/ IsOwed(x)
      /\ x \in stale => x \in stale' \/ (enabled /\ IsComing(x))
      /\ enabled' => enabled \/ ~IsComing(x)'
  BY <1>1, SentNext
<1>3. Phase(x)' = "there" => Done(x)'
  <2>1. SUFFICES ASSUME Phase(x)' = "there" PROVE Done(x)' OBVIOUS
  <2>2. ~IsOwed(x)' /\ ~IsComing(x)' /\ x \notin stale' BY <2>1 DEF Phase, IsLost
  <2>3. Follows(x)' BY DEF FollowInv
  <2>4. QED BY <1>1, <2>2, <2>3 DEF Follows
<1>4. QED BY <1>2, <1>3 DEF Phase, IsLost, Followed!Edges, Followed!Phases

(* Whatever the lights, the reports, the planes and the limit, SwitchPanel *)
(* is an implementation of Following for the controls: each is owed, on    *)
(* its way and there, in this order, unless it was moved unseen, or        *)
(* purged; and X-Plane is as the panel when it is there.                   *)
THEOREM ControlsAreFollowed == Spec => ControlsFollow
<1>1. Init => Followed!Init
  <2>1. SUFFICES ASSUME Init PROVE Followed!Init OBVIOUS
  <2>2. \A x \in Controls : Phase(x) = "lost"
    <3>1. DOMAIN outbox = {} BY <2>1, DOMAIN <<>> = {} DEF Init
    <3>2. Controls \subseteq stale /\ ~enabled BY <2>1, ControlNames DEF Init
    <3>3. QED BY <3>1, <3>2 DEF Phase, IsOwed, IsLost
  <2>3. ASSUME NEW x \in Controls PROVE Done(x) \in BOOLEAN BY DEF Done, KnobDone
  <2>4. QED BY <2>2, <2>3 DEF Followed!Init
<1>2. FollowInv /\ FollowInv' /\ [Next]_vars => [Followed!Next]_(Followed!vars)
  <2>1. SUFFICES ASSUME FollowInv, FollowInv', [Next]_vars
                 PROVE  [Followed!Next]_(Followed!vars)
    OBVIOUS
  <2>2. CASE UNCHANGED vars
    BY <2>2 DEF vars, pluginVars, simVars, Followed!vars, Phase, IsOwed, IsLost, IsComing,
                Done, KnobDone, Lever, Pos
  <2>3. CASE Next
    <3>1. ASSUME NEW x \in Controls
          PROVE  /\ <<Phase(x), Phase(x)'>> \in Followed!Edges
                 /\ Phase(x)' = "there" => Done(x)'
      BY <2>1, <2>3, EdgeNext
    <3>2. Followed!Next BY <3>1 DEF Followed!Next
    <3>3. QED BY <3>2
  <2>4. QED BY <2>1, <2>2, <2>3
<1>3. QED BY <1>1, <1>2, AllFollow, PTL DEF Spec, ControlsFollow, Followed!Spec
----------------------------------------------------------------------------
(* The LEDs: each step keeps LedInv.                                       *)
LEMMA InitLeds == Init => LedInv
<1>1. SUFFICES ASSUME Init PROVE LedInv OBVIOUS
<1>2. /\ outbox = <<>> /\ ojq = <<>> /\ Len(<<>>) = 0 /\ ~enabled
      /\ stale = Things /\ "leds" \in Things
  BY <1>1 DEF Init, Things
<1>3. ParkingOff /\ BlankFirst BY <1>2 DEF ParkingOff, BlankFirst
<1>4. ScreensSent BY <1>2 DEF ScreensSent, LedsEndIn
<1>5. LedsFollow BY <1>2 DEF LedsFollow, LastScreen
<1>6. QED BY <1>3, <1>4, <1>5 DEF LedInv

LEMMA ReportLeds ==
  ASSUME TypeOK, LedInv, NEW r \in Reports, Report(r) \/ Forget(r)
  PROVE  LedInv'
<1>1. /\ outbox = <<>> /\ Len(<<>>) = 0 /\ at' = at /\ enabled' = enabled
      /\ ojq' = ojq /\ ijq' = ijq /\ leds' = leds /\ panel' = Left(r)
      /\ \/ outbox' = ReportPosts(r) /\ stale' = stale
         \/ outbox' = <<>> /\ stale' = Things /\ ~enabled
  BY DEF Report, Forget, ReportPosts, pluginVars, toVars
<1>2. r \in Position /\ stale \subseteq Things /\ {"leds", "gear"} \subseteq Things
  BY SwitchAssumption DEF TypeOK, Things
<1>3. ParkingOff' BY <1>1 DEF LedInv, ParkingOff
<1>4. BlankFirst' BY <1>1, <1>2 DEF LedInv, BlankFirst
<1>5. CASE outbox' = <<>> /\ stale' = Things /\ ~enabled
  <2>1. ScreensSent' BY <1>1, <1>5 DEF ScreensSent, LedsEndIn
  <2>2. LedsFollow' BY <1>1, <1>2, <1>5 DEF LedsFollow, InOutbox
  <2>3. QED BY <2>1, <2>2, <1>3, <1>4 DEF LedInv
<1>6. CASE outbox' = ReportPosts(r) /\ stale' = stale
  <2>1. /\ \A i \in 1..Len(outbox') : outbox'[i][2] # Blank
        /\ r.gear # {} => \E i \in 1..Len(outbox') : outbox'[i][2][1] = "leds"
        /\ r.gear = {} => \A i \in 1..Len(outbox') : outbox'[i][2][1] \notin {"gear", "leds"}
        /\ LedsEndIn(outbox', ShowIt(r))
    BY <1>2, <1>6, ReportShape
  <2>2. panel'.gear = IF r.gear = {} THEN panel.gear ELSE r.gear BY <1>1 DEF Left
  <2>3. CASE r.gear # {}
    <3>1. ShowIt(panel') = ShowIt(r) BY <2>2, <2>3 DEF ShowIt, Shown
    <3>2. ScreensSent' BY <3>1, <2>1 DEF ScreensSent
    <3>3. LedsFollow' BY <2>1, <2>3 DEF LedsFollow, InOutbox
    <3>4. QED BY <3>2, <3>3, <1>3, <1>4 DEF LedInv
  <2>4. CASE r.gear = {}
    <3>1. Shown(panel') = Shown(panel) BY <2>2, <2>4 DEF Shown
    <3>2. ScreensSent' BY <2>1, <2>4 DEF ScreensSent, LedsEndIn
    <3>3. ~InOutbox("leds") /\ ~InOutbox("gear")' BY <1>1, <2>1, <2>4 DEF InOutbox
    <3>4. LastScreen' <=> LastScreen BY <1>1, <3>1 DEF LastScreen
    <3>5. Among(ijq, "gear")' <=> Among(ijq, "gear") BY <1>1 DEF Among
    <3>6. LedsFollow' BY <1>1, <1>6, <3>1, <3>3, <3>4, <3>5 DEF LedInv, LedsFollow
    <3>7. QED BY <3>2, <3>6, <1>3, <1>4 DEF LedInv
  <2>5. QED BY <2>3, <2>4
<1>7. QED BY <1>1, <1>5, <1>6

LEMMA DeliverLeds ==
  ASSUME TypeOK, LedInv, Deliver
  PROVE  LedInv'
<1> DEFINE p == Head(outbox)
<1>1. outbox \in Seq(Posts) /\ outbox # <<>> /\ ijq \in Seq(Cmds) /\ ojq \in Seq(Screens)
  BY DEF TypeOK, Deliver, Posts
<1>2. /\ p \in Posts /\ p = outbox[1] /\ Len(outbox) \in Nat \ {0}
      /\ Len(outbox') = Len(outbox) - 1 /\ \A i \in 1..Len(outbox') : outbox'[i] = outbox[i + 1]
  BY <1>1, Taken DEF Deliver
<1>3. /\ \/ p[1] = "ijq" /\ ijq' = Append(ijq, p[2]) /\ ojq' = ojq
         \/ p[1] = "ojq" /\ ojq' = Append(ojq, p[2]) /\ ijq' = ijq
      /\ enabled' = enabled /\ at' = at /\ stale' = stale /\ panel' = panel /\ leds' = leds
  BY DEF Deliver, Post, pluginVars, toVars
<1> HIDE DEF p
<1>4. /\ p[1] = "ijq" => p[2] \in Cmds /\ p[2][1] # "leds"
      /\ p[1] = "ojq" => p[2] \in Screens /\ p[2][1] = "leds"
  <2>1. p[1] = "ijq" => p[2] \in Cmds BY <1>2 DEF Posts
  <2>2. p[1] = "ojq" => p[2] \in Screens BY <1>2 DEF Posts
  <2>3. \A m \in Cmds : m[1] # "leds" BY Names DEF Cmds
  <2>4. QED BY <2>1, <2>2, <2>3 DEF Screens
<1>5. ParkingOff' BY <1>3 DEF LedInv, ParkingOff
<1>6. Shown(panel)' = Shown(panel) /\ ShowIt(panel)' = ShowIt(panel) BY <1>3 DEF Shown, ShowIt
<1>7. 1 \in 1..Len(outbox) /\ p[2] # Blank BY <1>2 DEF LedInv, ScreensSent
<1>8. BlankFirst'
  <2>1. CASE ojq' = ojq BY <2>1, <1>3 DEF LedInv, BlankFirst
  <2>2. CASE p[1] = "ojq" /\ ojq' = Append(ojq, p[2])
    <3>1. /\ Len(ojq') = Len(ojq) + 1 /\ Len(ojq) \in Nat /\ ojq'[Len(ojq) + 1] = p[2]
          /\ \A i \in 1..Len(ojq) : ojq'[i] = ojq[i]
      BY <2>2, <1>1, <1>4, Appended
    <3>2. ASSUME NEW i \in 1..Len(ojq'), ojq'[i] = Blank
          PROVE  i = 1 /\ "leds" \in stale' /\ at' \in {"park", "purgeOut"}
      <4>1. i \in 1..Len(ojq) /\ ojq[i] = Blank BY <3>1, <3>2, <1>7
      <4>2. QED BY <4>1, <1>3 DEF LedInv, BlankFirst
    <3>3. QED BY <3>2 DEF BlankFirst
  <2>3. QED BY <2>1, <2>2, <1>3
<1>9. ScreensSent'
  <2>1. \A i \in 1..Len(outbox') : i + 1 \in 1..Len(outbox) BY <1>2
  <2>2. \A i \in 1..Len(outbox') : outbox'[i][2] # Blank
    BY <2>1, <1>2 DEF LedInv, ScreensSent
  <2>3. ASSUME NEW i \in 1..Len(outbox'), outbox'[i][2][1] = "leds"
        PROVE  \/ outbox'[i] = ShowIt(panel)
               \/ \E j \in (i + 1)..Len(outbox') : outbox'[j][2][1] = "leds"
    <3>1. i + 1 \in 1..Len(outbox) /\ outbox[i + 1][2][1] = "leds" BY <2>1, <2>3, <1>2
    <3>2. CASE outbox[i + 1] = ShowIt(panel) BY <3>2, <1>2
    <3>3. CASE \E j \in (i + 1 + 1)..Len(outbox) : outbox[j][2][1] = "leds"
      <4>1. PICK j \in (i + 1 + 1)..Len(outbox) : outbox[j][2][1] = "leds" BY <3>3
      <4>2. j - 1 \in (i + 1)..Len(outbox') /\ j - 1 \in 1..Len(outbox') /\ (j - 1) + 1 = j
        BY <4>1, <1>2
      <4>3. outbox'[j - 1] = outbox[j] BY <4>2, <1>2
      <4>4. QED BY <4>1, <4>2, <4>3
    <3>4. QED BY <3>1, <3>2, <3>3 DEF LedInv, ScreensSent, LedsEndIn
  <2>4. LedsEndIn(outbox', ShowIt(panel)') BY <2>3, <1>6 DEF LedsEndIn
  <2>5. QED BY <2>2, <2>4 DEF ScreensSent
<1>10. ASSUME NEW x, InOutbox(x), p[2][1] # x PROVE InOutbox(x)'
  <2>1. PICK i \in 1..Len(outbox) : outbox[i][2][1] = x BY <1>10 DEF InOutbox
  <2>2. i # 1 BY <2>1, <1>2, <1>10
  <2>3. i - 1 \in 1..Len(outbox') /\ (i - 1) + 1 = i BY <2>1, <2>2, <1>2
  <2>4. outbox'[i - 1] = outbox[i] BY <2>3, <1>2
  <2>5. QED BY <2>1, <2>3, <2>4 DEF InOutbox
<1>11. ASSUME NEW x, InOutbox(x)' PROVE InOutbox(x)
  <2>1. PICK i \in 1..Len(outbox') : outbox'[i][2][1] = x BY <1>11 DEF InOutbox
  <2>2. i + 1 \in 1..Len(outbox) /\ outbox[i + 1][2][1] = x BY <2>1, <1>2
  <2>3. QED BY <2>2 DEF InOutbox
<1>12. LedsFollow'
  <2>1. CASE p[1] = "ojq" /\ ojq' = Append(ojq, p[2])
    <3>1. CASE InOutbox("leds")' BY <3>1 DEF LedsFollow
    <3>2. CASE ~InOutbox("leds")'
      <4>1. p = ShowIt(panel)
        <5>1. p[2][1] = "leds" BY <2>1, <1>4
        <5>2. SUFFICES ASSUME \E j \in (1 + 1)..Len(outbox) : outbox[j][2][1] = "leds"
                       PROVE  FALSE
          BY <5>1, <1>2, <1>7 DEF LedInv, ScreensSent, LedsEndIn
        <5>3. PICK j \in (1 + 1)..Len(outbox) : outbox[j][2][1] = "leds" BY <5>2
        <5>4. j - 1 \in 1..Len(outbox') /\ (j - 1) + 1 = j BY <5>3, <1>2
        <5>5. outbox'[j - 1] = outbox[j] BY <5>4, <1>2
        <5>6. QED BY <5>3, <5>4, <5>5, <3>2 DEF InOutbox
      <4>2. ojq'[Len(ojq')] = <<"leds", Shown(panel)>> /\ Len(ojq') # 0
        <5>1. /\ Len(ojq') = Len(ojq) + 1 /\ Len(ojq) \in Nat /\ ojq'[Len(ojq) + 1] = p[2]
          BY <2>1, <1>1, <1>4, Appended
        <5>2. QED BY <5>1, <4>1 DEF ShowIt
      <4>3. ojq' # <<>>
        <5>1. Len(<<>>) = 0 OBVIOUS
        <5>2. QED BY <5>1, <4>2
      <4>4. QED BY <4>2, <4>3, <1>6 DEF LedsFollow, LastScreen
    <3>3. QED BY <3>1, <3>2
  <2>2. CASE p[1] = "ijq" /\ ijq' = Append(ijq, p[2]) /\ ojq' = ojq
    <3>1. CASE InOutbox("leds") BY <3>1, <2>2, <1>4, <1>10 DEF LedsFollow
    <3>2. CASE LastScreen /\ (ojq # <<>> \/ "leds" \in stale \/ leds = Shown(panel))
      <4>1. LastScreen' BY <3>2, <2>2, <1>6 DEF LastScreen
      <4>2. QED BY <4>1, <3>2, <2>2, <1>3, <1>6 DEF LedsFollow
    <3>3. CASE "gear" \in stale /\ ~InOutbox("gear") /\ (~enabled \/ ~Among(ijq, "gear"))
      <4>1. ~InOutbox("gear")' BY <3>3, <1>11
      <4>2. p[2][1] # "gear" BY <3>3, <1>2, <1>7 DEF InOutbox
      <4>3. Among(ijq', "gear") => Among(ijq, "gear")
        <5>1. /\ Len(ijq') = Len(ijq) + 1 /\ Len(ijq) \in Nat /\ ijq'[Len(ijq) + 1] = p[2]
              /\ \A i \in 1..Len(ijq) : ijq'[i] = ijq[i]
          BY <2>2, <1>1, <1>4, Appended
        <5>2. SUFFICES ASSUME NEW i \in 1..Len(ijq'), ijq'[i][1] = "gear"
                       PROVE  Among(ijq, "gear")
          BY DEF Among
        <5>3. i \in 1..Len(ijq) /\ ijq[i][1] = "gear" BY <5>1, <5>2, <4>2
        <5>4. QED BY <5>3 DEF Among
      <4>4. QED BY <3>3, <4>1, <4>3, <1>3 DEF LedsFollow
    <3>4. QED BY <3>1, <3>2, <3>3 DEF LedInv, LedsFollow
  <2>3. QED BY <2>1, <2>2, <1>3
<1>13. QED BY <1>5, <1>8, <1>9, <1>12 DEF LedInv

\* The steps that move no message and light no LED.
LEMMA CalmLeds ==
  ASSUME LedInv, UNCHANGED <<outbox, ijq, ojq, panel, leds>>,
         enabled' => enabled, ParkingOff',
         stale \subseteq stale', \A i \in 1..Len(ojq) : ojq[i] = Blank => at' \in {"park", "purgeOut"}
  PROVE  LedInv'
<1>1. BlankFirst' BY DEF LedInv, BlankFirst
<1>2. ScreensSent'
  <2>1. ShowIt(panel)' = ShowIt(panel) BY DEF ShowIt, Shown
  <2>2. QED BY <2>1 DEF LedInv, ScreensSent, LedsEndIn
<1>3. Shown(panel)' = Shown(panel) BY DEF Shown
<1>4. LastScreen' <=> LastScreen BY <1>3 DEF LastScreen
<1>5. /\ InOutbox("leds")' <=> InOutbox("leds")
      /\ InOutbox("gear")' <=> InOutbox("gear")
      /\ Among(ijq, "gear")' <=> Among(ijq, "gear")
  BY DEF InOutbox, Among
<1>6. LedsFollow' BY <1>3, <1>4, <1>5 DEF LedInv, LedsFollow
<1>7. QED BY <1>1, <1>2, <1>6 DEF LedInv

\* A message for X-Plane that its thread runs or drops: no LED is touched.
LEMMA TakenLeds ==
  ASSUME TypeOK, LedInv, ijq # <<>>, ijq' = Tail(ijq),
         UNCHANGED <<outbox, ojq, panel, leds, enabled, at>>,
         "leds" \in stale => "leds" \in stale',
         enabled /\ ~Among(ijq, "gear") /\ "gear" \in stale => "gear" \in stale',
         ~enabled => ("gear" \in stale => "gear" \in stale')
  PROVE  LedInv'
<1>1. ParkingOff' BY DEF LedInv, ParkingOff
<1>2. BlankFirst' BY DEF LedInv, BlankFirst
<1>3. ScreensSent'
  <2>1. ShowIt(panel)' = ShowIt(panel) BY DEF ShowIt, Shown
  <2>2. QED BY <2>1 DEF LedInv, ScreensSent, LedsEndIn
<1>4. Shown(panel)' = Shown(panel) BY DEF Shown
<1>5. LastScreen' <=> LastScreen BY <1>4 DEF LastScreen
<1>6. (InOutbox("leds")' <=> InOutbox("leds")) /\ (InOutbox("gear")' <=> InOutbox("gear"))
  BY DEF InOutbox
<1>7. Among(ijq', "gear") => Among(ijq, "gear")
  <2>1. ijq \in Seq(Cmds) BY DEF TypeOK
  <2>2. Len(ijq') = Len(ijq) - 1 /\ Len(ijq) \in Nat \ {0}
        /\ \A i \in 1..Len(ijq') : ijq'[i] = ijq[i + 1]
    BY <2>1, Taken
  <2>3. SUFFICES ASSUME NEW i \in 1..Len(ijq'), ijq'[i][1] = "gear"
                 PROVE  Among(ijq, "gear")
    BY DEF Among
  <2>4. i + 1 \in 1..Len(ijq) /\ ijq[i + 1][1] = "gear" BY <2>2, <2>3
  <2>5. QED BY <2>4 DEF Among
<1>8. LedsFollow' BY <1>4, <1>5, <1>6, <1>7 DEF LedInv, LedsFollow
<1>9. QED BY <1>1, <1>2, <1>3, <1>8 DEF LedInv

\* A screen taken off the queue of the LEDs, to be lit or dropped.
LEMMA ScreenTaken ==
  ASSUME TypeOK, LedInv, ojq # <<>>, ojq' = Tail(ojq),
         UNCHANGED <<outbox, ijq, panel, enabled, at>>,
         "gear" \in stale => "gear" \in stale',
         "leds" \in stale' \/ (Head(ojq) # Blank /\ leds' = Head(ojq)[2])
  PROVE  LedInv'
<1>1. ojq \in Seq(Screens) BY DEF TypeOK
<1>2. /\ Head(ojq) = ojq[1] /\ Len(ojq) \in Nat \ {0} /\ Len(ojq') = Len(ojq) - 1
      /\ ojq' \in Seq(Screens) /\ \A i \in 1..Len(ojq') : ojq'[i] = ojq[i + 1]
  BY <1>1, Taken
<1>3. ParkingOff' BY DEF LedInv, ParkingOff
<1>4. BlankFirst'
  <2>1. SUFFICES ASSUME NEW i \in 1..Len(ojq'), ojq'[i] = Blank PROVE FALSE BY DEF BlankFirst
  <2>2. i + 1 \in 1..Len(ojq) /\ ojq[i + 1] = Blank /\ i + 1 # 1 BY <2>1, <1>2
  <2>3. QED BY <2>2 DEF LedInv, BlankFirst
<1>5. ScreensSent'
  <2>1. ShowIt(panel)' = ShowIt(panel) BY DEF ShowIt, Shown
  <2>2. QED BY <2>1 DEF LedInv, ScreensSent, LedsEndIn
<1>6. Shown(panel)' = Shown(panel) BY DEF Shown
<1>7. /\ InOutbox("leds")' <=> InOutbox("leds")
      /\ InOutbox("gear")' <=> InOutbox("gear")
      /\ Among(ijq, "gear")' <=> Among(ijq, "gear")
  BY DEF InOutbox, Among
<1>8. ASSUME LastScreen
      PROVE  LastScreen' /\ (ojq' # <<>> \/ "leds" \in stale' \/ leds' = Shown(panel)')
  <2>1. ojq[Len(ojq)] \in {Blank, <<"leds", Shown(panel)>>} BY <1>8 DEF LastScreen
  <2>2. CASE ojq' = <<>>
    <3>1. Len(ojq) = 1
      <4>1. Len(<<>>) = 0 OBVIOUS
      <4>2. Len(ojq') = 0 BY <4>1, <2>2
      <4>3. QED BY <4>2, <1>2
    <3>2. Head(ojq) \in {Blank, <<"leds", Shown(panel)>>} BY <3>1, <2>1, <1>2
    <3>3. "leds" \in stale' \/ leds' = Shown(panel)' BY <3>2, <1>6
    <3>4. QED BY <3>3, <2>2 DEF LastScreen
  <2>3. CASE ojq' # <<>>
    <3>1. Len(ojq') \in 1..Len(ojq') /\ Len(ojq') + 1 = Len(ojq)
      <4>1. Len(ojq') # 0 BY <2>3, <1>2
      <4>2. QED BY <4>1, <1>2
    <3>2. ojq'[Len(ojq')] = ojq[Len(ojq)] BY <3>1, <1>2
    <3>3. QED BY <3>2, <2>1, <2>3, <1>6 DEF LastScreen
  <2>4. QED BY <2>2, <2>3
<1>9. LedsFollow' BY <1>6, <1>7, <1>8 DEF LedInv, LedsFollow
<1>10. QED BY <1>3, <1>4, <1>5, <1>9 DEF LedInv

LEMMA FlightLoopLeds ==
  ASSUME TypeOK, LedInv, FlightLoop
  PROVE  LedInv'
<1>1. /\ ijq \in Seq(Cmds) /\ ijq # <<>> /\ ijq' = Tail(ijq) /\ enabled
      /\ stale' = stale \ {Head(ijq)[1]}
      /\ UNCHANGED <<outbox, ojq, panel, leds, enabled, at>>
  BY DEF TypeOK, FlightLoop, pluginVars, toVars
<1>2. Head(ijq) \in Cmds /\ Head(ijq) = ijq[1] /\ 1 \in 1..Len(ijq)
  <2>1. Head(ijq) \in Cmds /\ Head(ijq) = ijq[1] /\ Len(ijq) \in Nat \ {0} BY <1>1, Taken
  <2>2. QED BY <2>1
<1>3. Head(ijq)[1] # "leds" BY <1>2, Names DEF Cmds
<1>4. ~Among(ijq, "gear") => Head(ijq)[1] # "gear" BY <1>2 DEF Among
<1>5. QED BY <1>1, <1>3, <1>4, TakenLeds

LEMMA PurgeLeds ==
  ASSUME TypeOK, LedInv, PurgeTake \/ PurgeNext
  PROVE  LedInv'
<1>1. CASE PurgeTake
  <2>1. UNCHANGED <<outbox, panel, leds, enabled, at>> BY <1>1 DEF PurgeTake, pluginVars, toVars
  <2>2. CASE ojq # <<>> /\ ojq' = Tail(ojq) /\ stale' = stale \cup {"leds"} /\ ijq' = ijq
    BY <2>1, <2>2, ScreenTaken
  <2>3. CASE /\ ijq # <<>> /\ ijq' = Tail(ijq) /\ ojq' = ojq
             /\ stale' = stale \cup ({Head(ijq)[1]} \cap Things)
    <3>1. stale \subseteq stale' BY <2>3
    <3>2. QED BY <2>1, <2>3, <3>1, TakenLeds
  <2>4. QED BY <1>1, <2>2, <2>3 DEF PurgeTake
<1>2. CASE PurgeNext
  <2>1. /\ UNCHANGED <<outbox, panel, leds, ijq, ojq, stale>>
        /\ at # "idle" /\ Len(<<>>) = 0
        /\ \/ at = "purgeOut" /\ ojq = <<>> /\ at' = "purgeIn" /\ enabled' = enabled
           \/ at = "purgeIn" /\ ijq = <<>> /\ at' = "idle"
    BY <1>2 DEF PurgeNext, toVars
  <2>2. ~enabled BY <2>1 DEF LedInv, ParkingOff
  <2>3. ParkingOff' BY <2>1, <2>2 DEF ParkingOff
  <2>4. \A i \in 1..Len(ojq) : ojq[i] # Blank BY <2>1 DEF LedInv, BlankFirst
  <2>5. CASE enabled' => enabled BY <2>1, <2>3, <2>4, <2>5, CalmLeds
  <2>6. CASE enabled' /\ ~enabled
    <3>1. ijq' = <<>> BY <2>1, <2>6
    <3>2. BlankFirst' BY <2>1, <2>4 DEF BlankFirst
    <3>3. ShowIt(panel)' = ShowIt(panel) /\ Shown(panel)' = Shown(panel)
      BY <2>1 DEF ShowIt, Shown
    <3>4. ScreensSent' BY <2>1, <3>3 DEF LedInv, ScreensSent, LedsEndIn
    <3>5. LastScreen' <=> LastScreen BY <2>1, <3>3 DEF LastScreen
    <3>6. ~Among(ijq', "gear") BY <2>1, <3>1 DEF Among
    <3>7. (InOutbox("leds")' <=> InOutbox("leds")) /\ (InOutbox("gear")' <=> InOutbox("gear"))
      BY <2>1 DEF InOutbox
    <3>8. LedsFollow' BY <2>1, <3>3, <3>5, <3>6, <3>7 DEF LedInv, LedsFollow
    <3>9. QED BY <2>3, <3>2, <3>4, <3>8 DEF LedInv
  <2>7. QED BY <2>5, <2>6
<1>3. QED BY <1>1, <1>2

LEMMA DisableLeds ==
  ASSUME TypeOK, LedInv, Disable
  PROVE  LedInv'
<1>1. /\ UNCHANGED <<outbox, panel, leds, ijq>> /\ ~enabled' /\ at = "idle" /\ at' = "park"
      /\ ojq' = <<Blank>> \o ojq /\ stale' = stale \cup {"leds"} /\ ojq \in Seq(Screens)
  BY DEF Disable, Idle, toVars, TypeOK
<1>2. <<Blank>> \in Seq(Screens) /\ Len(<<Blank>>) = 1 /\ <<Blank>>[1] = Blank
  BY DEF Blank, Screens, Colours
<1>3. /\ Len(ojq') = 1 + Len(ojq) /\ Len(ojq) \in Nat /\ ojq'[1] = Blank
      /\ \A i \in 1..Len(ojq') : i # 1 => ojq'[i] = ojq[i - 1]
  <2> DEFINE b == <<Blank>>
  <2>1. b \in Seq(Screens) /\ Len(b) = 1 /\ b[1] = Blank /\ ojq' = b \o ojq BY <1>1, <1>2
  <2> HIDE DEF b
  <2>2. /\ Len(b \o ojq) = Len(b) + Len(ojq) /\ Len(ojq) \in Nat
        /\ \A i \in 1..(Len(b) + Len(ojq)) :
             (b \o ojq)[i] = IF i <= Len(b) THEN b[i] ELSE ojq[i - Len(b)]
    BY <2>1, <1>1, Joined
  <2>3. QED BY <2>1, <2>2
<1>4. ParkingOff' BY <1>1 DEF ParkingOff
<1>5. BlankFirst'
  <2>1. SUFFICES ASSUME NEW i \in 1..Len(ojq'), ojq'[i] = Blank, i # 1 PROVE FALSE
    BY <1>1 DEF BlankFirst
  <2>2. i - 1 \in 1..Len(ojq) /\ ojq[i - 1] = Blank BY <2>1, <1>3
  <2>3. QED BY <2>2, <1>1 DEF LedInv, BlankFirst
<1>6. ShowIt(panel)' = ShowIt(panel) /\ Shown(panel)' = Shown(panel) BY <1>1 DEF ShowIt, Shown
<1>7. ScreensSent' BY <1>1, <1>6 DEF LedInv, ScreensSent, LedsEndIn
<1>8. (InOutbox("leds")' <=> InOutbox("leds")) /\ (InOutbox("gear")' <=> InOutbox("gear"))
  BY <1>1 DEF InOutbox
<1>9. LastScreen => LastScreen'
  <2>1. CASE ojq = <<>>
    <3>1. Len(ojq) = 0 BY <2>1
    <3>2. ojq'[Len(ojq')] = Blank BY <3>1, <1>3
    <3>3. QED BY <3>2 DEF LastScreen
  <2>2. CASE ojq # <<>>
    <3>1. Len(ojq) # 0 BY <2>2, <1>1
    <3>2. Len(ojq') \in 1..Len(ojq') /\ Len(ojq') # 1 /\ Len(ojq') - 1 = Len(ojq) BY <3>1, <1>3
    <3>3. ojq'[Len(ojq')] = ojq[Len(ojq)] BY <3>2, <1>3
    <3>4. QED BY <3>3, <2>2, <1>6 DEF LastScreen
  <2>3. QED BY <2>1, <2>2
<1>10. "leds" \in stale' /\ ("gear" \in stale => "gear" \in stale') BY <1>1
<1>11. LedsFollow' BY <1>1, <1>8, <1>9, <1>10 DEF LedInv, LedsFollow
<1>12. QED BY <1>4, <1>5, <1>7, <1>11 DEF LedInv

LEMMA OthersLeds ==
  ASSUME TypeOK, LedInv,
         \/ \E s \in Unheard : Silent(s)
         \/ \E p \in Planes : LoadPlane(p)
         \/ UnloadPlane \/ Enable \/ DisablePark \/ ToWake
  PROVE  LedInv'
<1>1. UNCHANGED <<outbox, ijq, ojq, panel, leds, enabled>>
  BY DEF Silent, LoadPlane, UnloadPlane, Enable, DisablePark, ToWake, pluginVars, toVars
<1>2. stale \subseteq stale'
  <2>1. (\E s \in Unheard : Silent(s)) => stale \subseteq stale' BY DEF Silent
  <2>2. (\E p \in Planes : LoadPlane(p)) => stale \subseteq stale' BY DEF LoadPlane
  <2>3. UnloadPlane \/ Enable \/ DisablePark \/ ToWake => stale \subseteq stale'
    BY DEF UnloadPlane, Enable, DisablePark, ToWake
  <2>4. QED BY <2>1, <2>2, <2>3
<1>3. at' = at \/ (at' = "purgeOut" /\ (~enabled \/ at = "park"))
  BY DEF Silent, LoadPlane, UnloadPlane, Enable, DisablePark, ToWake, pluginVars
<1>4. ParkingOff' BY <1>1, <1>3 DEF LedInv, ParkingOff
<1>5. \A i \in 1..Len(ojq) : ojq[i] = Blank => at' \in {"park", "purgeOut"}
  BY <1>3 DEF LedInv, BlankFirst
<1>6. QED BY <1>1, <1>2, <1>4, <1>5, CalmLeds

LEMMA ShowLeds ==
  ASSUME TypeOK, LedInv, ToShow
  PROVE  LedInv'
<1>1. /\ ojq # <<>> /\ ojq' = Tail(ojq) /\ leds' = Head(ojq)[2]
      /\ UNCHANGED <<outbox, ijq, panel, enabled, at>>
      /\ stale' = IF Head(ojq) = Blank THEN stale ELSE stale \ {"leds"}
  BY DEF ToShow, pluginVars
<1>2. Head(ojq) = Blank => "leds" \in stale
  <2>1. ojq \in Seq(Screens) BY DEF TypeOK
  <2>2. Head(ojq) = ojq[1] /\ Len(ojq) \in Nat \ {0} BY <2>1, <1>1, Taken
  <2>3. 1 \in 1..Len(ojq) BY <2>2
  <2>4. QED BY <2>2, <2>3 DEF LedInv, BlankFirst
<1>3. "leds" \in stale' \/ (Head(ojq) # Blank /\ leds' = Head(ojq)[2]) BY <1>1, <1>2
<1>4. "gear" \in stale => "gear" \in stale' BY <1>1
<1>5. QED BY <1>1, <1>3, <1>4, ScreenTaken

LEMMA StepLeds == TypeOK /\ LedInv /\ [Next]_vars => LedInv'
<1>1. SUFFICES ASSUME TypeOK, LedInv, [Next]_vars PROVE LedInv' OBVIOUS
<1>2. CASE UNCHANGED vars
  <2>1. UNCHANGED <<outbox, ijq, ojq, panel, leds, enabled, at, stale>>
    BY <1>2 DEF vars, pluginVars, toVars
  <2>2. ParkingOff' BY <1>1, <2>1 DEF LedInv, ParkingOff
  <2>3. \A i \in 1..Len(ojq) : ojq[i] = Blank => at' \in {"park", "purgeOut"}
    BY <1>1, <2>1 DEF LedInv, BlankFirst
  <2>4. QED BY <1>1, <2>1, <2>2, <2>3, CalmLeds
<1>3. CASE Next
  BY <1>1, <1>3, ReportLeds, DeliverLeds, FlightLoopLeds, PurgeLeds, DisableLeds, OthersLeds,
     ShowLeds
  DEF Next
<1>4. QED BY <1>1, <1>2, <1>3

(* The LEDs agree with the gear of X-Plane once both have arrived          *)
(* (SwitchPanel!GearLedAgrees), though they take different queues, are     *)
(* purged apart, and a parked panel's lever moves unseen.                  *)
THEOREM GearLedsAgree == Spec => []GearLedAgrees
<1>1. FollowInv /\ LedInv => GearLedAgrees
  <2>1. SUFFICES ASSUME FollowInv, LedInv, outbox = <<>>, ijq = <<>>, ojq = <<>>,
                        "gear" \notin stale, "leds" \notin stale
                 PROVE  leds = "green" <=> gear = "down"
    BY DEF GearLedAgrees, Settled, SettledIn
  <2>2. ~InOutbox("gear") /\ ~InOutbox("leds") /\ ~Among(ijq, "gear")
    <3>1. Len(<<>>) = 0 OBVIOUS
    <3>2. QED BY <2>1, <3>1 DEF InOutbox, Among
  <2>3. gear = Geared(Lever(panel))
    <3>1. Follows("gear") BY <2>1 DEF FollowInv, Controls
    <3>2. Done("gear") BY <2>1, <2>2, <3>1 DEF Follows
    <3>3. QED BY <3>2 DEF Done
  <2>4. leds = Shown(panel) BY <2>1, <2>2 DEF LedInv, LedsFollow
  <2>5. QED BY <2>3, <2>4 DEF Geared, Lever, Shown
<1>2. Init => LedInv BY InitLeds
<1>3. FollowInv => TypeOK BY DEF FollowInv
<1>4. FollowInv /\ LedInv /\ [Next]_vars => LedInv' BY <1>3, StepLeds
<1>5. Spec => []LedInv BY <1>2, <1>4, AllFollow, PTL DEF Spec
<1>6. QED BY <1>1, <1>5, AllFollow, PTL
=============================================================================
