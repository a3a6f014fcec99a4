------------------------ MODULE MultiDisplay_proofs -------------------------
(* Theorems about MultiDisplay: they hold for any readouts, buttons,       *)
(* values, commands, switches and limit.                                   *)
EXTENDS MultiDisplay, SequenceFacts, TLAPS

Sw == {"avionics", "battery"}
Lights == Buttons \cup {"ap"}

(* What the main thread has still to post.  Heading and course come        *)
(* together, and only then is a buffer shared.                             *)
Items ==
  Turns \cup Power \cup ({"init"} \X Dials) \cup ({"btn"} \X (Buttons \cup {"ap"}))
    \cup ({"otto"} \X {"on", "armed", "off"}) \cup {Update, Crash}
    \cup {a \in { <<"shared">>, <<"rename">>, <<"rewrite">>, <<"freed">> } : "crs" \in Dials}

\* Messages that are sent: no buffer is shared without a course.
Sent == {m \in Msg : m[1] \in {"shared", "freed"} => "crs" \in Dials}

TypeInv ==
  /\ TypeOK /\ sim \in [Dials -> Int] /\ answers \in Seq(Items)
  /\ ojq \in Seq(Sent) /\ taken \in Sent \cup {NoMsg}

(* Of each thing the panel is told the truth last, and keeps it.           *)
Said(x) == {m \in Sent : x \in About(m)}
IsTrue(m) ==
  IF m[1] = "power" THEN m[3] = gPower[m[2]]
  ELSE IF m[1] = "btn" THEN m[3] = status[m[2]]
  ELSE Near(m[3], sim[m[2]]) /\ m[4] = Sign(sim[m[2]])
Outdated(x) == {m \in Said(x) : ~IsTrue(m)}

Open(x) == x \in stale \/ \E i \in 1..Len(answers) : x \in Asked(answers[i])

ToldLast(x) == Closed(ojq, Outdated(x), Said(x))
Follows(x) ==
  Open(x) \/ /\ ToldLast(x)
             /\ \/ Holds(ojq, Said(x))
                \/ taken \in Said(x) /\ IsTrue(taken)
                \/ taken \notin Said(x) /\ Kept(x)

\* What was to be said of the autopilot is so until it is said.
OttoTrue == \A i \in 1..Len(answers) : answers[i][1] = "otto" =>
              status["ap"] = CASE answers[i][2] = "on" -> 2 [] answers[i][2] = "armed" -> 1
                               [] answers[i][2] = "off" -> 0

\* There is a message exactly when ToPanelThread is about to show it.
TakenShown == loc = "show" <=> taken # NoMsg
Sound == TypeInv /\ TakenShown /\ OttoTrue

\* What the messages about x ought to say.
Truth(x) == IF x[1] = "power" THEN gPower[x[2]] ELSE IF x[1] = "btn" THEN status[x[2]] ELSE sim[x[2]]

(* A value near X-Plane's has as many digits as the display draws of it.   *)
Fits ==
  /\ "alt" \in Dials => \A f \in SimVals["alt"] : f <= 199800
  /\ \A d \in Dials \cap {"vs", "ias"} : \A f \in SimVals[d] : Size(f) <= 19800
----------------------------------------------------------------------------
LEMMA MsgShape ==
  ASSUME NEW m \in Msg
  PROVE  /\ m[1] \in {"power", "knob", "btn", "val", "shared", "freed", "blank", "crash", "updateLeds"}
         /\ m[1] = "power" => m[2] \in Sw /\ m[3] \in BOOLEAN /\ m = <<"power", m[2], m[3]>>
         /\ m[1] = "knob"  => m[2] \in Dials /\ m = <<"knob", m[2]>>
         /\ m[1] = "btn"   => m[2] \in Lights /\ m[3] \in 0..2 /\ m = <<"btn", m[2], m[3]>>
         /\ m[1] = "val"   => /\ m[2] \in Dials /\ m[3] \in Nat /\ m[4] \in {"plus", "minus"}
                              /\ m = <<"val", m[2], m[3], m[4]>>
         /\ m[1] = "shared" => m[2] \in {"hdg", "crs"} /\ m[3] \in Nat /\ m = <<"shared", m[2], m[3]>>
         /\ m[1] = "freed" => m[2] \in Nat
         /\ m[1] = "blank" => m = Blank
         /\ m[1] = "crash" => m = Crash
         /\ m[1] = "updateLeds" => m = Update
<1> USE DEF Sw, Lights
<1>1. CASE m \in Power BY <1>1 DEF Power
<1>2. CASE m \in Knobs BY <1>2 DEF Knobs
<1>3. CASE m \in States BY <1>3 DEF States
<1>4. CASE m \in Vals BY <1>4 DEF Vals
<1>5. CASE m \in Shared BY <1>5 DEF Shared
<1>6. CASE m \in {"freed"} \X Nat BY <1>6
<1>7. CASE m \in {Blank, Crash, Update} BY <1>7 DEF Blank, Crash, Update
<1>8. QED BY <1>1, <1>2, <1>3, <1>4, <1>5, <1>6, <1>7 DEF Msg

LEMMA MsgMembers ==
  /\ \A p \in Sw, b \in BOOLEAN : <<"power", p, b>> \in Msg
  /\ \A d \in Dials : <<"knob", d>> \in Msg
  /\ \A b \in Lights, s \in 0..2 : <<"btn", b, s>> \in Msg
  /\ \A d \in Dials, x \in Nat, s \in {"plus", "minus"} : <<"val", d, x, s>> \in Msg
  /\ \A d \in {"hdg", "crs"}, x \in Nat : <<"shared", d, x>> \in Msg
  /\ \A x \in Nat : <<"freed", x>> \in Msg
  /\ Blank \in Msg /\ Crash \in Msg /\ Update \in Msg
<1> USE DEF Msg, Sw, Lights
<1>1. \A p \in Sw, b \in BOOLEAN : <<"power", p, b>> \in Msg BY DEF Power
<1>2. \A d \in Dials : <<"knob", d>> \in Msg BY DEF Knobs
<1>3. \A b \in Lights, s \in 0..2 : <<"btn", b, s>> \in Msg BY DEF States
<1>4. \A d \in Dials, x \in Nat, s \in {"plus", "minus"} : <<"val", d, x, s>> \in Msg BY DEF Vals
<1>5. \A d \in {"hdg", "crs"}, x \in Nat : <<"shared", d, x>> \in Msg BY DEF Shared
<1>6. \A x \in Nat : <<"freed", x>> \in Msg OBVIOUS
<1>7. QED BY <1>1, <1>2, <1>3, <1>4, <1>5, <1>6

LEMMA NoMsgApart == \A m \in Msg : m # NoMsg
<1> SUFFICES ASSUME NEW m \in Msg, m = NoMsg PROVE FALSE OBVIOUS
<1> USE DEF NoMsg
<1>0. Len(<<>>) = 0 OBVIOUS
<1>1. m \in Power => Len(m) = 3 BY DEF Power
<1>2. m \in Knobs => Len(m) = 2 BY DEF Knobs
<1>3. m \in States => Len(m) = 3 BY DEF States
<1>4. m \in Vals => Len(m) = 4 BY DEF Vals
<1>5. m \in Shared => Len(m) = 3 BY DEF Shared
<1>6. m \in {"freed"} \X Nat => Len(m) = 2 OBVIOUS
<1>7. m \in {Blank, Crash, Update} => Len(m) = 1 BY DEF Blank, Crash, Update
<1>8. QED BY <1>0, <1>1, <1>2, <1>3, <1>4, <1>5, <1>6, <1>7 DEF Msg
----------------------------------------------------------------------------
(* The types of the messages.                                              *)
LEMMA ValueType ==
  ASSUME NEW how \in {"up", "dn", "init"}, NEW d \in Dials, NEW f \in Int, d # "vs" => f \in Nat
  PROVE  Value(how, d, f) \in Nat /\ Sign(f) \in {"plus", "minus"}
<1>0. Sign(f) \in {"plus", "minus"} BY DEF Sign
<1>1. Size(f) \in Nat BY DEF Size
<1>2. Floor(f) \in Nat BY <1>1 DEF Floor
<1>3. \A x \in Nat : Fours(x) \in Nat
  <2>1. SUFFICES ASSUME NEW x \in Nat PROVE Fours(x) \in Nat OBVIOUS
  <2>2. x % 4 \in 0..3 /\ x % 4 <= x BY Z3
  <2>3. QED BY <2>2 DEF Fours
<1>4. \A x \in Nat : Hundreds(x) \in Nat
  <2>1. SUFFICES ASSUME NEW x \in Nat PROVE Hundreds(x) \in Nat OBVIOUS
  <2>2. x % 100 \in 0..99 BY Z3
  <2>3. QED BY <2>2 DEF Hundreds
<1>5. d # "vs" => Ceil(f) \in Nat BY DEF Ceil
<1>6. CASE how = "up" /\ d \in {"alt", "vs"} BY <1>0, <1>6, <1>2, <1>3 DEF Value
<1>7. CASE how = "dn" /\ d = "alt" BY <1>0, <1>7, <1>4, <1>5 DEF Value
<1>8. CASE how = "dn" /\ d = "vs" BY <1>0, <1>8, <1>2, <1>4 DEF Value
<1>9. CASE how = "init" \/ d \notin {"alt", "vs"} BY <1>0, <1>9, <1>2 DEF Value
<1>10. QED BY <1>6, <1>7, <1>8, <1>9

LEMMA ItemShape ==
  ASSUME NEW a \in Items
  PROVE  /\ a[1] \in {"up", "dn", "init"} => a[2] \in Dials
         /\ a[1] = "btn" => a[2] \in Lights /\ a = <<"btn", a[2]>>
         /\ a[1] = "otto" => a[2] \in {"on", "armed", "off"}
         /\ a[1] = "power" => a[2] \in Sw /\ a[3] \in BOOLEAN /\ a \in Msg
         /\ a[1] \in {"updateLeds", "crash"} => a \in Msg
         /\ a[1] \in {"shared", "rename", "rewrite", "freed"} => "crs" \in Dials
         /\ a[1] \in {"up", "dn", "init", "btn", "otto", "power", "updateLeds", "crash",
                      "shared", "rename", "rewrite", "freed"}
<1> USE DEF Sw, Lights
<1>1. CASE a \in Turns BY <1>1 DEF Turns
<1>2. CASE a \in Power BY <1>2 DEF Power, Msg
<1>3. CASE a \in {"init"} \X Dials BY <1>3
<1>4. CASE a \in {"btn"} \X (Buttons \cup {"ap"}) BY <1>4
<1>5. CASE a \in {"otto"} \X {"on", "armed", "off"} BY <1>5
<1>6. CASE a \in {Update, Crash} BY <1>6 DEF Update, Crash, Msg
<1>7. CASE a \in { <<"shared">>, <<"rename">>, <<"rewrite">>, <<"freed">> } /\ "crs" \in Dials
  BY <1>7
<1>8. QED BY <1>1, <1>2, <1>3, <1>4, <1>5, <1>6, <1>7 DEF Items

LEMMA SimType ==
  ASSUME TypeInv, NEW d \in Dials
  PROVE  sim[d] \in Int /\ (d # "vs" => sim[d] \in Nat)
<1>1. sim[d] \in Int BY DEF TypeInv
<1>2. sim[d] \in SimVals[d] BY DEF TypeInv, TypeOK
<1>3. QED BY <1>1, <1>2, DisplayAssumption

\* What the main thread posts for an item.
LEMMA MessageType ==
  ASSUME TypeInv, NEW a \in Items, a[1] \notin {"rename", "rewrite"}
  PROVE  Message(a) \in Msg
<1>1. CASE a[1] \in {"up", "dn", "init"}
  <2>1. a[2] \in Dials BY <1>1, ItemShape
  <2>2. Value(a[1], a[2], sim[a[2]]) \in Nat /\ Sign(sim[a[2]]) \in {"plus", "minus"}
    BY <1>1, <2>1, SimType, ValueType
  <2>3. Message(a) = ValueMsg(a[1], a[2]) BY <1>1 DEF Message
  <2>4. QED BY <2>1, <2>2, <2>3, MsgMembers DEF ValueMsg
<1>2. CASE a[1] = "shared"
  <2>1. "hdg" \in Dials BY <1>2, ItemShape, DisplayAssumption
  <2>2. Value("init", "hdg", sim["hdg"]) \in Nat BY <2>1, SimType, ValueType
  <2>3. Message(a) = <<"shared", "hdg", Value("init", "hdg", sim["hdg"])>> BY <1>2 DEF Message
  <2>4. QED BY <2>2, <2>3, MsgMembers
<1>3. CASE a[1] = "freed"
  <2>1. "crs" \in Dials BY <1>3, ItemShape
  <2>2. Value("init", "crs", sim["crs"]) \in Nat BY <2>1, SimType, ValueType
  <2>3. Message(a) = <<"freed", Value("init", "crs", sim["crs"])>> BY <1>3 DEF Message
  <2>4. QED BY <2>2, <2>3, MsgMembers
<1>4. CASE a[1] = "btn"
  <2>1. a[2] \in Lights BY <1>4, ItemShape
  <2>2. status[a[2]] \in 0..2 BY <2>1 DEF TypeInv, TypeOK, Lights
  <2>3. Message(a) = <<"btn", a[2], status[a[2]]>> BY <1>4 DEF Message
  <2>4. QED BY <2>1, <2>2, <2>3, MsgMembers
<1>5. CASE a[1] = "otto"
  <2>1. a[2] \in {"on", "armed", "off"} BY <1>5, ItemShape
  <2>2. Message(a) = <<"btn", "ap", CASE a[2] = "on" -> 2 [] a[2] = "armed" -> 1
                                      [] a[2] = "off" -> 0>>
    BY <1>5 DEF Message
  <2>3. \E s \in 0..2 : Message(a) = <<"btn", "ap", s>> BY <2>1, <2>2
  <2>4. "ap" \in Lights BY DEF Lights
  <2>5. QED BY <2>3, <2>4, MsgMembers
<1>6. CASE a[1] \in {"power", "updateLeds", "crash"}
  <2>1. Message(a) = a BY <1>6 DEF Message
  <2>2. QED BY <1>6, <2>1, ItemShape
<1>7. QED BY <1>1, <1>2, <1>3, <1>4, <1>5, <1>6, ItemShape

LEMMA SentType ==
  ASSUME TypeInv, NEW a \in Items, a[1] \notin {"rename", "rewrite"}
  PROVE  Message(a) \in Sent
<1>1. Message(a) \in Msg BY MessageType
<1>2. CASE a[1] \in {"shared", "freed"} BY <1>1, <1>2, ItemShape DEF Sent
<1>3. CASE a[1] \in {"up", "dn", "init"}
  <2>1. Message(a) = ValueMsg(a[1], a[2]) BY <1>3 DEF Message
  <2>2. Message(a)[1] = "val" BY <2>1 DEF ValueMsg
  <2>3. QED BY <1>1, <2>2 DEF Sent
<1>4. CASE a[1] = "btn"
  <2>1. Message(a) = <<"btn", a[2], status[a[2]]>> BY <1>4 DEF Message
  <2>2. QED BY <1>1, <2>1 DEF Sent
<1>5. CASE a[1] = "otto"
  <2>1. Message(a) = <<"btn", "ap", CASE a[2] = "on" -> 2 [] a[2] = "armed" -> 1
                                      [] a[2] = "off" -> 0>>
    BY <1>5 DEF Message
  <2>2. Message(a)[1] = "btn" BY <2>1
  <2>3. QED BY <1>1, <2>2 DEF Sent
<1>6. CASE a[1] \in {"power", "updateLeds", "crash"}
  <2>1. Message(a) = a BY <1>6 DEF Message
  <2>2. QED BY <1>1, <1>6, <2>1 DEF Sent
<1>7. QED BY <1>2, <1>3, <1>4, <1>5, <1>6, ItemShape

\* The items that loading a plane makes.
LEMMA InitItemsType == InitItems \in Seq(Items)
<1> DEFINE S == Items
<1>1. \A s, t : s \in Seq(S) /\ t \in Seq(S) => s \o t \in Seq(S) BY Joined
<1>2. \A c, s : s \in Seq(S) => When(c, s) \in Seq(S)
  <2>1. <<>> \in Seq(S) OBVIOUS
  <2>2. QED BY <2>1 DEF When
<1>3. \A d : InitVal(d) \in Seq(S)
  <2>1. SUFFICES ASSUME NEW d PROVE InitVal(d) \in Seq(S) OBVIOUS
  <2>2. CASE d \in Dials
    <3>1. <<"init", d>> \in Items BY <2>2 DEF Items
    <3>2. QED BY <2>2, <3>1 DEF InitVal, When
  <2>3. CASE d \notin Dials BY <2>3 DEF InitVal, When
  <2>4. QED BY <2>2, <2>3
<1>4. \A b : InitBtn(b) \in Seq(S)
  <2>1. SUFFICES ASSUME NEW b PROVE InitBtn(b) \in Seq(S) OBVIOUS
  <2>2. CASE b \in Buttons
    <3>1. <<"btn", b>> \in Items BY <2>2 DEF Items
    <3>2. QED BY <2>2, <3>1 DEF InitBtn, When
  <2>3. CASE b \notin Buttons BY <2>3 DEF InitBtn, When
  <2>4. QED BY <2>2, <2>3
<1>5. << <<"power", "avionics", TRUE>>, <<"power", "battery", TRUE>> >> \in Seq(S)
  <2>1. <<"power", "avionics", TRUE>> \in S /\ <<"power", "battery", TRUE>> \in S
    BY DEF Items, Power
  <2> HIDE DEF S
  <2>2. QED BY <2>1
<1>6. << <<"btn", "ap">> >> \in Seq(S) /\ << Update >> \in Seq(S)
  <2>1. <<"btn", "ap">> \in S /\ Update \in S BY DEF Items
  <2> HIDE DEF S
  <2>2. QED BY <2>1
<1>7. When("crs" \in Dials, << <<"shared">>, <<"rename">>, <<"rewrite">>, <<"freed">> >>) \in Seq(S)
  <2>1. CASE "crs" \in Dials
    <3>1. /\ <<"shared">> \in S /\ <<"rename">> \in S /\ <<"rewrite">> \in S /\ <<"freed">> \in S
      BY <2>1 DEF Items
    <3> HIDE DEF S
    <3>2. << <<"shared">>, <<"rename">>, <<"rewrite">>, <<"freed">> >> \in Seq(S) BY <3>1
    <3>3. QED BY <2>1, <3>2 DEF When
  <2>2. CASE "crs" \notin Dials BY <2>2 DEF When
  <2>3. QED BY <2>1, <2>2
<1> HIDE DEF S
<1>8. InitItems \in Seq(S) BY <1>1, <1>3, <1>4, <1>5, <1>6, <1>7 DEF InitItems
<1>9. QED BY <1>8 DEF S
----------------------------------------------------------------------------
(* The types of what ToPanelThread keeps and sends.                        *)
LEMMA AboutType ==
  ASSUME NEW m \in Sent
  PROVE  /\ About(m) \subseteq Things
         /\ \A p \in Sw : <<"power", p>> \in About(m) <=> m[1] = "power" /\ m[2] = p
         /\ \A b : <<"btn", b>> \in About(m) <=> m[1] = "btn" /\ m[2] = b
         /\ \A d \in Dials \ {"hdg", "crs"} :
              <<"dial", d>> \in About(m) <=> m[1] = "val" /\ m[2] = d
<1> USE MsgShape, DisplayAssumption DEF Sent, Things, Sw, Lights
<1>1. CASE m[1] = "power"
  <2>1. About(m) = {<<"power", m[2]>>} BY <1>1 DEF About
  <2>2. QED BY <1>1, <2>1
<1>2. CASE m[1] = "btn"
  <2>1. About(m) = {<<"btn", m[2]>>} BY <1>2 DEF About
  <2>2. QED BY <1>2, <2>1
<1>3. CASE m[1] = "val"
  <2>1. About(m) = {<<"dial", m[2]>>} BY <1>3 DEF About
  <2>2. QED BY <1>3, <2>1
<1>4. CASE m[1] = "shared"
  <2>1. About(m) = {<<"dial", m[2]>>} BY <1>4 DEF About
  <2>2. QED BY <1>4, <2>1
<1>5. CASE m[1] = "freed"
  <2>1. About(m) = {<<"dial", "crs">>} BY <1>5 DEF About
  <2>2. QED BY <1>5, <2>1
<1>6. CASE m[1] \in {"knob", "blank", "crash", "updateLeds"}
  <2>1. About(m) = {} BY <1>6 DEF About
  <2>2. QED BY <1>6, <2>1
<1>7. QED BY <1>1, <1>2, <1>3, <1>4, <1>5, <1>6

LEMMA DigitsType ==
  ASSUME NEW k \in Dials, NEW v \in [Dials -> Nat], NEW s \in {"none", "plus", "minus"}
  PROVE  Digits(k, v, s) \in DigitRows
<1>1. \A d : Val(v, d) \in Nat BY DEF Val
<1>2. \A x \in Nat : x % 100000 \in Nat /\ x % 10000 \in Nat /\ x % 1000 \in Nat OBVIOUS
<1>3. Unlit \in {Unlit} OBVIOUS
<1>4. CASE k \in {"alt", "vs"}
  <2>1. Digits(k, v, s) = [top |-> Val(v, "alt") % 100000, bottom |-> Val(v, "vs") % 10000, sign |-> s]
    BY <1>4 DEF Digits
  <2>2. Val(v, "alt") % 100000 \in Nat /\ Val(v, "vs") % 10000 \in Nat BY <1>1, <1>2
  <2>3. QED BY <2>1, <2>2 DEF DigitRows
<1>5. CASE k = "ias"
  <2>1. Digits(k, v, s) = [top |-> v[k] % 10000, bottom |-> Unlit, sign |-> "plus"]
    BY <1>5 DEF Digits
  <2>2. v[k] % 10000 \in Nat BY <1>2
  <2>3. QED BY <2>1, <2>2 DEF DigitRows
<1>6. CASE k \in {"hdg", "crs"}
  <2>1. Digits(k, v, s) = [top |-> v[k] % 1000, bottom |-> Unlit, sign |-> "plus"]
    BY <1>6 DEF Digits
  <2>2. v[k] % 1000 \in Nat BY <1>2
  <2>3. QED BY <2>1, <2>2 DEF DigitRows
<1>7. QED BY <1>4, <1>5, <1>6, DisplayAssumption

LEMMA ZerosType == Zeros \in PanelReport
BY DEF Zeros, PanelReport, DigitRows

PanelTyped ==
  /\ power \in [Sw -> BOOLEAN] /\ knob \in Dials \cup {"none"} /\ vals \in [Dials -> Nat]
  /\ sign \in {"none", "plus", "minus"} /\ btns \in [Bits -> BOOLEAN] /\ doInit \in BOOLEAN
  /\ report \in PanelReport /\ leds \in PanelReport /\ lit \in BOOLEAN /\ stale \subseteq Things

LEMMA RedrawType ==
  ASSUME PanelTyped, NEW k \in Dials, NEW v \in [Dials -> Nat],
         NEW s \in {"none", "plus", "minus"}, Redraw(k, v, s)
  PROVE  report' \in PanelReport
BY DigitsType DEF Redraw, PanelTyped, PanelReport

LEMMA ValType ==
  ASSUME PanelTyped, NEW d \in Dials, NEW x \in Nat, NEW s \in {"plus", "minus"}, ShowVal(d, x, s)
  PROVE  PanelTyped'
<1>1. vals' \in [Dials -> Nat] /\ sign' \in {"none", "plus", "minus"} BY DEF ShowVal, PanelTyped
<1>2. CASE knob = d
  <2>1. Redraw(d, vals', sign') /\ Send BY <1>2 DEF ShowVal
  <2>2. report' \in PanelReport BY <1>1, <2>1, RedrawType
  <2>3. QED BY <1>1, <2>1, <2>2 DEF ShowVal, Send, PanelTyped
<1>3. CASE knob # d BY <1>1, <1>3 DEF ShowVal, PanelTyped
<1>4. QED BY <1>2, <1>3

LEMMA KnobType == ASSUME PanelTyped, NEW d \in Dials, ShowKnob(d) PROVE PanelTyped'
<1>1. Redraw(d, vals, sign) /\ Send BY DEF ShowKnob
<1>2. report' \in PanelReport BY <1>1, RedrawType DEF PanelTyped
<1>3. QED BY <1>1, <1>2 DEF ShowKnob, Send, PanelTyped

LEMMA ApType == ASSUME PanelTyped, NEW s \in 0..2, ShowAp(s) PROVE PanelTyped'
<1>1. report' \in PanelReport BY ZerosType DEF ShowAp, PanelTyped, PanelReport
<1>2. btns' \in [Bits -> BOOLEAN] BY DEF ShowAp, PanelTyped
<1>3. Lost({"btn"} \X Buttons) \subseteq Things BY DEF Lost, Things
<1>4. stale' \subseteq Things BY <1>3 DEF ShowAp, PanelTyped
<1>5. QED BY <1>1, <1>2, <1>4 DEF ShowAp, Send, PanelTyped

LEMMA BtnType ==
  ASSUME PanelTyped, NEW b \in Lights, NEW s \in 0..2, ShowBtn(b, s)
  PROVE  PanelTyped'
<1>1. b \in Bits BY DisplayAssumption DEF Lights, Bits
<1>2. CASE btns["ap"]
  <2>1. BitOf(b, s) \in Bits BY <1>1 DEF BitOf, Bits
  <2>2. BitAfter(b, s) \in BOOLEAN
    <3>1. report.bits[b] \in BOOLEAN BY <1>1 DEF PanelTyped, PanelReport
    <3>2. QED BY <3>1 DEF BitAfter
  <2>3. report' = [report EXCEPT !.bits[BitOf(b, s)] = BitAfter(b, s)] /\ leds' = report' /\ lit' = TRUE
    BY <1>2 DEF ShowBtn, Send
  <2> HIDE DEF BitOf, BitAfter
  <2>4. report' \in PanelReport BY <2>1, <2>2, <2>3 DEF PanelTyped, PanelReport
  <2>5. btns' \in [Bits -> BOOLEAN] BY <1>2 DEF ShowBtn, PanelTyped
  <2>6. QED BY <1>2, <2>3, <2>4, <2>5 DEF ShowBtn, PanelTyped
<1>3. CASE ~btns["ap"]
  <2>1. Lost({<<"btn", b>>}) \subseteq Things BY DEF Lost, Things, Lights
  <2>2. QED BY <1>3, <2>1 DEF ShowBtn, PanelTyped, keptVars
<1>4. QED BY <1>2, <1>3

LEMMA UpdateType == ASSUME PanelTyped, ShowUpdate PROVE PanelTyped'
<1>1. knob # "none" => Digits(knob, vals, sign) \in DigitRows BY DigitsType DEF PanelTyped
<1>2. report.digits \in DigitRows BY DEF PanelTyped, PanelReport
<1>3. [b \in Bits |-> IF b = "hdg" THEN ~btns[b] ELSE btns[b]] \in [Bits -> BOOLEAN]
  BY DEF PanelTyped
<1>4. report' \in PanelReport BY <1>1, <1>2, <1>3 DEF ShowUpdate, PanelReport
<1>5. QED BY <1>4 DEF ShowUpdate, PanelTyped

LEMMA DarkType == ASSUME PanelTyped, NEW m \in Sent, ShowDark(m) PROVE PanelTyped'
<1>1. Lost(About(m) \cup {"dial"} \X Dials) \subseteq Things BY AboutType DEF Lost, Things
<1>2. QED BY <1>1 DEF ShowDark, SendBlank, PanelTyped

LEMMA ShowCases ==
  ASSUME NEW m \in Msg, Show(m)
  PROVE  \/ m[1] = "power" /\ ShowPower(m)
         \/ m[1] \in {"blank", "crash"} /\ ShowBlank(m)
         \/ m[1] \notin {"power", "blank", "crash"} /\ ShowDark(m)
         \/ m[1] = "knob" /\ ShowKnob(m[2])
         \/ m[1] = "val" /\ ShowVal(m[2], m[3], m[4])
         \/ m[1] = "shared" /\ ShowVal(m[2], m[3], "plus")
         \/ m[1] = "freed" /\ (ShowVal("crs", m[2], "plus") \/ Ignore)
         \/ m = <<"btn", "ap", m[3]>> /\ ShowAp(m[3])
         \/ m[1] = "btn" /\ m[2] # "ap" /\ ShowBtn(m[2], m[3])
         \/ m = Update /\ ShowUpdate
<1>1. m \in {Blank, Crash} => m[1] \in {"blank", "crash"} BY DEF Blank, Crash
<1>2. m[1] = "btn" /\ m[2] = "ap" => m = <<"btn", "ap", m[3]>> BY MsgShape
<1>3. QED BY <1>1, <1>2 DEF Show, ShowFreed

LEMMA ShowType ==
  ASSUME PanelTyped, NEW m \in Sent, Show(m)
  PROVE  PanelTyped'
<1> /\ m \in Msg /\ (m[1] \in {"shared", "freed"} => {"hdg", "crs"} \subseteq Dials)
  BY DisplayAssumption DEF Sent
<1>1. CASE m[1] = "power" /\ ShowPower(m) BY <1>1, MsgShape DEF ShowPower, PanelTyped
<1>2. CASE ShowBlank(m) BY <1>2 DEF ShowBlank, SendBlank, PanelTyped
<1>3. CASE ShowDark(m) BY <1>3, DarkType
<1>4. CASE m[1] = "knob" /\ ShowKnob(m[2]) BY <1>4, MsgShape, KnobType
<1>5. CASE m[1] = "val" /\ ShowVal(m[2], m[3], m[4]) BY <1>5, MsgShape, ValType
<1>6. CASE m[1] = "shared" /\ ShowVal(m[2], m[3], "plus") BY <1>6, MsgShape, ValType
<1>7. CASE m[1] = "freed" /\ ShowVal("crs", m[2], "plus") BY <1>7, MsgShape, ValType
<1>8. CASE Ignore BY <1>8 DEF Ignore, keptVars, PanelTyped
<1>9. CASE m = <<"btn", "ap", m[3]>> /\ ShowAp(m[3]) BY <1>9, MsgShape, ApType
<1>10. CASE m[1] = "btn" /\ ShowBtn(m[2], m[3]) BY <1>10, MsgShape, BtnType
<1>11. CASE ShowUpdate BY <1>11, UpdateType
<1>12. QED BY <1>1, <1>2, <1>3, <1>4, <1>5, <1>6, <1>7, <1>8, <1>9, <1>10, <1>11, ShowCases
----------------------------------------------------------------------------
(* The types of all variables.                                             *)
LEMMA InitTypes == Init => TypeInv
<1> SUFFICES ASSUME Init PROVE TypeInv OBVIOUS
<1> USE DEF Init
<1>1. sim \in [Dials -> Int] /\ \A d \in Dials : sim[d] \in SimVals[d]
  <2>1. UNION {SimVals[d] : d \in Dials} \subseteq Int BY DisplayAssumption
  <2>2. /\ sim \in [Dials -> UNION {SimVals[d] : d \in Dials}]
        /\ \A d \in Dials : sim[d] \in SimVals[d]
    OBVIOUS
  <2>3. QED BY <2>1, <2>2
<1>2. report \in PanelReport /\ leds \in PanelReport BY ZerosType
<1>3. ojq \in Seq(Msg) /\ ojq \in Seq(Sent) /\ answers \in Seq(Items) /\ Len(ojq) <= Limit
  BY DisplayAssumption
<1>4. power \in [Sw -> BOOLEAN] /\ gPower \in [Sw -> BOOLEAN] BY DEF AllOff, Sw
<1>5. vals \in [Dials -> Nat] /\ btns \in [Bits -> BOOLEAN] OBVIOUS
<1>6. QED BY <1>1, <1>2, <1>3, <1>4, <1>5 DEF TypeInv, TypeOK, Sw

\* The queue and the message taken, for what is sent, are of their type.
LEMMA SentTyped ==
  /\ \A q \in Seq(Sent) : q \in Seq(Msg)
  /\ Sent \subseteq Msg /\ Blank \in Sent /\ Knobs \subseteq Sent
<1>1. Sent \subseteq Msg BY DEF Sent
<1>2. Blank \in Sent BY DEF Sent, Msg, Blank
<1>3. Knobs \subseteq Sent BY DEF Sent, Msg, Knobs
<1>4. \A q \in Seq(Sent) : q \in Seq(Msg) BY <1>1
<1>5. QED BY <1>1, <1>2, <1>3, <1>4

LEMMA CommandType == ASSUME TypeInv, NEW c \in Commands, Command(c) PROVE TypeInv'
<1> USE DEF Command, TypeInv, TypeOK, pluginVars, toVars, keptVars
<1>1. <<c, c>> \in Seq(Items) \/ FdUpOne(c)
  <2>1. CASE Turn(c)
    <3>1. c \in Items BY <2>1 DEF Turn, Items
    <3> HIDE DEF TypeInv, TypeOK
    <3>2. QED BY <3>1
  <2>2. CASE Press(c)
    <3>1. c \in Items BY <2>2 DEF Press, Items
    <3>2. QED BY <3>1
  <2>3. CASE Otto(c)
    <3>1. c \in Items BY <2>3 DEF Otto, Items
    <3>2. QED BY <3>1
  <2>4. QED BY <2>1, <2>2, <2>3
<1>2. CASE Turn(c)
  <2>1. c[2] \in Dials BY <1>2 DEF Turn, Turns
  <2>2. PICK f \in SimVals[c[2]] : sim' = [sim EXCEPT ![c[2]] = f] BY <1>2 DEF Turn
  <2>3. f \in Int BY <2>1, <2>2, DisplayAssumption
  <2>4. sim' \in [Dials -> Int] /\ \A d \in Dials : sim'[d] \in SimVals[d] BY <2>1, <2>2, <2>3
  <2>5. answers' \in Seq(Items)
    <3>1. c \in Items BY <1>2 DEF Turn, Items
    <3>2. answers' = <<c, c>> BY <1>2 DEF Turn
    <3>3. QED BY <3>1, <3>2
  <2>6. QED BY <1>2, <2>4, <2>5 DEF Turn
<1>3. CASE Press(c)
  <2>1. c[2] \in Buttons BY <1>3 DEF Press
  <2>2. PICK s \in 0..2 : status' = [status EXCEPT ![c[2]] = s] BY <1>3 DEF Press
  <2>3. status' \in [Buttons \cup {"ap"} -> 0..2] BY <2>1, <2>2
  <2>5. answers' \in Seq(Items)
    <3>1. c \in Items BY <1>3 DEF Press, Items
    <3>2. answers' = <<c, c>> BY <1>3 DEF Press
    <3>3. QED BY <3>1, <3>2
  <2>6. QED BY <1>3, <2>3, <2>5 DEF Press
<1>4. CASE Otto(c)
  <2>1. c[2] \in {"on", "armed", "off"} BY <1>4 DEF Otto
  <2>2. PICK s : /\ status' = [status EXCEPT !["ap"] = s]
                 /\ s = CASE c[2] = "on" -> 2 [] c[2] = "armed" -> 1 [] c[2] = "off" -> 0
    BY <1>4 DEF Otto
  <2>3. s \in 0..2 BY <2>1, <2>2
  <2>4. status' \in [Buttons \cup {"ap"} -> 0..2] BY <2>2, <2>3
  <2>5. answers' \in Seq(Items)
    <3>1. c \in Items BY <1>4 DEF Otto, Items
    <3>2. answers' = <<c, c>> BY <1>4 DEF Otto
    <3>3. QED BY <3>1, <3>2
  <2>6. QED BY <1>4, <2>4, <2>5 DEF Otto
<1>5. CASE FdUpOne(c)
  <2>1. status["ap"] \in 0..2 OBVIOUS
  <2>2. status["ap"] + 1 \in 0..2 BY <1>5, <2>1 DEF FdUpOne
  <2>3. status' \in [Buttons \cup {"ap"} -> 0..2] BY <1>5, <2>2 DEF FdUpOne
  <2>4. stale' \subseteq Things BY <1>5 DEF FdUpOne, Things
  <2>5. QED BY <1>5, <2>3, <2>4 DEF FdUpOne
<1>6. QED BY <1>2, <1>3, <1>4, <1>5

LEMMA MainType ==
  /\ \A d \in Unheard : TypeInv /\ Silent(d) => TypeInv'
  /\ TypeInv /\ PlaneLoaded => TypeInv'
  /\ TypeInv /\ PlaneUnloaded => TypeInv'
  /\ TypeInv /\ PlaneCrashed => TypeInv'
<1> USE DEF TypeInv, TypeOK, pluginVars, simVars, mainVars, toVars, keptVars
<1>1. ASSUME TypeInv, NEW d \in Unheard, Silent(d) PROVE TypeInv'
  <2>1. d \in Dials BY DisplayAssumption
  <2>2. PICK f \in SimVals[d] : sim' = [sim EXCEPT ![d] = f] BY <1>1 DEF Silent
  <2>3. f \in Int BY <2>1, <2>2, DisplayAssumption
  <2>4. sim' \in [Dials -> Int] /\ \A e \in Dials : sim'[e] \in SimVals[e]
    BY <1>1, <2>1, <2>2, <2>3
  <2>5. stale' \subseteq Things BY <1>1, <2>1 DEF Silent, Things
  <2>6. QED BY <1>1, <2>4, <2>5 DEF Silent
<1>2. ASSUME TypeInv, PlaneLoaded PROVE TypeInv' BY <1>2, InitItemsType DEF PlaneLoaded
<1>3. ASSUME TypeInv, PlaneUnloaded PROVE TypeInv'
  <2>1. PICK on \in Switches : answers' = << <<"power", "avionics", ~on["avionics"]>>,
                                             <<"power", "battery", ~on["battery"]>> >>
    BY <1>3 DEF PlaneUnloaded
  <2>2. <<"power", "avionics", ~on["avionics"]>> \in Items
    <3>1. (~on["avionics"]) \in BOOLEAN BY DisplayAssumption
    <3>2. \A v \in BOOLEAN : <<"power", "avionics", v>> \in Items BY DEF Items, Power
    <3> HIDE DEF TypeInv, TypeOK
    <3>3. QED BY <3>1, <3>2, Zenon
  <2>3. <<"power", "battery", ~on["battery"]>> \in Items
    <3>1. (~on["battery"]) \in BOOLEAN BY DisplayAssumption
    <3>2. \A v \in BOOLEAN : <<"power", "battery", v>> \in Items BY DEF Items, Power
    <3> HIDE DEF TypeInv, TypeOK
    <3>3. QED BY <3>1, <3>2, Zenon
  <2> DEFINE a == <<"power", "avionics", ~on["avionics"]>>  b == <<"power", "battery", ~on["battery"]>>
  <2>4. answers' \in Seq(Items)
    <3>1. a \in Items /\ b \in Items BY <2>2, <2>3
    <3> HIDE DEF TypeInv, TypeOK
    <3>3. answers' = <<a, b>> BY <2>1, Zenon
    <3> HIDE DEF a, b
    <3>2. QED BY <3>1, <3>3
  <2>5. /\ planeLoaded' = FALSE
        /\ UNCHANGED <<enabled, at, op, trig, simVars, gPower, outbox, ojq, toVars, stale>>
    BY <1>3 DEF PlaneUnloaded
  <2> HIDE DEF a, b
  <2>6. planeLoaded' \in BOOLEAN BY <2>5, Zenon
  <2>7. UNCHANGED <<enabled, at, op, trig, simVars, gPower, outbox, ojq, toVars, stale>> BY <2>5
  <2>8. QED BY <1>3, <2>4, <2>6, <2>7
<1>4. ASSUME TypeInv, PlaneCrashed PROVE TypeInv'
  <2>1. Crash \in Items BY DEF Items
  <2>2. << Crash >> \in Seq(Items) BY <2>1
  <2>3. QED BY <1>4, <2>2 DEF PlaneCrashed
<1>5. QED BY <1>1, <1>2, <1>3, <1>4

LEMMA PostType == ASSUME TypeInv, MainPost PROVE TypeInv'
<1> DEFINE a == Head(answers)  m == Message(a)
<1>1. a \in Items /\ Tail(answers) \in Seq(Items) BY Taken DEF TypeInv, MainPost
<1>2. m \in Sent BY <1>1, SentType DEF MainPost
<1>3. ojq' = Append(ojq, m) /\ Len(ojq) < Limit BY DEF MainPost, Post
<1>4. ojq' \in Seq(Sent) /\ Len(ojq') = Len(ojq) + 1 /\ Len(ojq) \in Nat
  BY <1>2, <1>3, Appended DEF TypeInv
<1>5. gPower' \in [Sw -> BOOLEAN]
  <2>1. m[1] = "power" => m[2] \in Sw /\ m[3] \in BOOLEAN BY <1>2, MsgShape, SentTyped
  <2>2. gPower \in [Sw -> BOOLEAN] BY DEF TypeInv, TypeOK, Sw
  <2>3. gPower' = IF m[1] = "power" THEN [gPower EXCEPT ![m[2]] = m[3]] ELSE gPower
    BY DEF MainPost
  <2>4. QED BY <2>1, <2>2, <2>3
<1>6. stale' \subseteq Things BY DEF MainPost, TypeInv, TypeOK
<1>7. Len(ojq') <= Limit BY <1>3, <1>4, DisplayAssumption
<1>8. answers' \in Seq(Items) BY <1>1 DEF MainPost
<1>9. ojq' \in Seq(Msg) BY <1>4, SentTyped
<1>10. QED BY <1>4, <1>5, <1>6, <1>7, <1>8, <1>9
  DEF MainPost, TypeInv, TypeOK, pluginVars, simVars, toVars, keptVars, Sw

LEMMA RewrittenType ==
  ASSUME TypeInv, NEW m \in Sent, NEW item \in Items, item[1] \in {"rename", "rewrite"}
  PROVE  Rewritten(m, item) \in Sent
<1>1. "crs" \in Dials BY ItemShape
<1>2. Value("init", "crs", sim["crs"]) \in Nat BY <1>1, SimType, ValueType
<1>3. CASE m[1] # "shared" BY <1>3 DEF Rewritten
<1>4. CASE m[1] = "shared"
  <2>1. m # NoMsg /\ m[3] \in Nat BY <1>4, MsgShape, NoMsgApart, SentTyped
  <2>2. <<"shared", "crs", m[3]>> \in Sent BY <1>1, <2>1, MsgMembers DEF Sent
  <2>3. <<"val", "crs", Value("init", "crs", sim["crs"]), "plus">> \in Sent
    BY <1>1, <1>2, MsgMembers DEF Sent
  <2>4. QED BY <1>4, <2>1, <2>2, <2>3 DEF Rewritten
<1>5. QED BY <1>3, <1>4

LEMMA RewriteType == ASSUME TypeInv, MainRewrite PROVE TypeInv'
<1> DEFINE a == Head(answers)
<1>1. a \in Items /\ Tail(answers) \in Seq(Items) /\ a[1] \in {"rename", "rewrite"}
  BY Taken DEF TypeInv, MainRewrite
<1>2. ojq' = [i \in 1..Len(ojq) |-> Rewritten(ojq[i], a)] BY DEF MainRewrite, TypeInv
<1>3. \A i \in 1..Len(ojq) : Rewritten(ojq[i], a) \in Sent BY <1>1, RewrittenType DEF TypeInv
<1>4. Len(ojq) \in Nat BY DEF TypeInv
<1>5. ojq' \in Seq(Sent) /\ Len(ojq') = Len(ojq) BY <1>2, <1>3, <1>4
<1>6. taken' \in Sent \cup {NoMsg}
  <2>1. taken' = Rewritten(taken, a) BY DEF MainRewrite
  <2>2. CASE taken = NoMsg BY <2>1, <2>2 DEF Rewritten
  <2>3. CASE taken \in Sent BY <1>1, <2>1, <2>3, RewrittenType
  <2>4. QED BY <2>2, <2>3 DEF TypeInv
<1>7. answers' \in Seq(Items) BY <1>1 DEF MainRewrite
<1>8. ojq' \in Seq(Msg) /\ taken' \in Msg \cup {NoMsg} BY <1>5, <1>6, SentTyped
<1>9. QED BY <1>5, <1>6, <1>7, <1>8
  DEF MainRewrite, TypeInv, TypeOK, pluginVars, simVars, keptVars

LEMMA DeliverType == ASSUME TypeInv, Deliver PROVE TypeInv'
<1>1. outbox \in Sent BY SentTyped DEF TypeInv, TypeOK, Deliver
<1>2. ojq' = Append(ojq, outbox) /\ Len(ojq) < Limit BY DEF Deliver, Post
<1>3. ojq' \in Seq(Sent) /\ Len(ojq') = Len(ojq) + 1 /\ Len(ojq) \in Nat
  BY <1>1, <1>2, Appended DEF TypeInv
<1>4. ojq' \in Seq(Msg) /\ Len(ojq') <= Limit BY <1>2, <1>3, SentTyped, DisplayAssumption
<1>5. QED BY <1>3, <1>4
  DEF Deliver, TypeInv, TypeOK, pluginVars, simVars, mainVars, toVars, keptVars

LEMMA PluginType ==
  /\ \A d \in Dials : TypeInv /\ Report(d) => TypeInv'
  /\ TypeInv /\ (Enable \/ DisablePark \/ PurgeNext) => TypeInv'
  /\ TypeInv /\ Disable => TypeInv'
  /\ TypeInv /\ PurgeTake => TypeInv'
<1> USE DEF TypeInv, TypeOK, pluginVars, simVars, mainVars, toVars, keptVars
<1>1. ASSUME TypeInv, NEW d \in Dials, Report(d) PROVE TypeInv'
  <2>1. <<"knob", d>> \in Knobs BY DEF Knobs
  <2>2. QED BY <1>1, <2>1 DEF Report, Sent
<1>2. ASSUME TypeInv, Enable PROVE TypeInv' BY <1>2 DEF Enable
<1>3. ASSUME TypeInv, DisablePark PROVE TypeInv'
  <2>1. /\ trig' = FALSE /\ at' = "purge"
        /\ UNCHANGED <<enabled, planeLoaded, op, simVars, mainVars, outbox, ojq, toVars, stale>>
    BY <1>3 DEF DisablePark
  <2>2. trig' \in BOOLEAN BY <2>1, Zenon
  <2>3. at' = "purge"
        /\ UNCHANGED <<enabled, planeLoaded, op, simVars, mainVars, outbox, ojq, toVars, stale>>
    BY <2>1
  <2>4. QED BY <1>3, <2>2, <2>3
<1>4. ASSUME TypeInv, PurgeNext PROVE TypeInv' BY <1>4 DEF PurgeNext
<1>5. ASSUME TypeInv, Disable PROVE TypeInv'
  <2>1. ojq' = <<Blank>> \o ojq /\ Len(ojq) < Limit BY <1>5 DEF Disable
  <2>2. <<Blank>> \o ojq \in Seq(Sent) /\ Len(<<Blank>> \o ojq) = Len(ojq) + 1 /\ Len(ojq) \in Nat
    <3>1. Blank \in Sent /\ Blank \notin {} /\ ojq \in Seq(Sent) BY <1>5, SentTyped
    <3> HIDE DEF TypeInv, TypeOK
    <3>2. ASSUME NEW q \in Seq(Sent), NEW e \in Sent, e \notin {}
          PROVE  <<e>> \o q \in Seq(Sent) /\ Len(<<e>> \o q) = Len(q) + 1 /\ Len(q) \in Nat
      BY Preposted
    <3>3. QED BY <3>1, <3>2
  <2>3. ojq' \in Seq(Sent) /\ ojq' \in Seq(Msg) /\ Len(ojq') <= Limit
    BY <2>1, <2>2, SentTyped, DisplayAssumption
  <2>4. QED BY <1>5, <2>3 DEF Disable
<1>6. ASSUME TypeInv, PurgeTake PROVE TypeInv'
  <2>1. Head(ojq) \in Sent /\ Tail(ojq) \in Seq(Sent) /\ Len(Tail(ojq)) = Len(ojq) - 1
        /\ Len(ojq) \in Nat
    <3>1. ojq \in Seq(Sent) /\ ojq # <<>> BY <1>6 DEF PurgeTake
    <3> HIDE DEF TypeInv, TypeOK
    <3>2. QED BY <3>1, Taken
  <2>2. About(Head(ojq)) \subseteq Things BY <2>1, AboutType
  <2>3. Len(Tail(ojq)) <= Limit BY <1>6, <2>1, DisplayAssumption
  <2>4. Tail(ojq) \in Seq(Msg) BY <2>1, SentTyped
  <2>5. QED BY <1>6, <2>1, <2>2, <2>3, <2>4 DEF PurgeTake
<1>7. QED BY <1>1, <1>2, <1>3, <1>4, <1>5, <1>6

LEMMA ToType ==
  /\ TypeInv /\ ToWake => TypeInv'
  /\ TypeInv /\ ToTake => TypeInv'
  /\ TypeInv /\ TakenShown /\ ToShow => TypeInv'
<1> USE DEF TypeInv, TypeOK, pluginVars, simVars, mainVars, toVars, keptVars
<1>1. ASSUME TypeInv, ToWake PROVE TypeInv' BY <1>1 DEF ToWake
<1>2. ASSUME TypeInv, ToTake PROVE TypeInv'
  <2>1. Head(ojq) \in Sent /\ Tail(ojq) \in Seq(Sent) /\ Len(Tail(ojq)) = Len(ojq) - 1
        /\ Len(ojq) \in Nat
    <3>1. ojq \in Seq(Sent) /\ ojq # <<>> BY <1>2 DEF ToTake
    <3> HIDE DEF TypeInv, TypeOK
    <3>2. QED BY <3>1, Taken
  <2>2. Len(Tail(ojq)) <= Limit BY <1>2, <2>1, DisplayAssumption
  <2>3. Tail(ojq) \in Seq(Msg) /\ Head(ojq) \in Msg BY <2>1, SentTyped
  <2>4. QED BY <1>2, <2>1, <2>2, <2>3 DEF ToTake
<1>3. ASSUME TypeInv, TakenShown, ToShow PROVE TypeInv'
  <2>1. taken \in Sent BY <1>3 DEF ToShow, TakenShown
  <2>2. PanelTyped BY <1>3 DEF PanelTyped, Sw
  <2>3. Show(taken) BY <1>3 DEF ToShow
  <2> HIDE DEF TypeInv, TypeOK
  <2>4. PanelTyped' BY <2>1, <2>2, <2>3, ShowType
  <2>5. QED BY <1>3, <2>4 DEF ToShow, PanelTyped, Sw, TypeInv, TypeOK
<1>4. QED BY <1>1, <1>2, <1>3
----------------------------------------------------------------------------
(* A message that is taken is about to be shown, and what is to be said of *)
(* the autopilot is so.                                                    *)
LEMMA TakenNext == ASSUME TypeInv, TakenShown, [Next]_vars PROVE TakenShown'
<1> USE DEF TakenShown
<1>1. CASE ToTake
  <2>1. Head(ojq) # NoMsg
    <3>1. Head(ojq) \in Sent BY <1>1, Taken DEF ToTake, TypeInv
    <3>2. QED BY <3>1, NoMsgApart, SentTyped
  <2>2. QED BY <1>1, <2>1 DEF ToTake
<1>2. CASE ToShow BY <1>2 DEF ToShow
<1>3. CASE ToWake BY <1>3 DEF ToWake
<1>4. CASE MainRewrite
  <2>1. loc' = loc /\ taken' = Rewritten(taken, Head(answers)) BY <1>4 DEF MainRewrite
  <2>2. CASE taken = NoMsg BY <2>1, <2>2 DEF Rewritten
  <2>3. CASE taken # NoMsg
    <3>1. taken \in Sent BY <2>3 DEF TypeInv
    <3>2. Head(answers) \in Items BY <1>4, Taken DEF MainRewrite, TypeInv
    <3>3. taken' \in Sent BY <2>1, <3>1, <3>2, <1>4, RewrittenType DEF MainRewrite
    <3>4. QED BY <2>1, <2>3, <3>3, NoMsgApart, SentTyped
  <2>4. QED BY <2>2, <2>3
<1>5. CASE UNCHANGED <<loc, taken>> BY <1>5
<1>6. QED
  BY <1>1, <1>2, <1>3, <1>4, <1>5
  DEF Next, vars, Command, Silent, PlaneLoaded, PlaneUnloaded, PlaneCrashed, MainPost, Report,
      Deliver, Enable, Disable, DisablePark, PurgeTake, PurgeNext, toVars

\* No handler speaks of the autopilot by a name but Otto's.
LEMMA NoOtto == \A i \in 1..Len(InitItems) : InitItems[i][1] # "otto"
<1> DEFINE S == {a \in Items : a[1] # "otto"}
<1>1. \A s, t : s \in Seq(S) /\ t \in Seq(S) => s \o t \in Seq(S) BY Joined
<1>2. \A d : InitVal(d) \in Seq(S)
  <2>1. SUFFICES ASSUME NEW d PROVE InitVal(d) \in Seq(S) OBVIOUS
  <2>2. CASE d \in Dials
    <3>1. <<"init", d>> \in S BY <2>2 DEF Items
    <3>2. QED BY <2>2, <3>1 DEF InitVal, When
  <2>3. CASE d \notin Dials BY <2>3 DEF InitVal, When
  <2>4. QED BY <2>2, <2>3
<1>3. \A b : InitBtn(b) \in Seq(S)
  <2>1. SUFFICES ASSUME NEW b PROVE InitBtn(b) \in Seq(S) OBVIOUS
  <2>2. CASE b \in Buttons
    <3>1. <<"btn", b>> \in S BY <2>2 DEF Items
    <3>2. QED BY <2>2, <3>1 DEF InitBtn, When
  <2>3. CASE b \notin Buttons BY <2>3 DEF InitBtn, When
  <2>4. QED BY <2>2, <2>3
<1>4. << <<"power", "avionics", TRUE>>, <<"power", "battery", TRUE>> >> \in Seq(S)
  <2>1. <<"power", "avionics", TRUE>> \in S /\ <<"power", "battery", TRUE>> \in S
    BY DEF Items, Power
  <2> HIDE DEF S
  <2>2. QED BY <2>1
<1>5. << <<"btn", "ap">> >> \in Seq(S) /\ << Update >> \in Seq(S)
  <2>1. <<"btn", "ap">> \in S /\ Update \in S BY DEF Items, Update
  <2> HIDE DEF S
  <2>2. QED BY <2>1
<1>6. When("crs" \in Dials, << <<"shared">>, <<"rename">>, <<"rewrite">>, <<"freed">> >>) \in Seq(S)
  <2>1. CASE "crs" \in Dials
    <3>1. /\ <<"shared">> \in S /\ <<"rename">> \in S /\ <<"rewrite">> \in S /\ <<"freed">> \in S
      BY <2>1 DEF Items
    <3> HIDE DEF S
    <3>2. << <<"shared">>, <<"rename">>, <<"rewrite">>, <<"freed">> >> \in Seq(S) BY <3>1
    <3>3. QED BY <2>1, <3>2 DEF When
  <2>2. CASE "crs" \notin Dials BY <2>2 DEF When
  <2>3. QED BY <2>1, <2>2
<1> HIDE DEF S
<1>7. InitItems \in Seq(S) BY <1>1, <1>2, <1>3, <1>4, <1>5, <1>6 DEF InitItems
<1>8. \A i \in 1..Len(InitItems) : InitItems[i] \in S BY <1>7
<1>9. QED BY <1>8 DEF S

LEMMA OttoNext == ASSUME TypeInv, OttoTrue, [Next]_vars PROVE OttoTrue'
<1> USE DEF OttoTrue
<1>1. ASSUME NEW c \in Commands, Command(c) PROVE OttoTrue'
  <2>1. CASE Otto(c)
    <3>1. answers' = <<c, c>> BY <2>1 DEF Otto
    <3>2. \A i \in 1..Len(answers') : answers'[i] = c BY <3>1
    <3>3. status'["ap"] = CASE c[2] = "on" -> 2 [] c[2] = "armed" -> 1 [] c[2] = "off" -> 0
      BY <2>1 DEF Otto, TypeInv, TypeOK
    <3>4. QED BY <3>2, <3>3
  <2>2. CASE Turn(c) \/ Press(c)
    <3>1. answers' = <<c, c>> /\ c[1] # "otto" BY <2>2 DEF Turn, Turns, Press
    <3>2. \A i \in 1..Len(answers') : answers'[i] = c BY <3>1
    <3>3. QED BY <3>1, <3>2
  <2>3. CASE FdUpOne(c)
    <3>1. answers' = <<>> BY <1>1, <2>3 DEF FdUpOne, Command, Idle
    <3>2. QED BY <3>1
  <2>4. QED BY <1>1, <2>1, <2>2, <2>3 DEF Command
<1>2. CASE PlaneLoaded
  <2>1. answers' = InitItems BY <1>2 DEF PlaneLoaded
  <2>2. QED BY <2>1, NoOtto
<1>3. CASE PlaneUnloaded
  <2>1. PICK v, w : answers' = << <<"power", "avionics", v>>, <<"power", "battery", w>> >>
    BY <1>3 DEF PlaneUnloaded
  <2>2. \A i \in 1..Len(answers') : answers'[i][1] = "power" BY <2>1
  <2>3. QED BY <2>2
<1>4. CASE PlaneCrashed
  <2>1. answers' = <<Crash>> BY <1>4 DEF PlaneCrashed
  <2>2. \A i \in 1..Len(answers') : answers'[i][1] # "otto" BY <2>1 DEF Crash
  <2>3. QED BY <2>2
<1>5. CASE MainPost \/ MainRewrite
  <2>1. answers' = Tail(answers) /\ answers # <<>> /\ status' = status
    BY <1>5 DEF MainPost, MainRewrite, simVars
  <2>2. /\ \A i \in 1..Len(answers') : answers'[i] = answers[i + 1] /\ i + 1 \in 1..Len(answers)
    <3>1. answers \in Seq(Items) BY DEF TypeInv
    <3>2. QED BY <2>1, <3>1, Taken
  <2>3. QED BY <2>1, <2>2
<1>6. CASE UNCHANGED <<answers, status>> BY <1>6
<1>7. QED
  BY <1>1, <1>2, <1>3, <1>4, <1>5, <1>6
  DEF Next, vars, simVars, mainVars, Silent, Report, Deliver, Enable, Disable, DisablePark,
      PurgeTake, PurgeNext, ToWake, ToTake, ToShow

LEMMA TypeNext == ASSUME TypeInv, TakenShown, [Next]_vars PROVE TypeInv'
<1>1. CASE Next
  BY <1>1, CommandType, MainType, PostType, RewriteType, DeliverType, PluginType, ToType DEF Next
<1>2. CASE UNCHANGED vars
  BY <1>2
  DEF vars, pluginVars, simVars, mainVars, toVars, keptVars, TypeInv, TypeOK
<1>3. QED BY <1>1, <1>2

LEMMA SoundInductive == (Init => Sound) /\ (Sound /\ [Next]_vars => Sound')
<1>1. Init => TakenShown /\ OttoTrue
  <2> SUFFICES ASSUME Init PROVE TakenShown /\ OttoTrue OBVIOUS
  <2>1. answers = <<>> /\ loc = "wait" /\ taken = NoMsg BY DEF Init
  <2>2. QED BY <2>1 DEF TakenShown, OttoTrue
<1>2. QED BY <1>1, InitTypes, TypeNext, TakenNext, OttoNext DEF Sound

(* Every reachable state is of its type.                                   *)
THEOREM Types == Spec => []TypeOK
<1>1. Sound => TypeOK BY DEF Sound, TypeInv
<1>2. QED BY <1>1, SoundInductive, PTL DEF Spec
----------------------------------------------------------------------------
(* What the messages about a thing say.                                    *)
LEMMA ToldShape ==
  ASSUME NEW x \in Told
  PROVE  \/ x \in Powers /\ x = <<"power", x[2]>> /\ x[2] \in Sw
         \/ x \in Lamps /\ x = <<"btn", x[2]>> /\ x[2] \in Lights /\ x[2] \in {"ap", "nav", "ias"}
         \/ x \in Readouts /\ x = <<"dial", x[2]>> /\ x[2] \in Dials /\ x[2] \in {"alt", "vs", "ias"}
BY DEF Told, Powers, Lamps, Readouts, Sw, Lights

LEMMA SaidShape ==
  ASSUME NEW x \in Told, NEW m \in Sent
  PROVE  /\ x \in Powers => (m \in Said(x) <=> m[1] = "power" /\ m[2] = x[2])
         /\ x \in Lamps => (m \in Said(x) <=> m[1] = "btn" /\ m[2] = x[2])
         /\ x \in Readouts => (m \in Said(x) <=> m[1] = "val" /\ m[2] = x[2])
         /\ m[1] \in {"knob", "blank", "crash", "updateLeds", "shared", "freed"} => m \notin Said(x)
<1>1. CASE x \in Powers
  <2>1. x = <<"power", x[2]>> /\ x[2] \in Sw BY <1>1 DEF Powers, Sw
  <2>2. m \in Said(x) <=> m[1] = "power" /\ m[2] = x[2] BY <2>1, AboutType DEF Said
  <2>3. QED BY <1>1, <2>1, <2>2 DEF Powers, Lamps, Readouts
<1>2. CASE x \in Lamps
  <2>1. x = <<"btn", x[2]>> BY <1>2 DEF Lamps
  <2>2. m \in Said(x) <=> m[1] = "btn" /\ m[2] = x[2] BY <2>1, AboutType DEF Said
  <2>3. QED BY <1>2, <2>1, <2>2 DEF Powers, Lamps, Readouts
<1>3. CASE x \in Readouts
  <2>1. x = <<"dial", x[2]>> /\ x[2] \in Dials \ {"hdg", "crs"} BY <1>3 DEF Readouts
  <2>2. m \in Said(x) <=> m[1] = "val" /\ m[2] = x[2] BY <2>1, AboutType DEF Said
  <2>3. QED BY <1>3, <2>1, <2>2 DEF Powers, Lamps, Readouts
<1>4. QED BY <1>1, <1>2, <1>3 DEF Told

LEMMA TruthSays ==
  ASSUME NEW x \in Told, NEW m \in Said(x)
  PROVE  /\ x \in Powers => (IsTrue(m) <=> m[3] = Truth(x))
         /\ x \in Lamps => (IsTrue(m) <=> m[3] = Truth(x))
         /\ x \in Readouts => (IsTrue(m) <=> Near(m[3], Truth(x)) /\ m[4] = Sign(Truth(x)))
<1>0. m \in Sent BY DEF Said
<1>1. CASE x \in Powers
  <2>1. m[1] = "power" /\ m[2] = x[2] BY <1>0, <1>1, SaidShape
  <2>2. x[1] = "power" BY <1>1 DEF Powers
  <2>3. QED BY <1>1, <2>1, <2>2 DEF IsTrue, Truth, Powers, Lamps, Readouts
<1>2. CASE x \in Lamps
  <2>1. m[1] = "btn" /\ m[2] = x[2] BY <1>0, <1>2, SaidShape
  <2>2. x[1] = "btn" BY <1>2 DEF Lamps
  <2>3. QED BY <1>2, <2>1, <2>2 DEF IsTrue, Truth, Powers, Lamps, Readouts
<1>3. CASE x \in Readouts
  <2>1. m[1] = "val" /\ m[2] = x[2] BY <1>0, <1>3, SaidShape
  <2>2. x[1] = "dial" BY <1>3 DEF Readouts
  <2>3. QED BY <1>3, <2>1, <2>2 DEF IsTrue, Truth, Powers, Lamps, Readouts
<1>4. QED BY <1>1, <1>2, <1>3 DEF Told

\* While the truth stays, so does what is true.
LEMMA TruthStays ==
  ASSUME NEW x \in Told, Truth(x)' = Truth(x)
  PROVE  Outdated(x)' = Outdated(x) /\ \A m \in Said(x) : IsTrue(m)' <=> IsTrue(m)
<1>0. Said(x)' = Said(x) BY DEF Said
<1>1. \A m \in Said(x) : IsTrue(m)' <=> IsTrue(m)
  <2> SUFFICES ASSUME NEW m \in Said(x) PROVE IsTrue(m)' <=> IsTrue(m) OBVIOUS
  <2>0. m \in Sent BY DEF Said
  <2>1. CASE x \in Powers
    <3>1. m[1] = "power" /\ m[2] = x[2] /\ x[1] = "power" BY <2>0, <2>1, SaidShape DEF Powers
    <3>2. QED BY <3>1 DEF IsTrue, Truth
  <2>2. CASE x \in Lamps
    <3>1. m[1] = "btn" /\ m[2] = x[2] /\ x[1] = "btn" BY <2>0, <2>2, SaidShape DEF Lamps
    <3>2. QED BY <3>1 DEF IsTrue, Truth
  <2>3. CASE x \in Readouts
    <3>1. m[1] = "val" /\ m[2] = x[2] /\ x[1] = "dial" BY <2>0, <2>3, SaidShape DEF Readouts
    <3>2. QED BY <3>1 DEF IsTrue, Truth
  <2>4. QED BY <2>1, <2>2, <2>3 DEF Told
<1>2. Outdated(x)' = {m \in Said(x) : ~(IsTrue(m)')} BY <1>0 DEF Outdated
<1>3. QED BY <1>1, <1>2 DEF Outdated

LEMMA SaidApart ==
  /\ \A x \in Told : Outdated(x) \subseteq Said(x) /\ NoMsg \notin Said(x) /\ Blank \notin Said(x)
  /\ \A x \in Told, m \in Knobs : m \notin Said(x)
<1>1. \A x : Outdated(x) \subseteq Said(x) BY DEF Outdated
<1>2. NoMsg \notin Sent BY NoMsgApart, SentTyped
<1>3. Blank \in Sent /\ Blank[1] = "blank" BY SentTyped DEF Blank
<1>4. \A m \in Knobs : m \in Sent /\ m[1] = "knob" BY SentTyped DEF Knobs
<1>5. \A x \in Told : NoMsg \notin Said(x) BY <1>2 DEF Said
<1>6. \A x \in Told : Blank \notin Said(x) BY <1>3, SaidShape
<1>7. \A x \in Told, m \in Knobs : m \notin Said(x) BY <1>4, SaidShape
<1>8. QED BY <1>1, <1>5, <1>6, <1>7
----------------------------------------------------------------------------
(* Steps that post nothing: the truth stays, or what is open then is.      *)
LEMMA FollowsStill ==
  ASSUME NEW x \in Told, Follows(x), ojq' = ojq, taken' = taken,
         Open(x)' \/ (~Open(x) /\ Truth(x)' = Truth(x) /\ (Kept(x) => Kept(x)'))
  PROVE  Follows(x)'
<1>1. CASE Open(x)' BY <1>1 DEF Follows
<1>2. CASE ~Open(x) /\ Truth(x)' = Truth(x) /\ (Kept(x) => Kept(x)')
  <2>1. Said(x)' = Said(x) /\ Outdated(x)' = Outdated(x) BY <1>2, TruthStays DEF Said
  <2>2. taken \in Said(x) => (IsTrue(taken)' <=> IsTrue(taken)) BY <1>2, TruthStays
  <2>3. ToldLast(x)' <=> ToldLast(x) BY <2>1 DEF ToldLast, Closed, After
  <2>5. QED BY <1>2, <2>1, <2>2, <2>3 DEF Follows, Holds
<1>3. QED BY <1>1, <1>2

\* What is kept depends on the truth and on the panel.
LEMMA KeptStays ==
  ASSUME NEW x \in Told, Truth(x)' = Truth(x),
         UNCHANGED <<power, knob, vals, sign, btns, report, leds>>, lit' => lit
  PROVE  Kept(x) => Kept(x)'
<1>1. CASE x \in Powers
  <2>1. x[1] = "power" BY <1>1 DEF Powers
  <2>2. QED BY <2>1 DEF Truth, Kept, PowerKept
<1>2. CASE x \in Lamps
  <2>1. x[1] = "btn" BY <1>2 DEF Lamps
  <2>2. QED BY <2>1 DEF Truth, Kept, LampKept
<1>3. CASE x \in Readouts
  <2>1. x[1] = "dial" BY <1>3 DEF Readouts
  <2>2. sim'[x[2]] = sim[x[2]] BY <2>1 DEF Truth
  <2>3. QED BY <2>1, <2>2 DEF Kept, ReadoutKept, Drawn
<1>4. QED BY <1>1, <1>2, <1>3 DEF Told

LEMMA IdleOpen == ASSUME answers = <<>>, NEW x PROVE Open(x) <=> x \in stale
BY DEF Open

LEMMA FollowsCommand ==
  ASSUME Sound, NEW c \in Commands, Command(c), NEW x \in Told, Follows(x)
  PROVE  Follows(x)'
<1> USE DEF Sound, TypeInv, TypeOK
<1>1. answers = <<>> /\ ojq' = ojq /\ taken' = taken /\ gPower' = gPower
      /\ UNCHANGED <<power, knob, vals, sign, btns, report, leds, lit>>
  BY DEF Command, Idle, toVars, keptVars
<1>2. stale \subseteq stale' BY DEF Command, Turn, Press, Otto, FdUpOne
<1>3. Open(x)' \/ Truth(x)' = Truth(x)
  <2>1. CASE Turn(c)
    <3>1. c[1] \in {"up", "dn"} /\ c[2] \in Dials /\ answers' = <<c, c>> BY <2>1 DEF Turn, Turns
    <3>2. CASE x = <<"dial", c[2]>>
      <4>1. x \in Asked(answers'[1]) /\ 1 \in 1..Len(answers') BY <3>1, <3>2 DEF Asked
      <4>2. QED BY <4>1 DEF Open, Asked
    <3>3. CASE x # <<"dial", c[2]>>
      <4>1. status' = status /\ \A d \in Dials : d # c[2] => sim'[d] = sim[d]
        BY <2>1, <3>1 DEF Turn
      <4>2. QED BY <1>1, <3>3, <4>1, ToldShape DEF Truth
    <3>4. QED BY <3>2, <3>3
  <2>2. CASE Press(c)
    <3>1. c[1] = "btn" /\ c = <<"btn", c[2]>> /\ c[2] \in Buttons /\ answers' = <<c, c>>
      BY <2>2 DEF Press
    <3>2. CASE x = <<"btn", c[2]>>
      <4>0. answers'[1] = c /\ 1 \in 1..Len(answers') BY <3>1
      <4>1. Asked(c) = {<<"btn", c[2]>>}
        <5>1. c[1] = "btn" BY <3>1
        <5>2. QED BY <5>1 DEF Asked
      <4>2. x \in Asked(answers'[1]) /\ 1 \in 1..Len(answers') BY <3>2, <4>0, <4>1
      <4>3. QED BY <4>2 DEF Open, Asked
    <3>3. CASE x # <<"btn", c[2]>>
      <4>1. sim' = sim /\ \A b \in Lights : b # c[2] => status'[b] = status[b]
        BY <2>2, <3>1 DEF Press, Lights
      <4>2. QED BY <1>1, <3>3, <4>1, ToldShape DEF Truth
    <3>4. QED BY <3>2, <3>3
  <2>3. CASE Otto(c)
    <3>1. c[1] = "otto" /\ answers' = <<c, c>> BY <2>3 DEF Otto
    <3>2. CASE x = <<"btn", "ap">>
      <4>1. x \in Asked(answers'[1]) /\ 1 \in 1..Len(answers') BY <3>1, <3>2 DEF Asked
      <4>2. QED BY <4>1 DEF Open, Asked
    <3>3. CASE x # <<"btn", "ap">>
      <4>1. sim' = sim /\ \A b \in Lights : b # "ap" => status'[b] = status[b]
        BY <2>3 DEF Otto, Lights
      <4>2. QED BY <1>1, <3>3, <4>1, ToldShape DEF Truth
    <3>4. QED BY <3>2, <3>3
  <2>4. CASE FdUpOne(c)
    <3>1. CASE x = <<"btn", "ap">> BY <2>4, <3>1 DEF FdUpOne, Open
    <3>2. CASE x # <<"btn", "ap">>
      <4>1. sim' = sim /\ \A b \in Lights : b # "ap" => status'[b] = status[b]
        BY <2>4 DEF FdUpOne, Lights
      <4>2. QED BY <1>1, <3>2, <4>1, ToldShape DEF Truth
    <3>3. QED BY <3>1, <3>2
  <2>5. QED BY <2>1, <2>2, <2>3, <2>4 DEF Command
<1>4. Open(x)' \/ ~Open(x) BY <1>1, <1>2, IdleOpen DEF Open
<1>5. Truth(x)' = Truth(x) => (Kept(x) => Kept(x)') BY <1>1, KeptStays
<1>6. QED BY <1>1, <1>3, <1>4, <1>5, FollowsStill

LEMMA FollowsSilent ==
  ASSUME Sound, NEW d \in Unheard, Silent(d), NEW x \in Told, Follows(x)
  PROVE  Follows(x)'
<1>1. answers = <<>> /\ answers' = <<>> /\ ojq' = ojq /\ taken' = taken /\ gPower' = gPower
      /\ status' = status /\ UNCHANGED <<power, knob, vals, sign, btns, report, leds, lit>>
      /\ stale' = stale \cup {<<"dial", d>>}
  BY DEF Silent, Idle, mainVars, toVars, keptVars
<1>2. CASE x = <<"dial", d>>
  <2>1. Open(x)' BY <1>1, <1>2 DEF Open
  <2>2. QED BY <1>1, <2>1, FollowsStill
<1>3. CASE x # <<"dial", d>>
  <2>1. \A e \in Dials : e # d => sim'[e] = sim[e] BY DEF Silent, Sound, TypeInv
  <2>2. Truth(x)' = Truth(x) BY <1>1, <1>3, <2>1, ToldShape DEF Truth
  <2>3. Open(x)' \/ ~Open(x) BY <1>1, IdleOpen DEF Open
  <2>4. Kept(x) => Kept(x)' BY <1>1, <2>2, KeptStays
  <2>5. QED BY <1>1, <2>2, <2>3, <2>4, FollowsStill
<1>4. QED BY <1>2, <1>3

\* Steps that change nothing the panel is told of, and begin to post at most.
LEMMA FollowsQuiet ==
  ASSUME NEW x \in Told, Follows(x), answers = <<>> \/ answers' = answers,
         UNCHANGED <<sim, status, gPower, ojq, taken, stale, power, knob, vals, sign, btns,
                     report, leds>>, lit' => lit
  PROVE  Follows(x)'
<1>1. Truth(x)' = Truth(x) BY DEF Truth
<1>2. Open(x)' \/ ~Open(x) BY IdleOpen DEF Open
<1>3. Kept(x) => Kept(x)' BY <1>1, KeptStays
<1>4. QED BY <1>1, <1>2, <1>3, FollowsStill

LEMMA FollowsPlugin ==
  ASSUME NEW x \in Told, Follows(x), Sound,
         \/ PlaneLoaded \/ PlaneUnloaded \/ PlaneCrashed \/ Enable \/ DisablePark \/ PurgeNext
         \/ ToWake \/ UNCHANGED vars \/ \E d \in Dials : Report(d)
  PROVE  Follows(x)'
<1>1. answers = <<>> \/ answers' = answers
  BY DEF PlaneLoaded, PlaneUnloaded, PlaneCrashed, Enable, DisablePark, PurgeNext, ToWake, vars,
         Report, Idle, mainVars
<1>2. UNCHANGED <<sim, status, gPower, ojq, taken, stale, power, knob, vals, sign, btns,
                  report, leds>>
  BY DEF PlaneLoaded, PlaneUnloaded, PlaneCrashed, Enable, DisablePark, PurgeNext, ToWake, vars,
         Report, mainVars, simVars, toVars, keptVars
<1>3. lit' => lit
  BY DEF PlaneLoaded, PlaneUnloaded, PlaneCrashed, Enable, DisablePark, PurgeNext, ToWake, vars,
         Report, toVars
<1>4. QED BY <1>1, <1>2, <1>3, FollowsQuiet
----------------------------------------------------------------------------
(* Steps of the queue.                                                     *)
LEMMA FollowsDeliver ==
  ASSUME Sound, Deliver, NEW x \in Told, Follows(x)
  PROVE  Follows(x)'
<1>1. outbox \in Knobs /\ outbox \in Sent /\ ojq' = Append(ojq, outbox) /\ ojq \in Seq(Sent)
  BY SentTyped DEF Deliver, Post, Sound, TypeInv, TypeOK
<1>2. UNCHANGED <<sim, status, gPower, answers, taken, stale, power, knob, vals, sign, btns,
                  report, leds, lit>>
  BY DEF Deliver, simVars, mainVars, toVars, keptVars
<1>3. Truth(x)' = Truth(x) /\ (Open(x)' <=> Open(x)) BY <1>2 DEF Truth, Open
<1>4. Kept(x) => Kept(x)' BY <1>2, <1>3, KeptStays
<1>5. Outdated(x)' = Outdated(x) /\ Said(x)' = Said(x) /\ (IsTrue(taken)' <=> IsTrue(taken))
  BY <1>2, <1>3, TruthStays DEF Said, IsTrue
<1>6. outbox \notin Said(x) /\ outbox \notin Outdated(x) BY <1>1, SaidApart
<1>7. ToldLast(x) => Closed(ojq', Outdated(x), Said(x)) BY <1>1, <1>6, SpacedAppended DEF ToldLast
<1>8. Holds(ojq', Said(x)) <=> Holds(ojq, Said(x)) BY <1>1, <1>6, HoldsAppended
<1>9. ToldLast(x)' <=> Closed(ojq', Outdated(x), Said(x)) BY <1>5 DEF ToldLast, Closed, After
<1>10. Holds(ojq, Said(x))' <=> Holds(ojq', Said(x)) BY <1>5 DEF Holds
<1>11. QED BY <1>2, <1>3, <1>4, <1>5, <1>7, <1>8, <1>9, <1>10 DEF Follows

LEMMA FollowsDisable ==
  ASSUME Sound, Disable, NEW x \in Told, Follows(x)
  PROVE  Follows(x)'
<1>1. Blank \in Sent /\ ojq' = <<Blank>> \o ojq /\ ojq \in Seq(Sent)
  BY SentTyped DEF Disable, Sound, TypeInv
<1>2. UNCHANGED <<sim, status, gPower, answers, taken, stale, power, knob, vals, sign, btns,
                  report, leds, lit>>
  BY DEF Disable, simVars, mainVars, toVars, keptVars
<1>3. Truth(x)' = Truth(x) /\ (Open(x)' <=> Open(x)) BY <1>2 DEF Truth, Open
<1>4. Kept(x) => Kept(x)' BY <1>2, <1>3, KeptStays
<1>5. Outdated(x)' = Outdated(x) /\ Said(x)' = Said(x) /\ (IsTrue(taken)' <=> IsTrue(taken))
  BY <1>2, <1>3, TruthStays DEF Said, IsTrue
<1>6. Blank \notin Said(x) /\ Blank \notin Outdated(x) BY SaidApart
<1>7. ToldLast(x) => Closed(ojq', Outdated(x), Said(x)) BY <1>1, <1>6, SpacedPreposted DEF ToldLast
<1>8. Holds(ojq', Said(x)) <=> Holds(ojq, Said(x)) BY <1>1, <1>6, Preposted
<1>9. ToldLast(x)' <=> Closed(ojq', Outdated(x), Said(x)) BY <1>5 DEF ToldLast, Closed, After
<1>10. Holds(ojq, Said(x))' <=> Holds(ojq', Said(x)) BY <1>5 DEF Holds
<1>11. QED BY <1>2, <1>3, <1>4, <1>5, <1>7, <1>8, <1>9, <1>10 DEF Follows

\* XPluginEnable and XPluginDisable throw away what they find.
LEMMA FollowsPurge ==
  ASSUME Sound, PurgeTake, NEW x \in Told, Follows(x)
  PROVE  Follows(x)'
<1> DEFINE h == Head(ojq)
<1>1. ojq # <<>> /\ ojq \in Seq(Sent) /\ ojq' = Tail(ojq) /\ stale' = stale \cup About(h)
  BY DEF PurgeTake, Sound, TypeInv
<1>2. h \in Sent BY <1>1, Taken
<1>3. UNCHANGED <<sim, status, gPower, answers, taken, power, knob, vals, sign, btns,
                  report, leds, lit>>
  BY DEF PurgeTake, simVars, mainVars, toVars, keptVars
<1>4. Truth(x)' = Truth(x) /\ (Open(x) => Open(x)') BY <1>1, <1>3 DEF Truth, Open
<1>5. Outdated(x)' = Outdated(x) /\ Said(x)' = Said(x) /\ (IsTrue(taken)' <=> IsTrue(taken))
  BY <1>3, <1>4, TruthStays DEF Said, IsTrue
<1>6. CASE h \in Said(x)
  <2>1. x \in stale' BY <1>1, <1>6 DEF Said
  <2>2. QED BY <2>1 DEF Follows, Open
<1>7. CASE h \notin Said(x)
  <2>1. Kept(x) => Kept(x)' BY <1>3, <1>4, KeptStays
  <2>2. ToldLast(x) => Closed(ojq', Outdated(x), Said(x)) BY <1>1, SpacedTaken DEF ToldLast
  <2>3. Holds(ojq', Said(x)) <=> Holds(ojq, Said(x)) BY <1>1, <1>7, HoldsTaken
  <2>4. ToldLast(x)' <=> Closed(ojq', Outdated(x), Said(x)) BY <1>5 DEF ToldLast, Closed, After
  <2>5. Holds(ojq, Said(x))' <=> Holds(ojq', Said(x)) BY <1>5 DEF Holds
  <2>6. QED BY <1>3, <1>4, <1>5, <2>1, <2>2, <2>3, <2>4, <2>5 DEF Follows
<1>8. QED BY <1>6, <1>7

\* ToPanelThread takes a message: the last about a thing is true of it.
LEMMA FollowsTake ==
  ASSUME Sound, ToTake, NEW x \in Told, Follows(x)
  PROVE  Follows(x)'
<1> DEFINE h == Head(ojq)
<1>1. ojq # <<>> /\ ojq \in Seq(Sent) /\ ojq' = Tail(ojq) /\ taken' = h /\ stale' = stale
  BY DEF ToTake, Sound, TypeInv
<1>2. h \in Sent /\ taken = NoMsg BY <1>1, Taken DEF Sound, TakenShown, ToTake
<1>3. UNCHANGED <<sim, status, gPower, answers, power, knob, vals, sign, btns,
                  report, leds, lit>>
  BY DEF ToTake, simVars, mainVars, keptVars
<1>4. Truth(x)' = Truth(x) /\ (Open(x) => Open(x)') BY <1>1, <1>3 DEF Truth, Open
<1>5. /\ Outdated(x)' = Outdated(x) /\ Said(x)' = Said(x)
      /\ h \in Said(x) => (IsTrue(taken)' <=> IsTrue(h))
  <2>1. Outdated(x)' = Outdated(x) /\ Said(x)' = Said(x) BY <1>4, TruthStays DEF Said
  <2>2. IsTrue(taken)' <=> IsTrue(h) BY <1>1, <1>3 DEF IsTrue
  <2>3. QED BY <2>1, <2>2
<1>6. SUFFICES ASSUME ~Open(x)' PROVE Follows(x)' BY DEF Follows
<1>7. /\ Closed(ojq, Outdated(x), Said(x))
      /\ Holds(ojq, Said(x)) \/ Kept(x)
  BY <1>2, <1>4, <1>6, SaidApart DEF Follows, ToldLast
<1>8. Closed(ojq', Outdated(x), Said(x)) BY <1>1, <1>7, SpacedTaken
<1>9. ToldLast(x)' BY <1>5, <1>8 DEF ToldLast, Closed, After
<1>10. CASE Holds(ojq', Said(x)) BY <1>5, <1>9, <1>10 DEF Follows, Holds
<1>11. CASE ~Holds(ojq', Said(x)) /\ h \in Said(x)
  <2>1. h \notin Outdated(x) BY <1>1, <1>7, <1>11, SpacedTaken
  <2>2. IsTrue(h) BY <1>11, <2>1 DEF Outdated
  <2>3. QED BY <1>1, <1>5, <1>9, <1>11, <2>2 DEF Follows
<1>12. CASE ~Holds(ojq', Said(x)) /\ h \notin Said(x)
  <2>1. ~Holds(ojq, Said(x)) BY <1>1, <1>12, HoldsTaken
  <2>2. Kept(x)' BY <1>3, <1>4, <1>7, <2>1, KeptStays
  <2>3. QED BY <1>1, <1>5, <1>9, <1>12, <2>2 DEF Follows
<1>13. QED BY <1>10, <1>11, <1>12

\* The buffer that is posted twice speaks of heading and course only.
LEMMA RewrittenSaid ==
  ASSUME NEW x \in Told, NEW m \in Sent, NEW item, Rewritten(m, item) \in Sent
  PROVE  (Rewritten(m, item) \in Said(x) <=> m \in Said(x)) /\ (m \in Said(x) => Rewritten(m, item) = m)
<1>1. CASE m[1] # "shared" BY <1>1 DEF Rewritten
<1>2. CASE m[1] = "shared"
  <2>1. m \notin Said(x) BY <1>2, SaidShape
  <2>2. CASE Rewritten(m, item)[1] = "shared" BY <2>1, <2>2, SaidShape
  <2>3. CASE Rewritten(m, item)[1] # "shared"
    <3>1. Rewritten(m, item)[1] = "val" /\ Rewritten(m, item)[2] = "crs"
      BY <1>2, <2>3 DEF Rewritten
    <3>2. Rewritten(m, item) \notin Said(x) BY <3>1, SaidShape, ToldShape
    <3>3. QED BY <2>1, <3>2
  <2>4. QED BY <2>2, <2>3
<1>3. QED BY <1>1, <1>2

LEMMA FollowsRewrite ==
  ASSUME Sound, MainRewrite, NEW x \in Told, Follows(x)
  PROVE  Follows(x)'
<1> DEFINE a == Head(answers)
<1>1. a \in Items /\ a[1] \in {"rename", "rewrite"} /\ answers \in Seq(Items) /\ answers # <<>>
      /\ answers' = Tail(answers) /\ a = answers[1]
  BY Taken DEF Sound, TypeInv, MainRewrite
<1>2. TypeInv BY DEF Sound
<1>3. Len(ojq) \in Nat /\ \A i \in 1..Len(ojq) : ojq[i] \in Sent BY <1>2 DEF TypeInv
<1>4. Len(ojq') = Len(ojq) /\ \A i \in 1..Len(ojq) : ojq'[i] = Rewritten(ojq[i], a)
  <2>1. ojq' = [i \in 1..Len(ojq) |-> Rewritten(ojq[i], a)] BY <1>2 DEF MainRewrite, TypeInv
  <2>2. QED BY <1>3, <2>1
<1>5. UNCHANGED <<sim, status, gPower, stale, power, knob, vals, sign, btns, report, leds, lit>>
  BY DEF MainRewrite, simVars, keptVars
<1>6. Truth(x)' = Truth(x) BY <1>5 DEF Truth
<1>7. Open(x) => Open(x)'
  <2>1. Asked(a) = {} BY <1>1 DEF Asked
  <2>2. \A i \in 1..Len(answers) : i = 1 \/ (i - 1 \in 1..Len(answers') /\ answers'[i - 1] = answers[i])
    <3>1. Len(answers') = Len(answers) - 1 /\ Len(answers) \in Nat
          /\ \A i \in 1..Len(answers') : answers'[i] = answers[i + 1]
      BY <1>1, Taken
    <3>2. QED BY <3>1
  <2>3. QED BY <1>1, <1>5, <2>1, <2>2 DEF Open
<1>8. Outdated(x)' = Outdated(x) /\ Said(x)' = Said(x) /\ \A m \in Said(x) : IsTrue(m)' <=> IsTrue(m)
  BY <1>6, TruthStays DEF Said
<1>9. \A i \in 1..Len(ojq) : /\ ojq'[i] \in Said(x) <=> ojq[i] \in Said(x)
                             /\ ojq'[i] \in Outdated(x) <=> ojq[i] \in Outdated(x)
  <2> SUFFICES ASSUME NEW i \in 1..Len(ojq)
               PROVE  /\ ojq'[i] \in Said(x) <=> ojq[i] \in Said(x)
                      /\ ojq'[i] \in Outdated(x) <=> ojq[i] \in Outdated(x)
    OBVIOUS
  <2>1. ojq[i] \in Sent /\ ojq'[i] = Rewritten(ojq[i], a) BY <1>3, <1>4
  <2>2. ojq'[i] \in Sent BY <1>1, <1>2, <2>1, RewrittenType
  <2>3. /\ ojq'[i] \in Said(x) <=> ojq[i] \in Said(x)
        /\ ojq[i] \in Said(x) => ojq'[i] = ojq[i]
    BY <2>1, <2>2, RewrittenSaid
  <2>4. QED BY <2>3, SaidApart
<1>10. (taken' \in Said(x) <=> taken \in Said(x)) /\ (taken \in Said(x) => taken' = taken)
  <2>1. taken' = Rewritten(taken, a) BY DEF MainRewrite
  <2>2. CASE taken = NoMsg BY <2>1, <2>2 DEF Rewritten
  <2>3. CASE taken # NoMsg
    <3>1. taken \in Sent BY <1>2, <2>3 DEF TypeInv
    <3>2. taken' \in Sent BY <1>1, <1>2, <2>1, <3>1, RewrittenType
    <3>3. QED BY <2>1, <3>1, <3>2, RewrittenSaid
  <2>4. QED BY <2>2, <2>3
<1>11. ToldLast(x) => ToldLast(x)'
  <2>1. Closed(ojq, Outdated(x), Said(x)) => Closed(ojq', Outdated(x), Said(x))
    BY <1>3, <1>4, <1>9 DEF Closed, After
  <2>2. QED BY <1>8, <2>1 DEF ToldLast, Closed, After
<1>12. Holds(ojq, Said(x)) => Holds(ojq, Said(x))' BY <1>4, <1>8, <1>9 DEF Holds
<1>13. taken \in Said(x) /\ IsTrue(taken) => taken' \in Said(x) /\ IsTrue(taken)'
  <2> SUFFICES ASSUME taken \in Said(x), IsTrue(taken) PROVE taken' \in Said(x) /\ IsTrue(taken)'
    OBVIOUS
  <2>1. taken' = taken BY <1>10
  <2>2. QED BY <1>5, <2>1 DEF IsTrue
<1>14. Kept(x) => Kept(x)' BY <1>5, <1>6, KeptStays
<1>15. QED BY <1>7, <1>8, <1>10, <1>11, <1>12, <1>13, <1>14 DEF Follows
----------------------------------------------------------------------------
(* What the main thread posts is the truth.                                *)
LEMMA Halves == \A z \in Nat : z \div 2 \in Nat /\ 2 * (z \div 2) <= z /\ z <= 2 * (z \div 2) + 1
BY Z3

LEMMA RoundedDown == \A z \in Nat : Fours(z) \in Nat /\ Fours(z) <= z /\ z < Fours(z) + 4
<1> SUFFICES ASSUME NEW z \in Nat PROVE Fours(z) \in Nat /\ Fours(z) <= z /\ z < Fours(z) + 4
  OBVIOUS
<1>1. z % 4 \in 0..3 /\ z % 4 <= z BY Z3
<1>2. QED BY <1>1 DEF Fours

LEMMA RoundedUp == \A z \in Nat : Hundreds(z) \in Nat /\ z <= Hundreds(z) /\ Hundreds(z) < z + 100
<1> SUFFICES ASSUME NEW z \in Nat
             PROVE  Hundreds(z) \in Nat /\ z <= Hundreds(z) /\ Hundreds(z) < z + 100
  OBVIOUS
<1>1. z % 100 \in 0..99 BY Z3
<1>2. QED BY <1>1 DEF Hundreds

LEMMA ValueNear ==
  ASSUME NEW how \in {"up", "dn", "init"}, NEW d \in {"alt", "vs", "ias"}, NEW f \in Int,
         d # "vs" => f \in Nat
  PROVE  Near(Value(how, d, f), f)
<1>1. Size(f) \in Nat /\ (f \in Nat => Size(f) = f) BY DEF Size
<1>2. Floor(f) \in Nat /\ 2 * Floor(f) <= Size(f) /\ Size(f) <= 2 * Floor(f) + 1
  BY <1>1, Halves DEF Floor
<1>3. f \in Nat => Ceil(f) \in Nat /\ f <= 2 * Ceil(f) /\ 2 * Ceil(f) <= f + 1
  <2>1. f \in Nat => f + 1 \in Nat OBVIOUS
  <2>2. f \in Nat => /\ (f + 1) \div 2 \in Nat /\ 2 * ((f + 1) \div 2) <= f + 1
                     /\ f + 1 <= 2 * ((f + 1) \div 2) + 1
    BY <2>1, Halves
  <2>3. QED BY <2>2 DEF Ceil
<1>4. Fours(Floor(f)) \in Nat /\ Fours(Floor(f)) <= Floor(f) /\ Floor(f) < Fours(Floor(f)) + 4
  BY <1>2, RoundedDown
<1>5. Hundreds(Floor(f)) \in Nat /\ Floor(f) <= Hundreds(Floor(f)) /\ Hundreds(Floor(f)) < Floor(f) + 100
  BY <1>2, RoundedUp
<1>6. f \in Nat => Hundreds(Ceil(f)) \in Nat /\ Ceil(f) <= Hundreds(Ceil(f))
                   /\ Hundreds(Ceil(f)) < Ceil(f) + 100
  BY <1>3, RoundedUp
<1>7. CASE how = "up" /\ d \in {"alt", "vs"}
  <2>1. Value(how, d, f) = Fours(Floor(f)) BY <1>7 DEF Value
  <2>2. QED BY <2>1, <1>1, <1>2, <1>4 DEF Near
<1>8. CASE how = "dn" /\ d = "alt"
  <2>1. Value(how, d, f) = Hundreds(Ceil(f)) BY <1>8 DEF Value
  <2>2. f \in Nat BY <1>8
  <2>3. QED BY <2>1, <2>2, <1>1, <1>3, <1>6 DEF Near
<1>9. CASE how = "dn" /\ d = "vs"
  <2>1. Value(how, d, f) = Hundreds(Floor(f)) BY <1>9 DEF Value
  <2>2. QED BY <2>1, <1>1, <1>2, <1>5 DEF Near
<1>10. CASE how = "init" \/ d = "ias"
  <2>1. Value(how, d, f) = Floor(f) BY <1>10 DEF Value
  <2>2. QED BY <2>1, <1>1, <1>2 DEF Near
<1>11. QED BY <1>7, <1>8, <1>9, <1>10

LEMMA PostedTrue ==
  ASSUME Sound, MainPost, NEW x \in Told, NEW m \in Said(x), m = Message(Head(answers))
  PROVE  m \notin Outdated(x)'
<1> DEFINE a == Head(answers)
<1>1. a \in Items /\ a[1] \notin {"rename", "rewrite"} /\ a = answers[1] /\ 1 \in 1..Len(answers)
  BY Taken DEF Sound, TypeInv, MainPost
<1>2. TypeInv /\ sim' = sim /\ status' = status BY DEF Sound, MainPost, simVars
<1>3. m \in Sent BY DEF Said
<1>4. SUFFICES IsTrue(m)' BY DEF Outdated
<1>5. CASE x \in Powers
  <2>1. m[1] = "power" /\ m[2] = x[2] /\ m[2] \in Sw BY <1>3, <1>5, SaidShape, MsgShape, SentTyped
  <2>2. gPower' = [gPower EXCEPT ![m[2]] = m[3]] BY <2>1 DEF MainPost
  <2>3. gPower \in [Sw -> BOOLEAN] BY <1>2 DEF TypeInv, TypeOK, Sw
  <2>4. gPower'[m[2]] = m[3] BY <2>1, <2>2, <2>3
  <2>5. QED BY <2>1, <2>4 DEF IsTrue
<1>6. CASE x \in Lamps
  <2>1. m[1] = "btn" /\ m[2] = x[2] BY <1>3, <1>6, SaidShape
  <2>2. m[3] = status[m[2]]
    <3>1. CASE a[1] = "btn" BY <1>1, <3>1, ItemShape DEF Message
    <3>2. CASE a[1] = "otto"
      <4>1. m[2] = "ap" /\ m[3] = CASE a[2] = "on" -> 2 [] a[2] = "armed" -> 1 [] a[2] = "off" -> 0
        BY <3>2 DEF Message
      <4>2. status["ap"] = CASE a[2] = "on" -> 2 [] a[2] = "armed" -> 1 [] a[2] = "off" -> 0
        BY <1>1, <3>2 DEF Sound, OttoTrue
      <4>3. QED BY <4>1, <4>2
    <3>3. CASE a[1] \in {"up", "dn", "init"} BY <2>1, <3>3 DEF Message, ValueMsg
    <3>4. CASE a[1] = "shared" BY <2>1, <3>4 DEF Message
    <3>5. CASE a[1] = "freed" BY <2>1, <3>5 DEF Message
    <3>6. CASE a[1] \in {"power", "updateLeds", "crash"} BY <2>1, <3>6 DEF Message
    <3>7. QED BY <1>1, <3>1, <3>2, <3>3, <3>4, <3>5, <3>6, ItemShape
  <2>3. QED BY <1>2, <2>1, <2>2 DEF IsTrue
<1>7. CASE x \in Readouts
  <2>1. m[1] = "val" /\ m[2] = x[2] /\ x[2] \in Dials /\ x[2] \in {"alt", "vs", "ias"}
    BY <1>3, <1>7, SaidShape, ToldShape DEF Powers, Lamps, Readouts
  <2>2. a[1] \in {"up", "dn", "init"} /\ a[2] = x[2]
    <3>1. CASE a[1] = "btn" BY <2>1, <3>1 DEF Message
    <3>2. CASE a[1] = "otto" BY <2>1, <3>2 DEF Message
    <3>3. CASE a[1] \in {"up", "dn", "init"} BY <2>1, <3>3 DEF Message, ValueMsg
    <3>4. CASE a[1] = "shared" BY <2>1, <3>4 DEF Message
    <3>5. CASE a[1] = "freed" BY <2>1, <3>5 DEF Message
    <3>6. CASE a[1] \in {"power", "updateLeds", "crash"} BY <2>1, <3>6 DEF Message
    <3>7. QED BY <1>1, <3>1, <3>2, <3>3, <3>4, <3>5, <3>6, ItemShape
  <2>3. m[3] = Value(a[1], x[2], sim[x[2]]) /\ m[4] = Sign(sim[x[2]])
    BY <2>2 DEF Message, ValueMsg
  <2>4. Near(m[3], sim[x[2]]) BY <1>2, <2>1, <2>2, <2>3, SimType, ValueNear
  <2>5. QED BY <1>2, <2>1, <2>3, <2>4 DEF IsTrue
<1>8. QED BY <1>5, <1>6, <1>7 DEF Told

\* An item that asks for a thing is about it.
LEMMA AskedSaid ==
  ASSUME Sound, MainPost, NEW x \in Told, x \in Asked(Head(answers))
  PROVE  Message(Head(answers)) \in Said(x)
<1> DEFINE a == Head(answers)
<1>1. a \in Items /\ a[1] \notin {"rename", "rewrite"} BY Taken DEF Sound, TypeInv, MainPost
<1>2. Message(a) \in Sent BY <1>1, SentType DEF Sound
<1>3. CASE a[1] \in {"up", "dn", "init"}
  <2>1. x = <<"dial", a[2]>> BY <1>3 DEF Asked
  <2>2. Message(a)[1] = "val" /\ Message(a)[2] = a[2] BY <1>3 DEF Message, ValueMsg
  <2>3. About(Message(a)) = {<<"dial", a[2]>>} BY <2>2 DEF About
  <2>4. QED BY <1>2, <2>1, <2>3 DEF Said
<1>4. CASE a[1] = "btn"
  <2>1. x = a /\ a = <<"btn", a[2]>> BY <1>1, <1>4, ItemShape DEF Asked
  <2>2. Message(a)[1] = "btn" /\ Message(a)[2] = a[2] BY <1>4 DEF Message
  <2>3. About(Message(a)) = {<<"btn", a[2]>>} BY <2>2 DEF About
  <2>4. QED BY <1>2, <2>1, <2>3 DEF Said
<1>5. CASE a[1] = "otto"
  <2>1. x = <<"btn", "ap">> BY <1>5 DEF Asked
  <2>2. Message(a)[1] = "btn" /\ Message(a)[2] = "ap" BY <1>5 DEF Message
  <2>3. About(Message(a)) = {<<"btn", "ap">>} BY <2>2 DEF About
  <2>4. QED BY <1>2, <2>1, <2>3 DEF Said
<1>6. CASE a[1] = "power"
  <2>1. x = <<"power", a[2]>> BY <1>6 DEF Asked
  <2>2. About(Message(a)) = {<<"power", a[2]>>} BY <1>6 DEF Message, About
  <2>3. QED BY <1>2, <2>1, <2>2 DEF Said
<1>7. CASE a[1] \notin {"up", "dn", "init", "btn", "power", "otto"} BY <1>7 DEF Asked
<1>8. QED BY <1>3, <1>4, <1>5, <1>6, <1>7

LEMMA FollowsPost ==
  ASSUME Sound, MainPost, NEW x \in Told, Follows(x)
  PROVE  Follows(x)'
<1> DEFINE a == Head(answers)  m == Message(a)
<1>1. answers \in Seq(Items) /\ answers # <<>> /\ answers' = Tail(answers) /\ a = answers[1]
      /\ a \in Items /\ a[1] \notin {"rename", "rewrite"}
  BY Taken DEF Sound, TypeInv, MainPost
<1>2. m \in Sent BY <1>1, SentType DEF Sound
<1>3. ojq' = Append(ojq, m) /\ ojq \in Seq(Sent) /\ stale' = stale \ About(m)
  BY DEF MainPost, Post, Sound, TypeInv
<1>4. UNCHANGED <<sim, status, taken, power, knob, vals, sign, btns, report, leds, lit>>
  BY DEF MainPost, simVars, toVars, keptVars
<1>5. Said(x)' = Said(x) BY DEF Said
<1> HIDE DEF a, m
<1>6. CASE m \in Said(x)
  <2>1. m \notin Outdated(x)' BY <1>6, PostedTrue DEF a, m
  <2> DEFINE T == Outdated(x)'
  <2>2. m \notin T BY <2>1
  <2> HIDE DEF T
  <2>3. Closed(ojq', T, Said(x)) BY <1>2, <1>3, <1>6, <2>2, SpacedAppended
  <2>4. Holds(ojq', Said(x)) BY <1>2, <1>3, <1>6, HoldsAppended
  <2>5. ToldLast(x)' BY <1>5, <2>3 DEF ToldLast, Closed, After, T
  <2>6. QED BY <1>5, <2>4, <2>5 DEF Follows, Holds
<1>7. CASE m \notin Said(x)
  <2>1. x \notin About(m) BY <1>2, <1>7 DEF Said
  <2>2. Truth(x)' = Truth(x)
    <3>1. CASE x \in Powers
      <4>1. ~(m[1] = "power" /\ m[2] = x[2]) /\ x[1] = "power" /\ x[2] \in Sw
        BY <1>2, <1>7, <3>1, SaidShape DEF Powers, Sw
      <4>2. gPower \in [Sw -> BOOLEAN] BY DEF Sound, TypeInv, TypeOK, Sw
      <4>3. gPower' = IF m[1] = "power" THEN [gPower EXCEPT ![m[2]] = m[3]] ELSE gPower
        BY DEF MainPost, m, a
      <4>4. gPower'[x[2]] = gPower[x[2]] BY <4>1, <4>2, <4>3
      <4>5. QED BY <4>1, <4>4 DEF Truth
    <3>2. CASE x \notin Powers
      <4>1. x[1] # "power" BY <3>2, ToldShape
      <4>2. QED BY <1>4, <4>1 DEF Truth
    <3>3. QED BY <3>1, <3>2
  <2>3. Open(x) => Open(x)'
    <3>1. x \notin Asked(a) BY <1>7, AskedSaid DEF a, m
    <3>2. \A i \in 1..Len(answers) : i = 1 \/ (i - 1 \in 1..Len(answers') /\ answers'[i - 1] = answers[i])
      <4>1. Len(answers') = Len(answers) - 1 /\ Len(answers) \in Nat
            /\ \A i \in 1..Len(answers') : answers'[i] = answers[i + 1]
        BY <1>1, Taken
      <4>2. QED BY <4>1
    <3>3. QED BY <1>1, <1>3, <2>1, <3>1, <3>2 DEF Open
  <2>4. Outdated(x)' = Outdated(x) /\ (taken \in Said(x) => (IsTrue(taken)' <=> IsTrue(taken)))
    <3>1. Outdated(x)' = Outdated(x) /\ \A w \in Said(x) : IsTrue(w)' <=> IsTrue(w)
      BY <2>2, TruthStays
    <3>2. QED BY <1>4, <3>1 DEF IsTrue
  <2>5. Kept(x) => Kept(x)' BY <1>4, <2>2, KeptStays
  <2>6. m \notin Outdated(x) BY <1>7, SaidApart
  <2>7. ToldLast(x) => Closed(ojq', Outdated(x), Said(x)) BY <1>2, <1>3, <2>6, SpacedAppended DEF ToldLast
  <2>8. Holds(ojq', Said(x)) <=> Holds(ojq, Said(x)) BY <1>2, <1>3, <1>7, HoldsAppended
  <2>9. ToldLast(x)' <=> Closed(ojq', Outdated(x), Said(x)) BY <1>5, <2>4 DEF ToldLast, Closed, After
  <2>10. Holds(ojq, Said(x))' <=> Holds(ojq', Said(x)) BY <1>5 DEF Holds
  <2>11. QED BY <1>4, <1>5, <2>3, <2>4, <2>5, <2>7, <2>8, <2>9, <2>10 DEF Follows
<1>8. QED BY <1>6, <1>7
----------------------------------------------------------------------------
(* What the panel keeps after it has shown a message.  Of a thing that no  *)
(* message in the queue is about, the one taken tells the truth, or is     *)
(* about another.                                                          *)
LEMMA ComingSaid ==
  ASSUME TypeInv, NEW x
  PROVE  Coming(x) <=> Holds(ojq, Said(x))
<1>1. DOMAIN ojq = 1..Len(ojq) /\ \A i \in 1..Len(ojq) : ojq[i] \in Sent BY DEF TypeInv
<1>2. QED BY <1>1 DEF Coming, Holds, Said

LEMMA PowersShown ==
  ASSUME Sound, NEW m \in Sent, Show(m), NEW p \in Sw, gPower' = gPower,
         m[1] = "power" /\ m[2] = p => m[3] = gPower[p],
         ~(m[1] = "power" /\ m[2] = p) => PowerKept(p)
  PROVE  PowerKept(p)'
<1>0. m \in Msg /\ power \in [Sw -> BOOLEAN] BY SentTyped DEF Sound, TypeInv, TypeOK, Sw
<1>1. CASE m[1] = "power"
  <2>1. ShowPower(m) /\ m[2] \in Sw BY <1>0, <1>1, ShowCases, MsgShape DEF Update
  <2>2. power' = [power EXCEPT ![m[2]] = m[3]] BY <2>1 DEF ShowPower
  <2>3. CASE m[2] = p BY <1>0, <1>1, <2>1, <2>2, <2>3 DEF PowerKept
  <2>4. CASE m[2] # p BY <1>0, <1>1, <2>1, <2>2, <2>4 DEF PowerKept
  <2>5. QED BY <2>3, <2>4
<1>2. CASE m[1] # "power"
  <2>1. power' = power
    BY <1>0, <1>2, ShowCases
    DEF ShowBlank, ShowDark, ShowKnob, ShowVal, Ignore, ShowAp, ShowBtn, ShowUpdate, keptVars
  <2>2. QED BY <1>2, <2>1 DEF PowerKept
<1>3. QED BY <1>1, <1>2

LEMMA LampsShown ==
  ASSUME Sound, NEW m \in Sent, Show(m), NEW b \in Lights, b \in {"ap", "nav", "ias"},
         status' = status, ~Coming(<<"btn", b>>), <<"btn", b>> \notin stale',
         m[1] = "btn" /\ m[2] = b => m[3] = status[b],
         ~(m[1] = "btn" /\ m[2] = b) => LampKept(b)
  PROVE  LampKept(b)'
<1> USE DEF LampKept
<1>0. /\ m \in Msg /\ b \in Bits /\ btns \in [Bits -> BOOLEAN]
      /\ report \in PanelReport /\ leds \in PanelReport /\ report.bits \in [Bits -> BOOLEAN]
  BY SentTyped DEF Sound, TypeInv, TypeOK, Bits, PanelReport
<1>1. CASE m[1] = "power" /\ ShowPower(m) BY <1>1 DEF ShowPower
<1>2. CASE m[1] \in {"blank", "crash"} /\ ShowBlank(m) BY <1>2 DEF ShowBlank, SendBlank
<1>3. CASE ShowDark(m)
  <2>1. stale' = stale \cup Lost(About(m) \cup {"dial"} \X Dials) BY <1>3 DEF ShowDark
  <2>2. <<"btn", b>> \notin About(m) BY <2>1 DEF Lost
  <2>3. ~(m[1] = "btn" /\ m[2] = b) BY <2>2, AboutType
  <2>4. QED BY <1>3, <2>3 DEF ShowDark, SendBlank
<1>4. ASSUME NEW k, NEW v, NEW s, Redraw(k, v, s)
      PROVE  report'.bits = report.bits
  BY <1>0, <1>4 DEF Redraw, PanelReport
<1>5. CASE m[1] = "knob" /\ ShowKnob(m[2]) BY <1>4, <1>5 DEF ShowKnob, Send
<1>6. ASSUME NEW d, NEW y, NEW s, ShowVal(d, y, s), m[1] # "btn" PROVE LampKept(b)'
  <2>1. CASE knob = d BY <1>4, <1>6, <2>1 DEF ShowVal, Send
  <2>2. CASE knob # d BY <1>6, <2>2 DEF ShowVal
  <2>3. QED BY <2>1, <2>2
<1>7. CASE Ignore /\ m[1] = "freed" BY <1>7 DEF Ignore, keptVars
<1>8. CASE m = <<"btn", "ap", m[3]>> /\ ShowAp(m[3])
  <2>1. btns' = [btns EXCEPT !["ap"] = (m[3] # 0)] /\ leds' = report' /\ "ap" \in Bits
    BY <1>8 DEF ShowAp, Send, Bits
  <2>2. CASE b = "ap"
    <3>1. m[3] = status[b] BY <1>8, <2>2
    <3>2. report'.bits[b] <=> m[3] # 0
      <4>1. CASE m[3] = 0
        <5>1. report' = Zeros BY <1>8, <4>1 DEF ShowAp
        <5>2. QED BY <1>0, <4>1, <5>1 DEF Zeros
      <4>2. CASE m[3] # 0
        <5>1. report' = [report EXCEPT !.bits["ap"] = TRUE] BY <1>8, <4>2 DEF ShowAp
        <5>2. report'.bits["ap"] = TRUE BY <1>0, <2>1, <5>1 DEF PanelReport
        <5>3. QED BY <2>2, <4>2, <5>2
      <4>3. QED BY <4>1, <4>2
    <3>3. btns'[b] <=> m[3] # 0 BY <1>0, <2>1, <2>2
    <3>4. QED BY <2>1, <3>1, <3>2, <3>3
  <2>3. CASE b # "ap"
    <3>1. m[3] # 0
      <4>1. SUFFICES ASSUME m[3] = 0 PROVE FALSE OBVIOUS
      <4>2. stale' = stale \cup Lost({"btn"} \X Buttons) BY <1>8, <4>1 DEF ShowAp
      <4>3. QED BY <2>3, <4>2 DEF Lost, Lights
    <3>2. report' = [report EXCEPT !.bits["ap"] = TRUE] BY <1>8, <3>1 DEF ShowAp
    <3>3. report'.bits[b] = report.bits[b] BY <1>0, <2>1, <2>3, <3>2 DEF PanelReport
    <3>4. btns'[b] = btns[b] BY <1>0, <2>1, <2>3
    <3>5. LampKept(b) BY <1>8, <2>3
    <3>6. QED BY <2>1, <3>3, <3>4, <3>5
  <2>4. QED BY <2>2, <2>3
<1>9. CASE m[1] = "btn" /\ m[2] # "ap" /\ ShowBtn(m[2], m[3])
  <2>0. m[2] \in Lights /\ m[2] \in Bits /\ m[3] \in 0..2
    BY <1>0, <1>9, MsgShape, DisplayAssumption DEF Lights, Bits
  <2>1. CASE btns["ap"]
    <3>1. /\ btns' = [btns EXCEPT ![m[2]] = (m[3] # 0)] /\ leds' = report'
          /\ report' = [report EXCEPT !.bits[BitOf(m[2], m[3])] = BitAfter(m[2], m[3])]
      BY <1>9, <2>1 DEF ShowBtn, Send
    <3>2. CASE m[2] = b
      <4>1. BitOf(m[2], m[3]) = b BY <3>2 DEF BitOf
      <4>2. BitAfter(m[2], m[3]) <=> m[3] # 0
        <5>1. CASE m[3] = 0 BY <5>1 DEF BitAfter
        <5>2. CASE m[3] # 0 BY <1>9, <3>2, <5>2 DEF BitAfter
        <5>3. QED BY <5>1, <5>2
      <4>3. report'.bits[b] = BitAfter(m[2], m[3]) BY <1>0, <3>1, <4>1 DEF PanelReport
      <4>4. btns'[b] <=> m[3] # 0 BY <1>0, <3>1, <3>2
      <4>5. m[3] = status[b] BY <1>9, <3>2
      <4>6. QED BY <3>1, <4>2, <4>3, <4>4, <4>5
    <3>3. CASE m[2] # b
      <4>1. BitOf(m[2], m[3]) # b /\ BitOf(m[2], m[3]) \in Bits BY <2>0, <3>3 DEF BitOf, Bits
      <4>2. report'.bits[b] = report.bits[b] BY <1>0, <3>1, <4>1 DEF PanelReport
      <4>3. btns'[b] = btns[b] BY <1>0, <3>1, <3>3
      <4>4. LampKept(b) BY <3>3
      <4>5. QED BY <3>1, <4>2, <4>3, <4>4
    <3>4. QED BY <3>2, <3>3
  <2>2. CASE ~btns["ap"]
    <3>1. stale' = stale \cup Lost({<<"btn", m[2]>>}) /\ UNCHANGED <<keptVars, leds, lit>>
      BY <1>9, <2>2 DEF ShowBtn
    <3>2. m[2] # b BY <3>1 DEF Lost
    <3>3. QED BY <3>1, <3>2 DEF keptVars
  <2>3. QED BY <2>1, <2>2
<1>10. CASE m = Update /\ ShowUpdate
  <2>1. report'.bits[b] = btns[b] BY <1>0, <1>10 DEF ShowUpdate
  <2>2. m[1] # "btn" BY <1>10 DEF Update
  <2>3. QED BY <1>10, <2>1, <2>2 DEF ShowUpdate
<1>11. QED
  BY <1>0, <1>1, <1>2, <1>3, <1>5, <1>6, <1>7, <1>8, <1>9, <1>10, ShowCases

\* A value near X-Plane's is drawn with all of its digits.
LEMMA DrawnDigits ==
  ASSUME Fits, NEW d \in Dials, d \in {"alt", "vs", "ias"}, NEW v \in [Dials -> Nat], NEW s,
         sim[d] \in Int, sim[d] \in SimVals[d], d # "vs" => sim[d] \in Nat,
         Near(v[d], sim[d]), d = "vs" => s = Sign(sim[d])
  PROVE  Drawn(Digits(d, v, s), d)
<1>1. v[d] \in Nat /\ Size(sim[d]) \in Nat BY DEF Size
<1>2. 2 * v[d] < Size(sim[d]) + 200 BY <1>1 DEF Near
<1>3. CASE d = "alt"
  <2>1. Size(sim[d]) <= 199800 BY <1>3 DEF Fits, Size
  <2>2. v[d] < 100000 BY <1>1, <1>2, <2>1
  <2>3. v[d] % 100000 = v[d] BY <1>1, <2>2, Z3
  <2>4. Digits(d, v, s).top = v[d] % 100000 BY <1>3 DEF Digits, Val
  <2>5. QED BY <1>3, <2>3, <2>4 DEF Drawn
<1>4. CASE d = "vs"
  <2>1. Size(sim[d]) <= 19800 BY <1>4 DEF Fits
  <2>2. v[d] < 10000 BY <1>1, <1>2, <2>1
  <2>3. v[d] % 10000 = v[d] BY <1>1, <2>2, Z3
  <2>4. Digits(d, v, s).bottom = v[d] % 10000 /\ Digits(d, v, s).sign = s BY <1>4 DEF Digits, Val
  <2>5. QED BY <1>4, <2>3, <2>4 DEF Drawn
<1>5. CASE d = "ias"
  <2>1. Size(sim[d]) <= 19800 BY <1>5 DEF Fits
  <2>2. v[d] < 10000 BY <1>1, <1>2, <2>1
  <2>3. v[d] % 10000 = v[d] BY <1>1, <2>2, Z3
  <2>4. Digits(d, v, s).top = v[d] % 10000 BY <1>5 DEF Digits
  <2>5. QED BY <1>5, <2>3, <2>4 DEF Drawn
<1>6. QED BY <1>3, <1>4, <1>5

LEMMA ReadoutsShown ==
  ASSUME Sound, Fits, NEW m \in Sent, Show(m), NEW d \in Dials, d \in {"alt", "vs", "ias"},
         sim' = sim, ~Coming(<<"dial", d>>), <<"dial", d>> \notin stale',
         m[1] = "val" /\ m[2] = d => Near(m[3], sim[d]) /\ m[4] = Sign(sim[d]),
         ~(m[1] = "val" /\ m[2] = d) => ReadoutKept(d)
  PROVE  ReadoutKept(d)'
<1>0. /\ m \in Msg /\ vals \in [Dials -> Nat] /\ sim[d] \in Int /\ sim[d] \in SimVals[d]
      /\ d # "vs" => sim[d] \in Nat
      /\ report \in PanelReport /\ leds \in PanelReport
  BY SentTyped, SimType DEF Sound, TypeInv, TypeOK
<1>1. CASE m[1] = "power" /\ ShowPower(m)
  BY <1>1 DEF ShowPower, ReadoutKept, Drawn
<1>2. CASE m[1] \in {"blank", "crash"} /\ ShowBlank(m)
  BY <1>2 DEF ShowBlank, SendBlank, ReadoutKept, Drawn
<1>3. ~ShowDark(m)
  <2>1. SUFFICES ASSUME ShowDark(m) PROVE FALSE OBVIOUS
  <2>2. stale' = stale \cup Lost(About(m) \cup {"dial"} \X Dials) BY <2>1 DEF ShowDark
  <2>3. QED BY <2>2 DEF Lost
<1>4. ASSUME NEW k, NEW v, NEW s, Redraw(k, v, s)
      PROVE  report'.digits = Digits(k, v, s)
  BY <1>0, <1>4 DEF Redraw, PanelReport
<1>5. CASE m[1] = "knob" /\ ShowKnob(m[2])
  <2>1. /\ knob' = m[2] /\ report'.digits = Digits(m[2], vals, sign) /\ leds' = report'
        /\ vals' = vals /\ sign' = sign
    BY <1>4, <1>5 DEF ShowKnob, Send
  <2>2. Near(vals[d], sim[d]) /\ (d = "vs" => sign = Sign(sim[d])) BY <1>5 DEF ReadoutKept
  <2>3. m[2] = d => Drawn(report'.digits, d) BY <1>0, <2>1, <2>2, DrawnDigits
  <2>4. \A g : Drawn(g, d)' <=> Drawn(g, d) BY DEF Drawn
  <2>5. QED BY <2>1, <2>2, <2>3 DEF ReadoutKept, Drawn
<1>6. ASSUME NEW e, NEW y, NEW s, ShowVal(e, y, s), y \in Nat,
             e = d => Near(y, sim[d]) /\ s = Sign(sim[d]), e # d => ReadoutKept(d)
      PROVE  ReadoutKept(d)'
  <2>1. vals' = [vals EXCEPT ![e] = y] /\ sign' = IF e = "vs" THEN s ELSE sign
    BY <1>6 DEF ShowVal
  <2>2. knob' = knob BY <1>6 DEF ShowVal
  <2>3. Near(vals'[d], sim[d]) /\ (d = "vs" => sign' = Sign(sim[d]))
    <3>1. CASE e = d BY <1>0, <1>6, <2>1, <3>1
    <3>2. CASE e # d BY <1>0, <1>6, <2>1, <3>2 DEF ReadoutKept
    <3>3. QED BY <3>1, <3>2
  <2>4. CASE knob = d /\ e = d
    <3>1. report'.digits = Digits(d, vals', sign') /\ leds' = report'
      BY <1>4, <1>6, <2>4 DEF ShowVal, Send
    <3>2. vals' \in [Dials -> Nat] BY <1>0, <1>6, <2>1
    <3>3. Drawn(report'.digits, d) BY <1>0, <2>3, <3>1, <3>2, DrawnDigits
    <3>4. QED BY <2>3, <3>1, <3>3 DEF ReadoutKept, Drawn
  <2>5. CASE knob = d /\ e # d
    <3>1. UNCHANGED <<report, leds, lit>> BY <1>6, <2>5 DEF ShowVal
    <3>2. QED BY <1>6, <2>3, <2>5, <3>1 DEF ReadoutKept, Drawn
  <2>6. CASE knob # d BY <2>2, <2>3, <2>6 DEF ReadoutKept
  <2>7. QED BY <2>4, <2>5, <2>6
<1>7. CASE m[1] = "val" /\ ShowVal(m[2], m[3], m[4])
  BY <1>0, <1>6, <1>7, MsgShape
<1>8. CASE m[1] = "shared" /\ ShowVal(m[2], m[3], "plus")
  <2>1. m[2] # d /\ m[3] \in Nat BY <1>0, <1>8, MsgShape
  <2>2. QED BY <1>6, <1>8, <2>1
<1>9. CASE m[1] = "freed" /\ ShowVal("crs", m[2], "plus")
  <2>1. m[2] \in Nat BY <1>0, <1>9, MsgShape
  <2>2. QED BY <1>6, <1>9, <2>1
<1>10. CASE Ignore /\ m[1] = "freed" BY <1>10 DEF Ignore, keptVars, ReadoutKept, Drawn
<1>11. CASE m = <<"btn", "ap", m[3]>> /\ ShowAp(m[3])
  <2>1. report'.digits = report.digits \/ report'.digits = Zeros.digits
    <3>1. CASE m[3] = 0 BY <1>11, <3>1 DEF ShowAp
    <3>2. CASE m[3] # 0
      <4>1. report' = [report EXCEPT !.bits["ap"] = TRUE] BY <1>11, <3>2 DEF ShowAp
      <4>2. QED BY <1>0, <4>1 DEF PanelReport
    <3>3. QED BY <3>1, <3>2
  <2>2. leds' = report' /\ UNCHANGED <<vals, knob, sign>> BY <1>11 DEF ShowAp, Send
  <2>3. m[1] # "val" BY <1>11
  <2>4. QED BY <2>1, <2>2, <2>3 DEF ReadoutKept, Drawn
<1>12. CASE m[1] = "btn" /\ m[2] # "ap" /\ ShowBtn(m[2], m[3])
  <2>1. CASE btns["ap"]
    <3>1. /\ report' = [report EXCEPT !.bits[BitOf(m[2], m[3])] = BitAfter(m[2], m[3])]
          /\ leds' = report' /\ UNCHANGED <<vals, knob, sign>>
      BY <1>12, <2>1 DEF ShowBtn, Send
    <3>2. report'.digits = report.digits BY <1>0, <3>1 DEF PanelReport
    <3>3. QED BY <1>12, <3>1, <3>2 DEF ReadoutKept, Drawn
  <2>2. CASE ~btns["ap"]
    BY <1>12, <2>2 DEF ShowBtn, keptVars, ReadoutKept, Drawn
  <2>3. QED BY <2>1, <2>2
<1>13. CASE m = Update /\ ShowUpdate
  <2>1. /\ report'.digits = IF knob = "none" THEN report.digits ELSE Digits(knob, vals, sign)
        /\ UNCHANGED <<vals, knob, sign, leds, lit>>
    BY <1>13 DEF ShowUpdate
  <2>2. ReadoutKept(d) BY <1>13 DEF Update
  <2>3. knob = d => Drawn(report'.digits, d)
    <3>1. Near(vals[d], sim[d]) /\ (d = "vs" => sign = Sign(sim[d])) BY <2>2 DEF ReadoutKept
    <3>2. knob = d => knob # "none" BY DisplayAssumption
    <3>3. QED BY <1>0, <2>1, <3>1, <3>2, DrawnDigits
  <2>4. QED BY <2>1, <2>2, <2>3 DEF ReadoutKept, Drawn
<1>14. QED
  BY <1>0, <1>1, <1>2, <1>3, <1>5, <1>7, <1>8, <1>9, <1>10, <1>11, <1>12, <1>13, ShowCases

LEMMA FollowsShow ==
  ASSUME Sound, ToShow, NEW x \in Told, x \in Readouts => Fits, Follows(x)
  PROVE  Follows(x)'
<1>1. Show(taken) /\ taken \in Sent BY DEF ToShow, Sound, TakenShown, TypeInv
<1>2. taken' = NoMsg /\ UNCHANGED <<sim, status, gPower, answers, ojq>>
  BY DEF ToShow, simVars, mainVars
<1>3. Truth(x)' = Truth(x) BY <1>2 DEF Truth
<1>4. Outdated(x)' = Outdated(x) /\ Said(x)' = Said(x) /\ taken' \notin Said(x)
  BY <1>2, <1>3, TruthStays, SaidApart DEF Said
<1>5. stale \subseteq stale'
  BY <1>1, ShowCases, SentTyped
  DEF ShowPower, ShowBlank, ShowDark, ShowKnob, ShowVal, Ignore, ShowAp, ShowBtn, ShowUpdate
<1>6. SUFFICES ASSUME ~Open(x)' PROVE Follows(x)' BY DEF Follows
<1>7. ~Open(x) /\ x \notin stale' BY <1>2, <1>5, <1>6 DEF Open
<1>8. ToldLast(x)' BY <1>2, <1>4, <1>7 DEF Follows, ToldLast, Closed, After
<1>9. CASE Holds(ojq, Said(x)) BY <1>2, <1>4, <1>8, <1>9 DEF Follows, Holds
<1>10. CASE ~Holds(ojq, Said(x))
  <2>1. \/ taken \in Said(x) /\ IsTrue(taken)
        \/ taken \notin Said(x) /\ Kept(x)
    BY <1>7, <1>10 DEF Follows
  <2>2. ~Coming(x) BY <1>10, ComingSaid DEF Sound
  <2>3. CASE x \in Powers
    <3>1. x = <<"power", x[2]>> /\ x[2] \in Sw /\ (taken \in Said(x) <=> taken[1] = "power" /\ taken[2] = x[2])
      BY <1>1, <2>3, SaidShape DEF Powers, Sw
    <3>2. PowerKept(x[2])' BY <1>1, <1>2, <2>1, <3>1, PowersShown DEF IsTrue, Kept
    <3>3. Kept(x)' BY <3>1, <3>2 DEF Kept
    <3>4. QED BY <1>4, <1>8, <3>3 DEF Follows
  <2>4. CASE x \in Lamps
    <3>1. /\ x = <<"btn", x[2]>> /\ x[2] \in Lights /\ x[2] \in {"ap", "nav", "ias"}
          /\ taken \in Said(x) <=> taken[1] = "btn" /\ taken[2] = x[2]
      BY <1>1, <2>4, SaidShape DEF Lamps, Lights
    <3>2. taken[1] = "btn" /\ taken[2] = x[2] => taken[3] = status[x[2]]
      BY <2>1, <3>1 DEF IsTrue
    <3>3. ~(taken[1] = "btn" /\ taken[2] = x[2]) => LampKept(x[2]) BY <2>1, <3>1 DEF Kept
    <3>4. ~Coming(<<"btn", x[2]>>) /\ <<"btn", x[2]>> \notin stale' BY <1>7, <2>2, <3>1
    <3>5. LampKept(x[2])' BY <1>1, <1>2, <3>1, <3>2, <3>3, <3>4, LampsShown
    <3>6. Kept(x)' BY <3>1, <3>5 DEF Kept
    <3>7. QED BY <1>4, <1>8, <3>6 DEF Follows
  <2>5. CASE x \in Readouts
    <3>1. /\ x = <<"dial", x[2]>> /\ x[2] \in Dials /\ x[2] \in {"alt", "vs", "ias"}
          /\ taken \in Said(x) <=> taken[1] = "val" /\ taken[2] = x[2]
      BY <1>1, <2>5, SaidShape DEF Readouts
    <3>2. taken[1] = "val" /\ taken[2] = x[2] =>
            Near(taken[3], sim[x[2]]) /\ taken[4] = Sign(sim[x[2]])
      BY <2>1, <3>1 DEF IsTrue
    <3>3. ~(taken[1] = "val" /\ taken[2] = x[2]) => ReadoutKept(x[2]) BY <2>1, <3>1 DEF Kept
    <3>4. ~Coming(<<"dial", x[2]>>) /\ <<"dial", x[2]>> \notin stale' BY <1>7, <2>2, <3>1
    <3>5. ReadoutKept(x[2])' BY <1>1, <1>2, <2>5, <3>1, <3>2, <3>3, <3>4, ReadoutsShown
    <3>6. Kept(x)' BY <3>1, <3>5 DEF Kept
    <3>7. QED BY <1>4, <1>8, <3>6 DEF Follows
  <2>6. QED BY <2>3, <2>4, <2>5 DEF Told
<1>11. QED BY <1>9, <1>10
----------------------------------------------------------------------------
(* The panel follows X-Plane.                                              *)
LEMMA FollowsNext ==
  ASSUME Sound, [Next]_vars, NEW x \in Told, x \in Readouts => Fits, Follows(x)
  PROVE  Follows(x)'
BY FollowsCommand, FollowsSilent, FollowsPlugin, FollowsPost, FollowsRewrite, FollowsDeliver,
   FollowsDisable, FollowsPurge, FollowsTake, FollowsShow DEF Next

LEMMA FollowsInit == ASSUME Init, NEW x \in Told PROVE Follows(x)
<1>1. stale = Things BY DEF Init
<1>2. x \in Things BY DEF Told, Powers, Lamps, Readouts, Things
<1>3. QED BY <1>1, <1>2 DEF Follows, Open

LEMMA SettledKept ==
  ASSUME NEW x \in Told, Follows(x), Settled, x \notin stale
  PROVE  Kept(x)
<1>1. answers = <<>> /\ ojq = <<>> /\ taken = NoMsg BY DEF Settled
<1>2. ~Open(x) BY <1>1, IdleOpen
<1>3. ~Holds(ojq, Said(x)) BY <1>1 DEF Holds
<1>4. QED BY <1>1, <1>2, <1>3, SaidApart DEF Follows

PowersFollow   == Sound /\ \A x \in Powers : Follows(x)
LampsFollow    == Sound /\ \A x \in Lamps : Follows(x)
ReadoutsFollow == Sound /\ \A x \in Readouts : Follows(x)

(* The power ToPanelThread goes by is the one the flight loop goes by.     *)
THEOREM PowersAgree == Spec => []PowerAgrees
<1>0. Powers \subseteq Told /\ \A x \in Powers : x \notin Readouts
  BY DEF Told, Powers, Readouts
<1>1. Init => PowersFollow BY <1>0, SoundInductive, FollowsInit DEF PowersFollow
<1>2. PowersFollow /\ [Next]_vars => PowersFollow'
  <2>1. SUFFICES ASSUME Sound, [Next]_vars, \A x \in Powers : Follows(x)
                 PROVE  \A x \in Powers : Follows(x)'
    BY SoundInductive DEF PowersFollow, Powers
  <2>2. QED BY <1>0, <2>1, FollowsNext
<1>3. PowersFollow => PowerAgrees
  <2>1. SUFFICES ASSUME PowersFollow, Settled, NEW p \in {"avionics", "battery"},
                        <<"power", p>> \notin stale
                 PROVE  power[p] = gPower[p]
    BY DEF PowerAgrees
  <2>2. <<"power", p>> \in Powers BY DEF Powers
  <2>3. Kept(<<"power", p>>) BY <1>0, <2>1, <2>2, SettledKept DEF PowersFollow
  <2>4. QED BY <2>3 DEF Kept, PowerKept
<1>4. QED BY <1>1, <1>2, <1>3, PTL DEF Spec

(* The lamps AP, NAV and IAS of a lit panel tell the autopilot's state.    *)
THEOREM LampsAgree == Spec => []ButtonsAgree
<1>0. Lamps \subseteq Told /\ \A x \in Lamps : x \notin Readouts
  BY DEF Told, Lamps, Readouts
<1>1. Init => LampsFollow BY <1>0, SoundInductive, FollowsInit DEF LampsFollow
<1>2. LampsFollow /\ [Next]_vars => LampsFollow'
  <2>1. SUFFICES ASSUME Sound, [Next]_vars, \A x \in Lamps : Follows(x)
                 PROVE  \A x \in Lamps : Follows(x)'
    BY SoundInductive DEF LampsFollow, Lamps
  <2>2. QED BY <1>0, <2>1, FollowsNext
<1>3. LampsFollow => ButtonsAgree
  <2>1. SUFFICES ASSUME LampsFollow, Settled, lit,
                        NEW b \in (Buttons \cup {"ap"}) \cap {"ap", "nav", "ias"},
                        <<"btn", b>> \notin stale
                 PROVE  leds.bits[b] <=> status[b] # 0
    BY DEF ButtonsAgree
  <2>2. <<"btn", b>> \in Lamps BY DEF Lamps
  <2>3. Kept(<<"btn", b>>) BY <1>0, <2>1, <2>2, SettledKept DEF LampsFollow
  <2>4. QED BY <2>1, <2>3 DEF Kept, LampKept
<1>4. QED BY <1>1, <1>2, <1>3, PTL DEF Spec

(* The readout the knob is at shows X-Plane's value, if it has no more     *)
(* digits than the display.                                                *)
THEOREM ReadoutsAgree == ASSUME Fits PROVE Spec => []ReadoutAgrees
<1>0. Readouts \subseteq Told BY DEF Told
<1>1. Init => ReadoutsFollow BY <1>0, SoundInductive, FollowsInit DEF ReadoutsFollow
<1>2. ReadoutsFollow /\ [Next]_vars => ReadoutsFollow'
  <2>1. SUFFICES ASSUME Sound, [Next]_vars, \A x \in Readouts : Follows(x)
                 PROVE  \A x \in Readouts : Follows(x)'
    BY SoundInductive DEF ReadoutsFollow, Readouts
  <2>2. QED BY <1>0, <2>1, FollowsNext
<1>3. ReadoutsFollow => ReadoutAgrees
  <2>1. SUFFICES ASSUME ReadoutsFollow, Settled, lit, NEW d \in Dials \cap {"alt", "vs", "ias"},
                        knob = d, <<"dial", d>> \notin stale, leds.digits # Zeros.digits
                 PROVE  Near(Shown(d), sim[d]) /\ (d = "vs" => leds.digits.sign = Sign(sim[d]))
    BY DEF ReadoutAgrees
  <2>2. <<"dial", d>> \in Readouts BY DEF Readouts
  <2>3. Kept(<<"dial", d>>) BY <1>0, <2>1, <2>2, SettledKept DEF ReadoutsFollow
  <2>4. Drawn(leds.digits, d) BY <2>1, <2>3 DEF Kept, ReadoutKept
  <2>5. QED BY <2>1, <2>4 DEF Drawn, Shown
<1>4. QED BY <1>1, <1>2, <1>3, PTL DEF Spec
----------------------------------------------------------------------------
(* Each thing by itself, step by step: only MainPost takes from what is    *)
(* owed, and it posts a message about it.                                  *)
LEMMA SaidAsked ==
  ASSUME Sound, MainPost, NEW x \in Told, Message(Head(answers)) \in Said(x)
  PROVE  x \in Asked(Head(answers))
<1> DEFINE a == Head(answers)
<1>1. a \in Items /\ a[1] \notin {"rename", "rewrite"} BY Taken DEF Sound, TypeInv, MainPost
<1>2. x \in About(Message(a)) BY DEF Said
<1> HIDE DEF a
<1>3. CASE a[1] \in {"up", "dn", "init"}
  <2>1. Message(a)[1] = "val" /\ Message(a)[2] = a[2] BY <1>3 DEF Message, ValueMsg
  <2>2. x = <<"dial", a[2]>> BY <1>2, <2>1 DEF About
  <2>3. QED BY <1>3, <2>2 DEF Asked, a
<1>4. CASE a[1] = "btn"
  <2>1. Message(a)[1] = "btn" /\ Message(a)[2] = a[2] BY <1>4 DEF Message
  <2>2. x = <<"btn", a[2]>> BY <1>2, <2>1 DEF About
  <2>3. Asked(a) = {<<"btn", a[2]>>} BY <1>4 DEF Asked
  <2>4. QED BY <2>2, <2>3 DEF a
<1>5. CASE a[1] = "otto"
  <2>1. Message(a)[1] = "btn" /\ Message(a)[2] = "ap" BY <1>5 DEF Message
  <2>2. x = <<"btn", "ap">> BY <1>2, <2>1 DEF About
  <2>3. QED BY <1>5, <2>2 DEF Asked, a
<1>6. CASE a[1] = "power"
  <2>1. Message(a) = a BY <1>6 DEF Message
  <2>2. x = <<"power", a[2]>> BY <1>2, <1>6, <2>1 DEF About
  <2>3. Asked(a) = {<<"power", a[2]>>} BY <1>6 DEF Asked
  <2>4. QED BY <2>2, <2>3 DEF a
<1>7. CASE a[1] \in {"updateLeds", "crash"}
  <2>1. Message(a) = a BY <1>7 DEF Message
  <2>2. About(a) = {} BY <1>7 DEF About
  <2>3. QED BY <1>2, <2>1, <2>2
<1>8. CASE a[1] \in {"shared", "freed"}
  <2>1. Message(a)[1] \in {"shared", "freed"} BY <1>8 DEF Message
  <2>2. Message(a) \in Sent BY DEF Said, a
  <2>3. QED BY <2>1, <2>2, SaidShape DEF a
<1>9. QED BY <1>1, <1>3, <1>4, <1>5, <1>6, <1>7, <1>8, ItemShape

\* What the phase of a thing is read from, as the proofs above name it.
LEMMA PhaseReads ==
  ASSUME TypeInv, NEW x \in Told
  PROVE  /\ IsOwed(x) <=> \E i \in 1..Len(answers) : x \in Asked(answers[i])
         /\ IsComing(x) <=> Holds(ojq, Said(x)) \/ taken \in Said(x)
<1>1. DOMAIN answers = 1..Len(answers) BY DEF TypeInv
<1>2. taken \in Said(x) <=> taken # NoMsg /\ x \in About(taken)
  BY SaidApart DEF TypeInv, Said
<1>3. QED BY <1>1, <1>2, ComingSaid DEF IsOwed, IsComing

LEMMA PhaseReadsNext ==
  ASSUME TypeInv', NEW x \in Told
  PROVE  /\ IsOwed(x)' <=> \E i \in 1..Len(answers') : x \in Asked(answers'[i])
         /\ IsComing(x)' <=> Holds(ojq', Said(x)) \/ taken' \in Said(x)
<1>1. DOMAIN answers' = 1..Len(answers') BY DEF TypeInv
<1>2. taken' \in Said(x) <=> taken' # NoMsg /\ x \in About(taken')
  BY SaidApart DEF TypeInv, Said
<1>3. DOMAIN ojq' = 1..Len(ojq') /\ \A i \in 1..Len(ojq') : ojq'[i] \in Sent BY DEF TypeInv
<1>4. Coming(x)' <=> Holds(ojq', Said(x)) BY <1>3 DEF Coming, Holds, Said
<1>5. QED BY <1>1, <1>2, <1>4 DEF IsOwed, IsComing

\* The rest of what is owed stays when an item is taken off it.
LEMMA OwedTaken ==
  ASSUME Sound, answers # <<>>, answers' = Tail(answers), NEW x \in Told, IsOwed(x),
         x \notin Asked(Head(answers))
  PROVE  IsOwed(x)'
<1>1. answers \in Seq(Items) BY DEF Sound, TypeInv
<1>2. /\ Head(answers) = answers[1] /\ Len(answers) \in Nat \ {0}
      /\ Len(answers') = Len(answers) - 1 /\ answers' \in Seq(Items)
      /\ \A i \in 1..Len(answers') : answers'[i] = answers[i + 1]
  BY <1>1, Taken
<1>3. DOMAIN answers = 1..Len(answers) /\ DOMAIN answers' = 1..Len(answers') BY <1>1, <1>2
<1>4. PICK i \in 1..Len(answers) : x \in Asked(answers[i]) BY <1>3 DEF IsOwed
<1>5. i # 1 BY <1>2, <1>4
<1>6. i - 1 \in 1..Len(answers') /\ (i - 1) + 1 = i BY <1>2, <1>5
<1>7. answers'[i - 1] = answers[i] BY <1>2, <1>6
<1>8. QED BY <1>3, <1>4, <1>6, <1>7 DEF IsOwed

(* What a step may do with what is owed of a thing, on its way or stale.   *)
Sends(x) ==
  /\ IsOwed(x) => IsOwed(x)' \/ Holds(ojq', Said(x))
  /\ Holds(ojq', Said(x)) \/ taken' \in Said(x) =>
       IsOwed(x) \/ Holds(ojq, Said(x)) \/ taken \in Said(x)
  /\ x \in stale => x \in stale' \/ IsOwed(x)

LEMMA PostSends == ASSUME Sound, MainPost, NEW x \in Told PROVE Sends(x)
<1> DEFINE a == Head(answers)  m == Message(a)
<1>1. answers \in Seq(Items) /\ answers # <<>> /\ answers' = Tail(answers) /\ a \in Items
      /\ a = answers[1] /\ Len(answers) \in Nat \ {0} /\ a[1] \notin {"rename", "rewrite"}
  BY Taken DEF Sound, TypeInv, MainPost
<1>2. m \in Sent BY <1>1, SentType DEF Sound
<1>3. ojq' = Append(ojq, m) /\ ojq \in Seq(Sent) /\ stale' = stale \ About(m) /\ taken' = taken
  BY DEF MainPost, Post, Sound, TypeInv, toVars
<1>4. x \in Asked(a) => IsOwed(x)
  <2>1. 1 \in DOMAIN answers BY <1>1
  <2>2. QED BY <1>1, <2>1 DEF IsOwed
<1>5. x \in Asked(a) <=> m \in Said(x) BY AskedSaid, SaidAsked
<1>6. m \in Said(x) <=> x \in About(m) BY <1>2 DEF Said
<1> HIDE DEF a, m
<1>7. Holds(ojq', Said(x)) <=> Holds(ojq, Said(x)) \/ m \in Said(x) BY <1>2, <1>3, HoldsAppended
<1>8. IsOwed(x) /\ x \notin Asked(a) => IsOwed(x)' BY <1>1, OwedTaken DEF a
<1>9. QED BY <1>3, <1>4, <1>5, <1>6, <1>7, <1>8 DEF Sends

LEMMA RewriteSends == ASSUME Sound, MainRewrite, NEW x \in Told PROVE Sends(x)
<1> DEFINE a == Head(answers)
<1>1. a \in Items /\ a[1] \in {"rename", "rewrite"} /\ answers # <<>> /\ answers' = Tail(answers)
      /\ stale' = stale
  BY Taken DEF Sound, TypeInv, MainRewrite
<1>2. TypeInv BY DEF Sound
<1>3. Len(ojq) \in Nat /\ \A i \in 1..Len(ojq) : ojq[i] \in Sent BY <1>2 DEF TypeInv
<1>4. Len(ojq') = Len(ojq) /\ \A i \in 1..Len(ojq) : ojq'[i] = Rewritten(ojq[i], a)
  <2>1. ojq' = [i \in 1..Len(ojq) |-> Rewritten(ojq[i], a)] BY <1>2 DEF MainRewrite, TypeInv
  <2>2. QED BY <1>3, <2>1
<1>5. \A i \in 1..Len(ojq) : ojq'[i] \in Said(x) <=> ojq[i] \in Said(x)
  <2>1. SUFFICES ASSUME NEW i \in 1..Len(ojq) PROVE ojq'[i] \in Said(x) <=> ojq[i] \in Said(x)
    OBVIOUS
  <2>2. ojq[i] \in Sent /\ ojq'[i] = Rewritten(ojq[i], a) BY <1>3, <1>4
  <2>3. ojq'[i] \in Sent BY <1>1, <1>2, <2>2, RewrittenType
  <2>4. QED BY <2>2, <2>3, RewrittenSaid
<1>6. taken' \in Said(x) <=> taken \in Said(x)
  <2>1. taken' = Rewritten(taken, a) BY DEF MainRewrite
  <2>2. CASE taken = NoMsg BY <2>1, <2>2 DEF Rewritten
  <2>3. CASE taken # NoMsg
    <3>1. taken \in Sent BY <1>2, <2>3 DEF TypeInv
    <3>2. taken' \in Sent BY <1>1, <1>2, <2>1, <3>1, RewrittenType
    <3>3. QED BY <2>1, <3>1, <3>2, RewrittenSaid
  <2>4. QED BY <2>2, <2>3
<1>7. Holds(ojq', Said(x)) => Holds(ojq, Said(x)) BY <1>4, <1>5 DEF Holds
<1>8. x \notin Asked(a) BY <1>1 DEF Asked
<1>9. IsOwed(x) => IsOwed(x)' BY <1>1, <1>8, OwedTaken
<1>10. QED BY <1>1, <1>6, <1>7, <1>9 DEF Sends

\* The other steps take from the queue or leave it, and may only begin to owe.
LEMMA OtherSends ==
  ASSUME Sound, Next, ~MainPost, ~MainRewrite, NEW x \in Told
  PROVE  Sends(x)
<1>1. ojq \in Seq(Sent) BY DEF Sound, TypeInv
<1>2. CASE Deliver
  <2>1. outbox \in Knobs /\ outbox \in Sent /\ ojq' = Append(ojq, outbox)
    BY <1>2, SentTyped DEF Deliver, Post, Sound, TypeInv, TypeOK
  <2>2. outbox \notin Said(x) BY <2>1, SaidApart
  <2>3. Holds(ojq', Said(x)) <=> Holds(ojq, Said(x)) BY <1>1, <2>1, <2>2, HoldsAppended
  <2>4. UNCHANGED <<answers, stale, taken>> BY <1>2 DEF Deliver, mainVars, toVars
  <2>5. QED BY <2>3, <2>4 DEF Sends, IsOwed
<1>3. CASE Disable
  <2>1. Blank \in Sent /\ Blank \notin Said(x) /\ ojq' = <<Blank>> \o ojq
    BY <1>3, SentTyped, SaidApart DEF Disable
  <2>2. Holds(ojq', Said(x)) <=> Holds(ojq, Said(x)) BY <1>1, <2>1, Preposted
  <2>3. UNCHANGED <<answers, stale, taken>> BY <1>3 DEF Disable, mainVars, toVars
  <2>4. QED BY <2>2, <2>3 DEF Sends, IsOwed
<1>4. CASE PurgeTake
  <2>1. ojq # <<>> /\ ojq' = Tail(ojq) /\ stale \subseteq stale' /\ UNCHANGED <<answers, taken>>
    BY <1>4 DEF PurgeTake, mainVars, toVars
  <2>2. Holds(ojq', Said(x)) => Holds(ojq, Said(x)) BY <1>1, <2>1, HoldsTaken
  <2>3. QED BY <2>1, <2>2 DEF Sends, IsOwed
<1>5. CASE ToTake
  <2>1. ojq # <<>> /\ ojq' = Tail(ojq) /\ taken' = Head(ojq) /\ UNCHANGED <<answers, stale>>
    BY <1>5 DEF ToTake, mainVars
  <2>2. Holds(ojq, Said(x)) <=> Head(ojq) \in Said(x) \/ Holds(Tail(ojq), Said(x))
    BY <1>1, <2>1, HoldsTaken
  <2>3. QED BY <2>1, <2>2 DEF Sends, IsOwed
<1>6. CASE ToShow
  <2>1. Show(taken) /\ taken \in Sent BY <1>6 DEF ToShow, Sound, TakenShown, TypeInv
  <2>2. taken' = NoMsg /\ UNCHANGED <<answers, ojq>> BY <1>6 DEF ToShow, mainVars
  <2>3. stale \subseteq stale'
    BY <2>1, ShowCases, SentTyped
    DEF ShowPower, ShowBlank, ShowDark, ShowKnob, ShowVal, Ignore, ShowAp, ShowBtn, ShowUpdate
  <2>4. taken' \notin Said(x) BY <2>2, SaidApart
  <2>5. QED BY <2>2, <2>3, <2>4 DEF Sends, IsOwed
<1>7. ASSUME answers = <<>> \/ answers' = answers, UNCHANGED <<ojq, taken>>, stale \subseteq stale'
      PROVE  Sends(x)
  <2>1. IsOwed(x) => IsOwed(x)' BY <1>7, DOMAIN <<>> = {} DEF IsOwed
  <2>2. QED BY <1>7, <2>1 DEF Sends
<1>8. ASSUME NEW c \in Commands, Command(c) PROVE Sends(x)
  <2>1. answers = <<>> /\ UNCHANGED <<ojq, taken>> BY <1>8 DEF Command, Idle, toVars
  <2>2. stale \subseteq stale' BY <1>8 DEF Command, Turn, Press, Otto, FdUpOne
  <2>3. QED BY <2>1, <2>2, <1>7
<1>9. ASSUME NEW d \in Dials, Report(d) PROVE Sends(x)
  BY <1>9, <1>7 DEF Report, mainVars, toVars
<1>10. ASSUME NEW d \in Unheard, Silent(d) PROVE Sends(x)
  <2>1. answers = <<>> /\ UNCHANGED <<ojq, taken>> BY <1>10 DEF Silent, Idle, toVars
  <2>2. stale \subseteq stale' BY <1>10 DEF Silent
  <2>3. QED BY <2>1, <2>2, <1>7
<1>11. CASE \/ PlaneLoaded \/ PlaneUnloaded \/ PlaneCrashed \/ Enable \/ DisablePark
            \/ PurgeNext \/ ToWake
  <2>1. answers = <<>> \/ answers' = answers
    BY <1>11 DEF PlaneLoaded, PlaneUnloaded, PlaneCrashed, Enable, DisablePark, PurgeNext, ToWake,
                 Idle, mainVars
  <2>2. UNCHANGED <<ojq, taken, stale>>
    BY <1>11 DEF PlaneLoaded, PlaneUnloaded, PlaneCrashed, Enable, DisablePark, PurgeNext, ToWake,
                 toVars
  <2>3. QED BY <2>1, <2>2, <1>7
<1>12. QED BY <1>2, <1>3, <1>4, <1>5, <1>6, <1>8, <1>9, <1>10, <1>11 DEF Next

ToldFollow == Sound /\ \A x \in Told : Follows(x)

LEMMA EdgeNext ==
  ASSUME ToldFollow, ToldFollow', Next, NEW x \in Told
  PROVE  /\ <<Phase(x), Phase(x)'>> \in Followed!Edges
         /\ Phase(x)' = "there" => Kept(x)'
<1>1. Sends(x) BY PostSends, RewriteSends, OtherSends DEF ToldFollow
<1>2. /\ IsComing(x) <=> Holds(ojq, Said(x)) \/ taken \in Said(x)
      /\ IsComing(x)' <=> Holds(ojq', Said(x)) \/ taken' \in Said(x)
      /\ IsOwed(x)' <=> \E i \in 1..Len(answers') : x \in Asked(answers'[i])
  BY PhaseReads, PhaseReadsNext DEF ToldFollow, Sound
<1>3. /\ IsOwed(x) => IsOwed(x)' \/ IsComing(x)'
      /\ IsComing(x)' => IsComing(x) \/ IsOwed(x)
      /\ x \in stale => x \in stale' \/ IsOwed(x)
  BY <1>1, <1>2 DEF Sends
<1>4. Phase(x)' = "there" => Kept(x)'
  <2>1. SUFFICES ASSUME Phase(x)' = "there" PROVE Kept(x)' OBVIOUS
  <2>2. ~IsOwed(x)' /\ ~IsComing(x)' /\ x \notin stale' BY <2>1 DEF Phase
  <2>3. Said(x)' = Said(x) BY DEF Said
  <2>4. ~Open(x)' BY <1>2, <2>2 DEF Open
  <2>5. Follows(x)' BY DEF ToldFollow
  <2>6. ~Holds(ojq, Said(x))' /\ taken' \notin Said(x)' BY <1>2, <2>2, <2>3 DEF Holds
  <2>7. QED BY <2>4, <2>5, <2>6 DEF Follows
<1>5. QED BY <1>3, <1>4 DEF Phase, Followed!Edges, Followed!Phases

(* Whatever the buttons, commands and limit, and the readouts as long as   *)
(* their values fit the display, MultiDisplay is an implementation of      *)
(* Following for what the panel is told of: each thing is owed, on its way *)
(* and there, in this order, and as X-Plane has it when it is there.       *)
THEOREM ThingsAreFollowed == ASSUME Fits PROVE Spec => ThingsFollow
<1>1. Init => ToldFollow BY SoundInductive, FollowsInit DEF ToldFollow
<1>2. ToldFollow /\ [Next]_vars => ToldFollow'
  <2>1. SUFFICES ASSUME Sound, [Next]_vars, \A x \in Told : Follows(x)
                 PROVE  \A x \in Told : Follows(x)'
    BY SoundInductive DEF ToldFollow, Told, Powers, Lamps, Readouts
  <2>2. QED BY <2>1, FollowsNext
<1>3. Init => Followed!Init
  <2>1. SUFFICES ASSUME Init PROVE Followed!Init OBVIOUS
  <2>2. \A x \in Told : Phase(x) = "lost"
    <3>1. DOMAIN answers = {} BY <2>1, DOMAIN <<>> = {} DEF Init
    <3>2. Told \subseteq stale BY <2>1 DEF Init, Told, Powers, Lamps, Readouts, Things
    <3>3. QED BY <3>1, <3>2 DEF Phase, IsOwed
  <2>3. ASSUME NEW x \in Told PROVE Kept(x) \in BOOLEAN
    BY DEF Kept, PowerKept, LampKept, ReadoutKept, Near
  <2>4. QED BY <2>2, <2>3 DEF Followed!Init
<1>4. ToldFollow /\ ToldFollow' /\ [Next]_vars => [Followed!Next]_(Followed!vars)
  <2>1. SUFFICES ASSUME ToldFollow, ToldFollow', [Next]_vars
                 PROVE  [Followed!Next]_(Followed!vars)
    OBVIOUS
  <2>2. CASE UNCHANGED vars
    <3>1. UNCHANGED <<answers, stale, ojq, taken>> BY <2>2 DEF vars, mainVars, toVars
    <3>2. ASSUME NEW x \in Told PROVE Phase(x)' = Phase(x)
      BY <3>1 DEF Phase, IsOwed, IsComing, Coming
    <3>3. ASSUME NEW x \in Told PROVE Kept(x)' = Kept(x)
      BY <2>2 DEF vars, simVars, mainVars, toVars, keptVars, Kept, PowerKept, LampKept, ReadoutKept,
                  Drawn
    <3>4. QED BY <3>2, <3>3 DEF Followed!vars
  <2>3. CASE Next
    <3>1. ASSUME NEW x \in Told
          PROVE  /\ <<Phase(x), Phase(x)'>> \in Followed!Edges
                 /\ Phase(x)' = "there" => Kept(x)'
      BY <2>1, <2>3, EdgeNext
    <3>2. Followed!Next BY <3>1 DEF Followed!Next
    <3>3. QED BY <3>2
  <2>4. QED BY <2>1, <2>2, <2>3
<1>5. QED BY <1>1, <1>2, <1>3, <1>4, PTL DEF Spec, ThingsFollow, Followed!Spec
=============================================================================
