-------------------------- MODULE RadioPanel_proofs --------------------------
(* Theorems about RadioPanel: they hold for any radios, threshold, word,   *)
(* frequencies, limit, reports and commands from elsewhere.                *)
EXTENDS RadioPanel, SequenceFacts, TLAPS

Posts == ({"ijq"} \X Cmds) \cup ({"ojq"} \X (Cmds \cup Knobs))

LEMMA ModRange == ASSUME NEW x \in Int, NEW n \in Nat \ {0} PROVE x % n \in 0..(n - 1)
OBVIOUS

LEMMA MsgShape ==
  ASSUME NEW m \in Msg
  PROVE  /\ m \in Knobs => m[2] \in Lines /\ m[3] \in Radios \cup {"other"}
         /\ m \in Turns => m[2] \in Radios /\ m[3] \in Kinds /\ m[1] = "turn"
         /\ m \in Flips => m[2] \in Radios /\ m[1] = "flip"
         /\ m[1] = "val" => /\ m[2] \in Radios /\ m[3] \in {"active", "stdby"}
                            /\ m[4] \in Freqs /\ m = <<"val", m[2], m[3], m[4]>>
<1>1. m \in Knobs => m[2] \in Lines /\ m[3] \in Radios \cup {"other"} BY DEF Knobs
<1>2. m \in Turns => m[2] \in Radios /\ m[3] \in Kinds /\ m[1] = "turn" BY DEF Turns
<1>3. m \in Flips => m[2] \in Radios /\ m[1] = "flip" BY DEF Flips
<1>4. m \in Knobs => m[1] = "knob" BY DEF Knobs
<1>5. m = Blank => m[1] = "blank" BY DEF Blank
<1>6. m \in {"val"} \X Radios \X {"active", "stdby"} \X Freqs =>
        /\ m[2] \in Radios /\ m[3] \in {"active", "stdby"}
        /\ m[4] \in Freqs /\ m = <<"val", m[2], m[3], m[4]>>
  OBVIOUS
<1>7. m[1] = "val" => m \in {"val"} \X Radios \X {"active", "stdby"} \X Freqs
  BY <1>2, <1>3, <1>4, <1>5 DEF Msg, Cmds
<1>8. QED BY <1>1, <1>2, <1>3, <1>6, <1>7
----------------------------------------------------------------------------
(* The types.                                                              *)
LEMMA InitType == Init => TypeOK
<1>1. SUFFICES ASSUME Init PROVE TypeOK OBVIOUS
<1>2. /\ Limit \in Nat /\ Thresh \in Nat \ {0} /\ Word \in Nat \ {0} /\ Radios \subseteq {"com1", "com2"}
  BY RadioAssumption
<1>3. \A S : <<>> \in Seq(S) /\ Len(<<>>) = 0 OBVIOUS
<1>4. modeVals \in [Names -> Values] /\ cnt \in [Kinds -> 0..CntBound]
  BY <1>1, <1>2 DEF Init, Values, CntBound
<1>5. report \in [Lines -> Leds \cup {Junk}] /\ shown \in [Lines -> Leds \cup {Junk, Dark}]
  BY <1>1 DEF Init
<1>6. outbox \in Seq(Posts) /\ ijq \in Seq(Cmds) /\ ojq \in Seq(Msg) /\ answers \in Seq(Names)
  BY <1>1, <1>3 DEF Init
<1>7. Len(ijq) <= Limit /\ Len(ojq) <= Limit BY <1>1, <1>2, <1>3 DEF Init
<1>8. QED BY <1>1, <1>4, <1>5, <1>6, <1>7 DEF Init, TypeOK, Posts

LEMMA AskedType == ASSUME NEW r \in Reports PROVE Asked(r) \in Cmds \cup {NoMsg}
<1> DEFINE M == Cmds \cup {NoMsg}
<1>1. \A l \in Lines : r[l] \in Control BY RadioAssumption
<1>2. ASSUME NEW c \in Control PROVE LineAsks(c) \in Seq(M)
  <2>1. c.turn \in Kinds => Command("turn", c) \in M BY DEF Command, Control, Cmds, Turns
  <2>2. Command("flip", c) \in M BY DEF Command, Control, Cmds, Flips
  <2> DEFINE a == IF c.turn \in Kinds THEN << Command("turn", c) >> ELSE <<>>
             b == IF c.flip THEN << Command("flip", c) >> ELSE <<>>
  <2>3. a \in Seq(M) /\ b \in Seq(M)
    <3>1. c.turn \in Kinds => << Command("turn", c) >> \in Seq(M) BY <2>1
    <3>2. << Command("flip", c) >> \in Seq(M) BY <2>2
    <3>3. <<>> \in Seq(M) OBVIOUS
    <3>4. QED BY <3>1, <3>2, <3>3
  <2>4. LineAsks(c) = a \o b BY DEF LineAsks
  <2> HIDE DEF a, b
  <2>5. QED BY <2>3, <2>4, Joined
<1> DEFINE u == LineAsks(r["upper"])
           w == LineAsks(r["lower"])
<1>3. u \in Seq(M) /\ w \in Seq(M) BY <1>1, <1>2 DEF Lines
<1> DEFINE asks == u \o w
<1>4. Asked(r) = IF asks = <<>> THEN NoMsg ELSE asks[Len(asks)] BY DEF Asked
<1> HIDE DEF u, w
<1>5. asks \in Seq(M) BY <1>3, Joined
<1> HIDE DEF asks, M
<1>6. asks # <<>> => asks[Len(asks)] \in M BY <1>5
<1>7. QED BY <1>4, <1>6 DEF M

LEMMA ReportPosts ==
  ASSUME NEW r \in Reports,
         NEW p, p = (IF Asked(r) = NoMsg THEN <<>>
                     ELSE << <<"ijq", Asked(r)>>, <<"ojq", Asked(r)>> >>) \o KnobPosts(r)
  PROVE  /\ p \in Seq(Posts)
         /\ \/ \A i \in 1..Len(p) : p[i][2] \in Knobs
            \/ /\ Len(p) = 4 /\ p[1] = <<"ijq", Asked(r)>> /\ p[2] = <<"ojq", Asked(r)>>
               /\ Asked(r) \in Cmds /\ p[3][2] \in Knobs /\ p[4][2] \in Knobs
<1>1. \A l \in Lines : r[l] \in Control BY RadioAssumption
<1>2. Asked(r) \in Cmds \cup {NoMsg} BY AskedType
<1> DEFINE k == KnobPosts(r)
           k1 == <<"ojq", <<"knob", "upper", r["upper"].knob>> >>
           k2 == <<"ojq", <<"knob", "lower", r["lower"].knob>> >>
<1>3. <<"knob", "upper", r["upper"].knob>> \in Knobs /\ <<"knob", "lower", r["lower"].knob>> \in Knobs
  BY <1>1 DEF Knobs, Lines, Control
<1>4. k = <<k1, k2>> BY DEF KnobPosts
<1>5. k1[2] \in Knobs /\ k2[2] \in Knobs /\ k1 \in Posts /\ k2 \in Posts BY <1>3 DEF Posts
<1> HIDE DEF k1, k2
<1>6. CASE Asked(r) = NoMsg
  <2>1. p = <<>> \o <<k1, k2>> BY <1>4, <1>6
  <2>2. p \in Seq(Posts) /\ Len(p) = 2 /\ p[1] = k1 /\ p[2] = k2
    <3>1. k1 \in Posts /\ k2 \in Posts BY <1>5
    <3>2. /\ <<>> \o <<k1, k2>> \in Seq(Posts) /\ Len(<<>> \o <<k1, k2>>) = 2
          /\ (<<>> \o <<k1, k2>>)[1] = k1 /\ (<<>> \o <<k1, k2>>)[2] = k2
      BY <3>1, JoinedPairs
    <3>3. QED BY <3>2, <2>1
  <2>3. \A i \in 1..Len(p) : p[i] \in {k1, k2}
    <3>1. \A i \in 1..Len(p) : i = 1 \/ i = 2 BY <2>2
    <3>2. p[1] = k1 /\ p[2] = k2 BY <2>2
    <3>3. QED BY <3>1, <3>2
  <2>4. \A i \in 1..Len(p) : p[i][2] \in Knobs BY <2>3, <1>5
  <2>5. QED BY <2>2, <2>4
<1>7. CASE Asked(r) # NoMsg
  <2> DEFINE a1 == <<"ijq", Asked(r)>>
             a2 == <<"ojq", Asked(r)>>
  <2>1. Asked(r) \in Cmds BY <1>2, <1>7
  <2>2. a1 \in Posts /\ a2 \in Posts BY <2>1 DEF Posts
  <2>3. p = <<a1, a2>> \o <<k1, k2>> BY <1>4, <1>7
  <2> HIDE DEF a1, a2
  <2>4. /\ p \in Seq(Posts) /\ Len(p) = 4
        /\ p[1] = a1 /\ p[2] = a2 /\ p[3] = k1 /\ p[4] = k2
    <3> DEFINE u == <<a1, a2>> \o <<k1, k2>>
    <3>1. k1 \in Posts /\ k2 \in Posts BY <1>5
    <3>2. /\ u \in Seq(Posts) /\ Len(u) = 4
          /\ u[1] = a1 /\ u[2] = a2 /\ u[3] = k1 /\ u[4] = k2
      BY <3>1, <2>2, JoinedPairs
    <3>3. p = u BY <2>3
    <3> HIDE DEF u
    <3>4. QED BY <3>2, <3>3
  <2>5. QED BY <2>1, <2>4, <1>5 DEF a1, a2
<1>8. QED BY <1>6, <1>7

\* An executed command moves frequencies among those X-Plane tunes to.
LEMMA ExecuteType ==
  ASSUME TypeOK, NEW c \in Cmds, Execute(c)
  PROVE  sim' \in [Names -> Freqs] /\ answers' \in Seq(Names)
<1>1. c[2] \in Radios BY DEF Cmds, Turns, Flips
<1>2. sim \in [Names -> Freqs] BY DEF TypeOK
<1>3. <<c[2], "active">> \in Names /\ <<c[2], "stdby">> \in Names BY <1>1 DEF Names
<1>4. sim' \in [Names -> Freqs] BY <1>2, <1>3 DEF Execute
<1>5. Answers(c) \in Seq(Names) BY <1>3 DEF Answers
<1>6. QED BY <1>4, <1>5 DEF Execute

\* What the drawing of lines leaves of the report and on the LEDs.
LEMMA LedsType ==
  ASSUME NEW r \in Radios, NEW v \in [Names -> Values] PROVE LedsOf(r, v) \in Leds
<1>1. <<r, "active">> \in Names /\ <<r, "stdby">> \in Names BY DEF Names
<1>2. v[<<r, "active">>] \in Int /\ v[<<r, "stdby">>] \in Int
  BY <1>1, RadioAssumption DEF Values
<1>3. Places \in Nat \ {0} BY RadioAssumption
<1>4. v[<<r, "active">>] % Places \in 0..(Places - 1) BY <1>2, <1>3, ModRange
<1>5. v[<<r, "stdby">>] % Places \in 0..(Places - 1) BY <1>2, <1>3, ModRange
<1>6. QED BY <1>4, <1>5 DEF LedsOf, Leds

LEMMA RedrawType ==
  ASSUME TypeOK, NEW r \in Radios, NEW v \in [Names -> Values], NEW ls \in SUBSET Lines,
         Redraw(ls, r, v)
  PROVE  report' \in [Lines -> Leds \cup {Junk}] /\ shown' \in [Lines -> Leds \cup {Junk, Dark}]
<1>1. LedsOf(r, v) \in Leds BY LedsType
<1>2. report' \in [Lines -> Leds \cup {Junk}] BY <1>1 DEF Redraw, Fill, TypeOK
<1>3. QED BY <1>2 DEF Redraw, Send, TypeOK

PanelTypes == /\ modeVals' \in [Names -> Values]
              /\ knob' \in [Lines -> Radios \cup {"other"}] /\ cnt' \in [Kinds -> 0..CntBound]
              /\ report' \in [Lines -> Leds \cup {Junk}]
              /\ shown' \in [Lines -> Leds \cup {Junk, Dark}]

LEMMA KnobType ==
  ASSUME TypeOK, NEW l \in Lines, NEW r \in Radios \cup {"other"}, ShowKnob(l, r)
  PROVE  PanelTypes
<1>1. CASE r \in Radios /\ knob[l] # r
  <2>1. modeVals \in [Names -> Values] /\ {l} \in SUBSET Lines BY DEF TypeOK
  <2>2. Redraw({l}, r, modeVals) BY <1>1 DEF ShowKnob
  <2>3. report' \in [Lines -> Leds \cup {Junk}] /\ shown' \in [Lines -> Leds \cup {Junk, Dark}]
    BY <1>1, <2>1, <2>2, RedrawType
  <2>4. knob' \in [Lines -> Radios \cup {"other"}] BY <1>1 DEF ShowKnob, TypeOK
  <2>5. QED BY <1>1, <2>3, <2>4 DEF ShowKnob, TypeOK, PanelTypes
<1>2. CASE ~(r \in Radios /\ knob[l] # r) BY <1>2 DEF ShowKnob, TypeOK, PanelTypes
<1>3. QED BY <1>1, <1>2

LEMMA AtType == \A r : At(r) \in SUBSET Lines
BY DEF At

LEMMA ValType ==
  ASSUME TypeOK, NEW n \in Names, NEW x \in Freqs, ShowVal(n, x)
  PROVE  PanelTypes
<1>1. n[1] \in Radios /\ x \in Values BY RadioAssumption DEF Names
<1>2. modeVals' \in [Names -> Values] BY <1>1 DEF ShowVal, TypeOK
<1>3. CASE modeVals[n] # x
  <2>1. Redraw(At(n[1]), n[1], modeVals') BY <1>3 DEF ShowVal
  <2>2. report' \in [Lines -> Leds \cup {Junk}] /\ shown' \in [Lines -> Leds \cup {Junk, Dark}]
    BY <1>1, <1>2, <2>1, AtType, RedrawType
  <2>3. QED BY <1>2, <2>2 DEF ShowVal, TypeOK, PanelTypes
<1>4. CASE modeVals[n] = x BY <1>2, <1>4 DEF ShowVal, TypeOK, PanelTypes
<1>5. QED BY <1>3, <1>4

LEMMA Com2Type ==
  ASSUME TypeOK, NEW x \in Freqs, ShowCom2Active(x), "com2" \in Radios
  PROVE  PanelTypes
<1>1. x \in Values BY RadioAssumption
<1>2. modeVals' \in [Names -> Values] BY <1>1 DEF ShowCom2Active, TypeOK
<1>3. LedsOf("com2", modeVals') \in Leds BY <1>2, LedsType
<1>4. report' \in [Lines -> Leds \cup {Junk}] BY <1>3 DEF ShowCom2Active, Fill, TypeOK
<1>5. shown' \in [Lines -> Leds \cup {Junk, Dark}] BY <1>4 DEF ShowCom2Active, Send, TypeOK
<1>6. knob' = knob /\ cnt' = cnt BY DEF ShowCom2Active
<1>7. QED BY <1>2, <1>4, <1>5, <1>6 DEF TypeOK, PanelTypes

LEMMA TurnType ==
  ASSUME TypeOK, NEW t \in Kinds, ShowTurn(t)
  PROVE  PanelTypes
<1> DEFINE n == cnt[Counter(t)] + 1
<1>1. Counter(t) \in Kinds BY DEF Counter, Kinds
<1>2. n \in Nat /\ CntBound \in Nat BY <1>1, RadioAssumption DEF TypeOK, CntBound
<1> HIDE DEF n
<1>3. Count(t, n) BY DEF ShowTurn, n
<1>4. cnt' \in [Kinds -> 0..CntBound]
  <2>1. \A k \in Kinds : cnt[k] \in 0..CntBound BY DEF TypeOK
  <2>2. \A k \in Kinds : (IF k = Opposite(t) \/ (k = t /\ n >= Thresh) THEN 0
                          ELSE IF k # Counter(t) THEN cnt[k]
                          ELSE IF n > CntBound THEN CntBound ELSE n) \in 0..CntBound
    BY <1>2, <2>1
  <2>3. QED BY <1>3, <2>2 DEF Count
<1>5. CASE n >= Thresh
  <2>1. <<"com1", "stdby">> \in Names BY RadioAssumption DEF Names
  <2>2. modeVals[<<"com1", "stdby">>] \in Int /\ Word \in Nat \ {0}
    BY <2>1, RadioAssumption DEF TypeOK, Values
  <2>3. Step(t, modeVals[<<"com1", "stdby">>]) \in Values
    <3> DEFINE x == modeVals[<<"com1", "stdby">>]
    <3>1. x + 1 \in Int /\ x - 1 \in Int BY <2>2
    <3> HIDE DEF x
    <3>2. (x + 1) % Word \in 0..(Word - 1) BY <2>2, <3>1, ModRange
    <3>3. (x - 1) % Word \in 0..(Word - 1) BY <2>2, <3>1, ModRange
    <3>4. Step(t, x) \in Values BY <3>2, <3>3 DEF Step, Values
    <3>5. QED BY <3>4 DEF x
  <2>4. modeVals' = [modeVals EXCEPT ![<<"com1", "stdby">>] =
                       Step(t, modeVals[<<"com1", "stdby">>])]
    BY <1>5 DEF ShowTurn, n
  <2>5. modeVals' \in [Names -> Values] BY <2>3, <2>4 DEF TypeOK
  <2>6. Redraw(At("com1") \cap {"upper"}, "com1", modeVals') BY <1>5 DEF ShowTurn, n
  <2>7. At("com1") \cap {"upper"} \in SUBSET Lines BY AtType
  <2>8. "com1" \in Radios BY RadioAssumption
  <2>9. report' \in [Lines -> Leds \cup {Junk}] /\ shown' \in [Lines -> Leds \cup {Junk, Dark}]
    BY <2>5, <2>6, <2>7, <2>8, RedrawType
  <2>10. knob' = knob BY DEF ShowTurn
  <2>11. QED BY <1>4, <2>5, <2>9, <2>10 DEF TypeOK, PanelTypes
<1>6. CASE ~(n >= Thresh)
  <2>1. UNCHANGED <<modeVals, report, shown>> BY <1>6 DEF ShowTurn, n
  <2>2. knob' = knob BY DEF ShowTurn
  <2>3. QED BY <1>4, <2>1, <2>2 DEF TypeOK, PanelTypes
<1>7. QED BY <1>5, <1>6

LEMMA AgainType ==
  ASSUME TypeOK, NEW r \in Radios, ShowAgain(r)
  PROVE  PanelTypes
<1>1. modeVals \in [Names -> Values] /\ Redraw(At(r), r, modeVals) BY DEF TypeOK, ShowAgain
<1>2. report' \in [Lines -> Leds \cup {Junk}] /\ shown' \in [Lines -> Leds \cup {Junk, Dark}]
  BY <1>1, AtType, RedrawType
<1>3. QED BY <1>2 DEF ShowAgain, TypeOK, PanelTypes

LEMMA ShowType ==
  ASSUME TypeOK, NEW m \in Msg, Show(m)
  PROVE  PanelTypes
<1>1. CASE m = Blank /\ ShowBlank BY <1>1 DEF ShowBlank, TypeOK, PanelTypes
<1>2. CASE m \in Knobs /\ ShowKnob(m[2], m[3]) BY <1>2, MsgShape, KnobType
<1>3. CASE m \in Turns /\ m[2] = "com1" /\ ShowTurn(m[3]) BY <1>3, MsgShape, TurnType
<1>4. CASE m \in Turns /\ m[2] # "com1" /\ ShowAgain("com2")
  <2>1. m[2] = "com2" /\ m[2] \in Radios BY <1>4, MsgShape, RadioAssumption
  <2>2. QED BY <1>4, <2>1, AgainType
<1>5. CASE m \in Flips /\ ShowAgain(m[2]) BY <1>5, MsgShape, AgainType
<1>6. CASE m[1] = "val" /\ m[2] = "com2" /\ m[3] = "active" /\ ShowCom2Active(m[4])
  <2>1. m[2] \in Radios /\ m[4] \in Freqs BY <1>6, MsgShape
  <2>2. QED BY <1>6, <2>1, Com2Type
<1>7. CASE m[1] = "val" /\ ShowVal(<<m[2], m[3]>>, m[4])
  <2>1. <<m[2], m[3]>> \in Names /\ m[4] \in Freqs BY <1>7, MsgShape DEF Names
  <2>2. QED BY <1>7, <2>1, ValType
<1>8. QED BY <1>1, <1>2, <1>3, <1>4, <1>5, <1>6, <1>7 DEF Show

LEMMA NextType == TypeOK /\ [Next]_vars => TypeOK'
<1> USE DEF Posts
<1>0. SUFFICES ASSUME TypeOK, [Next]_vars PROVE TypeOK' OBVIOUS
<1>1. ASSUME NEW r \in Reports, Report(r) PROVE TypeOK'
  <2>1. outbox' \in Seq(Posts) BY <1>1, ReportPosts DEF Report
  <2>2. QED BY <1>0, <1>1, <2>1 DEF Report, TypeOK, toVars, pluginVars
<1>2. CASE Deliver
  <2> DEFINE h == Head(outbox)
  <2>1. outbox \in Seq(Posts) /\ outbox # <<>> BY <1>0, <1>2 DEF TypeOK, Deliver
  <2>2. h \in Posts /\ outbox' \in Seq(Posts) BY <1>2, <2>1, Taken DEF Deliver
  <2>3. \/ h[1] = "ijq" /\ h[2] \in Cmds
        \/ h[1] = "ojq" /\ h[2] \in Cmds \cup Knobs
    BY <2>2
  <2>4. ijq \in Seq(Cmds) /\ ojq \in Seq(Msg) /\ Limit \in Nat /\ Len(ijq) <= Limit /\ Len(ojq) <= Limit
    BY <1>0, RadioAssumption DEF TypeOK
  <2>5. \/ h[1] = "ijq" /\ Post(ijq, h[2]) /\ UNCHANGED ojq
        \/ h[1] = "ojq" /\ Post(ojq, h[2]) /\ UNCHANGED ijq
    BY <1>2 DEF Deliver
  <2> HIDE DEF h
  <2>6. ijq' \in Seq(Cmds) /\ Len(ijq') <= Limit /\ ojq' \in Seq(Msg) /\ Len(ojq') <= Limit
    <3>1. CASE h[1] = "ijq" /\ Post(ijq, h[2]) /\ UNCHANGED ojq
      <4>1. h[2] \in Cmds BY <3>1, <2>3
      <4>2. ijq' \in Seq(Cmds) /\ Len(ijq') = Len(ijq) + 1 BY <3>1, <4>1, <2>4, Appended DEF Post
      <4>3. Len(ijq) \in Nat BY <2>4
      <4>4. QED BY <3>1, <4>2, <4>3, <2>4 DEF Post
    <3>2. CASE h[1] = "ojq" /\ Post(ojq, h[2]) /\ UNCHANGED ijq
      <4>1. h[2] \in Msg BY <3>2, <2>3 DEF Msg
      <4>2. ojq' \in Seq(Msg) /\ Len(ojq') = Len(ojq) + 1 BY <3>2, <4>1, <2>4, Appended DEF Post
      <4>3. Len(ojq) \in Nat BY <2>4
      <4>4. QED BY <3>2, <4>2, <4>3, <2>4 DEF Post
    <3>3. QED BY <2>5, <3>1, <3>2
  <2>7. QED BY <1>0, <1>2, <2>2, <2>6 DEF Deliver, TypeOK, toVars, pluginVars
<1>3. CASE FlightLoop
  <2>1. ijq \in Seq(Cmds) /\ ijq # <<>> /\ Len(ijq) <= Limit /\ Limit \in Nat
    BY <1>0, <1>3, RadioAssumption DEF TypeOK, FlightLoop
  <2>2. Head(ijq) \in Cmds /\ ijq' \in Seq(Cmds) /\ Len(ijq') = Len(ijq) - 1 /\ Len(ijq) \in Nat
    BY <1>3, <2>1, Taken DEF FlightLoop
  <2>3. sim' \in [Names -> Freqs] /\ answers' \in Seq(Names)
    BY <1>0, <1>3, <2>2, ExecuteType DEF FlightLoop
  <2>4. Len(ijq') <= Limit BY <2>1, <2>2
  <2>5. QED BY <1>0, <1>3, <2>2, <2>3, <2>4 DEF FlightLoop, TypeOK, toVars, pluginVars
<1>4. ASSUME NEW c \in Keys, Keyboard(c) PROVE TypeOK'
  <2>1. c \in Cmds BY RadioAssumption
  <2>2. sim' \in [Names -> Freqs] /\ answers' \in Seq(Names)
    BY <1>0, <1>4, <2>1, ExecuteType DEF Keyboard
  <2>3. QED BY <1>0, <1>4, <2>2 DEF Keyboard, TypeOK, toVars, pluginVars
<1>5. ASSUME NEW n \in Unheard, Silent(n) PROVE TypeOK'
  <2>1. n \in Names BY RadioAssumption
  <2>2. sim' \in [Names -> Freqs] /\ stale' \subseteq Names BY <1>0, <1>5, <2>1 DEF Silent, TypeOK
  <2>3. QED BY <1>0, <1>5, <2>2 DEF Silent, TypeOK, toVars, pluginVars
<1>6. CASE MainPost
  <2> DEFINE n == Head(answers)
             m == <<"val", n[1], n[2], sim[n]>>
  <2>1. answers \in Seq(Names) /\ answers # <<>> BY <1>0, <1>6 DEF TypeOK, MainPost
  <2>2. n \in Names /\ answers' \in Seq(Names) BY <1>6, <2>1, Taken DEF MainPost
  <2>3. m \in Msg BY <1>0, <2>2 DEF Msg, Names, TypeOK
  <2>4. Post(ojq, m) /\ stale' = stale \ {n} BY <1>6 DEF MainPost
  <2>5. ojq \in Seq(Msg) /\ Limit \in Nat BY <1>0, RadioAssumption DEF TypeOK
  <2> HIDE DEF n, m
  <2>6. ojq' \in Seq(Msg) /\ Len(ojq') = Len(ojq) + 1 /\ Len(ojq) \in Nat
    BY <2>3, <2>4, <2>5, Appended DEF Post
  <2>7. Len(ojq') <= Limit BY <2>4, <2>5, <2>6 DEF Post
  <2>8. stale' \subseteq Names BY <1>0, <2>4 DEF TypeOK
  <2>9. QED BY <1>0, <1>6, <2>2, <2>6, <2>7, <2>8 DEF MainPost, TypeOK, toVars, pluginVars
<1>7. CASE PlaneLoaded
  <2>1. ASSUME NEW r PROVE InitNames(r) \in Seq(Names)
    <3>1. r \in Radios => <<r, "active">> \in Names /\ <<r, "stdby">> \in Names BY DEF Names
    <3>2. r \in Radios => << <<r, "active">>, <<r, "stdby">> >> \in Seq(Names) BY <3>1
    <3>3. <<>> \in Seq(Names) OBVIOUS
    <3>4. QED BY <3>2, <3>3 DEF InitNames
  <2>2. answers' \in Seq(Names) BY <1>7, <2>1, Joined DEF PlaneLoaded
  <2>3. QED BY <1>0, <1>7, <2>2 DEF PlaneLoaded, TypeOK, toVars
<1>8. CASE PlaneUnloaded BY <1>0, <1>8 DEF PlaneUnloaded, TypeOK, toVars
<1>9. CASE Enable BY <1>0, <1>9 DEF Enable, TypeOK, toVars
<1>10. CASE Disable
  <2>1. ojq \in Seq(Msg) /\ Limit \in Nat /\ Blank \in Msg BY <1>0, RadioAssumption DEF TypeOK, Msg
  <2>2. ojq' \in Seq(Msg) /\ Len(ojq') = Len(ojq) + 1 /\ Len(ojq) \in Nat
    <3>1. Blank \notin {} OBVIOUS
    <3>2. QED BY <1>10, <2>1, <3>1, Preposted DEF Disable
  <2>3. Len(ojq') <= Limit BY <1>10, <2>1, <2>2 DEF Disable
  <2>4. QED BY <1>0, <1>10, <2>2, <2>3 DEF Disable, TypeOK, toVars
<1>11. CASE DisablePark BY <1>0, <1>11 DEF DisablePark, TypeOK, toVars
<1>12. CASE PurgeTake
  <2>1. /\ ijq \in Seq(Cmds) /\ Len(ijq) <= Limit /\ ojq \in Seq(Msg) /\ Len(ojq) <= Limit
        /\ Limit \in Nat /\ stale \subseteq Names
    BY <1>0, RadioAssumption DEF TypeOK
  <2>2. CASE ojq # <<>> /\ ojq' = Tail(ojq) /\ stale' = stale \cup Parts(Head(ojq)) /\ UNCHANGED ijq
    <3>1. Head(ojq) \in Msg /\ ojq' \in Seq(Msg) /\ Len(ojq') = Len(ojq) - 1 /\ Len(ojq) \in Nat
      BY <2>1, <2>2, Taken
    <3>2. Parts(Head(ojq)) \subseteq Names BY <3>1, MsgShape DEF Parts, Names
    <3>3. Len(ojq') <= Limit /\ stale' \subseteq Names BY <2>1, <2>2, <3>1, <3>2
    <3>4. QED BY <1>0, <1>12, <2>2, <3>1, <3>3 DEF PurgeTake, TypeOK, toVars, pluginVars
  <2>3. CASE ijq # <<>> /\ ijq' = Tail(ijq) /\ stale' = stale \cup PartsIn(Head(ijq)) /\ UNCHANGED ojq
    <3>1. Head(ijq) \in Cmds /\ ijq' \in Seq(Cmds) /\ Len(ijq') = Len(ijq) - 1 /\ Len(ijq) \in Nat
      BY <2>1, <2>3, Taken
    <3>2. PartsIn(Head(ijq)) \subseteq Names BY <3>1 DEF PartsIn, Names, Turns
    <3>3. Len(ijq') <= Limit /\ stale' \subseteq Names BY <2>1, <2>3, <3>1, <3>2
    <3>4. QED BY <1>0, <1>12, <2>3, <3>1, <3>3 DEF PurgeTake, TypeOK, toVars, pluginVars
  <2>4. QED BY <1>12, <2>2, <2>3 DEF PurgeTake
<1>13. CASE PurgeNext
  <2>1. enabled' \in BOOLEAN /\ trig' \in BOOLEAN BY <1>0, <1>13 DEF PurgeNext, TypeOK
  <2>2. /\ at' \in {"idle", "park", "purgeOut", "purgeIn"} /\ op' \in {"none", "enable", "disable"}
    BY <1>0, <1>13 DEF PurgeNext, TypeOK
  <2>3. QED BY <1>0, <1>13, <2>1, <2>2 DEF PurgeNext, TypeOK, toVars
<1>14. CASE ToWake BY <1>0, <1>14 DEF ToWake, TypeOK, pluginVars
<1>15. CASE ToShow
  <2>1. ojq \in Seq(Msg) /\ ojq # <<>> /\ Len(ojq) <= Limit /\ Limit \in Nat
    BY <1>0, <1>15, RadioAssumption DEF TypeOK, ToShow
  <2>2. Head(ojq) \in Msg /\ ojq' \in Seq(Msg) /\ Len(ojq') = Len(ojq) - 1 /\ Len(ojq) \in Nat
    BY <1>15, <2>1, Taken DEF ToShow
  <2>3. Len(ojq') <= Limit BY <2>1, <2>2
  <2>4. PanelTypes BY <1>0, <1>15, <2>2, ShowType DEF ToShow
  <2>5. QED BY <1>0, <1>15, <2>2, <2>3, <2>4 DEF ToShow, TypeOK, PanelTypes, pluginVars
<1>16. CASE UNCHANGED vars BY <1>0, <1>16 DEF TypeOK, vars, toVars, pluginVars
<1>17. QED BY <1>0, <1>1, <1>2, <1>3, <1>4, <1>5, <1>6, <1>7, <1>8, <1>9, <1>10, <1>11, <1>12,
              <1>13, <1>14, <1>15, <1>16 DEF Next

(* Every variable keeps to its values, and no queue exceeds its limit,     *)
(* whatever the limit.                                                     *)
THEOREM Types == Spec => []TypeOK
BY InitType, NextType, PTL DEF Spec
----------------------------------------------------------------------------
(* A frequency X-Plane and the panel may disagree about is unannounced, or *)
(* to be answered; otherwise the last message about it carries its value.  *)
Vals(n) == { <<"val", n[1], n[2], f>> : f \in Freqs }
Told(n) == <<"val", n[1], n[2], sim[n]>>
Open(n) == n \in stale \/ \E i \in 1..Len(answers) : answers[i] = n
LastTold(n) == Open(n) \/ EndsWith(ojq, Vals(n), Told(n))

\* Nobody but X-Plane changes an active frequency of the panel.
ActiveFollows(n) == Open(n) \/ Holds(ojq, Vals(n)) \/ modeVals[n] = sim[n]

LEMMA ValsShape ==
  ASSUME TypeOK, NEW n \in Names
  PROVE  /\ Told(n) \in Vals(n) /\ Vals(n) \subseteq Msg
         /\ \A m \in Cmds \cup Knobs \cup {Blank} : m \notin Vals(n)
         /\ \A k \in Names : k # n => Told(k) \notin Vals(n)
         /\ \A m \in Msg : m[1] = "val" /\ m[2] = n[1] /\ m[3] = n[2] <=> m \in Vals(n)
         /\ \A m \in Vals(n) : Parts(m) = {n}
<1>1. sim[n] \in Freqs /\ n[1] \in Radios /\ n[2] \in {"active", "stdby"} /\ n = <<n[1], n[2]>>
  BY DEF TypeOK, Names
<1>2. Told(n) \in Vals(n) /\ Vals(n) \subseteq Msg BY <1>1 DEF Told, Vals, Msg
<1>3. \A m \in Vals(n) : m[1] = "val" /\ m[2] = n[1] /\ m[3] = n[2] BY DEF Vals
<1>4. \A m \in Cmds \cup Knobs \cup {Blank} : m[1] # "val"
  BY DEF Cmds, Turns, Flips, Knobs, Blank
<1>5. \A k \in Names : k # n => Told(k) \notin Vals(n)
  <2>1. SUFFICES ASSUME NEW k \in Names, Told(k) \in Vals(n) PROVE k = n OBVIOUS
  <2>2. k[1] = n[1] /\ k[2] = n[2] BY <2>1, <1>3 DEF Told
  <2>3. k = <<k[1], k[2]>> BY DEF Names
  <2>4. QED BY <1>1, <2>2, <2>3
<1>6. \A m \in Msg : m[1] = "val" /\ m[2] = n[1] /\ m[3] = n[2] => m \in Vals(n)
  BY MsgShape DEF Vals
<1>7. \A m \in Vals(n) : Parts(m) = {n} BY <1>1, <1>3 DEF Parts
<1>8. QED BY <1>2, <1>3, <1>4, <1>5, <1>6, <1>7

LEMMA CommandAnswers ==
  ASSUME TypeOK, NEW c \in Cmds, Execute(c), NEW n \in Names
  PROVE  sim'[n] = sim[n] \/ \E i \in 1..Len(answers') : answers'[i] = n
<1>1. c[2] \in Radios BY DEF Cmds, Turns, Flips
<1>2. CASE c \in Turns
  <2>1. answers' = << <<c[2], "stdby">>, <<c[2], "stdby">> >> BY <1>2 DEF Execute, Answers
  <2>2. Len(answers') = 2 /\ answers'[1] = <<c[2], "stdby">> BY <2>1
  <2>3. n # <<c[2], "stdby">> => sim'[n] = sim[n] BY <1>2 DEF Execute, TypeOK
  <2>4. QED BY <2>2, <2>3
<1>3. CASE c \notin Turns
  <2>1. answers' = << <<c[2], "stdby">>, <<c[2], "active">>, <<c[2], "stdby">>, <<c[2], "active">> >>
    BY <1>3 DEF Execute, Answers
  <2>2. Len(answers') = 4 /\ answers'[1] = <<c[2], "stdby">> /\ answers'[2] = <<c[2], "active">>
    BY <2>1
  <2>3. n # <<c[2], "stdby">> /\ n # <<c[2], "active">> => sim'[n] = sim[n]
    BY <1>3 DEF Execute, TypeOK
  <2>4. QED BY <2>2, <2>3
<1>4. QED BY <1>2, <1>3

(* A frequency ceases to be open only when MainPost posts it, and X-Plane  *)
(* changes none without opening it.                                        *)
LEMMA OpenNext ==
  ASSUME TypeOK, Next, NEW n \in Names
  PROVE  \/ Open(n)'
         \/ sim'[n] = sim[n] /\ ~Open(n) /\ ~(MainPost /\ Head(answers) = n)
         \/ MainPost /\ Head(answers) = n
<1> DEFINE Goal == Open(n)' \/ (sim'[n] = sim[n] /\ ~Open(n)) \/ (MainPost /\ Head(answers) = n)
<1>1. CASE sim' = sim /\ answers' = answers /\ stale \subseteq stale' BY <1>1 DEF Open
<1>2. ASSUME Idle, NEW c \in Cmds, Execute(c), stale' = stale PROVE Goal
  <2>1. Len(answers) = 0 BY <1>2 DEF Idle
  <2>2. n \in stale \/ ~Open(n) BY <2>1 DEF Open
  <2>3. sim'[n] = sim[n] \/ Open(n)' BY <1>2, CommandAnswers DEF Open
  <2>4. n \in stale => Open(n)' BY <1>2 DEF Open
  <2>5. QED BY <2>2, <2>3, <2>4
<1>3. CASE FlightLoop
  <2>1. ijq \in Seq(Cmds) /\ ijq # <<>> BY <1>3 DEF TypeOK, FlightLoop
  <2>2. Head(ijq) \in Cmds BY <2>1, Taken
  <2>3. Idle /\ Execute(Head(ijq)) /\ stale' = stale BY <1>3 DEF FlightLoop
  <2>4. QED BY <2>2, <2>3, <1>2
<1>4. ASSUME NEW c \in Keys, Keyboard(c) PROVE Goal
  <2>1. c \in Cmds BY RadioAssumption
  <2>2. QED BY <1>4, <2>1, <1>2 DEF Keyboard
<1>5. ASSUME NEW k \in Unheard, Silent(k) PROVE Goal
  <2>1. n = k => Open(n)' BY <1>5 DEF Silent, Open
  <2>2. n # k => sim'[n] = sim[n] BY <1>5 DEF Silent, TypeOK
  <2>3. answers' = answers /\ stale \subseteq stale' BY <1>5 DEF Silent
  <2>4. Open(n) => Open(n)' BY <2>3 DEF Open
  <2>5. QED BY <2>1, <2>2, <2>4
<1>6. CASE MainPost
  <2>1. answers \in Seq(Names) /\ answers # <<>> BY <1>6 DEF TypeOK, MainPost
  <2>2. sim' = sim /\ answers' = Tail(answers) /\ stale' = stale \ {Head(answers)}
    BY <1>6 DEF MainPost
  <2>3. /\ Head(answers) = answers[1] /\ Len(answers) \in Nat \ {0}
        /\ Len(answers') = Len(answers) - 1
        /\ \A i \in 1..Len(answers') : answers'[i] = answers[i + 1]
    BY <2>1, <2>2, Taken
  <2>4. SUFFICES ASSUME Head(answers) # n, Open(n) PROVE Open(n)' BY <2>2, <1>6
  <2>5. CASE n \in stale BY <2>2, <2>4, <2>5 DEF Open
  <2>6. CASE \E i \in 1..Len(answers) : answers[i] = n
    <3>1. PICK i \in 1..Len(answers) : answers[i] = n BY <2>6
    <3>2. i # 1 BY <3>1, <2>3, <2>4
    <3>3. i - 1 \in 1..Len(answers') /\ (i - 1) + 1 = i BY <3>2, <2>3
    <3>4. answers'[i - 1] = n BY <3>1, <3>3, <2>3
    <3>5. QED BY <3>3, <3>4 DEF Open
  <2>7. QED BY <2>4, <2>5, <2>6 DEF Open
<1>7. CASE PlaneLoaded
  <2>1. Len(answers) = 0 /\ sim' = sim /\ stale' = stale BY <1>7 DEF PlaneLoaded, Idle
  <2>2. QED BY <2>1 DEF Open
<1>8. CASE PurgeTake BY <1>8, <1>1 DEF PurgeTake
<1>9. Goal
  BY <1>1, <1>3, <1>4, <1>5, <1>6, <1>7, <1>8
  DEF Next, Report, Deliver, PlaneUnloaded, Enable, Disable, DisablePark, PurgeNext,
      ToWake, ToShow
<1>10. QED BY <1>9

\* What a step does to the panel's queue and frequencies.
OjqKept == ojq' = ojq /\ modeVals' = modeVals
OjqPosted ==
  /\ modeVals' = modeVals
  /\ \/ Deliver /\ \E m \in Cmds \cup Knobs : ojq' = Append(ojq, m)
     \/ /\ MainPost /\ Head(answers) \in Names
        /\ ojq' = Append(ojq, Told(Head(answers)))
OjqBlanked == modeVals' = modeVals /\ ojq' = <<Blank>> \o ojq
OjqPurged ==
  /\ modeVals' = modeVals /\ ojq # <<>> /\ ojq' = Tail(ojq)
  /\ stale' = stale \cup Parts(Head(ojq))
OjqShown == ojq # <<>> /\ ojq' = Tail(ojq) /\ Show(Head(ojq))

LEMMA OjqNext ==
  ASSUME TypeOK, Next
  PROVE  OjqKept \/ OjqPosted \/ OjqBlanked \/ OjqPurged \/ OjqShown
<1>1. CASE Deliver
  <2> DEFINE h == Head(outbox)
  <2>1. outbox \in Seq(Posts) /\ outbox # <<>> BY <1>1 DEF TypeOK, Deliver, Posts
  <2>2. h \in Posts BY <2>1, Taken
  <2>3. h[2] \in Cmds \cup Knobs BY <2>2 DEF Posts
  <2>4. ojq' = ojq \/ ojq' = Append(ojq, h[2]) BY <1>1 DEF Deliver, Post
  <2>5. QED BY <1>1, <2>3, <2>4 DEF Deliver, toVars, OjqKept, OjqPosted
<1>2. CASE MainPost
  <2>1. answers \in Seq(Names) /\ answers # <<>> BY <1>2 DEF TypeOK, MainPost
  <2>2. Head(answers) \in Names BY <2>1, Taken
  <2>3. QED BY <1>2, <2>2 DEF MainPost, Post, Told, toVars, OjqPosted
<1>3. CASE Disable BY <1>3 DEF Disable, toVars, OjqBlanked
<1>4. CASE PurgeTake BY <1>4 DEF PurgeTake, toVars, OjqKept, OjqPurged
<1>5. CASE ToShow BY <1>5 DEF ToShow, OjqShown
<1>6. CASE ToWake BY <1>6 DEF ToWake, OjqKept
<1>7. ASSUME NEW r \in Reports, Report(r) PROVE OjqKept BY <1>7 DEF Report, toVars, OjqKept
<1>8. CASE FlightLoop BY <1>8 DEF FlightLoop, toVars, OjqKept
<1>9. ASSUME NEW c \in Keys, Keyboard(c) PROVE OjqKept BY <1>9 DEF Keyboard, toVars, OjqKept
<1>10. ASSUME NEW n \in Unheard, Silent(n) PROVE OjqKept BY <1>10 DEF Silent, toVars, OjqKept
<1>11. CASE PlaneLoaded \/ PlaneUnloaded BY <1>11 DEF PlaneLoaded, PlaneUnloaded, toVars, OjqKept
<1>12. CASE Enable \/ DisablePark BY <1>12 DEF Enable, DisablePark, toVars, OjqKept
<1>13. CASE PurgeNext BY <1>13 DEF PurgeNext, toVars, OjqKept
<1>14. QED BY <1>1, <1>2, <1>3, <1>4, <1>5, <1>6, <1>7, <1>8, <1>9, <1>10, <1>11, <1>12, <1>13
  DEF Next

\* A message from the panel or Blank leaves the last one about n where it is.
LEMMA OtherPosted ==
  ASSUME TypeOK, NEW n \in Names, NEW m \in Msg, m \notin Vals(n)
  PROVE  /\ EndsWith(ojq, Vals(n), Told(n)) => EndsWith(Append(ojq, m), Vals(n), Told(n))
         /\ Holds(Append(ojq, m), Vals(n)) <=> Holds(ojq, Vals(n))
<1>1. ojq \in Seq(Msg) /\ Told(n) \in Vals(n) BY ValsShape DEF TypeOK
<1>2. EndsWith(ojq, Vals(n), Told(n)) => EndsWith(Append(ojq, m), Vals(n), Told(n))
  BY <1>1, EndsAppendedWith
<1>3. Holds(Append(ojq, m), Vals(n)) <=> Holds(ojq, Vals(n)) BY <1>1, HoldsAppended
<1>4. QED BY <1>2, <1>3

LEMMA OwnPosted ==
  ASSUME TypeOK, NEW n \in Names
  PROVE  /\ EndsWith(Append(ojq, Told(n)), Vals(n), Told(n))
         /\ Holds(Append(ojq, Told(n)), Vals(n))
<1>1. ojq \in Seq(Msg) /\ Told(n) \in Vals(n) /\ Told(n) \in Msg BY ValsShape DEF TypeOK
<1>2. EndsWith(Append(ojq, Told(n)), Vals(n), Told(n)) BY <1>1, EndsAppendedWith
<1>3. Holds(Append(ojq, Told(n)), Vals(n)) BY <1>1, HoldsAppended
<1>4. QED BY <1>2, <1>3

LEMMA BlankPosted ==
  ASSUME TypeOK, NEW n \in Names
  PROVE  /\ EndsWith(ojq, Vals(n), Told(n)) => EndsWith(<<Blank>> \o ojq, Vals(n), Told(n))
         /\ Holds(<<Blank>> \o ojq, Vals(n)) <=> Holds(ojq, Vals(n))
<1>1. ojq \in Seq(Msg) /\ Blank \in Msg /\ Blank \notin Vals(n) BY ValsShape DEF TypeOK, Msg
<1>2. QED BY <1>1, Preposted

LEMMA HeadTaken ==
  ASSUME TypeOK, NEW n \in Names, ojq # <<>>
  PROVE  /\ EndsWith(ojq, Vals(n), Told(n)) => EndsWith(Tail(ojq), Vals(n), Told(n))
         /\ EndsWith(ojq, Vals(n), Told(n)) /\ Head(ojq) \in Vals(n) =>
              Holds(Tail(ojq), Vals(n)) \/ Head(ojq) = Told(n)
         /\ Head(ojq) \notin Vals(n) => (Holds(Tail(ojq), Vals(n)) <=> Holds(ojq, Vals(n)))
         /\ Head(ojq) \in Msg
<1>1. ojq \in Seq(Msg) BY DEF TypeOK
<1>2. EndsWith(ojq, Vals(n), Told(n)) =>
        /\ EndsWith(Tail(ojq), Vals(n), Told(n))
        /\ Head(ojq) \in Vals(n) /\ ~Holds(Tail(ojq), Vals(n)) => Head(ojq) = Told(n)
  BY <1>1, EndsTakenWith
<1>3. Holds(ojq, Vals(n)) <=> Head(ojq) \in Vals(n) \/ Holds(Tail(ojq), Vals(n))
  BY <1>1, HoldsTaken
<1>4. Head(ojq) \in Msg BY <1>1, Taken
<1>5. QED BY <1>2, <1>3, <1>4

LEMMA LastToldNext ==
  ASSUME TypeOK, Next, NEW n \in Names, LastTold(n)
  PROVE  LastTold(n)'
<1>1. CASE Open(n)' BY <1>1 DEF LastTold
<1>2. CASE MainPost /\ Head(answers) = n
  <2>1. ojq' = Append(ojq, Told(n)) /\ Told(n)' = Told(n)
    BY <1>2 DEF MainPost, Post, Told
  <2>2. EndsWith(ojq', Vals(n), Told(n)) BY <2>1, OwnPosted
  <2>3. Vals(n)' = Vals(n) BY DEF Vals
  <2>4. QED BY <2>1, <2>2, <2>3 DEF LastTold
<1>3. CASE sim'[n] = sim[n] /\ ~Open(n) /\ ~(MainPost /\ Head(answers) = n)
  <2>1. Told(n)' = Told(n) /\ Vals(n)' = Vals(n) /\ EndsWith(ojq, Vals(n), Told(n))
    BY <1>3 DEF Told, Vals, LastTold
  <2>2. CASE OjqKept BY <2>1, <2>2 DEF OjqKept, LastTold
  <2>3. CASE OjqPosted
    <3>1. PICK m \in Msg : ojq' = Append(ojq, m) /\ m \notin Vals(n)
      <4>1. CASE \E m \in Cmds \cup Knobs : ojq' = Append(ojq, m)
        <5>1. PICK m \in Cmds \cup Knobs : ojq' = Append(ojq, m) BY <4>1
        <5>2. m \in Msg /\ m \notin Vals(n) BY ValsShape DEF Msg
        <5>3. QED BY <5>1, <5>2
      <4>2. CASE /\ MainPost /\ Head(answers) \in Names
                 /\ ojq' = Append(ojq, Told(Head(answers)))
        <5>1. Told(Head(answers)) \notin Vals(n) BY <1>3, <4>2, ValsShape
        <5>2. Told(Head(answers)) \in Msg BY <4>2, ValsShape
        <5>3. QED BY <4>2, <5>1, <5>2
      <4>3. QED BY <2>3, <4>1, <4>2 DEF OjqPosted
    <3>2. EndsWith(ojq', Vals(n), Told(n)) BY <2>1, <3>1, OtherPosted
    <3>3. QED BY <2>1, <3>2 DEF LastTold
  <2>4. CASE OjqBlanked
    <3>1. EndsWith(ojq', Vals(n), Told(n)) BY <2>1, <2>4, BlankPosted DEF OjqBlanked
    <3>2. QED BY <2>1, <3>1 DEF LastTold
  <2>5. CASE OjqPurged \/ OjqShown
    <3>1. EndsWith(ojq', Vals(n), Told(n)) BY <2>1, <2>5, HeadTaken DEF OjqPurged, OjqShown
    <3>2. QED BY <2>1, <3>1 DEF LastTold
  <2>6. QED BY <2>2, <2>3, <2>4, <2>5, OjqNext
<1>4. QED BY <1>1, <1>2, <1>3, OpenNext

(* What a message ToPanelThread takes does to the frequencies it keeps:    *)
(* only a local step of COM1, and COM2_VAL with what is the last case of   *)
(* its handler, change another than the message names.                     *)
Turns1 == {"turn"} \X {"com1"} \X Kinds
LEMMA ShowFreqs ==
  ASSUME TypeOK, NEW m \in Msg, Show(m), NEW n \in Names
  PROVE  /\ m = Told(n) => modeVals'[n] = sim[n]
         /\ m \notin Vals(n) /\ n # <<"com2", "stdby">> /\ ~(n = <<"com1", "stdby">> /\ m \in Turns1)
              => modeVals'[n] = modeVals[n]
         /\ n = <<"com1", "stdby">> /\ m \in Turns1
              => \/ modeVals'[n] = modeVals[n]
                 \/ \E t \in Kinds : modeVals'[n] = Step(t, modeVals[n])
<1> DEFINE Goal ==
      /\ m = Told(n) => modeVals'[n] = sim[n]
      /\ m \notin Vals(n) /\ n # <<"com2", "stdby">> /\ ~(n = <<"com1", "stdby">> /\ m \in Turns1)
           => modeVals'[n] = modeVals[n]
      /\ n = <<"com1", "stdby">> /\ m \in Turns1
           => \/ modeVals'[n] = modeVals[n]
              \/ \E t \in Kinds : modeVals'[n] = Step(t, modeVals[n])
<1>0. /\ modeVals \in [Names -> Values] /\ n[1] \in Radios /\ n[2] \in {"active", "stdby"}
      /\ n = <<n[1], n[2]>>
  BY DEF TypeOK, Names
<1>1. m[1] # "val" => m # Told(n) BY DEF Told
<1>2. ASSUME modeVals' = modeVals, m[1] # "val" PROVE Goal BY <1>1, <1>2
<1>3. CASE m = Blank /\ ShowBlank
  <2>1. m[1] # "val" BY <1>3 DEF Blank
  <2>2. QED BY <2>1, <1>2, <1>3 DEF ShowBlank
<1>4. CASE m \in Knobs /\ ShowKnob(m[2], m[3])
  <2>1. m[1] # "val" BY <1>4 DEF Knobs
  <2>2. QED BY <2>1, <1>2, <1>4 DEF ShowKnob
<1>5. CASE m \in Flips /\ ShowAgain(m[2])
  <2>1. m[1] # "val" BY <1>5 DEF Flips
  <2>2. QED BY <2>1, <1>2, <1>5 DEF ShowAgain
<1>6. CASE m \in Turns /\ m[2] # "com1" /\ ShowAgain("com2")
  <2>1. m[1] # "val" BY <1>6 DEF Turns
  <2>2. QED BY <2>1, <1>2, <1>6 DEF ShowAgain
<1>7. CASE m \in Turns /\ m[2] = "com1" /\ ShowTurn(m[3])
  <2>1. m[1] # "val" /\ m \in Turns1 /\ m[3] \in Kinds BY <1>7 DEF Turns, Turns1
  <2>2. \/ modeVals' = modeVals
        \/ modeVals' = [modeVals EXCEPT ![<<"com1", "stdby">>] =
                           Step(m[3], modeVals[<<"com1", "stdby">>])]
    BY <1>7 DEF ShowTurn
  <2>3. n # <<"com1", "stdby">> => modeVals'[n] = modeVals[n] BY <2>2, <1>0
  <2>4. n = <<"com1", "stdby">> => modeVals'[n] \in {modeVals[n], Step(m[3], modeVals[n])}
    BY <2>2, <1>0
  <2>5. QED BY <2>1, <2>3, <2>4, <1>1
<1>8. ASSUME m[1] = "val" PROVE m \notin Turns1 BY <1>8 DEF Turns1
<1>9. m \notin Vals(n) /\ m[1] = "val" => n # <<m[2], m[3]>> BY ValsShape, <1>0
<1>10. m = Told(n) => m[2] = n[1] /\ m[3] = n[2] /\ m[4] = sim[n] BY DEF Told
<1>11. CASE m[1] = "val" /\ m[2] = "com2" /\ m[3] = "active" /\ ShowCom2Active(m[4])
  <2>1. modeVals' = [modeVals EXCEPT ![<<"com2", "active">>] = m[4], ![<<"com2", "stdby">>] = m[4]]
    BY <1>11 DEF ShowCom2Active
  <2>2. n # <<"com2", "active">> /\ n # <<"com2", "stdby">> => modeVals'[n] = modeVals[n]
    BY <2>1, <1>0
  <2>3. m = Told(n) => modeVals'[n] = sim[n] BY <1>10, <1>11, <2>1, <1>0
  <2>4. QED BY <1>8, <1>9, <1>11, <2>2, <2>3
<1>12. CASE m[1] = "val" /\ ShowVal(<<m[2], m[3]>>, m[4])
  <2>1. modeVals' = [modeVals EXCEPT ![<<m[2], m[3]>>] = m[4]] BY <1>12 DEF ShowVal
  <2>2. n # <<m[2], m[3]>> => modeVals'[n] = modeVals[n] BY <2>1, <1>0
  <2>3. m = Told(n) => modeVals'[n] = sim[n] BY <1>10, <1>0, <2>1
  <2>4. QED BY <1>8, <1>9, <1>12, <2>2, <2>3
<1>13. Goal BY <1>3, <1>4, <1>5, <1>6, <1>7, <1>11, <1>12 DEF Show
<1>14. QED BY <1>13

LEMMA ActiveFollowsNext ==
  ASSUME TypeOK, Next, NEW n \in Active, LastTold(n), ActiveFollows(n)
  PROVE  ActiveFollows(n)'
<1>0. n \in Names /\ n[2] = "active" BY DEF Active, Names
<1>1. CASE Open(n)' BY <1>1 DEF ActiveFollows
<1>2. CASE MainPost /\ Head(answers) = n
  <2>1. ojq' = Append(ojq, Told(n)) BY <1>2 DEF MainPost, Post, Told
  <2>2. Holds(ojq', Vals(n)) BY <2>1, <1>0, OwnPosted
  <2>3. Vals(n)' = Vals(n) BY DEF Vals
  <2>4. QED BY <2>2, <2>3 DEF ActiveFollows
<1>3. CASE sim'[n] = sim[n] /\ ~Open(n) /\ ~(MainPost /\ Head(answers) = n)
  <2>1. /\ Told(n)' = Told(n) /\ Vals(n)' = Vals(n) /\ EndsWith(ojq, Vals(n), Told(n))
        /\ Holds(ojq, Vals(n)) \/ modeVals[n] = sim[n]
    BY <1>3 DEF Told, Vals, LastTold, ActiveFollows
  <2>2. CASE OjqKept BY <1>3, <2>1, <2>2 DEF OjqKept, ActiveFollows
  <2>3. CASE OjqPosted
    <3>1. Holds(ojq, Vals(n)) => Holds(ojq', Vals(n))
      <4>1. ojq \in Seq(Msg) BY DEF TypeOK
      <4>2. PICK m \in Msg : ojq' = Append(ojq, m) BY <2>3, ValsShape DEF OjqPosted, Msg
      <4>3. QED BY <4>1, <4>2, HoldsAppended
    <3>2. QED BY <1>3, <2>1, <2>3, <3>1 DEF OjqPosted, ActiveFollows
  <2>4. CASE OjqBlanked
    <3>1. Holds(ojq', Vals(n)) <=> Holds(ojq, Vals(n)) BY <1>0, <2>4, BlankPosted DEF OjqBlanked
    <3>2. QED BY <1>3, <2>1, <2>4, <3>1 DEF OjqBlanked, ActiveFollows
  <2>5. CASE OjqPurged
    <3>1. CASE Head(ojq) \in Vals(n)
      <4>1. n \in stale' BY <1>0, <2>5, <3>1, ValsShape DEF OjqPurged
      <4>2. QED BY <4>1 DEF ActiveFollows, Open
    <3>2. CASE Head(ojq) \notin Vals(n)
      <4>1. Holds(ojq', Vals(n)) <=> Holds(ojq, Vals(n)) BY <1>0, <2>5, <3>2, HeadTaken DEF OjqPurged
      <4>2. QED BY <1>3, <2>1, <2>5, <4>1 DEF OjqPurged, ActiveFollows
    <3>3. QED BY <3>1, <3>2
  <2>6. CASE OjqShown
    <3>1. Head(ojq) \in Msg /\ Show(Head(ojq)) BY <1>0, <2>6, HeadTaken DEF OjqShown
    <3>2. CASE Head(ojq) \in Vals(n)
      <4>1. Holds(ojq', Vals(n)) \/ Head(ojq) = Told(n) BY <1>0, <2>1, <2>6, <3>2, HeadTaken DEF OjqShown
      <4>2. Head(ojq) = Told(n) => modeVals'[n] = sim[n] BY <1>0, <3>1, ShowFreqs
      <4>3. QED BY <1>3, <2>1, <4>1, <4>2 DEF ActiveFollows
    <3>3. CASE Head(ojq) \notin Vals(n)
      <4>1. Holds(ojq', Vals(n)) <=> Holds(ojq, Vals(n)) BY <1>0, <2>6, <3>3, HeadTaken DEF OjqShown
      <4>2. modeVals'[n] = modeVals[n] BY <1>0, <3>1, <3>3, ShowFreqs
      <4>3. QED BY <1>3, <2>1, <4>1, <4>2 DEF ActiveFollows
    <3>4. QED BY <3>2, <3>3
  <2>7. QED BY <2>2, <2>3, <2>4, <2>5, <2>6, OjqNext
<1>4. QED BY <1>0, <1>1, <1>2, <1>3, OpenNext

ToldInv == TypeOK /\ (\A n \in Names : LastTold(n)) /\ \A n \in Active : ActiveFollows(n)

LEMMA ToldInvariant == Spec => []ToldInv
<1>1. Init => ToldInv
  <2>1. Init => TypeOK BY InitType
  <2>2. Active \subseteq Names BY DEF Active, Names
  <2>3. QED BY <2>1, <2>2 DEF Init, ToldInv, LastTold, ActiveFollows, Open
<1>2. ToldInv /\ [Next]_vars => ToldInv'
  <2>1. SUFFICES ASSUME ToldInv, [Next]_vars PROVE ToldInv' OBVIOUS
  <2>2. TypeOK /\ TypeOK' BY <2>1, NextType DEF ToldInv
  <2>3. ASSUME NEW n \in Names PROVE LastTold(n)'
    <3>1. CASE Next BY <2>1, <2>2, <3>1, LastToldNext DEF ToldInv
    <3>2. CASE UNCHANGED vars
      <4>1. sim' = sim /\ ojq' = ojq /\ answers' = answers /\ stale' = stale BY <3>2 DEF vars
      <4>2. LastTold(n) BY <2>1 DEF ToldInv
      <4>3. QED BY <4>1, <4>2 DEF LastTold, Open, Told, Vals
    <3>3. QED BY <2>1, <3>1, <3>2
  <2>4. ASSUME NEW n \in Active PROVE ActiveFollows(n)'
    <3>1. CASE Next
      <4>1. n \in Names BY DEF Active, Names
      <4>2. QED BY <2>1, <2>2, <3>1, <4>1, ActiveFollowsNext DEF ToldInv
    <3>2. CASE UNCHANGED vars
      <4>1. /\ sim' = sim /\ ojq' = ojq /\ answers' = answers /\ stale' = stale
            /\ modeVals' = modeVals
        BY <3>2 DEF vars, toVars
      <4>2. ActiveFollows(n) BY <2>1 DEF ToldInv
      <4>3. QED BY <4>1, <4>2 DEF ActiveFollows, Open, Vals
    <3>3. QED BY <2>1, <3>1, <3>2
  <2>5. QED BY <2>2, <2>3, <2>4 DEF ToldInv
<1>3. QED BY <1>1, <1>2, PTL DEF Spec

(* Once nothing is on its way, the panel has X-Plane's active frequencies, *)
(* but those it was not told of, for any two radios, limit and keyboard.   *)
THEOREM ActivesAgree == Spec => []ActiveAgrees
<1>1. ToldInv => ActiveAgrees
  <2>1. SUFFICES ASSUME ToldInv, Settled, NEW r \in Radios, <<r, "active">> \notin stale
                 PROVE  modeVals[<<r, "active">>] = sim[<<r, "active">>]
    BY DEF ActiveAgrees
  <2>2. Len(<<>>) = 0 OBVIOUS
  <2>3. <<r, "active">> \in Active BY DEF Active
  <2>4. ~Open(<<r, "active">>) BY <2>1, <2>2 DEF Settled, Open
  <2>5. \A P : ~Holds(ojq, P) BY <2>1, <2>2 DEF Settled, Holds
  <2>6. QED BY <2>1, <2>3, <2>4, <2>5 DEF ToldInv, ActiveFollows
<1>2. QED BY <1>1, ToldInvariant, PTL
----------------------------------------------------------------------------
(* Each active frequency by itself, step by step.                          *)
LEMMA ComingHolds ==
  ASSUME NEW n \in Names, NEW q \in Seq(Msg)
  PROVE  (\E i \in DOMAIN q : n \in Parts(q[i])) <=> Holds(q, Vals(n))
<1>1. DOMAIN q = 1..Len(q) /\ \A i \in 1..Len(q) : q[i] \in Msg OBVIOUS
<1>2. n = <<n[1], n[2]>> BY DEF Names
<1>3. ASSUME NEW m \in Msg, n \in Parts(m) PROVE m \in Vals(n)
  <2>1. m[1] = "val" /\ n = <<m[2], m[3]>> BY <1>3 DEF Parts
  <2>2. m = <<"val", n[1], n[2], m[4]>> /\ m[4] \in Freqs BY <2>1, MsgShape
  <2>3. QED BY <2>2 DEF Vals
<1>4. ASSUME NEW m \in Vals(n) PROVE n \in Parts(m) BY <1>2 DEF Parts, Vals
<1>5. QED BY <1>1, <1>3, <1>4 DEF Holds

\* Only MainPost has a frequency told of that was not, or posts one.
LEMMA OwedNext ==
  ASSUME TypeOK, Next, NEW n \in Names, ~(MainPost /\ Head(answers) = n)
  PROVE  (IsOwed(n) => IsOwed(n)') /\ (n \in stale => n \in stale')
<1>1. CASE answers = <<>>
  <2>1. ~IsOwed(n) BY <1>1, DOMAIN <<>> = {} DEF IsOwed
  <2>2. ~MainPost BY <1>1 DEF MainPost
  <2>3. stale \subseteq stale'
    BY <2>2 DEF Next, Report, Deliver, FlightLoop, Keyboard, Silent, PlaneLoaded, PlaneUnloaded,
                Enable, Disable, DisablePark, PurgeTake, PurgeNext, ToWake, ToShow
  <2>4. QED BY <2>1, <2>3
<1>2. CASE answers # <<>> /\ ~MainPost
  <2>1. answers' = answers /\ stale \subseteq stale'
    BY <1>2 DEF Next, Report, Deliver, FlightLoop, Keyboard, Silent, PlaneLoaded, PlaneUnloaded,
                Enable, Disable, DisablePark, PurgeTake, PurgeNext, ToWake, ToShow, Idle
  <2>2. QED BY <2>1 DEF IsOwed
<1>3. CASE MainPost
  <2>1. answers \in Seq(Names) /\ answers # <<>> /\ Head(answers) # n BY <1>3 DEF TypeOK, MainPost
  <2>2. answers' = Tail(answers) /\ stale' = stale \ {Head(answers)} BY <1>3 DEF MainPost
  <2>3. /\ Head(answers) = answers[1] /\ Len(answers) \in Nat \ {0}
        /\ Len(answers') = Len(answers) - 1 /\ answers' \in Seq(Names)
        /\ \A i \in 1..Len(answers') : answers'[i] = answers[i + 1]
    BY <2>1, <2>2, Taken
  <2>4. DOMAIN answers = 1..Len(answers) /\ DOMAIN answers' = 1..Len(answers') BY <2>1, <2>3
  <2>5. ASSUME NEW i \in 1..Len(answers), answers[i] = n PROVE IsOwed(n)'
    <3>1. i # 1 BY <2>5, <2>1, <2>3
    <3>2. i - 1 \in 1..Len(answers') /\ (i - 1) + 1 = i BY <3>1, <2>3
    <3>3. answers'[i - 1] = n BY <3>2, <2>3, <2>5
    <3>4. QED BY <3>2, <3>3, <2>4 DEF IsOwed
  <2>6. QED BY <2>1, <2>2, <2>4, <2>5 DEF IsOwed
<1>4. QED BY <1>1, <1>2, <1>3

LEMMA ComingNext ==
  ASSUME TypeOK, Next, NEW n \in Names, ~(MainPost /\ Head(answers) = n)
  PROVE  Holds(ojq', Vals(n)) => Holds(ojq, Vals(n))
<1>1. ojq \in Seq(Msg) BY DEF TypeOK
<1>2. CASE OjqKept BY <1>2 DEF OjqKept
<1>3. CASE OjqPosted
  <2>1. PICK m \in Msg : ojq' = Append(ojq, m) /\ m \notin Vals(n)
    <3>1. CASE \E m \in Cmds \cup Knobs : ojq' = Append(ojq, m)
      <4>1. PICK m \in Cmds \cup Knobs : ojq' = Append(ojq, m) BY <3>1
      <4>2. m \in Msg /\ m \notin Vals(n) BY ValsShape DEF Msg
      <4>3. QED BY <4>1, <4>2
    <3>2. CASE /\ MainPost /\ Head(answers) \in Names
               /\ ojq' = Append(ojq, Told(Head(answers)))
      <4>1. Told(Head(answers)) \notin Vals(n) BY <3>2, ValsShape
      <4>2. Told(Head(answers)) \in Msg BY <3>2, ValsShape
      <4>3. QED BY <3>2, <4>1, <4>2
    <3>3. QED BY <1>3, <3>1, <3>2 DEF OjqPosted
  <2>2. QED BY <1>1, <2>1, HoldsAppended
<1>4. CASE OjqBlanked BY <1>4, BlankPosted DEF OjqBlanked
<1>5. CASE ojq # <<>> /\ ojq' = Tail(ojq) BY <1>1, <1>5, HoldsTaken
<1>6. QED BY <1>2, <1>3, <1>4, <1>5, OjqNext DEF OjqPurged, OjqShown

(* A step moves a frequency along an edge of Following, and what arrives   *)
(* agrees by the invariant.                                                *)
LEMMA EdgeNext ==
  ASSUME TypeOK, TypeOK', Next, NEW n \in Active, ActiveFollows(n)'
  PROVE  /\ <<Phase(n), Phase(n)'>> \in Followed!Edges
         /\ Phase(n)' = "there" => (modeVals[n] = sim[n])'
<1>0. n \in Names BY DEF Active, Names
<1>1. /\ IsComing(n) <=> Holds(ojq, Vals(n))
      /\ IsComing(n)' <=> Holds(ojq', Vals(n))
  BY <1>0, ComingHolds DEF TypeOK, IsComing
<1>2. /\ IsOwed(n) \/ n \in stale \/ IsComing(n)' => IsOwed(n) \/ n \in stale \/ IsComing(n)
      /\ n \in stale => n \in stale' \/ IsOwed(n)
      /\ IsOwed(n) => IsOwed(n)' \/ IsComing(n)'
  <2>1. CASE MainPost /\ Head(answers) = n
    <3>1. answers \in Seq(Names) /\ answers # <<>> BY <2>1 DEF TypeOK, MainPost
    <3>2. Head(answers) = answers[1] /\ 1 \in DOMAIN answers BY <3>1
    <3>3. IsOwed(n) BY <3>2, <2>1 DEF IsOwed
    <3>4. ojq' = Append(ojq, Told(n)) BY <2>1 DEF MainPost, Post, Told
    <3>5. IsComing(n)' BY <3>4, <1>0, <1>1, OwnPosted
    <3>6. QED BY <3>3, <3>5
  <2>2. CASE ~(MainPost /\ Head(answers) = n) BY <2>2, <1>0, <1>1, OwedNext, ComingNext
  <2>3. QED BY <2>1, <2>2
<1>3. Phase(n)' = "there" => (modeVals[n] = sim[n])'
  <2>1. DOMAIN answers' = 1..Len(answers') BY DEF TypeOK
  <2>2. Phase(n)' = "there" => ~IsOwed(n)' /\ n \notin stale' /\ ~IsComing(n)' BY DEF Phase
  <2>3. Vals(n)' = Vals(n) BY DEF Vals
  <2>4. QED BY <1>1, <2>1, <2>2, <2>3 DEF ActiveFollows, Open, IsOwed
<1>4. QED BY <1>2, <1>3 DEF Phase, Followed!Edges, Followed!Phases

(* Whatever the radios, the frequencies and the limit, RadioPanel is an    *)
(* implementation of Following for the active frequencies: each is owed,   *)
(* on its way and there, in this order, and right when it is there.        *)
THEOREM ActivesAreFollowed == Spec => ActivesFollow
<1>1. Init => Followed!Init
  <2>1. SUFFICES ASSUME Init PROVE Followed!Init OBVIOUS
  <2>2. \A n \in Active : Phase(n) = "lost"
    <3>1. DOMAIN answers = {} BY <2>1, DOMAIN <<>> = {} DEF Init
    <3>2. Active \subseteq stale BY <2>1 DEF Init, Active, Names
    <3>3. QED BY <3>1, <3>2 DEF Phase, IsOwed
  <2>3. QED BY <2>2 DEF Followed!Init
<1>2. ToldInv /\ ToldInv' /\ [Next]_vars => [Followed!Next]_(Followed!vars)
  <2>1. SUFFICES ASSUME ToldInv, ToldInv', [Next]_vars
                 PROVE  [Followed!Next]_(Followed!vars)
    OBVIOUS
  <2>2. CASE UNCHANGED vars
    BY <2>2 DEF vars, toVars, Followed!vars, Phase, IsOwed, IsComing
  <2>3. CASE Next
    <3>1. ASSUME NEW n \in Active
          PROVE  /\ <<Phase(n), Phase(n)'>> \in Followed!Edges
                 /\ Phase(n)' = "there" => (modeVals[n] = sim[n])'
      <4>1. TypeOK /\ TypeOK' /\ ActiveFollows(n)' BY <2>1 DEF ToldInv
      <4>2. QED BY <4>1, <2>3, EdgeNext
    <3>2. Followed!Next BY <3>1 DEF Followed!Next
    <3>3. QED BY <3>2
  <2>4. QED BY <2>1, <2>2, <2>3
<1>3. QED BY <1>1, <1>2, ToldInvariant, PTL DEF Spec, ActivesFollow, Followed!Spec
----------------------------------------------------------------------------
(* The standby frequency of COM1, which the panel steps on its own.        *)
Stdby1 == <<"com1", "stdby">>
InIjq == {<<"ijq", m>> : m \in Turns1}
InOjq == {<<"ojq", m>> : m \in Turns1}

\* A turn is under way to X-Plane, whose answer will tell the panel; or to the panel.
Commanded == Holds(ijq, Turns1) \/ Holds(outbox, InIjq)
Pending == Holds(ojq, Turns1) \/ Holds(outbox, InOjq)

\* No second turn goes to the panel before an answer to the one before it.
OnePosted == \A i, j \in 1..Len(outbox) : outbox[i] \in InOjq /\ outbox[j] \in InOjq => i = j
TurnsSpaced ==
  /\ Spaced(ojq, Turns1, Vals(Stdby1))
  /\ Holds(outbox, InOjq) => Closed(ojq, Turns1, Vals(Stdby1))

\* With no answer on its way a step is still to be made locally, or made already.
StepMade ==
  Holds(ojq, Vals(Stdby1)) \/
  IF Pending THEN modeVals[Stdby1] = sim[Stdby1] ELSE Near(modeVals[Stdby1], sim[Stdby1])

DriftInv == OnePosted /\ (Open(Stdby1) \/ Commanded \/ (TurnsSpaced /\ StepMade))

LEMMA Stdby1Name ==
  /\ Stdby1 \in Names
  /\ \A m \in Turns1 : m \notin Knobs /\ m # Blank /\ m \in Turns /\ m \in Msg
  /\ \A m \in Vals(Stdby1) : m \notin Turns1
  /\ \A n : Told(n) \notin Turns1
<1>1. Stdby1 \in Names BY RadioAssumption DEF Stdby1, Names
<1>2. \A m \in Turns1 : m \in Turns BY RadioAssumption DEF Turns1, Turns
<1>3. \A m \in Turns1 : m[1] = "turn" BY DEF Turns1
<1>4. \A m \in Knobs : m[1] = "knob" BY DEF Knobs
<1>5. \A m \in Vals(Stdby1) : m[1] = "val" BY DEF Vals
<1>6. \A n : Told(n)[1] = "val" BY DEF Told
<1>7. Blank[1] = "blank" BY DEF Blank
<1>8. \A m \in Turns1 : m \in Msg BY <1>2 DEF Msg, Cmds
<1>9. QED BY <1>1, <1>2, <1>3, <1>4, <1>5, <1>6, <1>7, <1>8

\* What the turn to the panel is accompanied by in a report.
LEMMA ReportTurns ==
  ASSUME TypeOK, NEW r \in Reports, Report(r)
  PROVE  /\ OnePosted'
         /\ Holds(outbox', InOjq) => Holds(outbox', InIjq)
<1>1. /\ outbox' \in Seq(Posts)
      /\ \/ \A i \in 1..Len(outbox') : outbox'[i][2] \in Knobs
         \/ /\ Len(outbox') = 4 /\ outbox'[1] = <<"ijq", Asked(r)>>
            /\ outbox'[2] = <<"ojq", Asked(r)>>
            /\ outbox'[3][2] \in Knobs /\ outbox'[4][2] \in Knobs
  BY ReportPosts DEF Report
<1>2. \A e \in InOjq : e[2] \in Turns1 /\ e[2] \notin Knobs /\ e[1] = "ojq"
  BY Stdby1Name DEF InOjq
<1>3. CASE \A i \in 1..Len(outbox') : outbox'[i][2] \in Knobs
  <2>1. \A i \in 1..Len(outbox') : outbox'[i] \notin InOjq BY <1>2, <1>3
  <2>2. QED BY <2>1 DEF OnePosted, Holds
<1>4. CASE /\ Len(outbox') = 4 /\ outbox'[1] = <<"ijq", Asked(r)>>
           /\ outbox'[2] = <<"ojq", Asked(r)>>
           /\ outbox'[3][2] \in Knobs /\ outbox'[4][2] \in Knobs
  <2>1. outbox'[1] \notin InOjq BY <1>2, <1>4
  <2>2. outbox'[3] \notin InOjq /\ outbox'[4] \notin InOjq BY <1>2, <1>4
  <2>3. \A i \in 1..Len(outbox') : i = 1 \/ i = 2 \/ i = 3 \/ i = 4 BY <1>4
  <2>4. \A i \in 1..Len(outbox') : outbox'[i] \in InOjq => i = 2 BY <2>1, <2>2, <2>3
  <2>5. OnePosted' BY <2>4 DEF OnePosted, InOjq, Turns1
  <2>6. ASSUME Holds(outbox', InOjq) PROVE Holds(outbox', InIjq)
    <3>1. outbox'[2] \in InOjq BY <2>4, <2>6 DEF Holds
    <3>2. Asked(r) \in Turns1 BY <3>1, <1>2, <1>4
    <3>3. outbox'[1] \in InIjq /\ 1 \in 1..Len(outbox') BY <3>2, <1>4 DEF InIjq
    <3>4. QED BY <3>3 DEF Holds
  <2>7. QED BY <2>5, <2>6
<1>5. QED BY <1>1, <1>3, <1>4

LEMMA OnePostedNext ==
  ASSUME TypeOK, OnePosted, Next
  PROVE  OnePosted'
<1>1. CASE outbox' = outbox BY <1>1 DEF OnePosted, InOjq, Turns1
<1>2. ASSUME NEW r \in Reports, Report(r) PROVE OnePosted' BY <1>2, ReportTurns
<1>3. CASE Deliver
  <2>1. outbox \in Seq(Posts) /\ outbox # <<>> /\ outbox' = Tail(outbox)
    BY <1>3 DEF TypeOK, Deliver, Posts
  <2>2. /\ Len(outbox) \in Nat /\ Len(outbox') = Len(outbox) - 1
        /\ \A i \in 1..Len(outbox') : outbox'[i] = outbox[i + 1]
    BY <2>1, Taken
  <2>3. SUFFICES ASSUME NEW i \in 1..Len(outbox'), NEW j \in 1..Len(outbox'),
                        outbox'[i] \in InOjq, outbox'[j] \in InOjq
                 PROVE  i = j
    BY DEF OnePosted, InOjq, Turns1
  <2>4. i + 1 \in 1..Len(outbox) /\ j + 1 \in 1..Len(outbox) BY <2>2
  <2>5. outbox[i + 1] \in InOjq /\ outbox[j + 1] \in InOjq BY <2>2, <2>3
  <2>6. i + 1 = j + 1 BY <2>4, <2>5 DEF OnePosted
  <2>7. QED BY <2>6
<1>4. QED BY <1>1, <1>2, <1>3
  DEF Next, FlightLoop, Keyboard, Silent, MainPost, PlaneLoaded, PlaneUnloaded, Enable, Disable,
      DisablePark, PurgeTake, PurgeNext, ToWake, ToShow

(* A turn under way to X-Plane gets there, or is purged, and either opens  *)
(* the frequency.                                                          *)
LEMMA CommandedNext ==
  ASSUME TypeOK, Commanded, Next
  PROVE  Commanded' \/ Open(Stdby1)'
<1>1. CASE ijq' = ijq /\ outbox' = outbox BY <1>1 DEF Commanded, InIjq, Turns1
<1>2. ASSUME NEW r \in Reports, Report(r) PROVE Commanded'
  <2>1. outbox = <<>> /\ Len(<<>>) = 0 /\ ijq' = ijq BY <1>2 DEF Report
  <2>2. ~Holds(outbox, InIjq) BY <2>1 DEF Holds
  <2>3. QED BY <2>1, <2>2 DEF Commanded, Turns1
<1>3. CASE Deliver
  <2> DEFINE h == Head(outbox)
  <2>1. outbox \in Seq(Posts) /\ outbox # <<>> /\ outbox' = Tail(outbox) /\ ijq \in Seq(Cmds)
    BY <1>3 DEF TypeOK, Deliver, Posts
  <2>2. h \in Posts /\ (Holds(outbox, InIjq) <=> h \in InIjq \/ Holds(outbox', InIjq))
    BY <2>1, Taken, HoldsTaken
  <2>3. \/ h[1] = "ijq" /\ ijq' = Append(ijq, h[2]) /\ h[2] \in Cmds
        \/ h[1] = "ojq" /\ ijq' = ijq
    BY <1>3, <2>2 DEF Deliver, Post, Posts
  <2>4. h \in InIjq => h[1] = "ijq" /\ h[2] \in Turns1 BY DEF InIjq
  <2> HIDE DEF h
  <2>5. CASE h[1] = "ijq" /\ ijq' = Append(ijq, h[2]) /\ h[2] \in Cmds
    <3>1. Holds(ijq', Turns1) <=> Holds(ijq, Turns1) \/ h[2] \in Turns1
      BY <2>1, <2>5, HoldsAppended
    <3>2. QED BY <3>1, <2>2, <2>4 DEF Commanded, InIjq, Turns1
  <2>6. CASE h[1] = "ojq" /\ ijq' = ijq BY <2>2, <2>4, <2>6 DEF Commanded, InIjq, Turns1
  <2>7. QED BY <2>3, <2>5, <2>6
<1>4. CASE FlightLoop
  <2>1. /\ ijq \in Seq(Cmds) /\ ijq # <<>> /\ ijq' = Tail(ijq) /\ outbox' = outbox
        /\ Execute(Head(ijq))
    BY <1>4 DEF TypeOK, FlightLoop
  <2>2. Holds(ijq, Turns1) <=> Head(ijq) \in Turns1 \/ Holds(ijq', Turns1) BY <2>1, HoldsTaken
  <2>3. CASE Head(ijq) \in Turns1
    <3>1. Head(ijq) \in Turns /\ Head(ijq)[2] = "com1" BY <2>3, Stdby1Name DEF Turns1
    <3>2. answers' = << Stdby1, Stdby1 >> BY <2>1, <3>1 DEF Execute, Answers, Stdby1
    <3>3. Len(answers') = 2 /\ answers'[1] = Stdby1 BY <3>2
    <3>4. QED BY <3>3 DEF Open
  <2>4. CASE Head(ijq) \notin Turns1 BY <2>1, <2>2, <2>4 DEF Commanded, InIjq, Turns1
  <2>5. QED BY <2>3, <2>4
<1>5. CASE PurgeTake
  <2>1. CASE ijq # <<>> /\ ijq' = Tail(ijq) /\ stale' = stale \cup PartsIn(Head(ijq))
    <3>1. ijq \in Seq(Cmds) /\ outbox' = outbox BY <1>5 DEF TypeOK, PurgeTake
    <3>2. Holds(ijq, Turns1) <=> Head(ijq) \in Turns1 \/ Holds(ijq', Turns1)
      BY <2>1, <3>1, HoldsTaken
    <3>3. Head(ijq) \in Turns1 => Stdby1 \in stale'
      <4>1. Head(ijq) \in Turns1 => Head(ijq) \in Turns /\ Head(ijq)[2] = "com1"
        BY Stdby1Name DEF Turns1
      <4>2. QED BY <4>1, <2>1 DEF PartsIn, Stdby1
    <3>4. QED BY <3>1, <3>2, <3>3 DEF Commanded, Open, InIjq, Turns1
  <2>2. CASE UNCHANGED ijq BY <1>1, <1>5, <2>2 DEF PurgeTake
  <2>3. QED BY <1>5, <2>1, <2>2 DEF PurgeTake
<1>6. QED BY <1>1, <1>2, <1>3, <1>4, <1>5
  DEF Next, Keyboard, Silent, MainPost, PlaneLoaded, PlaneUnloaded, Enable, Disable,
      DisablePark, PurgeNext, ToWake, ToShow

\* What decides whether the local step is still to come is the same after as before.
SameView ==
  /\ sim'[Stdby1] = sim[Stdby1] /\ ~Open(Stdby1)
  /\ TurnsSpaced /\ StepMade

LEMMA DriftSettles ==
  ASSUME SameView, TurnsSpaced', modeVals'[Stdby1] = modeVals[Stdby1],
         Holds(ojq', Vals(Stdby1)) <=> Holds(ojq, Vals(Stdby1)),
         Pending' => Pending
  PROVE  TurnsSpaced' /\ StepMade'
<1>1. Vals(Stdby1)' = Vals(Stdby1) /\ Stdby1' = Stdby1 BY DEF Vals, Stdby1
<1>2. Near(sim[Stdby1], sim[Stdby1]) BY DEF Near
<1>3. StepMade' BY <1>1, <1>2 DEF SameView, StepMade, Near
<1>4. QED BY <1>3

LEMMA ReportDrift ==
  ASSUME TypeOK, SameView, NEW r \in Reports, Report(r), ~Commanded'
  PROVE  TurnsSpaced' /\ StepMade'
<1>1. ojq' = ojq /\ modeVals' = modeVals BY DEF Report, toVars
<1>2. ~Holds(outbox', InOjq) BY ReportTurns DEF Commanded, InIjq, Turns1
<1>3. TurnsSpaced' BY <1>1, <1>2 DEF SameView, TurnsSpaced, Vals, InOjq, Turns1, Stdby1
<1>4. Pending' => Pending BY <1>1, <1>2 DEF Pending, InOjq, Turns1
<1>5. QED BY <1>1, <1>3, <1>4, DriftSettles

LEMMA DeliverDrift ==
  ASSUME TypeOK, SameView, OnePosted, Deliver
  PROVE  TurnsSpaced' /\ StepMade'
<1> DEFINE h == Head(outbox)
           V == Vals(Stdby1)
<1>0. Vals(Stdby1)' = V /\ Turns1' = Turns1 /\ InOjq' = InOjq BY DEF Vals, Stdby1, Turns1, InOjq
<1>1. /\ outbox \in Seq(Posts) /\ outbox # <<>> /\ outbox' = Tail(outbox) /\ ojq \in Seq(Msg)
      /\ modeVals' = modeVals
  BY DEF TypeOK, Deliver, Posts, toVars
<1>2. h \in Posts /\ (Holds(outbox, InOjq) <=> h \in InOjq \/ Holds(outbox', InOjq))
  BY <1>1, Taken, HoldsTaken
<1>3. h \in InOjq => ~Holds(outbox', InOjq)
  <2>1. /\ h = outbox[1] /\ Len(outbox) \in Nat \ {0} /\ Len(outbox') = Len(outbox) - 1
        /\ \A i \in 1..Len(outbox') : outbox'[i] = outbox[i + 1]
    BY <1>1, Taken
  <2>2. SUFFICES ASSUME h \in InOjq, NEW i \in 1..Len(outbox'), outbox'[i] \in InOjq PROVE FALSE
    BY DEF Holds
  <2>3. 1 \in 1..Len(outbox) /\ i + 1 \in 1..Len(outbox) /\ i + 1 # 1 BY <2>1
  <2>4. outbox[i + 1] \in InOjq /\ outbox[1] \in InOjq BY <2>1, <2>2
  <2>5. QED BY <2>3, <2>4 DEF OnePosted
<1>4. h = <<h[1], h[2]>> /\ h[2] \in Cmds \cup Knobs BY <1>2 DEF Posts
<1>5. h[1] = "ojq" /\ h[2] \in Turns1 => h \in InOjq BY <1>4 DEF InOjq
<1>6. h \in InOjq => h[1] = "ojq" /\ h[2] \in Turns1 BY DEF InOjq
<1>7. h[2] \in Msg /\ h[2] \notin V BY <1>4, Stdby1Name, ValsShape DEF Msg
<1>8. \/ h[1] = "ijq" /\ ojq' = ojq
      \/ h[1] = "ojq" /\ ojq' = Append(ojq, h[2])
  BY DEF Deliver, Post
<1>9. /\ Spaced(ojq, Turns1, V)
      /\ Holds(outbox, InOjq) => Closed(ojq, Turns1, V)
  BY DEF SameView, TurnsSpaced
<1> HIDE DEF h, V
<1>10. CASE h[1] = "ijq" /\ ojq' = ojq
  <2>1. h \notin InOjq BY <1>6, <1>10
  <2>2. TurnsSpaced' BY <1>0, <1>2, <1>9, <1>10, <2>1 DEF TurnsSpaced
  <2>3. Pending' => Pending BY <1>0, <1>2, <1>10, <2>1 DEF Pending
  <2>4. Holds(ojq', Vals(Stdby1)) <=> Holds(ojq, Vals(Stdby1)) BY <1>10
  <2>5. QED BY <1>1, <2>2, <2>3, <2>4, DriftSettles
<1>11. CASE h[1] = "ojq" /\ ojq' = Append(ojq, h[2])
  <2>1. /\ Holds(ojq', V) <=> Holds(ojq, V)
        /\ Holds(ojq', Turns1) <=> Holds(ojq, Turns1) \/ h[2] \in Turns1
    <3>1. Holds(ojq', V) <=> Holds(ojq, V) \/ h[2] \in V BY <1>1, <1>7, <1>11, HoldsAppended
    <3>2. Holds(ojq', Turns1) <=> Holds(ojq, Turns1) \/ h[2] \in Turns1
      BY <1>1, <1>7, <1>11, HoldsAppended
    <3>3. QED BY <3>1, <3>2, <1>7
  <2>2. /\ h[2] \notin Turns1 /\ Closed(ojq, Turns1, V) => Closed(ojq', Turns1, V)
        /\ Closed(ojq, Turns1, V) => Spaced(ojq', Turns1, V)
        /\ h[2] \notin Turns1 /\ Spaced(ojq, Turns1, V) => Spaced(ojq', Turns1, V)
    BY <1>1, <1>7, <1>11, SpacedAppended
  <2>3. TurnsSpaced'
    <3>1. CASE h \in InOjq
      <4>1. Closed(ojq, Turns1, V) /\ ~Holds(outbox', InOjq) BY <3>1, <1>2, <1>3, <1>9
      <4>2. QED BY <4>1, <2>2, <1>0 DEF TurnsSpaced
    <3>2. CASE h \notin InOjq
      <4>1. h[2] \notin Turns1 BY <3>2, <1>5, <1>11
      <4>2. QED BY <4>1, <3>2, <2>2, <1>0, <1>2, <1>9 DEF TurnsSpaced
    <3>3. QED BY <3>1, <3>2
  <2>4. Pending' => Pending BY <2>1, <1>0, <1>2, <1>5, <1>11 DEF Pending
  <2>5. Holds(ojq', Vals(Stdby1)) <=> Holds(ojq, Vals(Stdby1)) BY <2>1 DEF V
  <2>6. QED BY <1>1, <2>3, <2>4, <2>5, DriftSettles
<1>12. QED BY <1>8, <1>10, <1>11

LEMMA AnswerDrift ==
  ASSUME TypeOK, MainPost, Head(answers) = Stdby1
  PROVE  TurnsSpaced' /\ StepMade'
<1> DEFINE V == Vals(Stdby1)
<1>0. Vals(Stdby1)' = V /\ Turns1' = Turns1 BY DEF Vals, Stdby1, Turns1
<1>1. ojq' = Append(ojq, Told(Stdby1)) /\ ojq \in Seq(Msg) BY DEF MainPost, Post, Told, TypeOK
<1>2. /\ Told(Stdby1) \in Msg /\ Told(Stdby1) \in V /\ Told(Stdby1) \notin Turns1
  BY Stdby1Name, ValsShape
<1>3. Holds(ojq', V) BY <1>1, Stdby1Name, OwnPosted
<1> HIDE DEF V
<1>4. Closed(ojq', Turns1, V) BY <1>1, <1>2, SpacedAppended
<1>5. Spaced(ojq', Turns1, V) BY <1>4, ClosedSpaced
<1>6. QED BY <1>0, <1>3, <1>4, <1>5 DEF TurnsSpaced, StepMade

LEMMA TakenDrift ==
  ASSUME TypeOK, SameView, LastTold(Stdby1), outbox' = outbox, ~Open(Stdby1)',
         OjqPurged \/ OjqShown
  PROVE  TurnsSpaced' /\ StepMade'
<1> DEFINE V == Vals(Stdby1)
           T == Turns1
           h == Head(ojq)
<1>0. Vals(Stdby1)' = V /\ Turns1' = Turns1 /\ InOjq' = InOjq /\ Stdby1' = Stdby1
  BY DEF Vals, Stdby1, Turns1, InOjq
<1>1. ojq \in Seq(Msg) /\ ojq # <<>> /\ ojq' = Tail(ojq) BY DEF TypeOK, OjqPurged, OjqShown
<1>2. h \in Msg BY <1>1, Taken
<1>3. Holds(ojq, V) <=> h \in V \/ Holds(ojq', V) BY <1>1, HoldsTaken
<1>4. Holds(ojq, T) <=> h \in T \/ Holds(ojq', T) BY <1>1, HoldsTaken
<1>5. /\ Closed(ojq, T, V) => Closed(ojq', T, V)
      /\ Spaced(ojq, T, V) => Spaced(ojq', T, V)
      /\ h \in T /\ ~Holds(ojq', V) =>
           /\ ~Closed(ojq, T, V)
           /\ Spaced(ojq, T, V) => ~Holds(ojq', T)
  BY <1>1, SpacedTaken
<1>6. TurnsSpaced' BY <1>0, <1>5 DEF SameView, TurnsSpaced
<1>7. Pending' => Pending BY <1>0, <1>4 DEF Pending
<1>8. h \in V => Holds(ojq', V) \/ (OjqShown /\ h = Told(Stdby1))
  <2>1. SUFFICES ASSUME h \in V, ~Holds(ojq', V) PROVE OjqShown /\ h = Told(Stdby1) OBVIOUS
  <2>2. EndsWith(ojq, V, Told(Stdby1)) BY DEF SameView, LastTold
  <2>3. h = Told(Stdby1) BY <1>1, <2>1, <2>2, HeadTaken, Stdby1Name
  <2>4. OjqPurged => Stdby1 \in stale' BY <2>1, ValsShape, Stdby1Name DEF OjqPurged
  <2>5. ~OjqPurged BY <2>4 DEF Open, Stdby1
  <2>6. QED BY <2>3, <2>5
<1>9. CASE OjqPurged
  <2>1. modeVals' = modeVals BY <1>9 DEF OjqPurged
  <2>2. h \in V => Holds(ojq', V) \/ OjqShown BY <1>8
  <2>3. Stdby1 \in stale' => FALSE BY DEF Open, Stdby1
  <2>4. h \notin V BY <1>9, <2>3, ValsShape, Stdby1Name DEF OjqPurged
  <2>5. QED BY <1>3, <1>6, <1>7, <2>1, <2>4, DriftSettles
<1>10. CASE OjqShown
  <2>1. Show(h) BY <1>10 DEF OjqShown
  <2> HIDE DEF h, V, T
  <2>2. /\ h = Told(Stdby1) => modeVals'[Stdby1] = sim[Stdby1]
        /\ h \notin V /\ h \notin T => modeVals'[Stdby1] = modeVals[Stdby1]
        /\ h \in T => \/ modeVals'[Stdby1] = modeVals[Stdby1]
                      \/ \E t \in Kinds : modeVals'[Stdby1] = Step(t, modeVals[Stdby1])
    BY <1>2, <2>1, ShowFreqs, Stdby1Name DEF Stdby1, V, T
  <2>3. sim'[Stdby1] = sim[Stdby1] BY DEF SameView
  <2>4. CASE Holds(ojq', V) BY <1>0, <1>6, <2>4 DEF StepMade
  <2>5. CASE ~Holds(ojq', V) /\ h \in V
    <3>1. modeVals'[Stdby1] = sim[Stdby1] BY <1>8, <2>2, <2>5
    <3>2. QED BY <1>0, <1>6, <2>3, <3>1 DEF StepMade, Near
  <2>6. CASE ~Holds(ojq', V) /\ h \notin V /\ h \in T
    <3>1. ~Holds(ojq, V) BY <1>3, <2>6
    <3>2. Pending /\ modeVals[Stdby1] = sim[Stdby1]
      BY <1>4, <2>6, <3>1 DEF Pending, SameView, StepMade, V, T
    <3>3. ~Pending'
      <4>1. ~Closed(ojq, T, V) /\ ~Holds(ojq', T) BY <1>5, <2>6 DEF SameView, TurnsSpaced, V, T
      <4>2. ~Holds(outbox, InOjq) BY <4>1 DEF SameView, TurnsSpaced, V, T
      <4>3. QED BY <1>0, <4>1, <4>2 DEF Pending, T
    <3>4. Near(modeVals'[Stdby1], sim'[Stdby1]) BY <2>2, <2>3, <2>6, <3>2 DEF Near, Step
    <3>5. QED BY <1>0, <1>6, <3>3, <3>4 DEF StepMade
  <2>7. CASE h \notin V /\ h \notin T
    <3>1. Holds(ojq', Vals(Stdby1)) <=> Holds(ojq, Vals(Stdby1)) BY <1>3, <2>7 DEF V
    <3>2. QED BY <1>6, <1>7, <2>2, <2>7, <3>1, DriftSettles
  <2>8. QED BY <2>4, <2>5, <2>6, <2>7
<1>11. QED BY <1>9, <1>10

LEMMA OtherDrift ==
  ASSUME TypeOK, SameView, outbox' = outbox,
         \/ OjqKept \/ OjqBlanked
         \/ OjqPosted /\ ~Deliver /\ Head(answers) # Stdby1
  PROVE  TurnsSpaced' /\ StepMade'
<1> DEFINE V == Vals(Stdby1)
           T == Turns1
<1>0. Vals(Stdby1)' = V /\ Turns1' = Turns1 /\ InOjq' = InOjq /\ modeVals' = modeVals
  BY DEF Vals, Stdby1, Turns1, InOjq, OjqKept, OjqBlanked, OjqPosted
<1>1. ojq \in Seq(Msg) BY DEF TypeOK
<1>2. /\ Closed(ojq, T, V) => Closed(ojq', T, V)
      /\ Spaced(ojq, T, V) => Spaced(ojq', T, V)
      /\ Holds(ojq', V) <=> Holds(ojq, V)
      /\ Holds(ojq', T) <=> Holds(ojq, T)
  <2>1. CASE OjqKept BY <2>1 DEF OjqKept
  <2>2. CASE OjqBlanked
    <3>1. Blank \in Msg /\ Blank \notin V /\ Blank \notin T /\ ojq' = <<Blank>> \o ojq
      BY <2>2, ValsShape, Stdby1Name DEF Msg, OjqBlanked
    <3> HIDE DEF V, T
    <3>2. Holds(ojq', V) <=> Holds(ojq, V) BY <1>1, <3>1, Preposted
    <3>3. Holds(ojq', T) <=> Holds(ojq, T) BY <1>1, <3>1, Preposted
    <3>4. /\ Closed(ojq, T, V) => Closed(ojq', T, V)
          /\ Spaced(ojq, T, V) => Spaced(ojq', T, V)
      BY <1>1, <3>1, SpacedPreposted
    <3>5. QED BY <3>2, <3>3, <3>4
  <2>3. CASE OjqPosted /\ ~Deliver /\ Head(answers) # Stdby1
    <3> DEFINE m == Told(Head(answers))
    <3>1. Head(answers) \in Names /\ ojq' = Append(ojq, m) BY <2>3 DEF OjqPosted
    <3>2. m \in Msg /\ m \notin V /\ m \notin T BY <2>3, <3>1, ValsShape, Stdby1Name
    <3> HIDE DEF m, V, T
    <3>3. Holds(ojq', V) <=> Holds(ojq, V) BY <1>1, <3>1, <3>2, HoldsAppended
    <3>4. Holds(ojq', T) <=> Holds(ojq, T) BY <1>1, <3>1, <3>2, HoldsAppended
    <3>5. /\ Closed(ojq, T, V) => Closed(ojq', T, V)
          /\ Spaced(ojq, T, V) => Spaced(ojq', T, V)
      BY <1>1, <3>1, <3>2, SpacedAppended
    <3>6. QED BY <3>3, <3>4, <3>5
  <2>4. QED BY <2>1, <2>2, <2>3
<1>3. TurnsSpaced' BY <1>0, <1>2 DEF SameView, TurnsSpaced
<1>4. Pending' => Pending BY <1>0, <1>2 DEF Pending
<1>5. QED BY <1>0, <1>2, <1>3, <1>4, DriftSettles

LEMMA DriftNext ==
  ASSUME TypeOK, LastTold(Stdby1), DriftInv, Next
  PROVE  DriftInv'
<1>1. OnePosted' BY OnePostedNext DEF DriftInv
<1>2. CASE Open(Stdby1)' \/ Commanded'
  <2>1. Stdby1' = Stdby1 BY DEF Stdby1
  <2>2. QED BY <1>1, <1>2, <2>1 DEF DriftInv, Open, Stdby1
<1>3. CASE ~Open(Stdby1)' /\ ~Commanded'
  <2>1. ~Commanded BY <1>3, CommandedNext
  <2>2. CASE MainPost /\ Head(answers) = Stdby1 BY <1>1, <2>2, AnswerDrift DEF DriftInv
  <2>3. CASE sim'[Stdby1] = sim[Stdby1] /\ ~Open(Stdby1) /\ ~(MainPost /\ Head(answers) = Stdby1)
    <3>1. SameView BY <2>1, <2>3 DEF SameView, DriftInv
    <3>2. TurnsSpaced' /\ StepMade'
      <4>1. ASSUME NEW r \in Reports, Report(r) PROVE TurnsSpaced' /\ StepMade'
        BY <1>3, <3>1, <4>1, ReportDrift
      <4>2. CASE Deliver BY <3>1, <4>2, DeliverDrift DEF DriftInv
      <4>3. CASE ~Deliver /\ ~(\E r \in Reports : Report(r))
        <5>1. outbox' = outbox
          BY <4>3
          DEF Next, FlightLoop, Keyboard, Silent, MainPost, PlaneLoaded, PlaneUnloaded, Enable,
              Disable, DisablePark, PurgeTake, PurgeNext, ToWake, ToShow
        <5>2. OjqPosted => Head(answers) # Stdby1 BY <2>3, <4>3 DEF OjqPosted
        <5>3. CASE OjqPurged \/ OjqShown BY <1>3, <3>1, <5>1, <5>3, TakenDrift
        <5>4. CASE OjqKept \/ OjqBlanked \/ OjqPosted BY <3>1, <4>3, <5>1, <5>2, <5>4, OtherDrift
        <5>5. QED BY <5>3, <5>4, OjqNext
      <4>4. QED BY <4>1, <4>2, <4>3
    <3>3. QED BY <1>1, <3>2 DEF DriftInv
  <2>4. QED BY <1>3, <2>2, <2>3, OpenNext, Stdby1Name
<1>4. QED BY <1>2, <1>3

LEMMA DriftInvariant == Spec => []DriftInv
<1>1. Init => DriftInv
  <2>1. SUFFICES ASSUME Init PROVE DriftInv OBVIOUS
  <2>2. outbox = <<>> /\ Len(<<>>) = 0 /\ stale = Names BY <2>1 DEF Init
  <2>3. OnePosted BY <2>2 DEF OnePosted
  <2>4. Open(Stdby1) BY <2>2, Stdby1Name DEF Open
  <2>5. QED BY <2>3, <2>4 DEF DriftInv
<1>2. ToldInv /\ DriftInv /\ [Next]_vars => DriftInv'
  <2>1. SUFFICES ASSUME ToldInv, DriftInv, [Next]_vars PROVE DriftInv' OBVIOUS
  <2>2. TypeOK /\ LastTold(Stdby1) BY <2>1, Stdby1Name DEF ToldInv
  <2>3. CASE Next BY <2>1, <2>2, <2>3, DriftNext
  <2>4. CASE UNCHANGED vars
    <3>1. /\ sim' = sim /\ ojq' = ojq /\ ijq' = ijq /\ outbox' = outbox
          /\ answers' = answers /\ stale' = stale /\ modeVals' = modeVals
      BY <2>4 DEF vars, toVars
    <3>2. OnePosted' BY <2>1, <3>1 DEF DriftInv, OnePosted, InOjq, Turns1
    <3>3. (Open(Stdby1) => Open(Stdby1)') /\ (Commanded => Commanded')
      BY <3>1 DEF Open, Commanded, Stdby1, InIjq, Turns1
    <3>4. TurnsSpaced => TurnsSpaced'
      BY <3>1 DEF TurnsSpaced, Vals, Stdby1, InOjq, Turns1
    <3>5. StepMade => StepMade'
      BY <3>1 DEF StepMade, Pending, Vals, Stdby1, InOjq, Turns1
    <3>6. QED BY <2>1, <3>2, <3>3, <3>4, <3>5 DEF DriftInv
  <2>5. QED BY <2>1, <2>3, <2>4
<1>3. QED BY <1>1, <1>2, ToldInvariant, PTL DEF Spec

(* However many detents the user turns, and however X-Plane's answers and  *)
(* the local steps overtake each other, the panel ends one step off at     *)
(* most, for any threshold, word and queue.                                *)
THEOREM OffByOneStep == Spec => []DriftIsOneStep
<1>1. DriftInv => DriftIsOneStep
  <2>1. SUFFICES ASSUME DriftInv, Settled, Stdby1 \notin stale
                 PROVE  Near(modeVals[Stdby1], sim[Stdby1])
    BY DEF DriftIsOneStep, Stdby1
  <2>2. Len(<<>>) = 0 OBVIOUS
  <2>3. ~Open(Stdby1) BY <2>1, <2>2 DEF Settled, Open
  <2>4. \A P : ~Holds(ojq, P) /\ ~Holds(ijq, P) /\ ~Holds(outbox, P)
    BY <2>1, <2>2 DEF Settled, Holds
  <2>5. StepMade BY <2>1, <2>3, <2>4 DEF DriftInv, Commanded
  <2>6. QED BY <2>4, <2>5 DEF StepMade, Pending
<1>2. QED BY <1>1, DriftInvariant, PTL
----------------------------------------------------------------------------
(* The lines.  The report holds what the panel keeps of the radio a line's *)
(* knob selects, or was never filled in; the LEDs show what was sent last. *)
Current(l, r) == report[l] \in {Junk, LedsOf(r, modeVals)}
ReportCurrent ==
  /\ knob["upper"] = "com1" => Current("upper", "com1")
  /\ \A l \in Lines : knob[l] = "com2" => Current(l, "com2")
LitInv == ReportCurrent /\ LitLinesCurrent

\* What a lit line has been sent is what the report holds.
LEMMA RedrawLit ==
  ASSUME NEW ls \in SUBSET Lines, NEW r, NEW v, Redraw(ls, r, v), ls # {}
  PROVE  /\ \A l \in Lines : shown'[l] = report'[l]
         /\ \A l \in ls : report'[l] = LedsOf(r, v)
         /\ \A l \in Lines \ ls : report'[l] = report[l]
BY DEF Redraw, Fill, Send

LEMMA SentLit ==
  ASSUME ReportCurrent', \A l \in Lines : shown'[l] = report'[l]
  PROVE  LitInv'
BY DEF ReportCurrent, Current, LitInv, LitLinesCurrent, Lit, Lines, LedsOf

LEMMA DarkLit ==
  ASSUME LitInv, UNCHANGED <<modeVals, knob, report, shown>>
  PROVE  LitInv'
BY DEF ReportCurrent, Current, LitInv, LitLinesCurrent, Lit, LedsOf

LEMMA KnobLit ==
  ASSUME TypeOK, LitInv, NEW l \in Lines, NEW r, ShowKnob(l, r)
  PROVE  LitInv'
<1>1. CASE r \in Radios /\ knob[l] # r
  <2>1. /\ knob' = [knob EXCEPT ![l] = r] /\ Redraw({l}, r, modeVals) /\ modeVals' = modeVals
        /\ {l} \in SUBSET Lines
    BY <1>1 DEF ShowKnob
  <2>2. /\ \A k \in Lines : shown'[k] = report'[k]
        /\ report'[l] = LedsOf(r, modeVals)
        /\ \A k \in Lines \ {l} : report'[k] = report[k]
    BY <2>1, RedrawLit
  <2>3. \A k \in Lines : knob'[k] = IF k = l THEN r ELSE knob[k] BY <2>1 DEF TypeOK
  <2>4. ReportCurrent' BY <2>1, <2>2, <2>3 DEF LitInv, ReportCurrent, Current, LedsOf, Lines
  <2>5. QED BY <2>2, <2>4, SentLit
<1>2. CASE ~(r \in Radios /\ knob[l] # r) BY <1>2, DarkLit DEF ShowKnob
<1>3. QED BY <1>1, <1>2

\* A line whose radio keeps its frequencies keeps its digits.
LEMMA SameLeds ==
  ASSUME NEW r, modeVals'[<<r, "active">>] = modeVals[<<r, "active">>],
         modeVals'[<<r, "stdby">>] = modeVals[<<r, "stdby">>]
  PROVE  LedsOf(r, modeVals') = LedsOf(r, modeVals)
BY DEF LedsOf

LEMMA AtKnob == \A r : \A l \in Lines : l \in At(r) <=> knob[l] = r
BY DEF At

\* The lines of the radio r drawn anew while those of the other keep theirs.
LEMMA RedrawnLit ==
  ASSUME TypeOK, LitInv, knob' = knob, NEW r \in Radios,
         \A s \in Radios : s # r => LedsOf(s, modeVals') = LedsOf(s, modeVals),
         \A s \in Radios : s # r =>
           (modeVals'[<<s, "active">>] # modeVals'[<<s, "stdby">>] =>
              modeVals[<<s, "active">>] # modeVals[<<s, "stdby">>]),
         NEW ls \in SUBSET Lines, Redraw(ls, r, modeVals'),
         \A l \in Lines : l \in ls => knob[l] = r,
         r = "com1" => (knob["upper"] = "com1" => "upper" \in ls),
         r = "com2" => \A l \in Lines : knob[l] = "com2" => l \in ls
  PROVE  LitInv'
<1>0. /\ r \in {"com1", "com2"}
      /\ \A l \in Lines : knob[l] \in {"com1", "com2"} => knob[l] \in Radios
      /\ "upper" \in Lines
  BY RadioAssumption DEF TypeOK, Lines
<1>1. CASE ls = {}
  <2>1. report' = [l \in Lines |-> report[l]] /\ shown' = shown BY <1>1 DEF Redraw, Fill
  <2>2. \A l \in Lines : report'[l] = report[l] BY <2>1
  <2>3. /\ r = "com1" => knob["upper"] # "com1"
        /\ r = "com2" => \A l \in Lines : knob[l] # "com2"
    BY <1>1
  <2>4. ReportCurrent' BY <1>0, <2>2, <2>3 DEF LitInv, ReportCurrent, Current
  <2>5. LitLinesCurrent' BY <1>0, <2>1, <2>3 DEF LitInv, LitLinesCurrent, Lit
  <2>6. QED BY <2>4, <2>5 DEF LitInv
<1>2. CASE ls # {}
  <2>1. /\ \A l \in Lines : shown'[l] = report'[l]
        /\ \A l \in ls : report'[l] = LedsOf(r, modeVals')
        /\ \A l \in Lines \ ls : report'[l] = report[l]
    BY <1>2, RedrawLit
  <2>2. ReportCurrent' BY <1>0, <2>1 DEF LitInv, ReportCurrent, Current
  <2>3. QED BY <2>1, <2>2, SentLit
<1>3. QED BY <1>1, <1>2

LEMMA ValLit ==
  ASSUME TypeOK, LitInv, NEW n \in Names, NEW x \in Freqs, ShowVal(n, x)
  PROVE  LitInv'
<1> DEFINE r == n[1]
<1>0. /\ r \in Radios /\ n = <<r, n[2]>> /\ modeVals \in [Names -> Values]
      /\ modeVals' = [modeVals EXCEPT ![n] = x] /\ knob' = knob
  <2>1. r \in Radios /\ n = <<r, n[2]>> BY DEF Names
  <2>2. QED BY <2>1 DEF TypeOK, ShowVal
<1>1. CASE modeVals[n] # x
  <2>1. Redraw(At(r), r, modeVals') BY <1>1 DEF ShowVal
  <2>2. ASSUME NEW s \in Radios, s # r
        PROVE  /\ modeVals'[<<s, "active">>] = modeVals[<<s, "active">>]
               /\ modeVals'[<<s, "stdby">>] = modeVals[<<s, "stdby">>]
    <3>1. n # <<s, "active">> /\ n # <<s, "stdby">> BY <1>0, <2>2
    <3>2. <<s, "active">> \in Names /\ <<s, "stdby">> \in Names BY DEF Names
    <3>3. QED BY <1>0, <3>1, <3>2
  <2>3. \A s \in Radios : s # r => LedsOf(s, modeVals') = LedsOf(s, modeVals)
    BY <2>2, SameLeds
  <2> HIDE DEF r
  <2>4. At(r) \in SUBSET Lines /\ "upper" \in Lines BY AtType DEF Lines
  <2>5. \A s \in Radios : s # r =>
          (modeVals'[<<s, "active">>] # modeVals'[<<s, "stdby">>] =>
             modeVals[<<s, "active">>] # modeVals[<<s, "stdby">>])
    BY <2>2
  <2>6. \A l \in Lines : l \in At(r) <=> knob[l] = r BY AtKnob
  <2>7. r \in Radios /\ knob' = knob BY <1>0 DEF r
  <2>8. QED BY <2>1, <2>3, <2>4, <2>5, <2>6, <2>7, RedrawnLit
<1>2. CASE modeVals[n] = x
  <2>1. modeVals' = modeVals BY <1>0, <1>2
  <2>2. QED BY <1>0, <1>2, <2>1, DarkLit DEF ShowVal
<1>3. QED BY <1>1, <1>2

LEMMA Com2Lit ==
  ASSUME TypeOK, LitInv, NEW x \in Freqs, "com2" \in Radios, ShowCom2Active(x)
  PROVE  LitInv'
<1>1. /\ modeVals' = [modeVals EXCEPT ![<<"com2", "active">>] = x, ![<<"com2", "stdby">>] = x]
      /\ knob' = knob
      /\ IF modeVals' # modeVals THEN Fill(At("com2"), "com2", modeVals') ELSE UNCHANGED report
      /\ shown' = report' \/ shown' = shown
  BY DEF ShowCom2Active, Send
<1>2. modeVals \in [Names -> Values] /\ <<"com2", "active">> \in Names /\ <<"com2", "stdby">> \in Names
  BY DEF TypeOK, Names
<1>3. modeVals'[<<"com2", "active">>] = x /\ modeVals'[<<"com2", "stdby">>] = x BY <1>1, <1>2
<1>4. LedsOf("com1", modeVals') = LedsOf("com1", modeVals)
  <2>1. /\ modeVals'[<<"com1", "active">>] = modeVals[<<"com1", "active">>]
        /\ modeVals'[<<"com1", "stdby">>] = modeVals[<<"com1", "stdby">>]
    <3>1. <<"com1", "active">> \in Names /\ <<"com1", "stdby">> \in Names
      BY RadioAssumption DEF Names
    <3>2. QED BY <1>1, <1>2, <3>1
  <2>2. QED BY <2>1, SameLeds
<1>5. /\ \A l \in Lines : knob[l] # "com2" => report'[l] = report[l]
      /\ modeVals' # modeVals => \A l \in Lines : knob[l] = "com2" =>
                                  report'[l] = LedsOf("com2", modeVals')
      /\ modeVals' = modeVals => report' = report
  BY <1>1 DEF Fill, At
<1>6. ReportCurrent'
  <2>1. CASE modeVals' = modeVals
    BY <1>1, <1>5, <2>1 DEF LitInv, ReportCurrent, Current, Lines
  <2>2. CASE modeVals' # modeVals
    BY <1>1, <1>4, <1>5, <2>2 DEF LitInv, ReportCurrent, Current, Lines
  <2>3. QED BY <2>1, <2>2
<1>7. LitLinesCurrent'
  <2>1. knob["upper"] = "com1" => Current("upper", "com1") /\ report'["upper"] = report["upper"]
    BY <1>5 DEF LitInv, ReportCurrent, Lines
  <2>2. /\ knob["upper"] = "com1" /\ shown["upper"] \notin {Junk, Dark}
             => shown["upper"] = LedsOf("com1", modeVals)
    BY DEF LitInv, LitLinesCurrent, Lit
  <2>3. /\ knob'["upper"] = "com1" /\ shown'["upper"] \notin {Junk, Dark}
             => shown'["upper"] = LedsOf("com1", modeVals')
    BY <1>1, <1>4, <2>1, <2>2 DEF Current
  <2>4. QED BY <1>3, <2>3 DEF LitLinesCurrent, Lit, LedsOf
<1>8. QED BY <1>6, <1>7 DEF LitInv

LEMMA TurnLit ==
  ASSUME TypeOK, LitInv, NEW t, ShowTurn(t)
  PROVE  LitInv'
<1> DEFINE n == cnt[Counter(t)] + 1
           ls == At("com1") \cap {"upper"}
<1>1. CASE n >= Thresh
  <2>1. /\ modeVals' = [modeVals EXCEPT ![<<"com1", "stdby">>] =
                           Step(t, modeVals[<<"com1", "stdby">>])]
        /\ Redraw(ls, "com1", modeVals') /\ knob' = knob
    BY <1>1 DEF ShowTurn
  <2>2. ASSUME NEW s \in Radios, s # "com1"
        PROVE  /\ modeVals'[<<s, "active">>] = modeVals[<<s, "active">>]
               /\ modeVals'[<<s, "stdby">>] = modeVals[<<s, "stdby">>]
    <3>1. <<s, "active">> \in Names /\ <<s, "stdby">> \in Names BY DEF Names
    <3>2. QED BY <2>1, <2>2, <3>1 DEF TypeOK
  <2>3. \A s \in Radios : s # "com1" => LedsOf(s, modeVals') = LedsOf(s, modeVals)
    BY <2>2, SameLeds
  <2>4. ls \in SUBSET Lines /\ "upper" \in Lines /\ "com1" \in Radios
    BY AtType, RadioAssumption DEF Lines
  <2>5. /\ \A l \in Lines : l \in ls => knob[l] = "com1"
        /\ knob["upper"] = "com1" => "upper" \in ls
    BY <2>4, AtKnob
  <2> HIDE DEF ls
  <2>6. \A s \in Radios : s # "com1" =>
          (modeVals'[<<s, "active">>] # modeVals'[<<s, "stdby">>] =>
             modeVals[<<s, "active">>] # modeVals[<<s, "stdby">>])
    BY <2>2
  <2>7. QED BY <2>1, <2>3, <2>4, <2>5, <2>6, RedrawnLit
<1>2. CASE ~(n >= Thresh) BY <1>2, DarkLit DEF ShowTurn
<1>3. QED BY <1>1, <1>2

LEMMA AgainLit ==
  ASSUME TypeOK, LitInv, NEW r \in Radios, ShowAgain(r)
  PROVE  LitInv'
<1>1. Redraw(At(r), r, modeVals') /\ knob' = knob /\ modeVals' = modeVals BY DEF ShowAgain
<1>2. r \in {"com1", "com2"} /\ At(r) \in SUBSET Lines /\ "upper" \in Lines
  BY RadioAssumption, AtType DEF Lines
<1>3. \A l \in Lines : l \in At(r) <=> knob[l] = r BY AtKnob
<1>4. QED BY <1>1, <1>2, <1>3, RedrawnLit

LEMMA BlankLit ==
  ASSUME LitInv, ShowBlank
  PROVE  LitInv'
<1>1. \A l \in Lines : shown'[l] = Dark BY DEF ShowBlank
<1>2. ReportCurrent' BY DEF ShowBlank, LitInv, ReportCurrent, Current
<1>3. LitLinesCurrent' BY <1>1 DEF LitLinesCurrent, Lit, Lines
<1>4. QED BY <1>2, <1>3 DEF LitInv

LEMMA ShowLit ==
  ASSUME TypeOK, LitInv, NEW m \in Msg, Show(m)
  PROVE  LitInv'
<1>1. CASE m = Blank /\ ShowBlank BY <1>1, BlankLit
<1>2. CASE m \in Knobs /\ ShowKnob(m[2], m[3]) BY <1>2, MsgShape, KnobLit
<1>3. CASE m \in Turns /\ m[2] = "com1" /\ ShowTurn(m[3]) BY <1>3, TurnLit
<1>4. CASE m \in Turns /\ m[2] # "com1" /\ ShowAgain("com2")
  <2>1. m[2] = "com2" /\ m[2] \in Radios BY <1>4, MsgShape, RadioAssumption
  <2>2. QED BY <1>4, <2>1, AgainLit
<1>5. CASE m \in Flips /\ ShowAgain(m[2]) BY <1>5, MsgShape, AgainLit
<1>6. CASE m[1] = "val" /\ m[2] = "com2" /\ m[3] = "active" /\ ShowCom2Active(m[4])
  <2>1. m[2] \in Radios /\ m[4] \in Freqs BY <1>6, MsgShape
  <2>2. QED BY <1>6, <2>1, Com2Lit
<1>7. CASE m[1] = "val" /\ ShowVal(<<m[2], m[3]>>, m[4])
  <2>1. <<m[2], m[3]>> \in Names /\ m[4] \in Freqs BY <1>7, MsgShape DEF Names
  <2>2. QED BY <1>7, <2>1, ValLit
<1>8. QED BY <1>1, <1>2, <1>3, <1>4, <1>5, <1>6, <1>7 DEF Show

(* A lit line shows what the panel keeps of the radio its knob selects:    *)
(* the upper one for COM1, and both for COM2 with two different            *)
(* frequencies, for any threshold, word and number of places.              *)
THEOREM LinesCurrent == Spec => []LitLinesCurrent
<1>1. Init => LitInv
  BY DEF Init, LitInv, ReportCurrent, Current, LitLinesCurrent, Lit, Lines
<1>2. TypeOK /\ LitInv /\ [Next]_vars => LitInv'
  <2>1. SUFFICES ASSUME TypeOK, LitInv, [Next]_vars PROVE LitInv' OBVIOUS
  <2>2. CASE ToShow
    <3>1. ojq \in Seq(Msg) /\ ojq # <<>> /\ Show(Head(ojq)) BY <2>1, <2>2 DEF TypeOK, ToShow
    <3>2. Head(ojq) \in Msg BY <3>1, Taken
    <3>3. QED BY <2>1, <3>1, <3>2, ShowLit
  <2>3. CASE UNCHANGED <<modeVals, knob, report, shown>> BY <2>1, <2>3, DarkLit
  <2>4. QED BY <2>1, <2>2, <2>3
    DEF Next, vars, toVars, Report, Deliver, FlightLoop, Keyboard, Silent, MainPost, PlaneLoaded,
        PlaneUnloaded, Enable, Disable, DisablePark, PurgeTake, PurgeNext, ToWake
<1>3. LitInv => LitLinesCurrent BY DEF LitInv
<1>4. QED BY <1>1, <1>2, <1>3, Types, PTL DEF Spec
=============================================================================
