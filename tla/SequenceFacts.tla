---------------------------- MODULE SequenceFacts ----------------------------
(***************************************************************************)
(* Facts about sequences for the proofs about the job queues: what a post  *)
(* at the end, an urgent post at the head and a get at the head do to the  *)
(* last message of a kind.                                                 *)
(***************************************************************************)
EXTENDS Integers, Sequences, TLAPS

LEMMA Appended ==
  ASSUME NEW S, NEW s \in Seq(S), NEW e \in S
  PROVE  /\ Append(s, e) \in Seq(S) /\ Len(Append(s, e)) = Len(s) + 1 /\ Len(s) \in Nat
         /\ \A i \in 1..Len(s) : Append(s, e)[i] = s[i]
         /\ Append(s, e)[Len(s) + 1] = e
OBVIOUS

LEMMA Taken ==
  ASSUME NEW S, NEW s \in Seq(S), s # <<>>
  PROVE  /\ Head(s) \in S /\ Head(s) = s[1] /\ Len(s) \in Nat \ {0}
         /\ Tail(s) \in Seq(S) /\ Len(Tail(s)) = Len(s) - 1
         /\ \A i \in 1..Len(Tail(s)) : Tail(s)[i] = s[i + 1]
OBVIOUS

LEMMA Joined ==
  ASSUME NEW S, NEW s \in Seq(S), NEW t \in Seq(S)
  PROVE  /\ s \o t \in Seq(S) /\ Len(s \o t) = Len(s) + Len(t)
         /\ Len(s) \in Nat /\ Len(t) \in Nat
         /\ \A i \in 1..(Len(s) + Len(t)) :
              (s \o t)[i] = IF i <= Len(s) THEN s[i] ELSE t[i - Len(s)]
OBVIOUS

LEMMA Listed ==
  ASSUME NEW S, NEW a \in S, NEW b \in S, NEW c \in S
  PROVE  /\ <<a>> \o <<b>> \in Seq(S) /\ Len(<<a>> \o <<b>>) = 2
         /\ (<<a>> \o <<b>>)[1] = a /\ (<<a>> \o <<b>>)[2] = b
         /\ <<a>> \o <<b, c>> \in Seq(S) /\ Len(<<a>> \o <<b, c>>) = 3
         /\ (<<a>> \o <<b, c>>)[1] = a /\ (<<a>> \o <<b, c>>)[2] = b
         /\ (<<a>> \o <<b, c>>)[3] = c
<1>1. <<a>> \in Seq(S) /\ <<b>> \in Seq(S) /\ <<b, c>> \in Seq(S) OBVIOUS
<1>2. QED BY <1>1

LEMMA JoinedPairs ==
  ASSUME NEW S, NEW a \in S, NEW b \in S, NEW c \in S, NEW d \in S
  PROVE  /\ <<a, b>> \o <<c, d>> \in Seq(S) /\ Len(<<a, b>> \o <<c, d>>) = 4
         /\ (<<a, b>> \o <<c, d>>)[1] = a /\ (<<a, b>> \o <<c, d>>)[2] = b
         /\ (<<a, b>> \o <<c, d>>)[3] = c /\ (<<a, b>> \o <<c, d>>)[4] = d
         /\ <<>> \o <<c, d>> \in Seq(S) /\ Len(<<>> \o <<c, d>>) = 2
         /\ (<<>> \o <<c, d>>)[1] = c /\ (<<>> \o <<c, d>>)[2] = d
OBVIOUS

\* The members of u are those of s and of t.
Mixes(u, s, t) ==
  /\ \A i \in 1..Len(u) : \/ \E j \in 1..Len(s) : u[i] = s[j]
                         \/ \E j \in 1..Len(t) : u[i] = t[j]
  /\ \A j \in 1..Len(s) : \E i \in 1..Len(u) : u[i] = s[j]
  /\ \A j \in 1..Len(t) : \E i \in 1..Len(u) : u[i] = t[j]

LEMMA JoinedFrom ==
  ASSUME NEW S, NEW s \in Seq(S), NEW t \in Seq(S)
  PROVE  Mixes(s \o t, s, t)
<1>0. /\ Len(s \o t) = Len(s) + Len(t) /\ Len(s) \in Nat /\ Len(t) \in Nat
      /\ \A i \in 1..(Len(s) + Len(t)) :
           (s \o t)[i] = IF i <= Len(s) THEN s[i] ELSE t[i - Len(s)]
  BY Joined
<1>1. ASSUME NEW i \in 1..Len(s \o t)
      PROVE  \/ \E j \in 1..Len(s) : (s \o t)[i] = s[j]
             \/ \E j \in 1..Len(t) : (s \o t)[i] = t[j]
  <2>1. CASE i <= Len(s)
    <3>1. i \in 1..Len(s) /\ (s \o t)[i] = s[i] BY <1>0, <2>1
    <3>2. QED BY <3>1
  <2>2. CASE ~(i <= Len(s))
    <3>1. i - Len(s) \in 1..Len(t) /\ (s \o t)[i] = t[i - Len(s)] BY <1>0, <2>2
    <3>2. QED BY <3>1
  <2>3. QED BY <2>1, <2>2
<1>2. ASSUME NEW j \in 1..Len(s) PROVE \E i \in 1..Len(s \o t) : (s \o t)[i] = s[j]
  <2>1. j \in 1..Len(s \o t) /\ (s \o t)[j] = s[j] BY <1>0
  <2>2. QED BY <2>1
<1>3. ASSUME NEW j \in 1..Len(t) PROVE \E i \in 1..Len(s \o t) : (s \o t)[i] = t[j]
  <2>1. Len(s) + j \in 1..Len(s \o t) /\ (s \o t)[Len(s) + j] = t[j] BY <1>0
  <2>2. QED BY <2>1
<1>4. QED BY <1>1, <1>2, <1>3 DEF Mixes
----------------------------------------------------------------------------
\* One of the set P is in q; the last of them in q, if any, is w.
Holds(q, P) == \E i \in 1..Len(q) : q[i] \in P
EndsWith(q, P, w) ==
  \A i \in 1..Len(q) : q[i] \in P => q[i] = w \/ \E j \in (i + 1)..Len(q) : q[j] \in P

LEMMA HoldsAppended ==
  ASSUME NEW S, NEW q \in Seq(S), NEW m \in S, NEW P
  PROVE  Holds(Append(q, m), P) <=> Holds(q, P) \/ m \in P
<1> DEFINE a == Append(q, m)
<1>1. /\ Len(a) = Len(q) + 1 /\ Len(q) \in Nat /\ a[Len(q) + 1] = m
      /\ \A i \in 1..Len(q) : a[i] = q[i]
  BY Appended
<1> HIDE DEF a
<1>2. ASSUME Holds(q, P) PROVE Holds(a, P)
  <2>1. PICK i \in 1..Len(q) : q[i] \in P BY <1>2 DEF Holds
  <2>2. i \in 1..Len(a) /\ a[i] \in P BY <2>1, <1>1
  <2>3. QED BY <2>2 DEF Holds
<1>3. ASSUME m \in P PROVE Holds(a, P)
  <2>1. Len(q) + 1 \in 1..Len(a) /\ a[Len(q) + 1] \in P BY <1>1, <1>3
  <2>2. QED BY <2>1 DEF Holds
<1>4. ASSUME Holds(a, P) PROVE Holds(q, P) \/ m \in P
  <2>1. PICK i \in 1..Len(a) : a[i] \in P BY <1>4 DEF Holds
  <2>2. CASE i = Len(q) + 1 BY <2>1, <2>2, <1>1
  <2>3. CASE i # Len(q) + 1
    <3>1. i \in 1..Len(q) /\ q[i] \in P BY <2>1, <2>3, <1>1
    <3>2. QED BY <3>1 DEF Holds
  <2>4. QED BY <2>2, <2>3
<1>5. QED BY <1>2, <1>3, <1>4 DEF a

LEMMA EndsAppendedWith ==
  ASSUME NEW S, NEW q \in Seq(S), NEW m \in S, NEW P, NEW w,
         m = w \/ (m \notin P /\ EndsWith(q, P, w)), w \in P
  PROVE  EndsWith(Append(q, m), P, w)
<1> DEFINE a == Append(q, m)
<1>1. /\ Len(a) = Len(q) + 1 /\ Len(q) \in Nat /\ a[Len(q) + 1] = m
      /\ \A i \in 1..Len(q) : a[i] = q[i]
  BY Appended
<1> HIDE DEF a
<1>2. SUFFICES ASSUME NEW i \in 1..Len(a), a[i] \in P
               PROVE  a[i] = w \/ \E j \in (i + 1)..Len(a) : a[j] \in P
  BY DEF EndsWith, a
<1>3. CASE m = w
  <2>1. CASE i = Len(q) + 1 BY <2>1, <1>1, <1>3
  <2>2. CASE i # Len(q) + 1
    <3>1. Len(a) \in (i + 1)..Len(a) /\ a[Len(a)] \in P BY <2>2, <1>1, <1>3
    <3>2. QED BY <3>1
  <2>3. QED BY <2>1, <2>2
<1>4. CASE m \notin P /\ EndsWith(q, P, w)
  <2>1. i \in 1..Len(q) /\ q[i] \in P BY <1>1, <1>2, <1>4
  <2>2. CASE q[i] = w BY <2>1, <2>2, <1>1
  <2>3. CASE \E j \in (i + 1)..Len(q) : q[j] \in P
    <3>1. PICK j \in (i + 1)..Len(q) : q[j] \in P BY <2>3
    <3>2. j \in (i + 1)..Len(a) /\ a[j] = q[j] BY <3>1, <2>1, <1>1
    <3>3. QED BY <3>1, <3>2
  <2>4. QED BY <2>1, <2>2, <2>3, <1>4 DEF EndsWith
<1>5. QED BY <1>3, <1>4

LEMMA HoldsTaken ==
  ASSUME NEW S, NEW q \in Seq(S), q # <<>>, NEW P
  PROVE  Holds(q, P) <=> Head(q) \in P \/ Holds(Tail(q), P)
<1> DEFINE t == Tail(q)
<1>1. /\ Head(q) = q[1] /\ Len(q) \in Nat \ {0} /\ Len(t) = Len(q) - 1
      /\ \A i \in 1..Len(t) : t[i] = q[i + 1]
  BY Taken
<1> HIDE DEF t
<1>2. ASSUME Holds(q, P), Head(q) \notin P PROVE Holds(t, P)
  <2>1. PICK j \in 1..Len(q) : q[j] \in P BY <1>2 DEF Holds
  <2>2. j - 1 \in 1..Len(t) /\ (j - 1) + 1 = j BY <1>1, <1>2, <2>1
  <2>3. t[j - 1] = q[j] BY <1>1, <2>2
  <2>4. QED BY <2>1, <2>2, <2>3 DEF Holds
<1>3. ASSUME Head(q) \in P PROVE Holds(q, P)
  <2>1. 1 \in 1..Len(q) BY <1>1
  <2>2. QED BY <2>1, <1>1, <1>3 DEF Holds
<1>4. ASSUME Holds(t, P) PROVE Holds(q, P)
  <2>1. PICK j \in 1..Len(t) : t[j] \in P BY <1>4 DEF Holds
  <2>2. j + 1 \in 1..Len(q) /\ q[j + 1] \in P BY <1>1, <2>1
  <2>3. QED BY <2>2 DEF Holds
<1>5. QED BY <1>2, <1>3, <1>4 DEF t

LEMMA EndsTakenWith ==
  ASSUME NEW S, NEW q \in Seq(S), q # <<>>, NEW P, NEW w, EndsWith(q, P, w)
  PROVE  /\ EndsWith(Tail(q), P, w)
         /\ Head(q) \in P /\ ~Holds(Tail(q), P) => Head(q) = w
<1> DEFINE t == Tail(q)
<1>1. /\ Head(q) = q[1] /\ Len(q) \in Nat \ {0} /\ Len(t) = Len(q) - 1
      /\ \A i \in 1..Len(t) : t[i] = q[i + 1]
  BY Taken
<1> HIDE DEF t
<1>2. ASSUME NEW i \in 1..Len(q), NEW j \in (i + 1)..Len(q), q[j] \in P
      PROVE  j - 1 \in i..Len(t) /\ j - 1 \in 1..Len(t) /\ t[j - 1] \in P
  <2>1. j - 1 \in i..Len(t) /\ j - 1 \in 1..Len(t) /\ (j - 1) + 1 = j BY <1>1
  <2>2. t[j - 1] = q[j] BY <1>1, <2>1
  <2>3. QED BY <1>2, <2>1, <2>2
<1>3. ASSUME NEW i \in 1..Len(t), t[i] \in P
      PROVE  t[i] = w \/ \E j \in (i + 1)..Len(t) : t[j] \in P
  <2>1. i + 1 \in 1..Len(q) /\ t[i] = q[i + 1] BY <1>1
  <2>2. CASE q[i + 1] = w BY <2>1, <2>2
  <2>3. CASE \E j \in (i + 1 + 1)..Len(q) : q[j] \in P
    <3>1. PICK j \in (i + 1 + 1)..Len(q) : q[j] \in P BY <2>3
    <3>2. j - 1 \in (i + 1)..Len(t) /\ t[j - 1] \in P BY <3>1, <2>1, <1>2
    <3>3. QED BY <3>2
  <2>4. QED BY <2>1, <2>2, <2>3, <1>3 DEF EndsWith
<1>4. ASSUME Head(q) \in P, ~Holds(t, P) PROVE Head(q) = w
  <2>1. 1 \in 1..Len(q) /\ q[1] \in P BY <1>1, <1>4
  <2>2. CASE \E j \in (1 + 1)..Len(q) : q[j] \in P
    <3>1. PICK j \in (1 + 1)..Len(q) : q[j] \in P BY <2>2
    <3>2. j - 1 \in 1..Len(t) /\ t[j - 1] \in P BY <3>1, <2>1, <1>2
    <3>3. QED BY <3>2, <1>4 DEF Holds
  <2>3. QED BY <2>1, <2>2, <1>1 DEF EndsWith
<1>5. QED BY <1>3, <1>4 DEF EndsWith, t

\* An urgent post of something else.
LEMMA Preposted ==
  ASSUME NEW S, NEW q \in Seq(S), NEW e \in S, NEW P, e \notin P
  PROVE  /\ <<e>> \o q \in Seq(S) /\ Len(<<e>> \o q) = Len(q) + 1 /\ Len(q) \in Nat
         /\ \A i \in 1..Len(<<e>> \o q) : (<<e>> \o q)[i] = IF i = 1 THEN e ELSE q[i - 1]
         /\ Holds(<<e>> \o q, P) <=> Holds(q, P)
         /\ \A w : EndsWith(q, P, w) => EndsWith(<<e>> \o q, P, w)
<1> DEFINE b == <<e>>
           u == b \o q
<1>1. b \in Seq(S) /\ Len(b) = 1 /\ b[1] = e OBVIOUS
<1> HIDE DEF b
<1>2. /\ u \in Seq(S) /\ Len(u) = Len(b) + Len(q) /\ Len(q) \in Nat
      /\ \A i \in 1..(Len(b) + Len(q)) : u[i] = IF i <= Len(b) THEN b[i] ELSE q[i - Len(b)]
  BY <1>1, Joined
<1> HIDE DEF u
<1>3. \A i \in 1..Len(u) : u[i] = IF i = 1 THEN e ELSE q[i - 1] BY <1>1, <1>2
<1>4. ASSUME Holds(q, P) PROVE Holds(u, P)
  <2>1. PICK i \in 1..Len(q) : q[i] \in P BY <1>4 DEF Holds
  <2>2. i + 1 \in 1..Len(u) /\ u[i + 1] = q[i] BY <1>1, <1>2, <1>3
  <2>3. QED BY <2>1, <2>2 DEF Holds
<1>5. ASSUME NEW i \in 1..Len(u), u[i] \in P
      PROVE  i - 1 \in 1..Len(q) /\ u[i] = q[i - 1]
  BY <1>1, <1>2, <1>3, <1>5
<1>6. ASSUME Holds(u, P) PROVE Holds(q, P)
  <2>1. PICK i \in 1..Len(u) : u[i] \in P BY <1>6 DEF Holds
  <2>2. QED BY <2>1, <1>5 DEF Holds
<1>7. ASSUME NEW w, EndsWith(q, P, w) PROVE EndsWith(u, P, w)
  <2>1. SUFFICES ASSUME NEW i \in 1..Len(u), u[i] \in P
                 PROVE  u[i] = w \/ \E j \in (i + 1)..Len(u) : u[j] \in P
    BY DEF EndsWith
  <2>2. i - 1 \in 1..Len(q) /\ u[i] = q[i - 1] BY <2>1, <1>5
  <2>3. CASE \E j \in (i - 1 + 1)..Len(q) : q[j] \in P
    <3>1. PICK j \in (i - 1 + 1)..Len(q) : q[j] \in P BY <2>3
    <3>2. j + 1 \in (i + 1)..Len(u) /\ j + 1 \in 1..Len(u) /\ j + 1 # 1 /\ (j + 1) - 1 = j
      BY <3>1, <2>2, <1>1, <1>2
    <3>3. u[j + 1] = q[j] BY <3>2, <1>3
    <3>4. QED BY <3>1, <3>2, <3>3
  <2>4. QED BY <2>1, <2>2, <2>3, <1>7 DEF EndsWith
<1>8. QED BY <1>1, <1>2, <1>3, <1>4, <1>6, <1>7 DEF b, u
----------------------------------------------------------------------------
\* Each of the set T in q has one of the set V after it; or each but the last.
After(q, i, V)  == \E j \in (i + 1)..Len(q) : q[j] \in V
Closed(q, T, V) == \A i \in 1..Len(q) : q[i] \in T => After(q, i, V)
Spaced(q, T, V) ==
  \A i \in 1..Len(q) : \A j \in (i + 1)..Len(q) : q[i] \in T /\ q[j] \in T => After(q, i, V)

LEMMA ClosedSpaced == \A q, T, V : Closed(q, T, V) => Spaced(q, T, V)
BY DEF Closed, Spaced

LEMMA SpacedAppended ==
  ASSUME NEW S, NEW q \in Seq(S), NEW m \in S, NEW T, NEW V
  PROVE  /\ m \notin T /\ (m \in V \/ Closed(q, T, V)) => Closed(Append(q, m), T, V)
         /\ Closed(q, T, V) => Spaced(Append(q, m), T, V)
         /\ m \notin T /\ Spaced(q, T, V) => Spaced(Append(q, m), T, V)
<1> DEFINE a == Append(q, m)
<1>1. /\ Len(a) = Len(q) + 1 /\ Len(q) \in Nat /\ a[Len(q) + 1] = m
      /\ \A i \in 1..Len(q) : a[i] = q[i]
  BY Appended
<1> HIDE DEF a
<1>2. ASSUME NEW i \in 1..Len(q), After(q, i, V) PROVE After(a, i, V)
  <2>1. PICK j \in (i + 1)..Len(q) : q[j] \in V BY <1>2 DEF After
  <2>2. j \in (i + 1)..Len(a) /\ a[j] = q[j] BY <2>1, <1>1
  <2>3. QED BY <2>1, <2>2 DEF After
<1>3. ASSUME m \in V, NEW i \in 1..Len(q) PROVE After(a, i, V)
  <2>1. Len(q) + 1 \in (i + 1)..Len(a) BY <1>1
  <2>2. QED BY <2>1, <1>1, <1>3 DEF After
<1>4. \A i \in 1..Len(a) : i \in 1..Len(q) \/ i = Len(q) + 1 BY <1>1
<1>5. ASSUME m \notin T, m \in V \/ Closed(q, T, V) PROVE Closed(a, T, V)
  <2>1. SUFFICES ASSUME NEW i \in 1..Len(a), a[i] \in T PROVE After(a, i, V) BY DEF Closed
  <2>2. i \in 1..Len(q) /\ q[i] \in T BY <2>1, <1>1, <1>4, <1>5
  <2>3. QED BY <2>2, <1>2, <1>3, <1>5 DEF Closed
<1>6. ASSUME NEW i \in 1..Len(a), NEW j \in (i + 1)..Len(a) PROVE i \in 1..Len(q) BY <1>1
<1>7. ASSUME Closed(q, T, V) PROVE Spaced(a, T, V)
  <2>1. SUFFICES ASSUME NEW i \in 1..Len(a), NEW j \in (i + 1)..Len(a), a[i] \in T
                 PROVE  After(a, i, V)
    BY DEF Spaced
  <2>2. i \in 1..Len(q) BY <1>6
  <2>3. q[i] \in T BY <2>1, <2>2, <1>1
  <2>4. QED BY <2>2, <2>3, <1>2, <1>7 DEF Closed
<1>8. ASSUME m \notin T, Spaced(q, T, V) PROVE Spaced(a, T, V)
  <2>1. SUFFICES ASSUME NEW i \in 1..Len(a), NEW j \in (i + 1)..Len(a), a[i] \in T, a[j] \in T
                 PROVE  After(a, i, V)
    BY DEF Spaced
  <2>2. i \in 1..Len(q) BY <1>6
  <2>3. j # Len(q) + 1 BY <2>1, <1>1, <1>8
  <2>4. j \in (i + 1)..Len(q) /\ j \in 1..Len(q) BY <2>2, <2>3, <1>1
  <2>5. q[i] \in T /\ q[j] \in T BY <2>1, <2>2, <2>4, <1>1
  <2>6. After(q, i, V) BY <2>2, <2>4, <2>5, <1>8 DEF Spaced
  <2>7. QED BY <2>2, <2>6, <1>2
<1>9. QED BY <1>5, <1>7, <1>8 DEF a

LEMMA SpacedTaken ==
  ASSUME NEW S, NEW q \in Seq(S), q # <<>>, NEW T, NEW V
  PROVE  /\ Closed(q, T, V) => Closed(Tail(q), T, V)
         /\ Spaced(q, T, V) => Spaced(Tail(q), T, V)
         /\ Head(q) \in T /\ ~Holds(Tail(q), V) =>
              /\ ~Closed(q, T, V)
              /\ Spaced(q, T, V) => ~Holds(Tail(q), T)
<1> DEFINE t == Tail(q)
<1>1. /\ Head(q) = q[1] /\ Len(q) \in Nat \ {0} /\ Len(t) = Len(q) - 1
      /\ \A i \in 1..Len(t) : t[i] = q[i + 1]
  BY Taken
<1> HIDE DEF t
<1>2. ASSUME NEW i \in 1..Len(t), After(q, i + 1, V) PROVE After(t, i, V)
  <2>1. PICK j \in (i + 1 + 1)..Len(q) : q[j] \in V BY <1>2 DEF After
  <2>2. j - 1 \in (i + 1)..Len(t) /\ j - 1 \in 1..Len(t) /\ (j - 1) + 1 = j BY <2>1, <1>1
  <2>3. t[j - 1] = q[j] BY <2>2, <1>1
  <2>4. QED BY <2>1, <2>2, <2>3 DEF After
<1>3. ASSUME Closed(q, T, V) PROVE Closed(t, T, V)
  <2>1. SUFFICES ASSUME NEW i \in 1..Len(t), t[i] \in T PROVE After(t, i, V) BY DEF Closed
  <2>2. i + 1 \in 1..Len(q) /\ q[i + 1] \in T BY <2>1, <1>1
  <2>3. QED BY <2>2, <1>2, <1>3 DEF Closed
<1>4. ASSUME Spaced(q, T, V) PROVE Spaced(t, T, V)
  <2>1. SUFFICES ASSUME NEW i \in 1..Len(t), NEW j \in (i + 1)..Len(t), t[i] \in T, t[j] \in T
                 PROVE  After(t, i, V)
    BY DEF Spaced
  <2>2. i + 1 \in 1..Len(q) /\ j + 1 \in (i + 1 + 1)..Len(q) /\ j \in 1..Len(t) BY <2>1, <1>1
  <2>3. q[i + 1] \in T /\ q[j + 1] \in T BY <2>1, <2>2, <1>1
  <2>4. After(q, i + 1, V) BY <2>2, <2>3, <1>4 DEF Spaced
  <2>5. QED BY <2>4, <1>2
<1>5. ASSUME After(q, 1, V) PROVE Holds(t, V)
  <2>1. PICK j \in (1 + 1)..Len(q) : q[j] \in V BY <1>5 DEF After
  <2>2. j - 1 \in 1..Len(t) /\ (j - 1) + 1 = j BY <2>1, <1>1
  <2>3. t[j - 1] = q[j] BY <2>2, <1>1
  <2>4. QED BY <2>1, <2>2, <2>3 DEF Holds
<1>6. ASSUME Head(q) \in T, ~Holds(t, V) PROVE ~Closed(q, T, V)
  <2>1. 1 \in 1..Len(q) /\ q[1] \in T BY <1>1, <1>6
  <2>2. QED BY <2>1, <1>5, <1>6 DEF Closed
<1>7. ASSUME Head(q) \in T, ~Holds(t, V), Spaced(q, T, V), Holds(t, T) PROVE FALSE
  <2>1. PICK j \in 1..Len(t) : t[j] \in T BY <1>7 DEF Holds
  <2>2. 1 \in 1..Len(q) /\ q[1] \in T /\ j + 1 \in (1 + 1)..Len(q) /\ q[j + 1] \in T
    BY <2>1, <1>1, <1>7
  <2>3. After(q, 1, V) BY <2>2, <1>7 DEF Spaced
  <2>4. QED BY <2>3, <1>5, <1>7
<1>8. QED BY <1>3, <1>4, <1>6, <1>7 DEF t

LEMMA SpacedPreposted ==
  ASSUME NEW S, NEW q \in Seq(S), NEW e \in S, NEW T, NEW V, e \notin T
  PROVE  /\ Closed(q, T, V) => Closed(<<e>> \o q, T, V)
         /\ Spaced(q, T, V) => Spaced(<<e>> \o q, T, V)
<1> DEFINE u == <<e>> \o q
<1>1. /\ Len(u) = Len(q) + 1 /\ Len(q) \in Nat
      /\ \A i \in 1..Len(u) : u[i] = IF i = 1 THEN e ELSE q[i - 1]
  BY Preposted
<1> HIDE DEF u
<1>2. ASSUME NEW i \in 1..Len(q), After(q, i, V) PROVE After(u, i + 1, V)
  <2>1. PICK j \in (i + 1)..Len(q) : q[j] \in V BY <1>2 DEF After
  <2>2. j + 1 \in (i + 1 + 1)..Len(u) /\ j + 1 \in 1..Len(u) /\ j + 1 # 1 /\ (j + 1) - 1 = j
    BY <2>1, <1>1
  <2>3. u[j + 1] = q[j] BY <2>2, <1>1
  <2>4. QED BY <2>1, <2>2, <2>3 DEF After
<1>3. ASSUME NEW i \in 1..Len(u), u[i] \in T
      PROVE  i - 1 \in 1..Len(q) /\ q[i - 1] \in T /\ (i - 1) + 1 = i
  BY <1>1, <1>3
<1>4. ASSUME Closed(q, T, V) PROVE Closed(u, T, V)
  <2>1. SUFFICES ASSUME NEW i \in 1..Len(u), u[i] \in T PROVE After(u, i, V) BY DEF Closed
  <2>2. i - 1 \in 1..Len(q) /\ q[i - 1] \in T /\ (i - 1) + 1 = i BY <2>1, <1>3
  <2>3. After(q, i - 1, V) BY <2>2, <1>4 DEF Closed
  <2>4. After(u, (i - 1) + 1, V) BY <2>2, <2>3, <1>2
  <2>5. QED BY <2>2, <2>4
<1>5. ASSUME Spaced(q, T, V) PROVE Spaced(u, T, V)
  <2>1. SUFFICES ASSUME NEW i \in 1..Len(u), NEW j \in (i + 1)..Len(u), u[i] \in T, u[j] \in T
                 PROVE  After(u, i, V)
    BY DEF Spaced
  <2>2. i - 1 \in 1..Len(q) /\ q[i - 1] \in T /\ (i - 1) + 1 = i BY <2>1, <1>3
  <2>3. j \in 1..Len(u) BY <2>1, <1>1
  <2>4. j - 1 \in ((i - 1) + 1)..Len(q) /\ q[j - 1] \in T BY <2>1, <2>2, <2>3, <1>3
  <2>5. After(q, i - 1, V) BY <2>2, <2>4, <1>5 DEF Spaced
  <2>6. After(u, (i - 1) + 1, V) BY <2>2, <2>5, <1>2
  <2>7. QED BY <2>2, <2>6
<1>6. QED BY <1>4, <1>5 DEF u
=============================================================================
