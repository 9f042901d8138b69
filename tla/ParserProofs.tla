----------------------------- MODULE ParserProofs -----------------------------
(***************************************************************************)
(* What is proved of the parser, for every format string: it stays within  *)
(* the text and within its tables, it advances with every step, only an    *)
(* open list of separators makes it look behind the terminator, and what   *)
(* it accepts ends at the first place that closes it.                      *)
(***************************************************************************)
EXTENDS Parser, Utf8Proofs

--------------------------------------------------------------------------------
(* Texts: sequences of whatever characters.                                    *)

IsText(s) == \E S : s \in Seq(S)

LEMMA TextOf ==
  /\ IsText(<<>>) /\ Len(<<>>) = 0
  /\ \A c : IsText(<<c>>)
  /\ \A c, d : IsText(<<c, d>>)
<1>1. <<>> \in Seq({})
  OBVIOUS
<1>2. \A c : <<c>> \in Seq({c})
  OBVIOUS
<1>3. \A c, d : <<c, d>> \in Seq({c, d})
  OBVIOUS
<1>4. Len(<<>>) = 0
  OBVIOUS
<1> QED
  BY <1>1, <1>2, <1>3, <1>4, Zenon DEF IsText

LEMMA TextLength ==
  ASSUME NEW s, IsText(s)
  PROVE  Len(s) \in Nat
<1>1. PICK S : s \in Seq(S)
  BY DEF IsText
<1> QED
  BY <1>1

LEMMA TextsJoined ==
  ASSUME NEW s, NEW t, IsText(s), IsText(t)
  PROVE  IsText(s \o t) /\ Len(s \o t) = Len(s) + Len(t)
<1>1. PICK S : s \in Seq(S)
  BY DEF IsText
<1>2. PICK T : t \in Seq(T)
  BY DEF IsText
<1>3. s \in Seq(S \cup T) /\ t \in Seq(S \cup T)
  BY <1>1, <1>2
<1> DEFINE U == S \cup T
<1> HIDE DEF U
<1>4. s \o t \in Seq(U) /\ Len(s \o t) = Len(s) + Len(t)
  BY <1>3, ConcatProperties DEF U
<1> QED
  BY <1>4 DEF IsText

LEMMA TextRepeated ==
  ASSUME NEW n \in Nat, NEW c
  PROVE  IsText([i \in 1..n |-> c])
<1>1. [i \in 1..n |-> c] \in Seq({c})
  OBVIOUS
<1> QED
  BY <1>1 DEF IsText

\* The characters of a text are its own.
LEMMA TextCharacters ==
  ASSUME NEW s, IsText(s)
  PROVE  s \in Seq({s[k] : k \in 1..Len(s)})
<1>1. PICK S : s \in Seq(S)
  BY DEF IsText
<1>2. Len(s) \in Nat /\ s = [k \in 1..Len(s) |-> s[k]]
  BY <1>1
<1> QED
  BY <1>2

LEMMA JoinedThrice ==
  ASSUME NEW s, NEW t, NEW u, IsText(s), IsText(t), IsText(u)
  PROVE  (s \o t) \o u = s \o (t \o u)
<1>1. PICK S : s \in Seq(S)
  BY DEF IsText
<1>2. PICK T : t \in Seq(T)
  BY DEF IsText
<1>3. PICK W : u \in Seq(W)
  BY DEF IsText
<1> DEFINE X == S \cup T \cup W
<1>4. s \in Seq(X) /\ t \in Seq(X) /\ u \in Seq(X)
  BY <1>1, <1>2, <1>3
<1> HIDE DEF X
<1> QED
  BY <1>4, ConcatAssociative

\* G has a step in X for every place behind a, and f is made of its steps.
Takes(G, a, n, X) == \A j \in (a + 1)..n : G[j] \in [X -> X]

Upward(f, a, n, X, G) == \A j \in (a + 1)..n : f[j - 1] \in X => f[j] = G[j][f[j - 1]]

\* A recursive function on an interval exists, if each step stays in the set X.
LEMMA UpwardExists ==
  ASSUME NEW a \in Nat, NEW n \in Nat, NEW X, NEW x \in X, NEW G, Takes(G, a, n, X)
  PROVE  \E f \in [a..n -> X] : (a <= n => f[a] = x) /\ Upward(f, a, n, X, G)
<1>0. \A j \in (a + 1)..n : G[j] \in [X -> X]
  BY DEF Takes
<1> DEFINE Built(f, m) == /\ f \in [a..m -> X]
                          /\ a <= m => f[a] = x
                          /\ \A j \in (a + 1)..m : f[j] = G[j][f[j - 1]]
           H == {m \in Nat : m <= n => \E f : Built(f, m)}
<1>1. ASSUME NEW m \in Nat, m <= a PROVE \E f : Built(f, m)
  <2> DEFINE f == [j \in a..m |-> x]
  <2>1. f \in [a..m -> X] /\ (a <= m => f[a] = x)
    OBVIOUS
  <2>2. (a + 1)..m = {}
    BY <1>1
  <2> HIDE DEF f
  <2>3. Built(f, m)
    BY <2>1, <2>2
  <2> HIDE DEF Built
  <2> QED
    BY <2>3
<1>2. 0 \in H
  <2> HIDE DEF Built
  <2>1. 0 \in Nat /\ 0 <= a
    OBVIOUS
  <2> QED
    BY <1>1, <2>1
<1>3. ASSUME NEW m \in Nat, m \in H PROVE m + 1 \in H
  <2> SUFFICES ASSUME m + 1 <= n PROVE \E f : Built(f, m + 1)
    <3> HIDE DEF Built
    <3> QED
      OBVIOUS
  <2>1. CASE m + 1 <= a
    <3> HIDE DEF Built
    <3> QED
      BY <1>1, <2>1
  <2>2. CASE m + 1 > a
    <3>0. \E f : Built(f, m)
      <4> HIDE DEF Built
      <4> QED
        BY <1>3
    <3>1. PICK f : Built(f, m)
      BY <3>0
    <3> DEFINE y == G[m + 1][f[m]]
               g == [j \in a..(m + 1) |-> IF j = m + 1 THEN y ELSE f[j]]
    <3>2. m \in a..m /\ m + 1 \in (a + 1)..n
      BY <2>2
    <3>3. y \in X
      BY <1>0, <3>1, <3>2
    <3>4. g \in [a..(m + 1) -> X]
      <4>1. ASSUME NEW j \in a..(m + 1), j # m + 1 PROVE f[j] \in X
        <5>1. j \in a..m
          BY <4>1
        <5> QED
          BY <3>1, <5>1
      <4> HIDE DEF y
      <4> QED
        BY <3>3, <4>1
    <3>5. g[a] = x
      BY <2>2, <3>1, <3>2
    <3>6. ASSUME NEW j \in (a + 1)..(m + 1) PROVE g[j] = G[j][g[j - 1]]
      <4>1. g[j - 1] = f[j - 1]
        <5>1. j - 1 \in a..(m + 1) /\ j - 1 # m + 1
          OBVIOUS
        <5> QED
          BY <5>1
      <4>2. CASE j = m + 1
        <5>1. g[j] = y /\ j - 1 = m
          BY <4>2
        <5> QED
          BY <4>1, <4>2, <5>1
      <4>3. CASE j # m + 1
        <5>1. j \in (a + 1)..m /\ j \in a..(m + 1)
          BY <4>3
        <5>2. g[j] = f[j]
          BY <4>3, <5>1
        <5>3. f[j] = G[j][f[j - 1]]
          BY <3>1, <5>1
        <5> HIDE DEF g
        <5> QED
          BY <4>1, <5>2, <5>3
      <4> QED
        BY <4>2, <4>3
    <3> HIDE DEF g
    <3>7. Built(g, m + 1)
      BY <3>4, <3>5, <3>6
    <3> HIDE DEF Built
    <3> QED
      BY <3>7
  <2> QED
    BY <2>1, <2>2
<1> HIDE DEF H
<1>4. Nat \subseteq H
  BY <1>2, <1>3, NumberInduction
<1>5. \E f : Built(f, n)
  <2> HIDE DEF Built
  <2> QED
    BY <1>4 DEF H
<1> QED
  BY <1>5 DEF Upward

\* What satisfies its equations stays in X.
LEMMA UpwardStays ==
  ASSUME NEW a \in Nat, NEW n \in Nat, a <= n, NEW X, NEW f, NEW G,
         f[a] \in X, Takes(G, a, n, X), Upward(f, a, n, X, G)
  PROVE  f[n] \in X
<1> DEFINE H == {m \in Nat : a <= m /\ m <= n => f[m] \in X}
<1>1. 0 \in H
  OBVIOUS
<1>2. ASSUME NEW m \in Nat, m \in H PROVE m + 1 \in H
  <2> SUFFICES ASSUME a <= m + 1, m + 1 <= n PROVE f[m + 1] \in X
    OBVIOUS
  <2>1. CASE a = m + 1
    BY <2>1
  <2>2. CASE a # m + 1
    <3>1. m + 1 \in (a + 1)..n /\ (m + 1) - 1 = m /\ a <= m /\ m <= n
      BY <2>2
    <3>2. f[m] \in X
      BY <1>2, <3>1
    <3>3. f[m + 1] = G[m + 1][f[m]]
      BY <3>1, <3>2 DEF Upward
    <3> QED
      BY <3>1, <3>2, <3>3 DEF Takes
  <2> QED
    BY <2>1, <2>2
<1> HIDE DEF H
<1>3. Nat \subseteq H
  BY <1>1, <1>2, NumberInduction
<1> QED
  BY <1>3 DEF H

\* The texts of a sequence, one behind the other.
AllTexts(seqs, n) == seqs = [i \in 1..n |-> seqs[i]] /\ \A i \in 1..n : IsText(seqs[i])

LEMMA FlattenedText ==
  ASSUME NEW n \in Nat, NEW seqs, AllTexts(seqs, n)
  PROVE  IsText(FlattenSeq(seqs))
<1>0. seqs = [i \in 1..n |-> seqs[i]] /\ \A i \in 1..n : IsText(seqs[i])
  BY DEF AllTexts
<1>1. Len(seqs) = n
  BY <1>0
<1>2. CASE n = 0
  <2>1. FlattenSeq(seqs) = seqs
    BY <1>1, <1>2 DEF FlattenSeq
  <2>2. seqs \in Seq({})
    BY <1>0, <1>2
  <2> QED
    BY <2>1, <2>2 DEF IsText
<1>3. CASE n # 0
  <2> DEFINE T == UNION {{seqs[i][k] : k \in 1..Len(seqs[i])} : i \in 1..n}
             X == Seq(T)
             G == [j \in 2..n |-> [s \in X |-> s \o seqs[j]]]
             Body(f, i) == IF i = 1 THEN seqs[i] ELSE f[i - 1] \o seqs[i]
             flatten[i \in 1..n] == IF i = 1 THEN seqs[i] ELSE flatten[i - 1] \o seqs[i]
  <2>1. ASSUME NEW i \in 1..n PROVE seqs[i] \in X
    <3> DEFINE S == {seqs[i][k] : k \in 1..Len(seqs[i])}
    <3>1. seqs[i] \in Seq(S)
      BY <1>0, TextCharacters
    <3>2. S \subseteq T
      OBVIOUS
    <3> HIDE DEF S, T
    <3> QED
      BY <3>1, <3>2
  <2> HIDE DEF T
  <2>2. \A j \in 2..n : G[j] \in [X -> X] /\ \A s \in X : G[j][s] = s \o seqs[j]
    <3> SUFFICES ASSUME NEW j \in 2..n
                 PROVE  G[j] \in [X -> X] /\ \A s \in X : G[j][s] = s \o seqs[j]
      OBVIOUS
    <3>1. \A s \in X : s \o seqs[j] \in X
      <4>1. seqs[j] \in X
        BY <2>1
      <4> QED
        BY <4>1, ConcatProperties
    <3>2. G[j] = [s \in X |-> s \o seqs[j]]
      OBVIOUS
    <3> HIDE DEF G, X
    <3> QED
      BY <3>1, <3>2
  <2> HIDE DEF G, X
  <2>3. seqs[1] \in X /\ 1 <= n /\ 1 + 1 = 2
    BY <1>3, <2>1
  <2>4. PICK f \in [1..n -> X] : f[1] = seqs[1] /\ \A j \in 2..n : f[j] = G[j][f[j - 1]]
    <3>1. \A j \in (1 + 1)..n : G[j] \in [X -> X]
      BY <2>2
    <3>2. \E f \in [1..n -> X] : /\ 1 <= n => f[1] = seqs[1]
                                 /\ \A j \in (1 + 1)..n : f[j - 1] \in X => f[j] = G[j][f[j - 1]]
      <4> DEFINE x == seqs[1]
      <4>1. x \in X /\ 1 \in Nat /\ Takes(G, 1, n, X)
        BY <2>3, <3>1 DEF Takes
      <4> HIDE DEF x
      <4>2. \E f \in [1..n -> X] : (1 <= n => f[1] = x) /\ Upward(f, 1, n, X, G)
        BY <4>1, UpwardExists
      <4> QED
        BY <4>2 DEF x, Upward
    <3>3. PICK f \in [1..n -> X] : f[1] = seqs[1] /\ \A j \in (1 + 1)..n : f[j - 1] \in X => f[j] = G[j][f[j - 1]]
      BY <2>3, <3>2
    <3>4. \A j \in 2..n : f[j - 1] \in X
      BY <3>3
    <3>5. \A j \in 2..n : f[j] = G[j][f[j - 1]]
      BY <3>3, <3>4
    <3> QED
      BY <3>3, <3>5
  <2>5. f = [i \in 1..n |-> Body(f, i)]
    <3>1. ASSUME NEW i \in 1..n PROVE f[i] = Body(f, i)
      <4>1. CASE i = 1
        BY <2>4, <4>1
      <4>2. CASE i # 1
        <5>1. i \in 2..n /\ i - 1 \in 1..n
          BY <4>2
        <5>2. f[i - 1] \in X
          BY <5>1
        <5> QED
          BY <2>2, <2>4, <4>2, <5>1, <5>2
      <4> QED
        BY <4>1, <4>2
    <3> HIDE DEF Body
    <3> QED
      BY <3>1
  <2> HIDE DEF Body
  <2>6. flatten = [i \in 1..n |-> Body(flatten, i)]
    BY <2>5 DEF flatten, Body
  <2>7. FlattenSeq(seqs) = flatten[n]
    BY <1>1, <1>3 DEF FlattenSeq, flatten
  <2> HIDE DEF flatten
  <2>8. flatten[1] \in X
    BY <2>3, <2>6 DEF Body
  <2>9. \A j \in 2..n : flatten[j - 1] \in X => flatten[j] = G[j][flatten[j - 1]]
    <3> SUFFICES ASSUME NEW j \in 2..n, flatten[j - 1] \in X
                 PROVE  flatten[j] = G[j][flatten[j - 1]]
      OBVIOUS
    <3>1. flatten[j] = flatten[j - 1] \o seqs[j]
      <4>1. j \in 1..n /\ j # 1
        BY <1>3
      <4>2. flatten[j] = Body(flatten, j)
        <5> HIDE DEF Body
        <5> QED
          BY <2>6, <4>1
      <4> QED
        BY <4>1, <4>2 DEF Body
    <3> QED
      BY <2>2, <3>1
  <2>10. flatten[n] \in X
    <3>1. \A j \in (1 + 1)..n : G[j] \in [X -> X]
      BY <2>2
    <3>2. \A j \in (1 + 1)..n : flatten[j - 1] \in X => flatten[j] = G[j][flatten[j - 1]]
      BY <2>9
    <3> QED
      <4>1. 1 \in Nat /\ Takes(G, 1, n, X) /\ Upward(flatten, 1, n, X, G)
        BY <3>1, <3>2 DEF Takes, Upward
      <4>2. 1 <= n
        BY <2>3
      <4> QED
        BY <2>8, <4>1, <4>2, UpwardStays
  <2> QED
    BY <2>7, <2>10 DEF X, IsText
<1> QED
  BY <1>2, <1>3

\* g has the texts of s up to each place, joined.
Joins(g, s, n) == g[0] = <<>> /\ \A i \in 1..n : g[i] = g[i - 1] \o s[i]

LEMMA JoinsAgree ==
  ASSUME NEW n \in Nat, NEW g, NEW h, NEW s, NEW t, Joins(g, s, n), Joins(h, t, n),
         \A i \in 1..n : s[i] = t[i]
  PROVE  g[n] = h[n]
<1> DEFINE H == {m \in Nat : m <= n => g[m] = h[m]}
<1>1. 0 \in H
  BY DEF Joins
<1>2. ASSUME NEW m \in Nat, m \in H PROVE m + 1 \in H
  <2> SUFFICES ASSUME m + 1 <= n PROVE g[m + 1] = h[m + 1]
    OBVIOUS
  <2>1. m + 1 \in 1..n /\ (m + 1) - 1 = m /\ m <= n
    OBVIOUS
  <2>2. g[m] = h[m]
    BY <1>2, <2>1
  <2>3. g[m + 1] = g[m] \o s[m + 1] /\ h[m + 1] = h[m] \o t[m + 1]
    BY <2>1 DEF Joins
  <2>4. s[m + 1] = t[m + 1]
    BY <2>1
  <2> QED
    BY <2>2, <2>3, <2>4
<1> HIDE DEF H
<1>3. Nat \subseteq H
  BY <1>1, <1>2, NumberInduction
<1> QED
  BY <1>3 DEF H

\* A sequence is flattened by joining its texts.
LEMMA FlattenedJoins ==
  ASSUME NEW n \in Nat, NEW seqs, AllTexts(seqs, n)
  PROVE  \E g : Joins(g, seqs, n) /\ g[n] = FlattenSeq(seqs)
<1>0. seqs = [i \in 1..n |-> seqs[i]] /\ \A i \in 1..n : IsText(seqs[i])
  BY DEF AllTexts
<1>1. Len(seqs) = n
  BY <1>0
<1>2. CASE n = 0
  <2> DEFINE g == [i \in 0..0 |-> <<>>]
  <2>1. FlattenSeq(seqs) = seqs
    BY <1>1, <1>2 DEF FlattenSeq
  <2>2. seqs = <<>>
    BY <1>0, <1>2
  <2>3. g[0] = <<>>
    OBVIOUS
  <2>4. 1..n = {}
    BY <1>2
  <2> HIDE DEF g
  <2>5. Joins(g, seqs, n) /\ g[n] = FlattenSeq(seqs)
    BY <1>2, <2>1, <2>2, <2>3, <2>4 DEF Joins
  <2> QED
    BY <2>5
<1>3. CASE n # 0
  <2> DEFINE T == UNION {{seqs[i][k] : k \in 1..Len(seqs[i])} : i \in 1..n}
             X == Seq(T)
             G == [j \in 1..n |-> [s \in X |-> s \o seqs[j]]]
             Body(f, i) == IF i = 1 THEN seqs[i] ELSE f[i - 1] \o seqs[i]
             flatten[i \in 1..n] == IF i = 1 THEN seqs[i] ELSE flatten[i - 1] \o seqs[i]
  <2>1. ASSUME NEW i \in 1..n PROVE seqs[i] \in X
    <3> DEFINE S == {seqs[i][k] : k \in 1..Len(seqs[i])}
    <3>1. seqs[i] \in Seq(S)
      BY <1>0, TextCharacters
    <3>2. S \subseteq T
      OBVIOUS
    <3> HIDE DEF S, T
    <3> QED
      BY <3>1, <3>2
  <2> HIDE DEF T
  <2>2. \A j \in 1..n : G[j] \in [X -> X] /\ \A s \in X : G[j][s] = s \o seqs[j]
    <3> SUFFICES ASSUME NEW j \in 1..n
                 PROVE  G[j] \in [X -> X] /\ \A s \in X : G[j][s] = s \o seqs[j]
      OBVIOUS
    <3>1. \A s \in X : s \o seqs[j] \in X
      <4>1. seqs[j] \in X
        BY <2>1
      <4> QED
        BY <4>1, ConcatProperties
    <3>2. G[j] = [s \in X |-> s \o seqs[j]]
      OBVIOUS
    <3> HIDE DEF G, X
    <3> QED
      BY <3>1, <3>2
  <2>3. <<>> \in X /\ \A s \in X : <<>> \o s = s
    BY ConcatEmptySeq
  <2> HIDE DEF G, X
  <2>4. PICK g \in [0..n -> X] : g[0] = <<>> /\ Upward(g, 0, n, X, G)
    <3> DEFINE x == <<>>
    <3>1. x \in X /\ 0 \in Nat /\ Takes(G, 0, n, X) /\ 0 <= n
      BY <2>2, <2>3 DEF Takes
    <3> HIDE DEF x
    <3>2. \E f \in [0..n -> X] : (0 <= n => f[0] = x) /\ Upward(f, 0, n, X, G)
      BY <3>1, UpwardExists
    <3> QED
      BY <3>1, <3>2 DEF x
  <2>5. ASSUME NEW j \in 1..n PROVE g[j] = g[j - 1] \o seqs[j]
    <3>1. j \in (0 + 1)..n /\ j - 1 \in 0..n
      OBVIOUS
    <3>2. g[j - 1] \in X
      BY <2>4, <3>1
    <3>3. g[j] = G[j][g[j - 1]]
      BY <2>4, <3>1, <3>2 DEF Upward
    <3> QED
      BY <2>2, <3>2, <3>3
  <2> DEFINE f == [i \in 1..n |-> g[i]]
  <2>6. ASSUME NEW i \in 1..n PROVE f[i] = Body(f, i)
    <3>1. CASE i = 1
      <4>1. g[1] = g[0] \o seqs[1]
        <5>1. 1 - 1 = 0 /\ 1 \in 1..n
          BY <1>3
        <5> QED
          BY <2>5, <5>1
      <4>2. seqs[1] \in X
        BY <2>1, <3>1
      <4> QED
        BY <2>3, <2>4, <3>1, <4>1, <4>2
    <3>2. CASE i # 1
      <4>1. i - 1 \in 1..n
        BY <3>2
      <4> QED
        BY <2>5, <3>2, <4>1
    <3> QED
      BY <3>1, <3>2
  <2>7. f = [i \in 1..n |-> f[i]]
    OBVIOUS
  <2> HIDE DEF f, Body
  <2>8. f = [i \in 1..n |-> Body(f, i)]
    BY <2>6, <2>7
  <2>9. flatten = [i \in 1..n |-> Body(flatten, i)]
    BY <2>8 DEF flatten, Body
  <2>10. FlattenSeq(seqs) = flatten[n]
    BY <1>1, <1>3 DEF FlattenSeq, flatten
  <2> HIDE DEF flatten
  <2> DEFINE h == [i \in 0..n |-> IF i = 0 THEN <<>> ELSE flatten[i]]
  <2>11. ASSUME NEW i \in 1..n PROVE h[i] = h[i - 1] \o seqs[i]
    <3>1. flatten[i] = Body(flatten, i)
      BY <2>9
    <3>2. h[i] = flatten[i]
      OBVIOUS
    <3>3. CASE i = 1
      <4>1. h[i - 1] = <<>> /\ Body(flatten, i) = seqs[i]
        BY <3>3 DEF Body
      <4>2. seqs[i] \in X
        BY <2>1
      <4> HIDE DEF h
      <4> QED
        BY <2>3, <3>1, <3>2, <4>1, <4>2
    <3>4. CASE i # 1
      <4>1. i - 1 \in 0..n /\ i - 1 # 0
        BY <3>4
      <4>2. h[i - 1] = flatten[i - 1]
        BY <4>1
      <4>3. Body(flatten, i) = flatten[i - 1] \o seqs[i]
        BY <3>4 DEF Body
      <4> HIDE DEF h
      <4> QED
        BY <3>1, <3>2, <4>2, <4>3
    <3> QED
      BY <3>3, <3>4
  <2>12. h[0] = <<>> /\ h[n] = flatten[n]
    BY <1>3
  <2> HIDE DEF h
  <2>13. Joins(h, seqs, n) /\ h[n] = FlattenSeq(seqs)
    BY <2>10, <2>11, <2>12 DEF Joins
  <2> QED
    BY <2>13
<1> QED
  BY <1>2, <1>3

\* One text more.
LEMMA FlattenedGrows ==
  ASSUME NEW n \in Nat, NEW s, NEW t, AllTexts(s, n), AllTexts(t, n + 1),
         \A i \in 1..n : s[i] = t[i]
  PROVE  FlattenSeq(t) = FlattenSeq(s) \o t[n + 1]
<1>1. n + 1 \in Nat
  OBVIOUS
<1>2. PICK g : Joins(g, s, n) /\ g[n] = FlattenSeq(s)
  BY FlattenedJoins
<1>3. PICK h : Joins(h, t, n + 1) /\ h[n + 1] = FlattenSeq(t)
  BY <1>1, FlattenedJoins
<1>4. Joins(h, t, n) /\ h[n + 1] = h[n] \o t[n + 1]
  <2>1. n + 1 \in 1..(n + 1) /\ (n + 1) - 1 = n /\ 1..n \subseteq 1..(n + 1)
    OBVIOUS
  <2> QED
    BY <1>3, <2>1 DEF Joins
<1>5. g[n] = h[n]
  BY <1>2, <1>4, JoinsAgree
<1> QED
  BY <1>2, <1>3, <1>4, <1>5

--------------------------------------------------------------------------------
(* Places of a text.                                                           *)
\* What is not NUL is a character of the text.
LEMMA WithinText ==
  ASSUME NEW t \in Seq(STRING), NEW p \in Nat, p >= 1
  PROVE  /\ At(t, p) \in {t[i] : i \in 1..Len(t)} \cup {NUL}
         /\ At(t, p) # NUL => p <= Len(t) /\ At(t, p) = t[p]
         /\ p = Len(t) + 1 => At(t, p) = NUL
BY DEF At

LEMMA NoDigit == NUL \notin Digit /\ "." \notin Digit /\ "u" \notin Digit
BY DEF NUL, Digit

\* Digits end at the terminator at the latest.
LEMMA DigitsEndWithin ==
  ASSUME NEW t \in Seq(STRING), NEW p \in 1..(Len(t) + 1)
  PROVE  LET e == DigitsEnd(t, p)
         IN  /\ e \in p..(Len(t) + 1)
             /\ At(t, p) \in Digit => e > p
             /\ \A i \in p..(e - 1) : At(t, i) \in Digit
<1> DEFINE Ends == {e \in p..(Len(t) + 1) : At(t, e) \notin Digit}
<1>1. Ends \in SUBSET Nat /\ Len(t) + 1 \in Ends
  <2>1. At(t, Len(t) + 1) \notin Digit
    BY WithinText, NoDigit
  <2> QED
    BY <2>1
<1>2. PICK e \in Ends : \A x \in Ends : e <= x
  <2> HIDE DEF Ends
  <2> QED
    BY <1>1, LeastPlace
<1>3. \A i \in p..(e - 1) : At(t, i) \in Digit
  BY <1>2
<1>4. \E x \in p..(Len(t) + 1) :
         (\A i \in p..(x - 1) : At(t, i) \in Digit) /\ At(t, x) \notin Digit
  BY <1>3
<1>5. /\ DigitsEnd(t, p) \in p..(Len(t) + 1)
      /\ \A i \in p..(DigitsEnd(t, p) - 1) : At(t, i) \in Digit
      /\ At(t, DigitsEnd(t, p)) \notin Digit
  BY <1>4 DEF DigitsEnd
<1> QED
  BY <1>5

\* A letter is repeated at least once, and within the text.
LEMMA RepeatedWithin ==
  ASSUME NEW t \in Seq(STRING), NEW p \in 1..Len(t), NEW max \in Nat, max >= 1,
         At(t, p) # NUL
  PROVE  LET n == Repeated(t, p, At(t, p), max)
         IN  /\ n \in 1..max
             /\ p + n <= Len(t) + 1
             /\ \A i \in 0..(n - 1) : At(t, p + i) = At(t, p)
<1> DEFINE c == At(t, p)
           Ends == {n \in 0..max : n = max \/ At(t, p + n) # c}
<1>1. Ends \in SUBSET Nat /\ Ends # {}
  OBVIOUS
<1>2. PICK n \in Ends : \A x \in Ends : n <= x
  <2> HIDE DEF Ends
  <2> QED
    BY <1>1, LeastPlace
<1>3. \E x \in 0..max : (\A i \in 0..(x - 1) : At(t, p + i) = c) /\ (x = max \/ At(t, p + x) # c)
  BY <1>2
<1> DEFINE m == Repeated(t, p, c, max)
<1>4. /\ m \in 0..max
      /\ \A i \in 0..(m - 1) : At(t, p + i) = c
      /\ m = max \/ At(t, p + m) # c
  BY <1>3 DEF Repeated
<1>5. m # 0
  BY <1>4
<1>6. At(t, p + (m - 1)) = c /\ p + (m - 1) \in Nat /\ p + (m - 1) >= 1
  BY <1>4, <1>5
<1>7. p + (m - 1) <= Len(t)
  <2> HIDE DEF m
  <2> QED
    BY <1>6, WithinText
<1> QED
  BY <1>4, <1>5, <1>7

--------------------------------------------------------------------------------
(* Tokens.                                                                     *)

\* What closes a field, or is taken to.
Closers == {"RightBrace", "RightBraceBrace", "RightBracketBrace"}

BraceTypes == Closers \cup {"LeftBraceBrace"}

\* A token of type typ may take in the terminator of t: at the end, or as a type where a
\* point type is named.
MayTakeNUL(t, typ) == typ = "EOF" \/ (NamesPointType(t) /\ typ \notin BraceTypes)

\* A token that is not of a quantized type.
PlainTokens == TokenType \ QuatTokens

\* The bits of a quantized type have a digit at least.
NamesBits(t, k) == k.type \in QuatTokens => k.len >= 3 /\ At(t, k.beg + 2) \in Digit

\* What the lexer finds at b is an error, or a token of at least one character that
\* begins at b and takes in the terminator only at the end, or when it names a point
\* type; and it sees no end only behind the terminator, or in such a type.
Lexed(t, b, k) ==
  /\ k.beg = b
  /\ \/ k.type = "Unrecognized"
     \/ k.type = "Beyond" /\ (b > Len(t) + 1 \/ NamesPointType(t))
     \/ /\ k.type \in TokenType
        /\ k.len \in Nat
        /\ k.len >= 1
        /\ b + k.len <= Len(t) + 2
        /\ b + k.len = Len(t) + 2 => MayTakeNUL(t, k.type)
        /\ NamesBits(t, k)

LEMMA AcceptLexed ==
  ASSUME NEW t \in Seq(STRING), NEW b \in 1..Len(t), NEW typ \in PlainTokens, NEW end \in Nat,
         end > b, end <= Len(t) + 1
  PROVE  Lexed(t, b, Accept(typ, b, end))
BY DEF Lexed, Accept, PlainTokens, NamesBits

LEMMA PointLexed ==
  ASSUME NEW t \in Seq(STRING), NEW b \in 1..Len(t), NEW typ \in PlainTokens \ BraceTypes,
         NEW end \in Nat, end > b, end <= Len(t) + 2, NamesPointType(t)
  PROVE  Lexed(t, b, Accept(typ, b, end))
BY DEF Lexed, Accept, MayTakeNUL, PlainTokens, NamesBits

LEMMA NoTokenLexed ==
  ASSUME NEW t \in Seq(STRING), NEW b \in Nat
  PROVE  /\ Lexed(t, b, No("Unrecognized", b))
         /\ NamesPointType(t) \/ b > Len(t) + 1 => Lexed(t, b, No("Beyond", b))
BY DEF Lexed, No, Accept

LEMMA SomeTokens ==
  /\ {"EOF", "Colon", "VlineColon", "Type_CString", "Type_SysTime", "LeftBrace", "RightBrace",
      "LeftBraceBracket", "RightBracketBrace", "LeftBraceBrace", "RightBraceBrace", "Digits",
      "OtherChar", "Gt", "Lt", "Equ", "ChronoPredef_f", "ChronoPredef_g"} \subseteq PlainTokens
  /\ IntTokens \cup PointTokens \cup UserdefTokens \subseteq PlainTokens
<1>1. ASSUME NEW c \in DOMAIN ChronoUserdef, NEW n \in 1..Len(ChronoUserdef[c])
      PROVE  ChronoUserdef[c][n] \notin QuatTokens
  <2>1. c \in {"y", "M", "d", "h", "H", "m", "s", "x", "w"}
    BY DEF ChronoUserdef
  <2>2. CASE c = "y"
    BY <2>2 DEF ChronoUserdef, QuatTokens
  <2>3. CASE c = "M"
    BY <2>3 DEF ChronoUserdef, QuatTokens
  <2>4. CASE c = "d"
    BY <2>4 DEF ChronoUserdef, QuatTokens
  <2>5. CASE c = "h"
    BY <2>5 DEF ChronoUserdef, QuatTokens
  <2>6. CASE c = "H"
    BY <2>6 DEF ChronoUserdef, QuatTokens
  <2>7. CASE c = "m"
    BY <2>7 DEF ChronoUserdef, QuatTokens
  <2>8. CASE c = "s"
    BY <2>8 DEF ChronoUserdef, QuatTokens
  <2>9. CASE c = "x"
    BY <2>9 DEF ChronoUserdef, QuatTokens
  <2>10. CASE c = "w"
    BY <2>10 DEF ChronoUserdef, QuatTokens
  <2> QED
    BY <2>1, <2>2, <2>3, <2>4, <2>5, <2>6, <2>7, <2>8, <2>9, <2>10
<1>2. UserdefTokens \cap QuatTokens = {}
  BY <1>1 DEF UserdefTokens
<1>3. IntTokens \cup PointTokens \subseteq PlainTokens
  BY DEF PlainTokens, TokenType, IntTokens, PointTokens, QuatTokens
<1>4. UserdefTokens \subseteq PlainTokens
  BY <1>2 DEF PlainTokens, TokenType, ChronoTokens
<1> QED
  BY <1>3, <1>4 DEF PlainTokens, TokenType, AlignTokens, ChronoTokens, PredefTokens, QuatTokens

\* A type that is named behind the colon at b.
LEMMA NamesPoint ==
  ASSUME NEW t \in Seq(STRING), NEW b \in 1..Len(t), At(t, b) = ":", At(t, b + 1) \in {"F", "f"}
  PROVE  NamesPointType(t)
<1>1. At(t, b) = t[b] /\ b + 1 <= Len(t) /\ At(t, b + 1) = t[b + 1]
  BY WithinText DEF NUL
<1> QED
  BY <1>1 DEF NamesPointType

LEMMA IntegerTypeLexed ==
  ASSUME NEW t \in Seq(STRING), NEW b \in 1..Len(t)
  PROVE  Lexed(t, b, type_ix(t, b))
<1> DEFINE types == IF At(t, b + 1) = "i" THEN <<"Type_Int8", "Type_Int16", "Type_Int32">>
                                          ELSE <<"Type_Uint8", "Type_Uint16", "Type_Uint32">>
<1>1. \A n \in 1..3 : types[n] \in PlainTokens
  BY SomeTokens DEF IntTokens
<1>2. At(t, b + 2) # NUL => b + 3 <= Len(t) + 1
  BY WithinText
<1>3. At(t, b + 3) # NUL => b + 4 <= Len(t) + 1
  BY WithinText
<1>4. \/ type_ix(t, b) = Accept(types[1], b, b + 3) /\ At(t, b + 2) = "8"
      \/ \E n \in {2, 3} : type_ix(t, b) = Accept(types[n], b, b + 4) /\ At(t, b + 3) \in {"6", "2"}
      \/ type_ix(t, b) = Accept("Colon", b, b + 1)
  <2>1. CASE At(t, b + 2) = "8"
    BY <2>1 DEF type_ix
  <2>2. CASE At(t, b + 2) = "1" /\ At(t, b + 3) = "6"
    BY <2>2 DEF type_ix
  <2>3. CASE At(t, b + 2) = "3" /\ At(t, b + 3) = "2"
    BY <2>3 DEF type_ix
  <2>4. CASE ~ (\/ At(t, b + 2) = "8"
                \/ At(t, b + 2) = "1" /\ At(t, b + 3) = "6"
                \/ At(t, b + 2) = "3" /\ At(t, b + 3) = "2")
    BY <2>4 DEF type_ix
  <2> QED
    BY <2>1, <2>2, <2>3, <2>4
<1> HIDE DEF types
<1> QED
  BY <1>1, <1>2, <1>3, <1>4, AcceptLexed, SomeTokens DEF NUL

\* A u at the end is part of the type, and not the terminator.
LEMMA UnsignedEnds ==
  ASSUME NEW t \in Seq(STRING), NEW b \in 1..Len(t), NEW end \in Nat, end > b, end <= Len(t) + 1,
         NEW plain \in PlainTokens, NEW with_u \in PlainTokens
  PROVE  Lexed(t, b, Unsigned(t, b, end, plain, with_u))
<1>1. CASE At(t, end) = "u"
  <2>1. end <= Len(t)
    BY <1>1, WithinText DEF NUL
  <2> QED
    BY <1>1, <2>1, AcceptLexed DEF Unsigned
<1>2. CASE At(t, end) # "u"
  BY <1>2, AcceptLexed DEF Unsigned
<1> QED
  BY <1>1, <1>2

LEMMA QuantTypeLexed ==
  ASSUME NEW t \in Seq(STRING), NEW b \in 1..Len(t)
  PROVE  Lexed(t, b, type_quat(t, b))
<1>1. CASE At(t, b + 2) \in Digit
  <2>1. b + 2 \in 1..(Len(t) + 1)
    BY <1>1, WithinText, NoDigit
  <2> DEFINE e == DigitsEnd(t, b + 2)
  <2>3. e > b + 2 /\ e \in Nat /\ e <= Len(t) + 1
    BY <1>1, <2>1, DigitsEndWithin
  <2>4. At(t, e) = "u" => e <= Len(t)
    BY <2>3, WithinText DEF NUL
  <2>5. /\ At(t, e) = "u" => type_quat(t, b) = Accept("Type_UQuant", b, e + 1)
        /\ At(t, e) # "u" => type_quat(t, b) = Accept("Type_IQuant", b, e)
    BY <1>1 DEF type_quat, Unsigned
  <2> HIDE DEF e
  <2>6. ASSUME NEW typ \in QuatTokens, NEW end \in Nat, end >= b + 3, end <= Len(t) + 1
        PROVE  Lexed(t, b, Accept(typ, b, end))
    <3>1. typ \in TokenType
      BY DEF TokenType
    <3> QED
      BY <1>1, <2>6, <3>1 DEF Lexed, Accept, NamesBits
  <2>7. {"Type_UQuant", "Type_IQuant"} \subseteq QuatTokens
    BY DEF QuatTokens
  <2>8. CASE At(t, e) = "u"
    BY <2>3, <2>4, <2>5, <2>6, <2>7, <2>8
  <2>9. CASE At(t, e) # "u"
    BY <2>3, <2>5, <2>6, <2>7, <2>9
  <2> QED
    BY <2>8, <2>9
<1>2. CASE At(t, b + 2) \notin Digit
  BY <1>2, AcceptLexed, SomeTokens DEF type_quat
<1> QED
  BY <1>1, <1>2

LEMMA FixedTypeLexed ==
  ASSUME NEW t \in Seq(STRING), NEW b \in 1..Len(t), NamesPointType(t)
  PROVE  Lexed(t, b, type_fixed(t, b))
<1>1. CASE At(t, b + 2) \notin Digit
  BY <1>1, AcceptLexed, SomeTokens DEF type_fixed
<1>2. CASE At(t, b + 2) \in Digit
  <2> DEFINE ipart == DigitsEnd(t, b + 2)
             Fixed(end) == Unsigned(t, b, end, "Type_IFixedNumber", "Type_UFixedNumber")
  <2>1. b + 2 \in 1..(Len(t) + 1)
    BY <1>2, WithinText, NoDigit
  <2>2. ipart \in (b + 2)..(Len(t) + 1)
    BY <2>1, DigitsEndWithin
  <2>3. {"Type_IFixedNumber", "Type_UFixedNumber"} \subseteq PlainTokens
    BY SomeTokens DEF PointTokens
  <2>4. ASSUME NEW end \in Nat, end > b, end <= Len(t) + 1 PROVE Lexed(t, b, Fixed(end))
    BY <2>3, <2>4, UnsignedEnds
  <2>5. ipart < Len(t) => DigitsEnd(t, ipart + 2) \in (ipart + 2)..(Len(t) + 1)
    BY <2>2, DigitsEndWithin
  <2>6. \/ type_fixed(t, b) = Fixed(ipart)
        \/ ipart < Len(t) /\ type_fixed(t, b) = Fixed(DigitsEnd(t, ipart + 2))
        \/ type_fixed(t, b) = No("Beyond", b)
    BY <1>2 DEF type_fixed
  <2> HIDE DEF ipart, Fixed
  <2>7. ipart < Len(t) => Lexed(t, b, Fixed(DigitsEnd(t, ipart + 2)))
    BY <2>2, <2>4, <2>5
  <2>8. Lexed(t, b, Fixed(ipart))
    BY <2>2, <2>4
  <2> QED
    BY <2>6, <2>7, <2>8, NoTokenLexed
<1> QED
  BY <1>1, <1>2

LEMMA FloatingTypeLexed ==
  ASSUME NEW t \in Seq(STRING), NEW b \in 1..Len(t), NamesPointType(t), At(t, b + 1) # NUL
  PROVE  Lexed(t, b, type_floating(t, b))
<1>1. b + 2 <= Len(t) + 1
  BY WithinText
<1>2. At(t, b + 3) # NUL => b + 5 <= Len(t) + 2
  BY WithinText
<1>3. At(t, b + 5) # NUL => b + 7 <= Len(t) + 2
  BY WithinText
<1>4. {"Type_Floating32", "Type_CString"} \subseteq PlainTokens \ BraceTypes
  BY SomeTokens DEF PointTokens, BraceTypes, Closers
<1>5. \/ type_floating(t, b) = Accept("Type_Floating32", b, b + 2)
      \/ type_floating(t, b) = Accept("Type_CString", b, b + 5) /\ At(t, b + 3) = "4"
      \/ type_floating(t, b) = Accept("Type_CString", b, b + 7) /\ At(t, b + 5) = "4"
      \/ type_floating(t, b) = No("Beyond", b)
      \/ type_floating(t, b) = No("Unrecognized", b)
  <2>1. CASE At(t, b + 2) \notin {"3", "6"}
    BY <2>1 DEF type_floating
  <2>2. CASE At(t, b + 2) = "6"
    BY <2>2 DEF type_floating
  <2>3. CASE At(t, b + 2) = "3" /\ At(t, b + 3) = "2"
    BY <2>3 DEF type_floating
  <2>4. CASE At(t, b + 2) = "3" /\ At(t, b + 3) # "2"
    BY <2>4 DEF type_floating
  <2> QED
    BY <2>1, <2>2, <2>3, <2>4
<1>6. ASSUME NEW typ \in {"Type_Floating32", "Type_CString"}, NEW n \in {2, 5, 7},
             b + n <= Len(t) + 2
      PROVE  Lexed(t, b, Accept(typ, b, b + n))
  BY <1>4, <1>6, PointLexed
<1> QED
  BY <1>1, <1>2, <1>3, <1>5, <1>6, NoTokenLexed DEF NUL

LEMMA ColonLexed ==
  ASSUME NEW t \in Seq(STRING), NEW b \in 1..Len(t), At(t, b) = ":"
  PROVE  Lexed(t, b, colon(t, b))
<1> DEFINE next == At(t, b + 1)
<1>1. CASE next \in {"i", "u"}
  BY <1>1, IntegerTypeLexed DEF colon
<1>2. CASE next = "q"
  BY <1>2, QuantTypeLexed DEF colon
<1>3. CASE next = "F"
  BY <1>3, FixedTypeLexed, NamesPoint DEF colon
<1>4. CASE next = "f" /\ UseFP
  BY <1>4, FloatingTypeLexed, NamesPoint DEF colon, NUL
<1>5. CASE next \in {"s", "t"}
  <2>1. b + 2 <= Len(t) + 1
    BY <1>5, WithinText DEF NUL
  <2> QED
    BY <1>5, <2>1, AcceptLexed, SomeTokens DEF colon
<1>6. CASE next \notin {"i", "u", "q", "F", "s", "t"} /\ ~(next = "f" /\ UseFP)
  BY <1>6, AcceptLexed, SomeTokens DEF colon
<1> QED
  BY <1>1, <1>2, <1>3, <1>4, <1>5, <1>6

\* The names of the items by letter and number.
LEMMA UserdefNames ==
  ASSUME NEW c \in DOMAIN ChronoUserdef
  PROVE  /\ Len(ChronoUserdef[c]) \in Nat
         /\ Len(ChronoUserdef[c]) >= 1
         /\ \A n \in 1..Len(ChronoUserdef[c]) : ChronoUserdef[c][n] \in UserdefTokens
<1>1. \A n \in 1..Len(ChronoUserdef[c]) : ChronoUserdef[c][n] \in UserdefTokens
  BY DEF UserdefTokens
<1>2. Len(ChronoUserdef[c]) \in {1, 2, 4}
  BY DEF ChronoUserdef
<1> DEFINE size == Len(ChronoUserdef[c])
<1>3. size \in {1, 2, 4}
  BY <1>2
<1> HIDE DEF size
<1>4. size \in Nat /\ size >= 1
  BY <1>3
<1>5. Len(ChronoUserdef[c]) \in Nat /\ Len(ChronoUserdef[c]) >= 1
  BY <1>4, Zenon DEF size
<1> QED
  BY <1>1, <1>5, Zenon

LEMMA UserdefLexed ==
  ASSUME NEW t \in Seq(STRING), NEW b \in 1..Len(t), At(t, b + 1) \in DOMAIN ChronoUserdef
  PROVE  Lexed(t, b, chrono_userdef(t, b))
<1> DEFINE c   == At(t, b + 1)
           max == Len(ChronoUserdef[c])
           n   == Repeated(t, b + 1, c, max)
<1>1. c # NUL
  BY DEF ChronoUserdef, NUL
<1>2. b + 1 \in 1..Len(t)
  BY <1>1, WithinText
<1>3. max \in Nat /\ max >= 1
  BY UserdefNames
<1>4. n \in 1..max /\ b + 1 + n <= Len(t) + 1
  <2> HIDE DEF max
  <2> QED
    BY <1>1, <1>2, <1>3, RepeatedWithin
<1>5. ChronoUserdef[c][n] \in PlainTokens
  BY <1>4, UserdefNames, SomeTokens
<1>6. chrono_userdef(t, b) = Accept(ChronoUserdef[c][n], b, b + 1 + n)
  BY DEF chrono_userdef
<1>7. b + 1 + n \in Nat /\ b + 1 + n > b
  BY <1>3, <1>4
<1> HIDE DEF n
<1> QED
  BY <1>4, <1>5, <1>6, <1>7, AcceptLexed

LEMMA PercentLexed ==
  ASSUME NEW t \in Seq(STRING), NEW b \in 1..Len(t)
  PROVE  Lexed(t, b, chrono_percentage(t, b))
<1> DEFINE next == At(t, b + 1)
<1>1. next # NUL => b + 2 <= Len(t) + 1
  BY WithinText
<1>2. CASE next \in DOMAIN ChronoUserdef
  <2>1. next \notin {"%", "f", "g", ">", "<", "="}
    BY <1>2 DEF ChronoUserdef
  <2>2. chrono_percentage(t, b) = chrono_userdef(t, b)
    BY <1>2, <2>1 DEF chrono_percentage
  <2> QED
    BY <1>2, <2>2, UserdefLexed
<1>3. CASE next \notin DOMAIN ChronoUserdef
  <2>1. \/ next \in {"%", "f", "g"}
           /\ \E typ \in {"OtherChar", "ChronoPredef_f", "ChronoPredef_g"} :
                chrono_percentage(t, b) = Accept(typ, b, b + 2)
        \/ chrono_percentage(t, b) = Accept("OtherChar", b, b + 1)
        \/ chrono_percentage(t, b) = No("Unrecognized", b)
    <3>1. CASE next = "%"
      BY <1>3, <3>1 DEF chrono_percentage
    <3>2. CASE next = "f"
      BY <1>3, <3>2 DEF chrono_percentage
    <3>3. CASE next = "g"
      BY <1>3, <3>3 DEF chrono_percentage
    <3>4. CASE next \notin {"%", "f", "g"}
      BY <1>3, <3>4 DEF chrono_percentage
    <3> QED
      BY <3>1, <3>2, <3>3, <3>4
  <2>2. ASSUME NEW typ \in {"OtherChar", "ChronoPredef_f", "ChronoPredef_g"}, next # NUL
        PROVE  Lexed(t, b, Accept(typ, b, b + 2))
    BY <1>1, <2>2, AcceptLexed, SomeTokens
  <2>3. Lexed(t, b, Accept("OtherChar", b, b + 1))
    BY AcceptLexed, SomeTokens
  <2> QED
    BY <2>1, <2>2, <2>3, NoTokenLexed DEF NUL
<1> QED
  BY <1>2, <1>3

\* One character, or two of which the second is not the terminator.
LEMMA ShortTokenLexed ==
  ASSUME NEW t \in Seq(STRING), NEW b \in 1..Len(t), NEW typ \in PlainTokens
  PROVE  /\ Lexed(t, b, Accept(typ, b, b + 1))
         /\ At(t, b + 1) # NUL => Lexed(t, b, Accept(typ, b, b + 2))
<1>1. At(t, b + 1) # NUL => b + 2 <= Len(t) + 1
  BY WithinText
<1> QED
  BY <1>1, AcceptLexed

LEMMA BraceLexed ==
  ASSUME NEW t \in Seq(STRING), NEW b \in 1..Len(t), NEW s
  PROVE  /\ Lexed(t, b, l_brace(t, b))
         /\ Lexed(t, b, r_brace(t, b, s))
         /\ Lexed(t, b, r_bracket(t, b))
         /\ Lexed(t, b, v_line(t, b))
<1>1. Lexed(t, b, l_brace(t, b))
  BY ShortTokenLexed, SomeTokens DEF l_brace, NUL
<1>2. Lexed(t, b, r_brace(t, b, s))
  BY ShortTokenLexed, SomeTokens DEF r_brace, NUL
<1>3. Lexed(t, b, r_bracket(t, b))
  BY ShortTokenLexed, SomeTokens DEF r_bracket, NUL
<1>4. Lexed(t, b, v_line(t, b))
  BY ShortTokenLexed, SomeTokens DEF v_line, NUL
<1> QED
  BY <1>1, <1>2, <1>3, <1>4

\* The lexer, wherever it is called: what it finds is a token of the text or an error.
LEMMA LexerLexed ==
  ASSUME NEW t \in Seq(STRING), NEW b \in 1..(Len(t) + 2), NEW s
  PROVE  Lexed(t, b, lex_next_token(t, b, s))
<1>1. CASE b > Len(t) + 1
  <2>1. b # Len(t) + 1
    BY <1>1
  <2>2. lex_next_token(t, b, s) = No("Beyond", b)
    BY <1>1, <2>1 DEF lex_next_token
  <2> QED
    BY <1>1, <2>2, NoTokenLexed
<1>2. CASE b = Len(t) + 1
  <2>1. lex_next_token(t, b, s) = Accept("EOF", b, b + 1)
    BY <1>2 DEF lex_next_token
  <2> QED
    BY <1>2, <2>1, SomeTokens DEF Lexed, Accept, MayTakeNUL, PlainTokens, NamesBits
<1>3. CASE b <= Len(t)
  <2> DEFINE ch == At(t, b)
             k  == lex_next_token(t, b, s)
  <2>1. b \in 1..Len(t) /\ ~(b > Len(t) + 1) /\ b # Len(t) + 1
    BY <1>3
  <2>2. CASE ch \in {"=", ">", "<"}
    <3>1. \E typ \in {"Equ", "Gt", "Lt"} : k = Accept(typ, b, b + 1)
      BY <2>1, <2>2 DEF lex_next_token, Digit
    <3> QED
      BY <2>1, <3>1, ShortTokenLexed, SomeTokens
  <2>3. CASE ch = ":"
    <3>1. k = colon(t, b)
      BY <2>1, <2>3 DEF lex_next_token, Digit
    <3> QED
      BY <2>1, <2>3, <3>1, ColonLexed
  <2>4. CASE ch \in {"{", "}", "]", "|"}
    <3>1. k \in {l_brace(t, b), r_brace(t, b, s), r_bracket(t, b), v_line(t, b)}
      BY <2>1, <2>4 DEF lex_next_token, Digit
    <3> QED
      BY <2>1, <3>1, BraceLexed
  <2>5. CASE ch = "%" /\ "MatchChronoToken" \in s
    <3>1. k = chrono_percentage(t, b)
      BY <2>1, <2>5 DEF lex_next_token, Digit
    <3> QED
      BY <2>1, <3>1, PercentLexed
  <2>6. CASE ch \in Digit
    <3>1. ch \notin {"=", ">", "<", ":", "{", "}", "]", "|", "%"}
      BY <2>6 DEF Digit
    <3>2. k = digits_beg(t, b)
      BY <2>1, <2>6, <3>1 DEF lex_next_token
    <3>3. DigitsEnd(t, b) \in b..(Len(t) + 1) /\ DigitsEnd(t, b) > b
      BY <2>1, <2>6, DigitsEndWithin
    <3> QED
      BY <2>1, <3>2, <3>3, AcceptLexed, SomeTokens DEF digits_beg
  <2>7. CASE /\ ch \notin {"=", ">", "<", ":", "{", "}", "]", "|"} \cup Digit
             /\ ~(ch = "%" /\ "MatchChronoToken" \in s)
    <3>1. k = Accept("OtherChar", b, b + 1)
      BY <2>1, <2>7 DEF lex_next_token
    <3> QED
      BY <2>1, <3>1, ShortTokenLexed, SomeTokens
  <2> QED
    BY <2>2, <2>3, <2>4, <2>5, <2>6, <2>7
<1> QED
  BY <1>1, <1>2, <1>3

--------------------------------------------------------------------------------
(* The field.                                                                  *)

\* Of a record that is assigned to by components the provers have to know which there are.
FieldShape(f) ==
  f = [class |-> f.class, id |-> f.id, type |-> f.type, prop |-> f.prop, split |-> f.split,
       align |-> f.align, fill |-> f.fill, sign |-> f.sign, width |-> f.width, fmt |-> f.fmt,
       items |-> f.items]

\* The items of a time, as a field stores them.
ItemRecords == [item : ChronoItems, split : Seq(SplitChars)]

\* A number of two digits.
Props == 0..99

FieldOK(f) ==
  /\ FieldShape(f)
  /\ f.class \in ArgClass
  /\ f.id \in 0..(Word - 1)
  /\ f.type \in ArgType \cup {Unknown}
  /\ f.prop \in Props
  /\ f.split \in Seq(ListChars)
  /\ f.align \in Align
  /\ f.width \in -1..(PlaceMaxWidth - 1)
  /\ f.fmt \in FormatType
  /\ f.items \in Seq(ItemRecords)
  /\ Len(f.items) <= ChronoPlaceMax

LEMMA PartsOK ==
  ASSUME NEW f, FieldOK(f), NEW v
  PROVE  /\ v \in ArgClass => FieldOK([f EXCEPT !.class = v])
         /\ v \in 0..(Word - 1) => FieldOK([f EXCEPT !.id = v])
         /\ v \in ArgType => FieldOK([f EXCEPT !.type = v])
         /\ v \in Props => FieldOK([f EXCEPT !.prop = v])
         /\ v \in Seq(ListChars) => FieldOK([f EXCEPT !.split = v])
         /\ v \in Align => FieldOK([f EXCEPT !.align = v])
         /\ FieldOK([f EXCEPT !.fill = v])
         /\ FieldOK([f EXCEPT !.sign = v])
         /\ v \in 0..(PlaceMaxWidth - 1) => FieldOK([f EXCEPT !.width = v])
         /\ v \in FormatType => FieldOK([f EXCEPT !.fmt = v])
         /\ v \in Seq(ItemRecords) /\ Len(v) <= ChronoPlaceMax => FieldOK([f EXCEPT !.items = v])
<1>1. v \in ArgClass => FieldOK([f EXCEPT !.class = v])
  BY DEF FieldOK, FieldShape
<1>2. v \in 0..(Word - 1) => FieldOK([f EXCEPT !.id = v])
  <2> DEFINE g == [f EXCEPT !.id = v]
  <2>1. FieldShape(g)
    BY DEF FieldOK, FieldShape
  <2>2. /\ g.id = v /\ g.class = f.class /\ g.type = f.type /\ g.prop = f.prop
        /\ g.split = f.split /\ g.align = f.align /\ g.width = f.width /\ g.fmt = f.fmt
        /\ g.items = f.items
    BY DEF FieldOK, FieldShape
  <2>3. v \in 0..(Word - 1) => FieldOK(g)
    <3> HIDE DEF g
    <3> QED
      BY <2>1, <2>2, Zenon DEF FieldOK
  <2> QED
    BY <2>3
<1>3. v \in ArgType => FieldOK([f EXCEPT !.type = v])
  BY DEF FieldOK, FieldShape
<1>4. v \in Props => FieldOK([f EXCEPT !.prop = v])
  BY DEF FieldOK, FieldShape
<1>5. v \in Seq(ListChars) => FieldOK([f EXCEPT !.split = v])
  BY DEF FieldOK, FieldShape
<1>6. v \in Align => FieldOK([f EXCEPT !.align = v])
  BY DEF FieldOK, FieldShape
<1>7. FieldOK([f EXCEPT !.fill = v])
  BY DEF FieldOK, FieldShape
<1>8. FieldOK([f EXCEPT !.sign = v])
  BY DEF FieldOK, FieldShape
<1>9. v \in 0..(PlaceMaxWidth - 1) => FieldOK([f EXCEPT !.width = v])
  <2>1. v \in 0..(PlaceMaxWidth - 1) => v \in -1..(PlaceMaxWidth - 1)
    BY ParserAssumption
  <2> QED
    BY <2>1 DEF FieldOK, FieldShape
<1>10. v \in FormatType => FieldOK([f EXCEPT !.fmt = v])
  BY DEF FieldOK, FieldShape
<1>11. v \in Seq(ItemRecords) /\ Len(v) <= ChronoPlaceMax => FieldOK([f EXCEPT !.items = v])
  BY DEF FieldOK, FieldShape
<1> QED
  BY <1>1, <1>2, <1>3, <1>4, <1>5, <1>6, <1>7, <1>8, <1>9, <1>10, <1>11

LEMMA NoFieldOK == FieldOK(NoField)
<1>1. UnSpec \in FormatType
  BY DEF FormatType
<1>2. <<>> \in Seq(ItemRecords) /\ Len(<<>>) = 0
  OBVIOUS
<1>3. "Right" \in Align
  BY DEF Align, AlignOf, AlignTokens
<1>4. <<",", " ">> \in Seq(ListChars)
  <2>1. \A c, d \in ListChars : <<c, d>> \in Seq(ListChars)
    OBVIOUS
  <2>2. "," \in ListChars /\ " " \in ListChars
    BY Zenon DEF ListChars, SplitChars
  <2> QED
    BY <2>1, <2>2, Zenon
<1>5. NoField.split \in Seq(ListChars) /\ FieldShape(NoField)
  BY <1>4 DEF NoField, FieldShape
<1>6. /\ NoField.class = "Value" /\ NoField.id = 0 /\ NoField.type = Unknown /\ NoField.prop = 0
      /\ NoField.align = "Right" /\ NoField.width = -1 /\ NoField.fmt = UnSpec
      /\ NoField.items = <<>>
  BY DEF NoField
<1> HIDE DEF UnSpec
<1> QED
  BY <1>1, <1>2, <1>3, <1>5, <1>6, ParserAssumption DEF FieldOK, ArgClass, Props

--------------------------------------------------------------------------------
(* Steps.                                                                      *)

\* The inductive invariant: ParserTypeOK, that the first token is read within the text, that
\* a token which takes in the terminator is the end, or names a point type, which
\* tokens end a call, and that the bits of a quantized type have a digit.
ParserInv ==
  /\ text \in Seq(STRING)
  /\ token.type \in TokenType
  /\ token.beg \in 1..(Len(text) + 1)
  /\ token.len \in Nat
  /\ current = token.beg + token.len
  /\ current <= Len(text) + 2
  /\ current = Len(text) + 2 => MayTakeNUL(text, token.type)
  /\ stage \subseteq ParserStage
  /\ pc \in Running \cup Ended
  /\ pc = "goal" => current <= Len(text) + 1
  /\ pc = "done" => token.type \in BraceTypes
  /\ NamesBits(text, token)
  /\ ret \in ParserResults
  /\ FieldOK(field)

Moves == current' > current \/ (current' = current /\ Order[pc'] > Order[pc])

LostInList == pc' = "lost" => pc = "split_chars" \/ NamesPointType(text)

\* What is shown of each step.
Good == ParserInv' /\ Moves /\ LostInList

\* No item of a time has the name of the unknown, of the end or of a closing brace.
LEMMA BeyondIsNoToken ==
  /\ "Beyond" \notin TokenType
  /\ "EOF" \notin ChronoTokens
  /\ ChronoTokens \cap BraceTypes = {}
<1>1. ASSUME NEW c \in DOMAIN ChronoUserdef, NEW n \in 1..Len(ChronoUserdef[c])
      PROVE  ChronoUserdef[c][n] \notin {"Beyond", "EOF"} \cup BraceTypes
  <2>1. c \in {"y", "M", "d", "h", "H", "m", "s", "x", "w"}
    BY DEF ChronoUserdef
  <2>2. CASE c = "y"
    BY <2>2 DEF ChronoUserdef, BraceTypes, Closers
  <2>3. CASE c = "M"
    BY <2>3 DEF ChronoUserdef, BraceTypes, Closers
  <2>4. CASE c = "d"
    BY <2>4 DEF ChronoUserdef, BraceTypes, Closers
  <2>5. CASE c = "h"
    BY <2>5 DEF ChronoUserdef, BraceTypes, Closers
  <2>6. CASE c = "H"
    BY <2>6 DEF ChronoUserdef, BraceTypes, Closers
  <2>7. CASE c = "m"
    BY <2>7 DEF ChronoUserdef, BraceTypes, Closers
  <2>8. CASE c = "s"
    BY <2>8 DEF ChronoUserdef, BraceTypes, Closers
  <2>9. CASE c = "x"
    BY <2>9 DEF ChronoUserdef, BraceTypes, Closers
  <2>10. CASE c = "w"
    BY <2>10 DEF ChronoUserdef, BraceTypes, Closers
  <2> QED
    BY <2>1, <2>2, <2>3, <2>4, <2>5, <2>6, <2>7, <2>8, <2>9, <2>10
<1>2. UserdefTokens \cap ({"Beyond", "EOF"} \cup BraceTypes) = {}
  BY <1>1 DEF UserdefTokens
<1> QED
  BY <1>2 DEF TokenType, AlignTokens, IntTokens, QuatTokens, PointTokens, ChronoTokens, PredefTokens,
             BraceTypes, Closers

LEMMA OrderEnds ==
  /\ \A p \in Running : Order[p] \in 1..15
  /\ \A p \in Ended : Order[p] = 16
BY DEF Running, Ended, Order

LEMMA FailStep ==
  ASSUME ParserInv, pc \in Running, NEW err \in ParserResults, Fail(err)
  PROVE  Good
<1>1. /\ pc' = "failed" /\ ret' = err
      /\ UNCHANGED <<text, current, token, stage, field>>
  BY DEF Fail
<1>2. FieldOK(field)'
  BY <1>1 DEF ParserInv, FieldOK, ItemRecords, ListChars, SplitChars, FieldShape
<1>3. ParserInv'
  BY <1>1, <1>2 DEF ParserInv, Ended, MayTakeNUL, NamesPointType, NamesBits, At
<1>4. Order[pc'] > Order[pc]
  BY <1>1, OrderEnds DEF Ended
<1> QED
  BY <1>1, <1>3, <1>4 DEF Good, Moves, LostInList

LEMMA SkipStep ==
  ASSUME ParserInv, NEW to \in (Running \cup {"done"}) \ {"goal"}, Order[to] > Order[pc],
         to = "done" => token.type \in BraceTypes,
         NEW f, FieldOK(f), Skip(to, f)
  PROVE  Good
<1>1. /\ pc' = to /\ field' = f
      /\ UNCHANGED <<text, current, token, stage, ret>>
  BY DEF Skip
<1>2. FieldOK(field)'
  BY <1>1 DEF FieldOK, ItemRecords, ListChars, SplitChars, FieldShape
<1>3. ParserInv'
  BY <1>1, <1>2 DEF ParserInv, Ended, MayTakeNUL, NamesPointType, NamesBits, At
<1>4. to # "lost"
  BY DEF Running
<1> QED
  BY <1>1, <1>3, <1>4 DEF Good, Moves, LostInList

LEMMA NextTokenStep ==
  ASSUME ParserInv, pc \in Running,
         pc \in {"goal", "split_chars"} \/ token.type # "EOF",
         NEW s, s \subseteq ParserStage, NEW to \in Running \ {"goal"}, NEW f, FieldOK(f),
         parser_next_token(s, to, f)
  PROVE  Good
<1> DEFINE k == lex_next_token(text, current, s)
<1>1. Lexed(text, current, k)
  BY LexerLexed DEF ParserInv
<1>2. stage' = s /\ UNCHANGED text
  BY DEF parser_next_token
<1>3. ASSUME NEW g, FieldOK(g), field' = g PROVE FieldOK(field)'
  BY <1>2, <1>3 DEF FieldOK, ItemRecords, ListChars, SplitChars, FieldShape
<1>4. CASE k.type \notin NoToken /\ token' = k /\ current' = current + k.len /\ pc' = to /\ field' = f
                /\ UNCHANGED ret
  <2>1. /\ k.beg = current
        /\ k.type \in TokenType /\ k.len \in Nat /\ k.len >= 1
        /\ current + k.len <= Len(text) + 2
        /\ current + k.len = Len(text) + 2 => MayTakeNUL(text, k.type)
        /\ NamesBits(text, k)
    BY <1>1, <1>4 DEF Lexed, NoToken
  <2>2. current \in 1..(Len(text) + 1) /\ current' > current
    BY <1>4, <2>1 DEF ParserInv
  <2> HIDE DEF k
  <2>3. (current = Len(text) + 2 => MayTakeNUL(text, token.type))'
    BY <1>2, <1>4, <2>1
  <2>5. to \in Running /\ to \notin {"goal", "done"}
    BY DEF Running
  <2>6. FieldOK(field)'
    BY <1>3, <1>4
  <2>8. NamesBits(text, token)'
    BY <1>2, <1>4, <2>1 DEF NamesBits, At
  <2>7. ParserInv'
    BY <1>2, <1>4, <2>1, <2>2, <2>3, <2>5, <2>6, <2>8 DEF ParserInv
  <2>4. pc' # "lost"
    BY <1>4 DEF Running
  <2> QED
    BY <2>2, <2>4, <2>7 DEF Good, Moves, LostInList
<1>5. CASE pc' = "failed" /\ ret' = "MStr_Err_UnrecognizedToken" /\ UNCHANGED <<current, token, field>>
  <2>1. FieldOK(field)'
    BY <1>3, <1>5 DEF ParserInv
  <2>2. ParserInv'
    BY <1>2, <1>5, <2>1 DEF ParserInv, Ended, MayTakeNUL, NamesPointType, NamesBits, At, ParserResults
  <2>3. Order[pc'] > Order[pc]
    BY <1>5, OrderEnds DEF Ended
  <2> QED
    BY <1>5, <2>2, <2>3 DEF Good, Moves, LostInList
<1>6. CASE k.type = "Beyond" /\ pc' = "lost" /\ UNCHANGED <<current, token, field, ret>>
  <2>1. FieldOK(field)'
    BY <1>3, <1>6 DEF ParserInv
  <2>2. ParserInv'
    BY <1>2, <1>6, <2>1 DEF ParserInv, Ended, MayTakeNUL, NamesPointType, NamesBits, At
  <2>3. Order[pc'] > Order[pc]
    BY <1>6, OrderEnds DEF Ended
  <2>4. "Beyond" \notin TokenType \cup {"Unrecognized"}
    BY BeyondIsNoToken
  <2>5. current > Len(text) + 1 \/ NamesPointType(text)
    BY <1>1, <1>6, <2>4 DEF Lexed
  <2>6. current > Len(text) + 1 => current = Len(text) + 2 /\ pc # "goal"
    BY DEF ParserInv
  <2>7. LostInList
    BY <2>5, <2>6 DEF LostInList, ParserInv, MayTakeNUL
  <2> QED
    BY <1>6, <2>2, <2>3, <2>7 DEF Good, Moves
<1> QED
  BY <1>4, <1>5, <1>6 DEF parser_next_token

\* What the actions need of the invariant.
LEMMA Facts ==
  ASSUME ParserInv
  PROVE  /\ stage \subseteq ParserStage
         /\ stage \cup {"NeedEnd"} \subseteq ParserStage
         /\ stage \cup {"MatchChronoToken"} \subseteq ParserStage
         /\ parse_simple_field \subseteq ParserStage
         /\ FieldOK(field)
BY DEF ParserInv, ParserStage, parse_simple_field

LEMMA GoalStep ==
  ASSUME ParserInv, mstr_fmt_parse_goal
  PROVE  Good
BY Facts, NextTokenStep DEF mstr_fmt_parse_goal, Running

LEMMA EscapeCharStep ==
  ASSUME ParserInv, EscapeChar
  PROVE  Good
<1>1. FieldOK([field EXCEPT !.class = "EscapeChar"])
  BY Facts, PartsOK DEF ArgClass
<1>2. Order["done"] > Order["replacement"]
  BY DEF Order
<1>3. token.type \in BraceTypes
  BY DEF EscapeChar, BraceTypes, Closers
<1> QED
  BY <1>1, <1>2, <1>3, SkipStep DEF EscapeChar

LEMMA ReplacementStep ==
  ASSUME ParserInv, parse_replacement_field
  PROVE  Good
<1>1. pc = "replacement" /\ pc \in Running
  BY DEF parse_replacement_field, Running
<1>2. ASSUME NEW c \in {"Value", "Array"}, token.type # "EOF",
             parser_next_token(stage, "arg_id", [field EXCEPT !.class = c])
      PROVE  Good
  <2>1. FieldOK([field EXCEPT !.class = c])
    BY Facts, PartsOK DEF ArgClass
  <2>2. "arg_id" \in Running \ {"goal"}
    BY DEF Running
  <2> QED
    BY <1>1, <1>2, <2>1, <2>2, Facts, NextTokenStep
<1>3. ASSUME Fail("MStr_Err_MissingReplacement") PROVE Good
  BY <1>1, <1>3, FailStep DEF ParserResults
<1> QED
  BY <1>2, <1>3 DEF parse_replacement_field

LEMMA ArgIdStep ==
  ASSUME ParserInv, parse_arg_id
  PROVE  Good
<1> DEFINE id == lex_atou(TokenText)
<1> HIDE DEF id
<1>1. pc = "arg_id" /\ pc \in Running /\ "arg_type" \in Running \ {"goal"}
  BY DEF parse_arg_id, Running
<1>2. CASE token.type = "Digits"
  <2>1. /\ id \in 0..(Word - 1)
        /\ parser_next_token(parse_simple_field, "arg_type", [field EXCEPT !.id = id])
    BY <1>2 DEF parse_arg_id, id
  <2>2. FieldOK([field EXCEPT !.id = id])
    BY <2>1, Facts, PartsOK
  <2> QED
    BY <1>1, <1>2, <2>1, <2>2, Facts, NextTokenStep
<1>3. CASE token.type # "Digits"
  <2>1. Fail("MStr_Err_MissingArgumentID")
    BY <1>3 DEF parse_arg_id
  <2> QED
    BY <1>1, <2>1, FailStep DEF ParserResults
<1> QED
  BY <1>2, <1>3

\* A record that is assigned to in two parts is assigned to twice.
LEMMA TwoParts ==
  ASSUME NEW f, FieldOK(f), NEW v, NEW w
  PROVE  /\ v \in ArgType /\ w \in Props => FieldOK([f EXCEPT !.type = v, !.prop = w])
         /\ w \in Align => FieldOK([f EXCEPT !.fill = v, !.align = w])
<1>1. [f EXCEPT !.type = v, !.prop = w] = [[f EXCEPT !.type = v] EXCEPT !.prop = w]
  OBVIOUS
<1>2. [f EXCEPT !.fill = v, !.align = w] = [[f EXCEPT !.fill = v] EXCEPT !.align = w]
  OBVIOUS
<1> QED
  BY <1>1, <1>2, PartsOK

\* The number of bits that a quantized type names.
LEMMA PropsOK ==
  ASSUME ParserInv, token.type \in QuatTokens
  PROVE  parse_arg_get_fixed_props(TokenText) \in Props
<1>1. \A c \in Digit : DigitValue(c) \in 0..9
  BY DEF Digit, DigitValue
<1>2. token.len \in Nat /\ token.len >= 3 /\ At(text, token.beg + 2) \in Digit /\ token.beg \in Nat
  BY DEF ParserInv, NamesBits
<1> DEFINE chars == TokenText
<1>3. Len(chars) = token.len /\ chars[3] = At(text, token.beg + 3 - 1)
  BY <1>2 DEF TokenText
<1>4. token.beg + 3 - 1 = token.beg + 2
  BY <1>2
<1>5. chars[3] \in Digit
  BY <1>2, <1>3, <1>4
<1> HIDE DEF chars
<1> DEFINE a == DigitValue(chars[3])
           b == DigitValue(chars[4])
<1>6. /\ a \in 0..9
      /\ chars[4] \in Digit => b \in 0..9
  BY <1>1, <1>5
<1>8. \/ parse_arg_get_fixed_props(chars) = (a * 10) + b /\ chars[4] \in Digit
      \/ parse_arg_get_fixed_props(chars) = a
  BY DEF parse_arg_get_fixed_props
<1> HIDE DEF a, b
<1>7. parse_arg_get_fixed_props(chars) \in Props
  BY <1>6, <1>8, SMT DEF Props
<1> QED
  BY <1>7 DEF chars

LEMMA ArgTypeStep ==
  ASSUME ParserInv, parse_arg_type
  PROVE  Good
<1>1. pc = "arg_type" /\ pc \in Running
  BY DEF parse_arg_type, Running
<1>2. CASE token.type \in DOMAIN ArgTypeOf
  <2>1. PICK p \in Props : parser_next_token(stage, parse_array_field,
                   [field EXCEPT !.type = ArgTypeOf[token.type], !.prop = p])
    <3>1. PICK p : /\ p = IF token.type \in QuatTokens THEN parse_arg_get_fixed_props(TokenText) ELSE 0
                   /\ parser_next_token(stage, parse_array_field,
                        [field EXCEPT !.type = ArgTypeOf[token.type], !.prop = p])
      BY <1>2 DEF parse_arg_type
    <3>2. p \in Props
      BY <3>1, PropsOK, SMT DEF Props
    <3> QED
      BY <3>1, <3>2
  <2>2. ArgTypeOf[token.type] \in ArgType
    BY <1>2 DEF ArgType
  <2>3. FieldOK([field EXCEPT !.type = ArgTypeOf[token.type], !.prop = p])
    BY <2>2, Facts, TwoParts
  <2>4. parse_array_field \in Running \ {"goal"} /\ token.type # "EOF"
    BY <1>2 DEF parse_array_field, Running, ArgTypeOf
  <2> QED
    BY <1>1, <2>1, <2>3, <2>4, Facts, NextTokenStep
<1>3. CASE token.type \notin DOMAIN ArgTypeOf
  <2>1. Fail("MStr_Err_MissingArgumentType")
    BY <1>3 DEF parse_arg_type
  <2> QED
    BY <1>1, <2>1, FailStep DEF ParserResults
<1> QED
  BY <1>2, <1>3

LEMMA SplitStep ==
  ASSUME ParserInv, parse_opt_split_chars
  PROVE  Good
<1>1. pc = "split" /\ pc \in Running /\ "split_chars" \in Running \ {"goal"} /\ "spec" \in Running \ {"goal"}
  BY DEF parse_opt_split_chars, Running
<1>2. CASE token.type = "VlineColon"
  <2>1. parser_next_token(stage, "split_chars", [field EXCEPT !.split = <<>>])
    BY <1>2 DEF parse_opt_split_chars
  <2>3. <<>> \in Seq(ListChars)
    OBVIOUS
  <2>2. FieldOK([field EXCEPT !.split = <<>>])
    BY <2>3, Facts, PartsOK
  <2> QED
    BY <1>1, <1>2, <2>1, <2>2, Facts, NextTokenStep
<1>3. CASE token.type # "VlineColon"
  <2>1. Skip("spec", field)
    BY <1>3 DEF parse_opt_split_chars
  <2>2. Order["spec"] > Order["split"]
    BY DEF Order
  <2> QED
    BY <1>1, <2>1, <2>2, Facts, SkipStep
<1> QED
  BY <1>2, <1>3

LEMMA TokenTextOK ==
  ASSUME ParserInv
  PROVE  TokenText \in Seq(SplitChars)
<1>1. ASSUME NEW i \in 1..token.len PROVE At(text, token.beg + i - 1) \in SplitChars
  <2>1. token.beg + i - 1 \in Nat /\ token.beg + i - 1 >= 1
    BY DEF ParserInv
  <2> QED
    BY <2>1, WithinText DEF ParserInv, SplitChars
<1>2. token.len \in Nat
  BY DEF ParserInv
<1> QED
  BY <1>1, <1>2 DEF TokenText

LEMMA SplitCharsStep ==
  ASSUME ParserInv, parse_split_chars
  PROVE  Good
<1>1. pc = "split_chars" /\ pc \in Running \ {"goal"} /\ "spec" \in Running \ {"goal"}
  BY DEF parse_split_chars, Running
<1> DEFINE closed == token.type \in {"Colon", "RightBrace", "RightBracketBrace"}
           chars  == field.split \o TokenText
<1>2. CASE closed
  <2>1. Skip("spec", field)
    BY <1>2 DEF parse_split_chars
  <2>2. Order["spec"] > Order["split_chars"]
    BY DEF Order
  <2> QED
    BY <1>1, <2>1, <2>2, Facts, SkipStep
<1>3. CASE ~closed
  <2>1. parser_next_token(stage, "split_chars", [field EXCEPT !.split = chars])
    BY <1>3 DEF parse_split_chars
  <2>3. chars \in Seq(ListChars)
    <3>1. field.split \in Seq(ListChars)
      BY Facts DEF FieldOK
    <3>2. TokenText \in Seq(ListChars)
      <4>1. TokenText \in Seq(SplitChars) /\ SplitChars \subseteq ListChars
        BY TokenTextOK DEF ListChars
      <4> QED
        BY <4>1
    <3> QED
      BY <3>1, <3>2
  <2> HIDE DEF chars
  <2>2. FieldOK([field EXCEPT !.split = chars])
    BY <2>3, Facts, PartsOK
  <2> QED
    BY <1>1, <2>1, <2>2, Facts, NextTokenStep
<1> QED
  BY <1>2, <1>3

LEMMA SpecStep ==
  ASSUME ParserInv, parse_opt_formatfield_spec
  PROVE  Good
<1>1. pc = "spec" /\ pc \in Running /\ "items" \in Running \ {"goal"} /\ "end" \in Running \ {"goal"}
  BY DEF parse_opt_formatfield_spec, Running
<1>2. CASE token.type = "Colon"
  <2>1. parser_next_token(stage \cup {"MatchChronoToken"}, "items", field)
    BY <1>2 DEF parse_opt_formatfield_spec
  <2> QED
    BY <1>1, <1>2, <2>1, Facts, NextTokenStep
<1>3. CASE token.type # "Colon"
  <2>1. Skip("end", field)
    BY <1>3 DEF parse_opt_formatfield_spec
  <2>2. Order["end"] > Order["spec"]
    BY DEF Order
  <2> QED
    BY <1>1, <2>1, <2>2, Facts, SkipStep
<1> QED
  BY <1>2, <1>3

LEMMA SignStep ==
  ASSUME ParserInv, pc \in {"items", "sign"}, IsSign, NEW to \in {"sign", "width"}, Sign(to)
  PROVE  Good
<1>1. pc \in Running /\ to \in Running \ {"goal"}
  BY DEF Running
<1>2. FieldOK([field EXCEPT !.sign = SignOf(FirstChar)])
  BY Facts, PartsOK
<1>3. token.type # "EOF"
  BY DEF IsSign
<1> QED
  BY <1>1, <1>2, <1>3, Facts, NextTokenStep DEF Sign

LEMMA FormatStep ==
  ASSUME ParserInv, pc \in {"items", "format"}, token.type = "OtherChar", parse_format_spec
  PROVE  Good
<1>1. pc \in Running /\ "end" \in Running \ {"goal"}
  BY DEF Running
<1>2. CASE FirstChar \in DOMAIN FormatTypeOf
  <2>1. parser_next_token(stage, "end", [field EXCEPT !.fmt = FormatTypeOf[FirstChar]])
    BY <1>2 DEF parse_format_spec
  <2>2. FormatTypeOf[FirstChar] \in FormatType
    BY <1>2 DEF FormatType
  <2>3. FieldOK([field EXCEPT !.fmt = FormatTypeOf[FirstChar]])
    BY <2>2, Facts, PartsOK
  <2> QED
    BY <1>1, <2>1, <2>3, Facts, NextTokenStep
<1>3. CASE FirstChar \notin DOMAIN FormatTypeOf
  <2>1. Fail("MStr_Err_UnsupportFormatType")
    BY <1>3 DEF parse_format_spec
  <2> QED
    BY <1>1, <2>1, FailStep DEF ParserResults
<1> QED
  BY <1>2, <1>3

LEMMA ItemsStep ==
  ASSUME ParserInv, parse_opt_items
  PROVE  Good
<1>1. /\ pc = "items" /\ pc \in Running
      /\ "align" \in Running \ {"goal"} /\ "sign" \in Running \ {"goal"}
  BY DEF parse_opt_items, Running
<1>2. Order["sign"] > Order["items"]
  BY DEF Order
<1>3. \/ /\ token.type # "EOF"
         /\ parser_next_token(stage, "align", [field EXCEPT !.fill = FirstChar])
      \/ IsSign /\ Sign("sign")
      \/ token.type = "OtherChar" /\ parse_format_spec
      \/ Skip("sign", field)
      \/ Skip("sign", [field EXCEPT !.fill = " ", !.align = "Left"])
  <2> DEFINE one  == token.type \in {"Colon", "Digits", "LeftBrace", "OtherChar"}
             fill == parser_peek_token.type \in AlignTokens \cup NoToken
  <2>1. CASE one /\ fill
    BY <2>1 DEF parse_opt_items
  <2>2. CASE one /\ ~fill /\ IsSign
    BY <2>2 DEF parse_opt_items
  <2>3. CASE one /\ ~fill /\ ~IsSign
    BY <2>3 DEF parse_opt_items
  <2>4. CASE ~one
    BY <2>4 DEF parse_opt_items
  <2> QED
    BY <2>1, <2>2, <2>3, <2>4
<1>4. ASSUME token.type # "EOF", parser_next_token(stage, "align", [field EXCEPT !.fill = FirstChar])
      PROVE  Good
  <2>1. FieldOK([field EXCEPT !.fill = FirstChar])
    BY Facts, PartsOK
  <2> QED
    BY <1>1, <1>4, <2>1, Facts, NextTokenStep
<1>5. ASSUME Skip("sign", [field EXCEPT !.fill = " ", !.align = "Left"]) PROVE Good
  <2>2. "Left" \in Align
    BY DEF Align, AlignOf, AlignTokens
  <2>1. FieldOK([field EXCEPT !.fill = " ", !.align = "Left"])
    BY <2>2, Facts, TwoParts, Zenon
  <2> QED
    BY <1>1, <1>2, <1>5, <2>1, SkipStep
<1>6. Skip("sign", field) => Good
  BY <1>1, <1>2, Facts, SkipStep
<1> QED
  BY <1>1, <1>3, <1>4, <1>5, <1>6, SignStep, FormatStep

LEMMA AlignStep ==
  ASSUME ParserInv, parse_align
  PROVE  Good
<1>1. pc \in Running /\ "sign" \in Running \ {"goal"} /\ token.type # "EOF"
  BY DEF parse_align, Running, AlignTokens
<1>2. FieldOK([field EXCEPT !.align = AlignOf[token.type]])
  BY Facts, PartsOK DEF parse_align, Align
<1> QED
  BY <1>1, <1>2, Facts, NextTokenStep DEF parse_align

LEMMA OptSignStep ==
  ASSUME ParserInv, parse_opt_sign
  PROVE  Good
<1>1. CASE IsSign
  BY <1>1, SignStep DEF parse_opt_sign
<1>2. CASE ~IsSign
  <2>1. pc = "sign" /\ Skip("width", field) /\ "width" \in Running \ {"goal"}
    BY <1>2 DEF parse_opt_sign, Running
  <2>2. Order["width"] > Order["sign"]
    BY DEF Order
  <2> QED
    BY <2>1, <2>2, Facts, SkipStep
<1> QED
  BY <1>1, <1>2

LEMMA WidthStep ==
  ASSUME ParserInv, parse_opt_width
  PROVE  Good
<1> DEFINE w == lex_atou(TokenText)
<1> HIDE DEF w
<1>1. pc = "width" /\ pc \in Running /\ "format" \in Running \ {"goal"}
  BY DEF parse_opt_width, Running
<1>2. CASE token.type # "Digits"
  <2>1. Skip("format", field)
    BY <1>2 DEF parse_opt_width, w
  <2>2. Order["format"] > Order["width"]
    BY DEF Order
  <2> QED
    BY <1>1, <2>1, <2>2, Facts, SkipStep
<1>3. CASE token.type = "Digits" /\ w \in 0..(PlaceMaxWidth - 1)
  <2>1. parser_next_token(stage, "format", [field EXCEPT !.width = w])
    BY <1>3 DEF parse_opt_width, w
  <2>2. FieldOK([field EXCEPT !.width = w])
    BY <1>3, Facts, PartsOK
  <2> QED
    BY <1>1, <1>3, <2>1, <2>2, Facts, NextTokenStep
<1>4. CASE token.type = "Digits" /\ w \notin 0..(PlaceMaxWidth - 1)
  <2>1. Fail("MStr_Err_WidthTooLarge")
    BY <1>4 DEF parse_opt_width, w
  <2> QED
    BY <1>1, <2>1, FailStep DEF ParserResults
<1> QED
  BY <1>2, <1>3, <1>4

LEMMA FormatChronoStep ==
  ASSUME ParserInv, parse_opt_format_chrono_spec
  PROVE  Good
<1>1. pc = "format" /\ "chrono" \in Running \ {"goal"} /\ "end" \in Running \ {"goal"}
  BY DEF parse_opt_format_chrono_spec, Running
<1>2. Order["chrono"] > Order["format"] /\ Order["end"] > Order["format"]
  BY DEF Order
<1>3. \/ token.type = "OtherChar" /\ parse_format_spec
      \/ Skip("chrono", field)
      \/ Skip("end", field)
  <2>1. CASE token.type = "OtherChar" /\ token.type \in ChronoTokens
    BY <2>1 DEF parse_opt_format_chrono_spec
  <2>2. CASE token.type = "OtherChar" /\ token.type \notin ChronoTokens
    BY <2>2 DEF parse_opt_format_chrono_spec
  <2>3. CASE token.type # "OtherChar"
    BY <2>3 DEF parse_opt_format_chrono_spec
  <2> QED
    BY <2>1, <2>2, <2>3
<1> QED
  BY <1>1, <1>2, <1>3, Facts, SkipStep, FormatStep

\* The items that are named one by one.
LEMMA ItemAppended ==
  ASSUME NEW f, FieldOK(f), Len(f.items) < ChronoPlaceMax, NEW i \in ChronoItems
  PROVE  FieldOK([f EXCEPT !.items = Append(@, Split(i, <<>>))])
<1>1. Split(i, <<>>) \in ItemRecords
  BY DEF Split, ItemRecords
<1>2. f.items \in Seq(ItemRecords)
  BY DEF FieldOK
<1> DEFINE v == Append(f.items, Split(i, <<>>))
<1>3. v \in Seq(ItemRecords) /\ Len(v) = Len(f.items) + 1
  BY <1>1, <1>2
<1>4. Len(v) <= ChronoPlaceMax
  BY <1>2, <1>3, ParserAssumption
<1> HIDE DEF v
<1>5. FieldOK([f EXCEPT !.items = v])
  BY <1>3, <1>4, PartsOK
<1> QED
  BY <1>5 DEF v

\* A separator of an item is replaced; where there is no such item nothing is.
LEMMA SeparatorSet ==
  ASSUME NEW s \in Seq(ItemRecords), NEW n, NEW c, n \in 1..Len(s) => c \in Seq(SplitChars)
  PROVE  /\ [s EXCEPT ![n].split = c] \in Seq(ItemRecords)
         /\ Len([s EXCEPT ![n].split = c]) = Len(s)
<1> DEFINE r == [s[n] EXCEPT !.split = c]
<1>1. [s EXCEPT ![n].split = c] = [s EXCEPT ![n] = r]
  OBVIOUS
<1>2. CASE n \in 1..Len(s)
  <2>1. s[n] \in ItemRecords /\ c \in Seq(SplitChars)
    BY <1>2
  <2>2. r \in ItemRecords
    BY <2>1 DEF ItemRecords
  <2> HIDE DEF r
  <2>3. [s EXCEPT ![n] = r] \in Seq(ItemRecords) /\ Len([s EXCEPT ![n] = r]) = Len(s)
    BY <1>2, <2>2
  <2> QED
    BY <1>1, <2>3
<1>3. CASE n \notin 1..Len(s)
  <2> HIDE DEF r
  <2>1. [s EXCEPT ![n] = r] = s
    BY <1>3
  <2> QED
    BY <1>1, <2>1
<1> QED
  BY <1>2, <1>3

\* The separator of the last item grows.
LEMMA SeparatorGrows ==
  ASSUME NEW f, FieldOK(f), NEW n, NEW chars \in Seq(SplitChars)
  PROVE  FieldOK([f EXCEPT !.items[n].split = @ \o chars])
<1> DEFINE s == f.items
           c == s[n].split \o chars
           v == [s EXCEPT ![n].split = c]
<1>1. s \in Seq(ItemRecords) /\ Len(s) <= ChronoPlaceMax
  BY DEF FieldOK
<1>2. n \in 1..Len(s) => c \in Seq(SplitChars)
  <2>1. n \in 1..Len(s) => s[n] \in ItemRecords
    BY <1>1
  <2>2. n \in 1..Len(s) => s[n].split \in Seq(SplitChars)
    BY <2>1 DEF ItemRecords
  <2> QED
    BY <2>2
<1>3. [f EXCEPT !.items[n].split = @ \o chars] = [f EXCEPT !.items = v]
  OBVIOUS
<1>4. v \in Seq(ItemRecords) /\ Len(v) <= ChronoPlaceMax
  <2> HIDE DEF s, c
  <2> QED
    BY <1>1, <1>2, SeparatorSet
<1> HIDE DEF v
<1> QED
  BY <1>3, <1>4, PartsOK

LEMMA OneMore ==
  ASSUME NEW S, NEW a \in Seq(S), NEW b \in Seq(S)
  PROVE  a \o b \in Seq(S) /\ Len(a \o b) = Len(a) + Len(b)
OBVIOUS

LEMMA SevenItems ==
  ASSUME NEW S, NEW a \in S, NEW b \in S, NEW c \in S, NEW d \in S, NEW e \in S, NEW f \in S,
         NEW g \in S
  PROVE  <<a, b, c, d, e, f, g>> \in Seq(S) /\ Len(<<a, b, c, d, e, f, g>>) = 7
OBVIOUS

\* The items of %g and %f are items that a caller could have named.
LEMMA PredefNamed ==
  /\ Item("Year", TRUE, 4) \in ChronoItems /\ Item("Month", TRUE, 2) \in ChronoItems
  /\ Item("Day", TRUE, 2) \in ChronoItems /\ Item("Hour24", TRUE, 2) \in ChronoItems
  /\ Item("Minute", TRUE, 2) \in ChronoItems /\ Item("Second", TRUE, 2) \in ChronoItems
  /\ Item("SubSecond", TRUE, 4) \in ChronoItems /\ Item("Week", FALSE, 0) \in ChronoItems
<1>1. {"y", "M", "d", "H", "m", "s", "x", "w"} \subseteq DOMAIN ChronoUserdef
  BY DEF ChronoUserdef
<1>2. /\ ChronoUserdef["y"] = <<"Chrono_Year_1", "Chrono_Year_Fixed2", "Chrono_Year_3", "Chrono_Year_Fixed4">>
      /\ ChronoUserdef["M"] = <<"Chrono_Month_1", "Chrono_Month_Fixed2">>
      /\ ChronoUserdef["d"] = <<"Chrono_Day_1", "Chrono_Day_Fixed2">>
      /\ ChronoUserdef["H"] = <<"Chrono_Hour24_1", "Chrono_Hour24_Fixed2">>
      /\ ChronoUserdef["m"] = <<"Chrono_Minute_1", "Chrono_Minute_Fixed2">>
      /\ ChronoUserdef["s"] = <<"Chrono_Second_1", "Chrono_Second_Fixed2">>
      /\ ChronoUserdef["x"] = <<"Chrono_SubSecond_Fixed1", "Chrono_SubSecond_Fixed2",
                                "Chrono_SubSecond_Fixed3", "Chrono_SubSecond_Fixed4">>
      /\ ChronoUserdef["w"] = <<"Chrono_WeekName">>
  BY DEF ChronoUserdef
<1>3. ASSUME NEW c \in {"y", "M", "d", "H", "m", "s", "x", "w"}, NEW n \in 1..Len(ChronoUserdef[c])
      PROVE  ChronoItemOf[ChronoUserdef[c][n]] \in ChronoItems
  BY <1>1, UserdefNames DEF ChronoItems
<1>4. /\ ChronoItemOf["Chrono_Year_Fixed4"] \in ChronoItems
      /\ ChronoItemOf["Chrono_Month_Fixed2"] \in ChronoItems
      /\ ChronoItemOf["Chrono_Day_Fixed2"] \in ChronoItems
      /\ ChronoItemOf["Chrono_Hour24_Fixed2"] \in ChronoItems
      /\ ChronoItemOf["Chrono_Minute_Fixed2"] \in ChronoItems
      /\ ChronoItemOf["Chrono_Second_Fixed2"] \in ChronoItems
      /\ ChronoItemOf["Chrono_SubSecond_Fixed4"] \in ChronoItems
      /\ ChronoItemOf["Chrono_WeekName"] \in ChronoItems
  <2>1. 4 \in 1..Len(ChronoUserdef["y"]) /\ ChronoUserdef["y"][4] = "Chrono_Year_Fixed4"
    BY <1>2
  <2>2. 2 \in 1..Len(ChronoUserdef["M"]) /\ ChronoUserdef["M"][2] = "Chrono_Month_Fixed2"
    BY <1>2
  <2>3. 2 \in 1..Len(ChronoUserdef["d"]) /\ ChronoUserdef["d"][2] = "Chrono_Day_Fixed2"
    BY <1>2
  <2>4. 2 \in 1..Len(ChronoUserdef["H"]) /\ ChronoUserdef["H"][2] = "Chrono_Hour24_Fixed2"
    BY <1>2
  <2>5. 2 \in 1..Len(ChronoUserdef["m"]) /\ ChronoUserdef["m"][2] = "Chrono_Minute_Fixed2"
    BY <1>2
  <2>6. 2 \in 1..Len(ChronoUserdef["s"]) /\ ChronoUserdef["s"][2] = "Chrono_Second_Fixed2"
    BY <1>2
  <2>7. 4 \in 1..Len(ChronoUserdef["x"]) /\ ChronoUserdef["x"][4] = "Chrono_SubSecond_Fixed4"
    BY <1>2
  <2>8. 1 \in 1..Len(ChronoUserdef["w"]) /\ ChronoUserdef["w"][1] = "Chrono_WeekName"
    BY <1>2
  <2> QED
    BY <1>3, <2>1, <2>2, <2>3, <2>4, <2>5, <2>6, <2>7, <2>8
<1>5. /\ ChronoItemOf["Chrono_Year_Fixed4"] = Item("Year", TRUE, 4)
      /\ ChronoItemOf["Chrono_Month_Fixed2"] = Item("Month", TRUE, 2)
      /\ ChronoItemOf["Chrono_Day_Fixed2"] = Item("Day", TRUE, 2)
      /\ ChronoItemOf["Chrono_Hour24_Fixed2"] = Item("Hour24", TRUE, 2)
      /\ ChronoItemOf["Chrono_Minute_Fixed2"] = Item("Minute", TRUE, 2)
      /\ ChronoItemOf["Chrono_Second_Fixed2"] = Item("Second", TRUE, 2)
      /\ ChronoItemOf["Chrono_SubSecond_Fixed4"] = Item("SubSecond", TRUE, 4)
      /\ ChronoItemOf["Chrono_WeekName"] = Item("Week", FALSE, 0)
  BY DEF ChronoItemOf
<1> QED
  BY <1>4, <1>5

\* There is room for the items of %g and %f.
LEMMA PredefItems ==
  /\ Predef_g \in Seq(ItemRecords) /\ Len(Predef_g) = 7
  /\ Predef_f \in Seq(ItemRecords) /\ Len(Predef_f) = 8
<1>1. \A c \in {"-", " ", ":", "."} : <<c>> \in Seq(SplitChars)
  <2>1. {"-", " ", ":", "."} \subseteq SplitChars
    BY DEF SplitChars
  <2>2. ASSUME NEW c \in SplitChars PROVE <<c>> \in Seq(SplitChars)
    OBVIOUS
  <2> QED
    BY <2>1, <2>2
<1>2. ASSUME NEW i \in ChronoItems, NEW s \in Seq(SplitChars) PROVE Split(i, s) \in ItemRecords
  BY DEF Split, ItemRecords
<1>3. \A i \in ChronoItems : Split(i, <<>>) \in ItemRecords
  <2>1. <<>> \in Seq(SplitChars)
    OBVIOUS
  <2> QED
    BY <1>2, <2>1
<1>4. Predef_g \in Seq(ItemRecords) /\ Len(Predef_g) = 7
  BY <1>1, <1>2, <1>3, PredefNamed, SevenItems DEF Predef_g
<1>5. /\ [Predef_g EXCEPT ![7].split = <<" ">>] \in Seq(ItemRecords)
      /\ Len([Predef_g EXCEPT ![7].split = <<" ">>]) = 7
  BY <1>1, <1>4, SeparatorSet
<1>6. Split(Item("Week", FALSE, 0), <<>>) \in ItemRecords
  BY <1>3, PredefNamed
<1> DEFINE g == [Predef_g EXCEPT ![7].split = <<" ">>]
           w == Split(Item("Week", FALSE, 0), <<>>)
<1>7. Predef_f = g \o <<w>>
  BY DEF Predef_f
<1> HIDE DEF g, w
<1>8. g \in Seq(ItemRecords) /\ Len(g) = 7 /\ w \in ItemRecords
  BY <1>5, <1>6 DEF g, w
<1> DEFINE h == <<w>>
<1>9. h \in Seq(ItemRecords) /\ Len(h) = 1
  BY <1>8
<1> HIDE DEF h
<1>10. g \o h \in Seq(ItemRecords) /\ Len(g \o h) = Len(g) + Len(h)
  BY <1>8, <1>9, OneMore, Zenon
<1>11. Len(g) + Len(h) = 8
  BY <1>8, <1>9
<1> QED
  BY <1>4, <1>7, <1>10, <1>11, Zenon DEF h

LEMMA ChronoStep ==
  ASSUME ParserInv, parse_chrono_spec
  PROVE  Good
<1> DEFINE items == IF token.type = "ChronoPredef_g" THEN Predef_g ELSE Predef_f
<1>1. pc \in Running /\ "end" \in Running \ {"goal"} /\ token.type # "EOF"
  BY DEF parse_chrono_spec, Running, PredefTokens
<1>2. parser_next_token(stage, "end", [field EXCEPT !.items = items])
  BY DEF parse_chrono_spec
<1>3. items \in Seq(ItemRecords) /\ Len(items) <= ChronoPlaceMax
  <2>1. 7 <= ChronoPlaceMax /\ 8 <= ChronoPlaceMax
    BY ParserAssumption
  <2> QED
    BY <2>1, PredefItems
<1> HIDE DEF items
<1>4. FieldOK([field EXCEPT !.items = items])
  BY <1>3, Facts, PartsOK
<1> QED
  BY <1>1, <1>2, <1>4, Facts, NextTokenStep

LEMMA ChronoItemStep ==
  ASSUME ParserInv, parse_chrono_spec_item
  PROVE  Good
<1>1. pc \in Running /\ "chrono_split" \in Running \ {"goal"}
  BY DEF parse_chrono_spec_item, Running
<1>2. CASE ~ItemsFull /\ token.type \in UserdefTokens
  <2> DEFINE f == [field EXCEPT !.items = Append(@, Split(ChronoItemOf[token.type], <<>>))]
  <2>1. parser_next_token(stage, "chrono_split", f)
    BY <1>2 DEF parse_chrono_spec_item
  <2>2. ChronoItemOf[token.type] \in ChronoItems
    BY <1>2 DEF ChronoItems
  <2>3. Len(field.items) < ChronoPlaceMax
    BY <1>2, Facts, ParserAssumption DEF ItemsFull, FieldOK
  <2>4. FieldOK(f)
    BY <2>2, <2>3, Facts, ItemAppended
  <2>5. token.type # "EOF"
    BY <1>2, BeyondIsNoToken DEF ChronoTokens
  <2> HIDE DEF f
  <2> QED
    BY <1>1, <2>1, <2>4, <2>5, Facts, NextTokenStep
<1>3. CASE ~(~ItemsFull /\ token.type \in UserdefTokens)
  <2>1. \/ Fail("MStr_Err_TooMoreChronoItem")
        \/ Fail("MStr_Err_MissingChronoItemType")
    BY <1>3 DEF parse_chrono_spec_item
  <2> QED
    BY <1>1, <2>1, FailStep DEF ParserResults
<1> QED
  BY <1>2, <1>3

LEMMA ChronoSplitStep ==
  ASSUME ParserInv, ChronoSplit
  PROVE  Good
<1>1. /\ pc = "chrono_split" /\ pc \in Running \ {"goal"}
      /\ "chrono" \in Running \ {"goal"} /\ "end" \in Running \ {"goal"}
  BY DEF ChronoSplit, Running
<1>2. Order["chrono"] > Order["chrono_split"] /\ Order["end"] > Order["chrono_split"]
  BY DEF Order
<1> DEFINE f == [field EXCEPT !.items[Len(field.items)].split = @ \o TokenText]
<1>3. \/ Skip("chrono", field)
      \/ Skip("end", field)
      \/ parser_next_token(stage, "chrono_split", f) /\ token.type # "EOF"
  <2>1. CASE token.type \in ChronoTokens /\ token.type \notin SplitEnds
    BY <2>1 DEF ChronoSplit
  <2>2. CASE token.type \in SplitEnds
    BY <2>2 DEF ChronoSplit
  <2>3. CASE token.type \notin ChronoTokens \cup SplitEnds
    <3>1. parser_next_token(stage, "chrono_split", f)
      BY <2>3 DEF ChronoSplit
    <3>2. token.type # "EOF"
      BY <2>3 DEF SplitEnds
    <3> QED
      BY <3>1, <3>2
  <2> QED
    BY <2>1, <2>2, <2>3
<1>4. FieldOK(f)
  BY Facts, TokenTextOK, SeparatorGrows
<1> HIDE DEF f
<1> QED
  BY <1>1, <1>2, <1>3, <1>4, Facts, SkipStep, NextTokenStep

LEMMA EndStep ==
  ASSUME ParserInv, parse_end_token
  PROVE  Good
<1>1. /\ pc = "end" /\ pc' \in {"done", "failed"}
      /\ ret' \in ParserResults
      /\ stage' = {}
      /\ UNCHANGED <<text, current, token, field>>
  BY DEF parse_end_token, ParserInv, ParserResults
<1>2. FieldOK(field)'
  BY <1>1 DEF ParserInv, FieldOK, ItemRecords, ListChars, SplitChars, FieldShape
<1>3. pc' = "done" => token.type \in BraceTypes
  BY DEF parse_end_token, BraceTypes, Closers
<1>4. ParserInv'
  BY <1>1, <1>2, <1>3 DEF ParserInv, Ended, MayTakeNUL, NamesPointType, NamesBits, At
<1>5. Order[pc'] > Order[pc]
  BY <1>1 DEF Order
<1> QED
  BY <1>1, <1>4, <1>5 DEF Good, Moves, LostInList

LEMMA EachStep ==
  ASSUME ParserInv, ParserNext
  PROVE  Good
BY GoalStep, EscapeCharStep, ReplacementStep, ArgIdStep, ArgTypeStep, SplitStep, SplitCharsStep,
   SpecStep, ItemsStep, AlignStep, OptSignStep, WidthStep, FormatChronoStep, ChronoStep,
   ChronoItemStep, ChronoSplitStep, EndStep DEF ParserNext

--------------------------------------------------------------------------------
(* The theorems.                                                               *)

LEMMA ParserStarts == ParserInit => ParserInv
<1> SUFFICES ASSUME ParserInit PROVE ParserInv
  OBVIOUS
<1>1. text \in Seq(STRING)
  BY ParserAssumption DEF ParserInit
<1>2. /\ current = 1 /\ token.type = "EOF" /\ token.beg = 1 /\ token.len = 0
      /\ stage = {} /\ pc = "goal" /\ field = NoField /\ ret = "MStr_Ok"
  BY DEF ParserInit, ParserStart, Accept
<1>3. "EOF" \in TokenType
  BY DEF TokenType
<1>4. NamesBits(text, token)
  BY <1>2 DEF NamesBits, QuatTokens
<1> QED
  BY <1>1, <1>2, <1>3, <1>4, NoFieldOK DEF ParserInv, Running, ParserResults

LEMMA ParserAlways == ParserSpec => []ParserInv
<1>1. ParserInv /\ UNCHANGED parser_vars => ParserInv'
  BY DEF ParserInv, parser_vars, FieldOK, ItemRecords, ListChars, SplitChars, FieldShape,
         MayTakeNUL, NamesPointType, NamesBits, At
<1>2. ParserInv /\ [ParserNext]_parser_vars => ParserInv'
  BY <1>1, EachStep DEF Good
<1> QED
  BY <1>2, ParserStarts, PTL DEF ParserSpec

\* Whatever the text, the parser stays within it and within the tables of the result: the
\* current token lies in the text, the next one begins at most behind the terminator, and
\* the field has a type, a width, a format and items that an MStrFmtParseResult can hold.
THEOREM ParserTypes == ParserSpec => []ParserTypeOK
<1>1. ParserInv => ParserTypeOK
  BY DEF ParserInv, ParserTypeOK, FieldOK, ItemRecords, Props
<1> QED
  BY <1>1, ParserAlways, PTL

\* No loop of the parser stands still, whatever the text: each step reads a character or
\* comes nearer to the end of the call.
THEOREM ParserAdvances == ParserSpec => Advances
<1>1. ParserInv /\ [ParserNext]_parser_vars => [Moves]_parser_vars
  BY EachStep DEF Good
<1> QED
  BY <1>1, ParserAlways, PTL DEF ParserSpec, Advances, Moves

\* Whatever the text, the parser looks behind the terminator only from a list of
\* separators that is not closed, or where a point type is named.
THEOREM ParserStaysInText == ParserSpec => OnlyListsRunOn
<1>1. ParserInv /\ [ParserNext]_parser_vars => [LostInList]_parser_vars
  BY EachStep DEF Good
<1> QED
  BY <1>1, ParserAlways, PTL DEF ParserSpec, OnlyListsRunOn, LostInList

\* The parser only reads its text.
LEMMA TextStays == ParserNext => text' = text
<1>1. \A s, to, f : parser_next_token(s, to, f) => text' = text
  BY DEF parser_next_token
<1>2. \A to, f : Skip(to, f) => text' = text
  BY DEF Skip
<1>3. \A err : Fail(err) => text' = text
  BY DEF Fail
<1>4. parse_format_spec \/ (\E to : Sign(to)) => text' = text
  BY <1>1, <1>3 DEF parse_format_spec, Sign
<1>5. mstr_fmt_parse_goal \/ EscapeChar \/ parse_replacement_field \/ parse_arg_id \/ parse_arg_type =>
        text' = text
  BY <1>1, <1>2, <1>3 DEF mstr_fmt_parse_goal, EscapeChar, parse_replacement_field, parse_arg_id,
       parse_arg_type
<1>6. parse_opt_split_chars \/ parse_split_chars \/ parse_opt_formatfield_spec => text' = text
  BY <1>1, <1>2, <1>3 DEF parse_opt_split_chars, parse_split_chars, parse_opt_formatfield_spec
<1>7. parse_opt_items \/ parse_align \/ parse_opt_sign => text' = text
  BY <1>1, <1>2, <1>4 DEF parse_opt_items, parse_align, parse_opt_sign
<1>8. parse_opt_width \/ parse_opt_format_chrono_spec => text' = text
  BY <1>1, <1>2, <1>3, <1>4 DEF parse_opt_width, parse_opt_format_chrono_spec
<1>9. parse_chrono_spec \/ parse_chrono_spec_item \/ ChronoSplit \/ parse_end_token => text' = text
  BY <1>1, <1>2, <1>3 DEF parse_chrono_spec, parse_chrono_spec_item, ChronoSplit, parse_end_token
<1> QED
  BY <1>5, <1>6, <1>7, <1>8, <1>9 DEF ParserNext

--------------------------------------------------------------------------------
(* Which tokens hold what closes a field.                                      *)

\* Braces and brackets.  (The SMT encoding has no name for a string of one brace, so
\* what is said of braces is said with these.)
Opening(t, p) == At(t, p) = "{"

Closing(t, p) == At(t, p) = "}"

ClosingArray(t, p) == At(t, p) = "]" /\ Closing(t, p + 1)

Brace(t, p) == Opening(t, p) \/ Closing(t, p)

Plain(t, p) == At(t, p) \notin {"}", "]"}

LEMMA PlainPlaces ==
  ASSUME NEW t, NEW p
  PROVE  /\ Plain(t, p) => ~ Closing(t, p) /\ ~ ClosingArray(t, p)
         /\ Closing(t, p) => ~ ClosingArray(t, p)
         /\ At(t, p) \in {":", "i", "u", "q", "s", "t", "%", "f", "g", "|", NUL, "=", "<", ">"}
              => Plain(t, p)
         /\ At(t, p) \in Digit \cup DOMAIN ChronoUserdef => Plain(t, p)
<1>1. Plain(t, p) => ~ Closing(t, p) /\ ~ ClosingArray(t, p)
  BY DEF Plain, Closing, ClosingArray
<1>2. Closing(t, p) => ~ ClosingArray(t, p)
  BY Zenon DEF Closing, ClosingArray
<1>3. At(t, p) \in {":", "i", "u", "q", "s", "t", "%", "f", "g", "|", NUL, "=", "<", ">"} => Plain(t, p)
  BY Zenon DEF Plain, NUL
<1>4. At(t, p) \in Digit => Plain(t, p)
  BY Zenon DEF Plain, Digit
<1>5. At(t, p) \in DOMAIN ChronoUserdef => Plain(t, p)
  <2>1. DOMAIN ChronoUserdef = {"y", "M", "d", "h", "H", "m", "s", "x", "w"}
    BY DEF ChronoUserdef
  <2> QED
    BY <2>1, Zenon DEF Plain
<1> QED
  BY <1>1, <1>2, <1>3, <1>4, <1>5

TokenPlaces(k) == k.beg..(k.beg + k.len - 1)

\* The brackets that a token holds: one that is not named for a closing brace holds none,
\* and one that is not named for the end of an array does not begin with it.
BracesNamed(t, k) ==
  /\ k.type = "RightBrace" => k.len = 1 /\ Closing(t, k.beg)
  /\ k.type = "RightBracketBrace" => k.len = 2 /\ ClosingArray(t, k.beg)
  /\ k.type \in {"LeftBraceBrace", "RightBraceBrace"} =>
       k.len = 2 /\ Brace(t, k.beg) /\ At(t, k.beg + 1) = At(t, k.beg)
  /\ k.type \notin Closers => \A p \in TokenPlaces(k) : ~ Closing(t, p)
  /\ k.type # "RightBracketBrace" => \A p \in TokenPlaces(k) : ~ ClosingArray(t, p)

\* From b up to end there are no brackets.
PlainUpTo(t, b, end) == \A p \in b..(end - 1) : Plain(t, p)

\* A token without brackets, or none.
NoBracket(t, k) ==
  \/ k.type \in NoToken
  \/ k.type \notin BraceTypes /\ \A p \in TokenPlaces(k) : Plain(t, p)

LEMMA NoBracketNamed ==
  ASSUME NEW t, NEW k, NoBracket(t, k), k.type \notin NoToken
  PROVE  BracesNamed(t, k) /\ k.type # "RightBraceBrace"
<1>1. k.type \notin BraceTypes /\ \A p \in TokenPlaces(k) : Plain(t, p)
  BY DEF NoBracket
<1>2. \A p \in TokenPlaces(k) : ~ Closing(t, p) /\ ~ ClosingArray(t, p)
  BY <1>1, PlainPlaces
<1>3. k.type \notin Closers \cup {"LeftBraceBrace", "RightBraceBrace"}
  BY <1>1 DEF BraceTypes, Closers
<1>4. k.type \notin {"RightBrace", "RightBracketBrace"}
  BY <1>1 DEF BraceTypes, Closers
<1> QED
  BY <1>2, <1>3, <1>4 DEF BracesNamed

LEMMA NoTokenNoBracket ==
  ASSUME NEW t, NEW b
  PROVE  NoBracket(t, No("Unrecognized", b)) /\ NoBracket(t, No("Beyond", b))
BY DEF NoBracket, No, Accept, NoToken

LEMMA AcceptNoBracket ==
  ASSUME NEW t, NEW b \in Nat, NEW end \in Nat, NEW typ, typ \notin BraceTypes,
         PlainUpTo(t, b, end)
  PROVE  NoBracket(t, Accept(typ, b, end))
<1>1. b + (end - b) - 1 = end - 1
  OBVIOUS
<1>2. Accept(typ, b, end).type = typ /\ TokenPlaces(Accept(typ, b, end)) = b..(end - 1)
  BY <1>1 DEF Accept, TokenPlaces
<1> QED
  BY <1>2 DEF NoBracket, PlainUpTo

LEMMA NotBraceTypes ==
  /\ {"EOF", "Colon", "VlineColon", "Type_CString", "Type_SysTime", "Digits", "OtherChar", "Gt", "Lt",
      "Equ", "ChronoPredef_f", "ChronoPredef_g", "Type_IQuant", "Type_UQuant"} \cap BraceTypes = {}
  /\ IntTokens \cap BraceTypes = {}
BY DEF BraceTypes, Closers, IntTokens

\* A token of up to four characters, none of which is a bracket.
LEMMA FewNoBracket ==
  ASSUME NEW t, NEW b \in Nat, NEW typ, typ \notin BraceTypes, Plain(t, b)
  PROVE  /\ NoBracket(t, Accept(typ, b, b + 1))
         /\ Plain(t, b + 1) => NoBracket(t, Accept(typ, b, b + 2))
         /\ Plain(t, b + 1) /\ Plain(t, b + 2) => NoBracket(t, Accept(typ, b, b + 3))
         /\ Plain(t, b + 1) /\ Plain(t, b + 2) /\ Plain(t, b + 3)
              => NoBracket(t, Accept(typ, b, b + 4))
<1>1. PlainUpTo(t, b, b + 1)
  BY DEF PlainUpTo
<1>2. Plain(t, b + 1) => PlainUpTo(t, b, b + 2)
  BY DEF PlainUpTo
<1>3. Plain(t, b + 1) /\ Plain(t, b + 2) => PlainUpTo(t, b, b + 3)
  BY DEF PlainUpTo
<1>4. Plain(t, b + 1) /\ Plain(t, b + 2) /\ Plain(t, b + 3) => PlainUpTo(t, b, b + 4)
  BY DEF PlainUpTo
<1> QED
  BY <1>1, <1>2, <1>3, <1>4, AcceptNoBracket

LEMMA IntegerTypeNoBracket ==
  ASSUME NEW t, NEW b \in Nat, At(t, b) = ":", At(t, b + 1) \in {"i", "u"}
  PROVE  NoBracket(t, type_ix(t, b))
<1> DEFINE types == IF At(t, b + 1) = "i" THEN <<"Type_Int8", "Type_Int16", "Type_Int32">>
                                          ELSE <<"Type_Uint8", "Type_Uint16", "Type_Uint32">>
<1>1. types[1] \in IntTokens /\ types[2] \in IntTokens /\ types[3] \in IntTokens
  BY DEF IntTokens
<1>2. Plain(t, b) /\ Plain(t, b + 1)
  BY PlainPlaces
<1>3. {"8", "1", "6", "3", "2"} \subseteq Digit
  BY DEF Digit
<1>4. CASE At(t, b + 2) = "8"
  <2>1. type_ix(t, b) = Accept(types[1], b, b + 3)
    BY <1>4 DEF type_ix
  <2> HIDE DEF types
  <2>2. Plain(t, b + 2)
    BY <1>3, <1>4, PlainPlaces
  <2> QED
    BY <1>1, <1>2, <2>1, <2>2, NotBraceTypes, FewNoBracket
<1>5. CASE At(t, b + 2) \in {"1", "3"} /\ At(t, b + 3) \in {"6", "2"}
  <2>1. \/ type_ix(t, b) = Accept(types[2], b, b + 4)
        \/ type_ix(t, b) = Accept(types[3], b, b + 4)
        \/ type_ix(t, b) = Accept("Colon", b, b + 1)
    <3>1. CASE At(t, b + 2) = "1" /\ At(t, b + 3) = "6"
      BY <3>1 DEF type_ix
    <3>2. CASE At(t, b + 2) = "3" /\ At(t, b + 3) = "2"
      BY <3>2 DEF type_ix
    <3>3. CASE ~ (\/ At(t, b + 2) = "1" /\ At(t, b + 3) = "6"
                  \/ At(t, b + 2) = "3" /\ At(t, b + 3) = "2")
      BY <1>5, <3>3 DEF type_ix
    <3> QED
      BY <3>1, <3>2, <3>3
  <2> HIDE DEF types
  <2>2. Plain(t, b + 2) /\ Plain(t, b + 3)
    BY <1>3, <1>5, PlainPlaces
  <2> QED
    BY <1>1, <1>2, <2>1, <2>2, NotBraceTypes, FewNoBracket
<1>6. CASE At(t, b + 2) # "8" /\ ~ (At(t, b + 2) \in {"1", "3"} /\ At(t, b + 3) \in {"6", "2"})
  <2>1. type_ix(t, b) = Accept("Colon", b, b + 1)
    BY <1>6 DEF type_ix
  <2> QED
    BY <1>2, <2>1, NotBraceTypes, FewNoBracket
<1> QED
  BY <1>4, <1>5, <1>6

LEMMA QuantTypeNoBracket ==
  ASSUME NEW t \in Seq(STRING), NEW b \in 1..Len(t), At(t, b) = ":", At(t, b + 1) = "q"
  PROVE  NoBracket(t, type_quat(t, b))
<1>1. Plain(t, b) /\ Plain(t, b + 1) /\ b \in Nat
  BY PlainPlaces
<1>2. CASE At(t, b + 2) \in Digit
  <2> DEFINE e == DigitsEnd(t, b + 2)
  <2>1. b + 2 \in 1..(Len(t) + 1)
    BY <1>2, WithinText, NoDigit
  <2>2. /\ e \in (b + 2)..(Len(t) + 1)
        /\ \A i \in (b + 2)..(e - 1) : At(t, i) \in Digit
    BY <2>1, DigitsEndWithin
  <2> HIDE DEF e
  <2>3. e \in Nat /\ e + 1 \in Nat
    BY <2>2
  <2>4. PlainUpTo(t, b, e)
    <3>1. ASSUME NEW p \in b..(e - 1) PROVE p = b \/ p = b + 1 \/ p \in (b + 2)..(e - 1)
      BY <2>3
    <3>2. \A i \in (b + 2)..(e - 1) : Plain(t, i)
      BY <2>2, PlainPlaces
    <3> QED
      BY <1>1, <3>1, <3>2 DEF PlainUpTo
  <2>5. At(t, e) = "u" => PlainUpTo(t, b, e + 1)
    <3>1. ASSUME At(t, e) = "u", NEW p \in b..((e + 1) - 1) PROVE Plain(t, p)
      <4>1. CASE p = e
        BY <3>1, <4>1, PlainPlaces
      <4>2. CASE p # e
        <5>1. p \in b..(e - 1)
          BY <2>3, <4>2
        <5> QED
          BY <2>4, <5>1 DEF PlainUpTo
      <4> QED
        BY <4>1, <4>2
    <3> QED
      BY <3>1 DEF PlainUpTo
  <2>6. NoBracket(t, Accept("Type_IQuant", b, e))
    BY <1>1, <2>3, <2>4, NotBraceTypes, AcceptNoBracket
  <2>7. At(t, e) = "u" => NoBracket(t, Accept("Type_UQuant", b, e + 1))
    BY <1>1, <2>3, <2>5, NotBraceTypes, AcceptNoBracket
  <2>8. type_quat(t, b) = IF At(t, e) = "u" THEN Accept("Type_UQuant", b, e + 1)
                                            ELSE Accept("Type_IQuant", b, e)
    BY <1>2 DEF type_quat, Unsigned, e
  <2> QED
    BY <2>6, <2>7, <2>8
<1>3. CASE At(t, b + 2) \notin Digit
  <2>1. type_quat(t, b) = Accept("Colon", b, b + 1)
    BY <1>3 DEF type_quat
  <2> QED
    BY <1>1, <2>1, NotBraceTypes, FewNoBracket
<1> QED
  BY <1>2, <1>3

LEMMA ColonNoBracket ==
  ASSUME NEW t \in Seq(STRING), NEW b \in 1..Len(t), At(t, b) = ":", ~ NamesPointType(t)
  PROVE  NoBracket(t, colon(t, b))
<1> DEFINE next == At(t, b + 1)
<1>1. next \notin {"F", "f"}
  BY NamesPoint
<1>2. Plain(t, b) /\ b \in Nat
  BY PlainPlaces
<1>3. CASE next \in {"i", "u"}
  BY <1>2, <1>3, IntegerTypeNoBracket DEF colon
<1>4. CASE next = "q"
  BY <1>4, QuantTypeNoBracket DEF colon
<1>5. CASE next \in {"s", "t"}
  <2>1. \E typ \in {"Type_CString", "Type_SysTime"} : colon(t, b) = Accept(typ, b, b + 2)
    BY <1>5 DEF colon
  <2>2. Plain(t, b + 1)
    BY <1>5, PlainPlaces
  <2> QED
    BY <1>2, <2>1, <2>2, NotBraceTypes, FewNoBracket
<1>6. CASE next \notin {"i", "u", "q", "F", "f", "s", "t"}
  <2>1. colon(t, b) = Accept("Colon", b, b + 1)
    BY <1>6 DEF colon
  <2> QED
    BY <1>2, <2>1, NotBraceTypes, FewNoBracket
<1> QED
  BY <1>1, <1>3, <1>4, <1>5, <1>6

LEMMA UserdefNoBracket ==
  ASSUME NEW t \in Seq(STRING), NEW b \in 1..Len(t), At(t, b) = "%", At(t, b + 1) \in DOMAIN ChronoUserdef
  PROVE  NoBracket(t, chrono_userdef(t, b))
<1> DEFINE c   == At(t, b + 1)
           max == Len(ChronoUserdef[c])
           n   == Repeated(t, b + 1, c, max)
           typ == ChronoUserdef[c][n]
<1>1. c # NUL
  BY DEF ChronoUserdef, NUL
<1>2. b + 1 \in 1..Len(t)
  BY <1>1, WithinText
<1>3. max \in Nat /\ max >= 1
  BY UserdefNames
<1>4. n \in 1..max /\ \A i \in 0..(n - 1) : At(t, b + 1 + i) = c
  <2> HIDE DEF max
  <2> QED
    BY <1>1, <1>2, <1>3, RepeatedWithin
<1>5. typ \in ChronoTokens
  BY <1>4, UserdefNames DEF ChronoTokens
<1>6. typ \notin BraceTypes
  <2> HIDE DEF typ
  <2> QED
    BY <1>5, BeyondIsNoToken
<1>7. chrono_userdef(t, b) = Accept(typ, b, b + 1 + n)
  BY DEF chrono_userdef
<1> HIDE DEF n, typ, max
<1> DEFINE e == b + 1 + n
<1>8. b \in Nat /\ e \in Nat
  BY <1>3, <1>4
<1>9. ASSUME NEW p \in b..(e - 1) PROVE Plain(t, p)
  <2>1. CASE p = b
    BY <2>1, PlainPlaces
  <2>2. CASE p # b
    <3> DEFINE i == p - (b + 1)
    <3>1. i \in 0..(n - 1) /\ b + 1 + i = p
      BY <1>3, <1>4, <2>2
    <3> HIDE DEF i
    <3>2. At(t, b + 1 + i) = c
      BY <1>4, <3>1
    <3> QED
      BY <3>1, <3>2, PlainPlaces
  <2> QED
    BY <2>1, <2>2
<1>10. chrono_userdef(t, b) = Accept(typ, b, e)
  BY <1>7
<1> HIDE DEF e
<1>11. PlainUpTo(t, b, e)
  BY <1>9 DEF PlainUpTo
<1> QED
  BY <1>6, <1>8, <1>10, <1>11, AcceptNoBracket

LEMMA PercentNoBracket ==
  ASSUME NEW t \in Seq(STRING), NEW b \in 1..Len(t), At(t, b) = "%"
  PROVE  NoBracket(t, chrono_percentage(t, b))
<1> DEFINE next == At(t, b + 1)
<1>1. Plain(t, b) /\ b \in Nat
  BY PlainPlaces
<1>2. CASE next \in DOMAIN ChronoUserdef
  <2>1. next \notin {"%", "f", "g", ">", "<", "="}
    BY <1>2 DEF ChronoUserdef
  <2>2. chrono_percentage(t, b) = chrono_userdef(t, b)
    BY <1>2, <2>1 DEF chrono_percentage
  <2> QED
    BY <1>2, <2>2, UserdefNoBracket
<1>3. CASE next \notin DOMAIN ChronoUserdef
  <2>1. \/ next \in {"%", "f", "g"}
           /\ \E typ \in {"OtherChar", "ChronoPredef_f", "ChronoPredef_g"} :
                chrono_percentage(t, b) = Accept(typ, b, b + 2)
        \/ chrono_percentage(t, b) = Accept("OtherChar", b, b + 1)
        \/ chrono_percentage(t, b) = No("Unrecognized", b)
    <3>1. CASE next = "%"
      BY <1>3, <3>1 DEF chrono_percentage
    <3>2. CASE next = "f"
      BY <1>3, <3>2 DEF chrono_percentage
    <3>3. CASE next = "g"
      BY <1>3, <3>3 DEF chrono_percentage
    <3>4. CASE next \notin {"%", "f", "g"}
      BY <1>3, <3>4 DEF chrono_percentage
    <3> QED
      BY <3>1, <3>2, <3>3, <3>4
  <2>2. next \in {"%", "f", "g"} => Plain(t, b + 1)
    BY PlainPlaces
  <2>3. ASSUME NEW typ \in {"OtherChar", "ChronoPredef_f", "ChronoPredef_g"}, next \in {"%", "f", "g"}
        PROVE  NoBracket(t, Accept(typ, b, b + 2))
    BY <1>1, <2>2, <2>3, NotBraceTypes, FewNoBracket
  <2>4. NoBracket(t, Accept("OtherChar", b, b + 1))
    BY <1>1, NotBraceTypes, FewNoBracket
  <2> QED
    BY <2>1, <2>3, <2>4, NoTokenNoBracket
<1> QED
  BY <1>2, <1>3

\* What the lexer finds, by what it is: its brackets are those of its name, and where a
\* field waits for its end two braces are not one token.
Named(t, s, k) ==
  k.type \notin NoToken =>
    /\ BracesNamed(t, k)
    /\ "NeedEnd" \in s => k.type # "RightBraceBrace"

LEMMA NoBracketIsNamed ==
  ASSUME NEW t, NEW s, NEW k, NoBracket(t, k)
  PROVE  Named(t, s, k)
BY NoBracketNamed DEF Named

LEMMA ShortToken ==
  ASSUME NEW b \in Nat, NEW typ
  PROVE  /\ Accept(typ, b, b + 1).type = typ /\ Accept(typ, b, b + 1).beg = b
         /\ Accept(typ, b, b + 1).len = 1 /\ TokenPlaces(Accept(typ, b, b + 1)) = {b}
         /\ Accept(typ, b, b + 2).type = typ /\ Accept(typ, b, b + 2).beg = b
         /\ Accept(typ, b, b + 2).len = 2 /\ TokenPlaces(Accept(typ, b, b + 2)) = {b, b + 1}
<1>1. /\ Accept(typ, b, b + 1).type = typ /\ Accept(typ, b, b + 1).beg = b
      /\ Accept(typ, b, b + 1).len = 1
  BY DEF Accept
<1>2. /\ Accept(typ, b, b + 2).type = typ /\ Accept(typ, b, b + 2).beg = b
      /\ Accept(typ, b, b + 2).len = 2
  BY DEF Accept
<1>3. b..(b + 1 - 1) = {b} /\ b..(b + 2 - 1) = {b, b + 1}
  OBVIOUS
<1> QED
  BY <1>1, <1>2, <1>3 DEF TokenPlaces

LEMMA LeftBraceNamed ==
  ASSUME NEW t, NEW b \in Nat, NEW s, Opening(t, b)
  PROVE  Named(t, s, l_brace(t, b))
<1>1. ~ Closing(t, b) /\ ~ ClosingArray(t, b) /\ Brace(t, b)
  BY Zenon DEF Opening, Closing, ClosingArray, Brace
<1>2. CASE At(t, b + 1) = "["
  <2> DEFINE k == Accept("LeftBraceBracket", b, b + 2)
  <2>1. l_brace(t, b) = k
    BY <1>2 DEF l_brace
  <2>2. ~ Closing(t, b + 1) /\ ~ ClosingArray(t, b + 1)
    BY <1>2, Zenon DEF Closing, ClosingArray
  <2>3. k.type = "LeftBraceBracket" /\ TokenPlaces(k) = {b, b + 1}
    BY ShortToken
  <2> HIDE DEF k
  <2> QED
    BY <1>1, <2>1, <2>2, <2>3 DEF Named, BracesNamed
<1>3. CASE Opening(t, b + 1)
  <2> DEFINE k == Accept("LeftBraceBrace", b, b + 2)
  <2>1. l_brace(t, b) = k
    BY <1>3, Zenon DEF l_brace, Opening
  <2>2. ~ Closing(t, b + 1) /\ ~ ClosingArray(t, b + 1) /\ At(t, b + 1) = At(t, b)
    BY <1>3, Zenon DEF Opening, Closing, ClosingArray
  <2>3. k.type = "LeftBraceBrace" /\ k.beg = b /\ k.len = 2 /\ TokenPlaces(k) = {b, b + 1}
    BY ShortToken
  <2> HIDE DEF k
  <2> QED
    BY <1>1, <2>1, <2>2, <2>3 DEF Named, BracesNamed
<1>4. CASE At(t, b + 1) # "[" /\ ~ Opening(t, b + 1)
  <2> DEFINE k == Accept("LeftBrace", b, b + 1)
  <2>1. l_brace(t, b) = k
    BY <1>4, Zenon DEF l_brace, Opening
  <2>2. k.type = "LeftBrace" /\ TokenPlaces(k) = {b}
    BY ShortToken
  <2> HIDE DEF k
  <2> QED
    BY <1>1, <2>1, <2>2 DEF Named, BracesNamed
<1> QED
  BY <1>2, <1>3, <1>4

LEMMA RightBraceNamed ==
  ASSUME NEW t, NEW b \in Nat, NEW s, Closing(t, b)
  PROVE  Named(t, s, r_brace(t, b, s))
<1>1. ~ ClosingArray(t, b) /\ Brace(t, b)
  BY Zenon DEF Closing, ClosingArray, Brace
<1>2. r_brace(t, b, s) = IF "NeedEnd" \notin s /\ Closing(t, b + 1)
                         THEN Accept("RightBraceBrace", b, b + 2)
                         ELSE Accept("RightBrace", b, b + 1)
  BY Zenon DEF r_brace, Closing
<1>3. Closing(t, b + 1) => At(t, b + 1) = At(t, b) /\ ~ ClosingArray(t, b + 1)
  BY Zenon DEF Closing, ClosingArray
<1>4. CASE "NeedEnd" \notin s /\ Closing(t, b + 1)
  <2> DEFINE k == Accept("RightBraceBrace", b, b + 2)
  <2>1. k.type = "RightBraceBrace" /\ k.beg = b /\ k.len = 2 /\ TokenPlaces(k) = {b, b + 1}
    BY ShortToken
  <2>2. r_brace(t, b, s) = k
    BY <1>2, <1>4
  <2> HIDE DEF k
  <2> QED
    BY <1>1, <1>3, <1>4, <2>1, <2>2 DEF Named, BracesNamed, Closers
<1>5. CASE ~ ("NeedEnd" \notin s /\ Closing(t, b + 1))
  <2> DEFINE k == Accept("RightBrace", b, b + 1)
  <2>1. k.type = "RightBrace" /\ k.beg = b /\ k.len = 1 /\ TokenPlaces(k) = {b}
    BY ShortToken
  <2>2. r_brace(t, b, s) = k
    BY <1>2, <1>5
  <2> HIDE DEF k
  <2> QED
    BY <1>1, <2>1, <2>2 DEF Named, BracesNamed, Closers
<1> QED
  BY <1>4, <1>5

LEMMA RightBracketNamed ==
  ASSUME NEW t, NEW b \in Nat, NEW s, At(t, b) = "]"
  PROVE  Named(t, s, r_bracket(t, b))
<1>1. ~ Closing(t, b)
  BY Zenon DEF Closing
<1>2. r_bracket(t, b) = IF Closing(t, b + 1) THEN Accept("RightBracketBrace", b, b + 2)
                                             ELSE Accept("OtherChar", b, b + 1)
  BY Zenon DEF r_bracket, Closing
<1>3. ClosingArray(t, b) <=> Closing(t, b + 1)
  BY Zenon DEF ClosingArray
<1>4. CASE Closing(t, b + 1)
  <2> DEFINE k == Accept("RightBracketBrace", b, b + 2)
  <2>1. k.type = "RightBracketBrace" /\ k.beg = b /\ k.len = 2
    BY ShortToken
  <2>2. r_bracket(t, b) = k
    BY <1>2, <1>4
  <2> HIDE DEF k
  <2> QED
    BY <1>3, <1>4, <2>1, <2>2 DEF Named, BracesNamed, Closers
<1>5. CASE ~ Closing(t, b + 1)
  <2> DEFINE k == Accept("OtherChar", b, b + 1)
  <2>1. k.type = "OtherChar" /\ TokenPlaces(k) = {b}
    BY ShortToken
  <2>2. r_bracket(t, b) = k
    BY <1>2, <1>5
  <2> HIDE DEF k
  <2> QED
    BY <1>1, <1>3, <1>5, <2>1, <2>2 DEF Named, BracesNamed
<1> QED
  BY <1>4, <1>5

LEMMA LineNoBracket ==
  ASSUME NEW t, NEW b \in Nat, At(t, b) = "|"
  PROVE  NoBracket(t, v_line(t, b))
<1>1. Plain(t, b) /\ (At(t, b + 1) = ":" => Plain(t, b + 1))
  BY PlainPlaces
<1>2. \/ v_line(t, b) = Accept("OtherChar", b, b + 1)
      \/ v_line(t, b) = Accept("VlineColon", b, b + 2) /\ At(t, b + 1) = ":"
  BY DEF v_line
<1> QED
  BY <1>1, <1>2, NotBraceTypes, FewNoBracket

LEMMA LexerNamed ==
  ASSUME NEW t \in Seq(STRING), NEW b \in 1..(Len(t) + 2), NEW s, ~ NamesPointType(t)
  PROVE  Named(t, s, lex_next_token(t, b, s))
<1>1. CASE b > Len(t) + 1
  <2>1. b # Len(t) + 1
    BY <1>1
  <2>2. lex_next_token(t, b, s) = No("Beyond", b)
    BY <1>1, <2>1 DEF lex_next_token
  <2> QED
    BY <2>2, NoTokenNoBracket, NoBracketIsNamed
<1>2. CASE b = Len(t) + 1
  <2>1. lex_next_token(t, b, s) = Accept("EOF", b, b + 1)
    BY <1>2 DEF lex_next_token
  <2>2. Plain(t, b) /\ b \in Nat
    BY <1>2, WithinText, PlainPlaces
  <2>3. NoBracket(t, Accept("EOF", b, b + 1))
    BY <2>2, NotBraceTypes, FewNoBracket
  <2> QED
    BY <2>1, <2>3, NoBracketIsNamed
<1>3. CASE b <= Len(t)
  <2> DEFINE ch == At(t, b)
             k  == lex_next_token(t, b, s)
  <2>1. b \in 1..Len(t) /\ ~(b > Len(t) + 1) /\ b # Len(t) + 1 /\ b \in Nat
    BY <1>3
  <2>2. CASE ch \in {"=", ">", "<"}
    <3>1. \E typ \in {"Equ", "Gt", "Lt"} : k = Accept(typ, b, b + 1)
      BY <2>1, <2>2 DEF lex_next_token, Digit
    <3>2. Plain(t, b)
      BY <2>2, PlainPlaces
    <3> HIDE DEF k
    <3>3. NoBracket(t, k)
      BY <2>1, <3>1, <3>2, NotBraceTypes, FewNoBracket
    <3> QED
      BY <3>3, NoBracketIsNamed DEF k
  <2>3. CASE ch = ":"
    <3>1. k = colon(t, b)
      BY <2>1, <2>3 DEF lex_next_token, Digit
    <3> QED
      BY <2>1, <2>3, <3>1, ColonNoBracket, NoBracketIsNamed
  <2>4. CASE ch = "{"
    <3>1. k = l_brace(t, b)
      BY <2>1, <2>4 DEF lex_next_token, Digit
    <3>2. Opening(t, b)
      BY <2>4, Zenon DEF Opening
    <3> QED
      BY <2>1, <3>1, <3>2, LeftBraceNamed, Zenon
  <2>5. CASE ch = "}"
    <3>1. k = r_brace(t, b, s)
      BY <2>1, <2>5 DEF lex_next_token, Digit
    <3>2. Closing(t, b)
      BY <2>5, Zenon DEF Closing
    <3> QED
      BY <2>1, <3>1, <3>2, RightBraceNamed, Zenon
  <2>6. CASE ch = "]"
    <3>1. k = r_bracket(t, b)
      BY <2>1, <2>6 DEF lex_next_token, Digit
    <3> QED
      BY <2>1, <2>6, <3>1, RightBracketNamed, Zenon
  <2>7. CASE ch = "|"
    <3>1. k = v_line(t, b)
      BY <2>1, <2>7 DEF lex_next_token, Digit
    <3> QED
      BY <2>1, <2>7, <3>1, LineNoBracket, NoBracketIsNamed
  <2>8. CASE ch = "%" /\ "MatchChronoToken" \in s
    <3>1. k = chrono_percentage(t, b)
      BY <2>1, <2>8 DEF lex_next_token, Digit
    <3> QED
      BY <2>1, <2>8, <3>1, PercentNoBracket, NoBracketIsNamed
  <2>9. CASE ch \in Digit
    <3> DEFINE e == DigitsEnd(t, b)
    <3>1. ch \notin {"=", ">", "<", ":", "{", "}", "]", "|", "%"}
      BY <2>9 DEF Digit
    <3>2. k = digits_beg(t, b)
      BY <2>1, <2>9, <3>1 DEF lex_next_token
    <3>3. e \in b..(Len(t) + 1) /\ \A i \in b..(e - 1) : At(t, i) \in Digit
      BY <2>1, DigitsEndWithin
    <3> HIDE DEF e
    <3>4. e \in Nat /\ PlainUpTo(t, b, e)
      <4>1. \A i \in b..(e - 1) : Plain(t, i)
        BY <3>3, PlainPlaces
      <4> QED
        BY <2>1, <3>3, <4>1 DEF PlainUpTo
    <3>5. NoBracket(t, Accept("Digits", b, e))
      BY <2>1, <3>4, NotBraceTypes, AcceptNoBracket
    <3> QED
      BY <3>2, <3>5, NoBracketIsNamed DEF digits_beg, e
  <2>10. CASE /\ ch \notin {"=", ">", "<", ":", "{", "}", "]", "|"} \cup Digit
              /\ ~(ch = "%" /\ "MatchChronoToken" \in s)
    <3>1. k = Accept("OtherChar", b, b + 1)
      BY <2>1, <2>10 DEF lex_next_token
    <3>2. Plain(t, b)
      BY <2>10, Zenon DEF Plain
    <3> HIDE DEF k
    <3>3. NoBracket(t, k)
      BY <2>1, <3>1, <3>2, NotBraceTypes, FewNoBracket
    <3> QED
      BY <3>3, NoBracketIsNamed DEF k
  <2> QED
    BY <2>2, <2>3, <2>4, <2>5, <2>6, <2>7, <2>8, <2>9, <2>10, Zenon
<1> QED
  BY <1>1, <1>2, <1>3

--------------------------------------------------------------------------------
(* Where a field ends.                                                         *)

\* The places that can close a field of a class.
ClosesAt(class, t, p) == IF class = "Array" THEN ClosingArray(t, p) ELSE Closing(t, p)

OpenBefore(class, t, b) == \A p \in 1..(b - 1) : ~ ClosesAt(class, t, p)

\* The tokens that a field of a class reads past.
Passes(class, typ) == IF class = "Array" THEN typ # "RightBracketBrace" ELSE typ \notin Closers

\* The points from which on the field of one value waits for its end.
Waiting == Running \ {"goal", "replacement", "arg_id"}

\* Nothing in front of the current token can close the field, and no token takes in what
\* closes it: a value reads its braces one by one, and only an array has separators.
OpenInv ==
  /\ pc # "goal" => BracesNamed(text, token)
  /\ pc = "goal" => current = 1
  /\ pc \in {"goal", "replacement"} => token.beg = 1 /\ field.class = "Value"
  /\ pc \in {"split", "split_chars"} => field.class = "Array"
  /\ field.class = "EscapeChar" =>
       pc = "done" /\ token.beg = 1 /\ token.type \in {"LeftBraceBrace", "RightBraceBrace"}
  /\ field.class # "EscapeChar" => OpenBefore(field.class, text, token.beg)
  /\ field.class = "Value" /\ pc \in Waiting =>
       "NeedEnd" \in stage /\ token.type # "RightBraceBrace"
  /\ pc = "done" /\ field.class = "Value" => token.type = "RightBrace"
  /\ pc = "done" /\ field.class = "Array" => token.type = "RightBracketBrace"

\* The second inductive invariant.
EndInv == NamesPointType(text) \/ pc \in {"failed", "lost"} \/ OpenInv

\* Where a step of a call stands that has not gone wrong.
Going == ParserInv /\ OpenInv /\ ~ NamesPointType(text)

LEMMA PassedIsOpen ==
  ASSUME NEW t, NEW k, k.beg \in Nat, k.len \in Nat, BracesNamed(t, k),
         NEW c \in {"Value", "Array"}, Passes(c, k.type), OpenBefore(c, t, k.beg)
  PROVE  OpenBefore(c, t, k.beg + k.len)
<1>1. \A p \in TokenPlaces(k) : ~ ClosesAt(c, t, p)
  <2>1. CASE c = "Array"
    BY <2>1 DEF BracesNamed, Passes, ClosesAt
  <2>2. CASE c = "Value"
    BY <2>2 DEF BracesNamed, Passes, ClosesAt
  <2> QED
    BY <2>1, <2>2
<1>2. ASSUME NEW p \in 1..(k.beg + k.len - 1) PROVE p \in 1..(k.beg - 1) \/ p \in TokenPlaces(k)
  BY DEF TokenPlaces
<1> QED
  BY <1>1, <1>2 DEF OpenBefore

\* A step that reads the next token, once the class of the field is known.
LEMMA OpenNext ==
  ASSUME Going, pc \in Running \ {"goal"}, NEW s,
         NEW c \in {"Value", "Array"}, pc # "replacement" => c = field.class, Passes(c, token.type),
         NEW to \in Waiting \cup {"arg_id"}, to \in {"split", "split_chars"} => c = "Array",
         c = "Value" /\ to \in Waiting => "NeedEnd" \in s,
         NEW f, f.class = c, parser_next_token(s, to, f)
  PROVE  EndInv'
<1> DEFINE k == lex_next_token(text, current, s)
<1>1. /\ text \in Seq(STRING) /\ current \in 1..(Len(text) + 2)
      /\ token.beg \in Nat /\ token.len \in Nat /\ current = token.beg + token.len
  BY DEF Going, ParserInv
<1>2. Lexed(text, current, k) /\ Named(text, s, k)
  BY <1>1, LexerLexed, LexerNamed DEF Going
<1>3. BracesNamed(text, token)
  BY DEF Going, OpenInv
<1>4. OpenBefore(c, text, token.beg)
  <2>1. CASE pc = "replacement"
    <3>1. token.beg = 1
      BY <2>1 DEF Going, OpenInv
    <3> QED
      BY <3>1 DEF OpenBefore
  <2>2. CASE pc # "replacement"
    <3>1. c = field.class /\ c # "EscapeChar"
      BY <2>2
    <3> QED
      BY <3>1 DEF Going, OpenInv
  <2> QED
    BY <2>1, <2>2
<1>5. OpenBefore(c, text, current)
  BY <1>1, <1>3, <1>4, PassedIsOpen
<1>6. CASE /\ k.type \notin NoToken /\ token' = k /\ pc' = to /\ field' = f
           /\ stage' = s /\ text' = text
  <2>1. k.beg = current
    BY <1>2 DEF Lexed
  <2>2. BracesNamed(text, k) /\ ("NeedEnd" \in s => k.type # "RightBraceBrace")
    BY <1>2, <1>6 DEF Named
  <2> HIDE DEF k
  <2>3. /\ pc' \in Waiting \cup {"arg_id"} /\ pc' \notin {"goal", "replacement", "done"}
        /\ field'.class = c
    BY <1>6 DEF Waiting, Running
  <2>4. OpenBefore(c, text, k.beg)
    BY <1>5, <2>1
  <2>5. "arg_id" \notin Waiting
    BY DEF Waiting
  <2>6. OpenInv'
    BY <1>6, <2>2, <2>3, <2>4, <2>5 DEF OpenInv
  <2> QED
    BY <2>6 DEF EndInv
<1>7. CASE pc' \in {"failed", "lost"}
  BY <1>7 DEF EndInv
<1> QED
  BY <1>6, <1>7 DEF parser_next_token

LEMMA OpenFail ==
  ASSUME NEW err, Fail(err)
  PROVE  EndInv'
BY DEF Fail, EndInv

LEMMA OpenSkip ==
  ASSUME Going, pc \in Waiting, NEW to \in Waiting \ {"split", "split_chars"},
         NEW f, f.class = field.class, Skip(to, f)
  PROVE  EndInv'
<1>1. pc' = to /\ field' = f /\ text' = text /\ token' = token /\ stage' = stage
  BY DEF Skip
<1>2. pc \notin {"goal", "done"} /\ to \notin {"goal", "replacement", "done"}
  BY DEF Waiting, Running
<1>3. OpenInv'
  BY <1>1, <1>2 DEF Going, OpenInv
<1> QED
  BY <1>3 DEF EndInv

\* Past the beginning, a field is one value or an array, and it keeps its class.
LEMMA GoingClass ==
  ASSUME Going, pc \in Running
  PROVE  /\ field.class \in {"Value", "Array"}
         /\ pc \in Waiting /\ field.class = "Value" =>
              "NeedEnd" \in stage /\ token.type # "RightBraceBrace"
<1>1. field.class \in ArgClass
  BY DEF Going, ParserInv, FieldOK
<1>2. field.class # "EscapeChar"
  BY DEF Going, OpenInv, Running
<1> QED
  BY <1>1, <1>2 DEF Going, OpenInv, ArgClass

\* A step of the parser that waits for the end and reads a token which does not close it.
LEMMA OpenWaiting ==
  ASSUME Going, pc \in Waiting, NEW s, stage \subseteq s, Passes(field.class, token.type),
         NEW to \in Waiting, to \in {"split", "split_chars"} => field.class = "Array",
         NEW f, f.class = field.class, parser_next_token(s, to, f)
  PROVE  EndInv'
<1>1. pc \in Running \ {"goal"} /\ pc # "replacement"
  BY DEF Waiting
<1>2. field.class \in {"Value", "Array"} /\ (field.class = "Value" => "NeedEnd" \in s)
  BY <1>1, GoingClass
<1> QED
  BY <1>1, <1>2, OpenNext

\* What does not end a field in any class.
LEMMA PassesBoth ==
  ASSUME NEW c, NEW typ, typ \notin Closers
  PROVE  Passes(c, typ)
BY DEF Passes, Closers

LEMMA WaitingPoints ==
  {"arg_type", "split", "split_chars", "spec", "items", "align", "sign", "width", "format", "chrono",
   "chrono_split", "end"} \subseteq Waiting
BY DEF Waiting, Running

\* Of an assignment to another component the class is left as it is.
LEMMA ClassKept ==
  ASSUME NEW f, FieldOK(f), NEW v, NEW w
  PROVE  /\ [f EXCEPT !.id = v].class = f.class
         /\ [f EXCEPT !.type = v, !.prop = w].class = f.class
         /\ [f EXCEPT !.split = v].class = f.class
         /\ [f EXCEPT !.align = v].class = f.class
         /\ [f EXCEPT !.fill = v].class = f.class
         /\ [f EXCEPT !.fill = v, !.align = w].class = f.class
         /\ [f EXCEPT !.sign = v].class = f.class
         /\ [f EXCEPT !.width = v].class = f.class
         /\ [f EXCEPT !.fmt = v].class = f.class
         /\ [f EXCEPT !.items = v].class = f.class
         /\ [f EXCEPT !.class = v].class = v
<1>1. FieldShape(f)
  BY DEF FieldOK
<1>2. /\ [f EXCEPT !.id = v].class = f.class
      /\ [f EXCEPT !.split = v].class = f.class
      /\ [f EXCEPT !.align = v].class = f.class
  BY <1>1 DEF FieldShape
<1>3. /\ [f EXCEPT !.fill = v].class = f.class
      /\ [f EXCEPT !.sign = v].class = f.class
      /\ [f EXCEPT !.width = v].class = f.class
  BY <1>1 DEF FieldShape
<1>4. /\ [f EXCEPT !.fmt = v].class = f.class
      /\ [f EXCEPT !.items = v].class = f.class
      /\ [f EXCEPT !.class = v].class = v
  BY <1>1 DEF FieldShape
<1>5. [f EXCEPT !.type = v, !.prop = w].class = f.class
  BY <1>1 DEF FieldShape
<1>6. [f EXCEPT !.fill = v, !.align = w].class = f.class
  BY <1>1 DEF FieldShape
<1> QED
  BY <1>2, <1>3, <1>4, <1>5, <1>6

LEMMA OpenGoal ==
  ASSUME Going, mstr_fmt_parse_goal
  PROVE  EndInv'
<1> DEFINE k == lex_next_token(text, current, stage)
<1>1. /\ text \in Seq(STRING) /\ current \in 1..(Len(text) + 2) /\ current = 1 /\ pc = "goal"
      /\ field.class = "Value"
  BY DEF Going, ParserInv, OpenInv, mstr_fmt_parse_goal
<1>2. Lexed(text, current, k) /\ Named(text, stage, k)
  BY <1>1, LexerLexed, LexerNamed DEF Going
<1>3. CASE /\ k.type \notin NoToken /\ token' = k /\ pc' = "replacement" /\ field' = field
           /\ text' = text
  <2>1. k.beg = 1 /\ BracesNamed(text, k)
    BY <1>1, <1>2, <1>3 DEF Lexed, Named
  <2> HIDE DEF k
  <2>2. "replacement" \notin Waiting
    BY DEF Waiting
  <2>3. OpenBefore("Value", text, 1)
    BY DEF OpenBefore
  <2>4. OpenInv'
    BY <1>1, <1>3, <2>1, <2>2, <2>3 DEF OpenInv
  <2> QED
    BY <2>4 DEF EndInv
<1>4. CASE pc' \in {"failed", "lost"}
  BY <1>4 DEF EndInv
<1> QED
  BY <1>3, <1>4 DEF mstr_fmt_parse_goal, parser_next_token

LEMMA OpenEscapeChar ==
  ASSUME Going, EscapeChar
  PROVE  EndInv'
<1>1. /\ pc = "replacement" /\ token.type \in {"LeftBraceBrace", "RightBraceBrace"}
      /\ pc' = "done" /\ field' = [field EXCEPT !.class = "EscapeChar"]
      /\ text' = text /\ token' = token
  BY DEF EscapeChar, Skip
<1>2. field'.class = "EscapeChar"
  BY <1>1, ClassKept DEF Going, ParserInv
<1>3. token.beg = 1 /\ BracesNamed(text, token)
  BY <1>1 DEF Going, OpenInv
<1>4. OpenInv'
  BY <1>1, <1>2, <1>3 DEF OpenInv
<1> QED
  BY <1>4 DEF EndInv

LEMMA OpenReplacement ==
  ASSUME Going, parse_replacement_field
  PROVE  EndInv'
<1>1. pc = "replacement" /\ pc \in Running \ {"goal"}
  BY DEF parse_replacement_field, Running
<1>2. ASSUME NEW c \in {"Value", "Array"}, token.type \in {"LeftBrace", "LeftBraceBracket"},
             parser_next_token(stage, "arg_id", [field EXCEPT !.class = c])
      PROVE  EndInv'
  <2>1. [field EXCEPT !.class = c].class = c
    BY ClassKept DEF Going, ParserInv
  <2>2. token.type \notin Closers
    BY <1>2 DEF Closers
  <2>3. "arg_id" \notin Waiting \cup {"split", "split_chars"}
    BY DEF Waiting
  <2> QED
    BY <1>1, <1>2, <2>1, <2>2, <2>3, PassesBoth, OpenNext
<1> QED
  BY <1>2, OpenFail DEF parse_replacement_field

LEMMA OpenArgId ==
  ASSUME Going, parse_arg_id
  PROVE  EndInv'
<1> DEFINE id == lex_atou(TokenText)
<1> HIDE DEF id
<1>1. pc = "arg_id" /\ pc \in Running \ {"goal"}
  BY DEF parse_arg_id, Running
<1>2. CASE token.type = "Digits"
  <2>1. parser_next_token(parse_simple_field, "arg_type", [field EXCEPT !.id = id])
    BY <1>2 DEF parse_arg_id, id
  <2>2. [field EXCEPT !.id = id].class = field.class
    BY ClassKept DEF Going, ParserInv
  <2>3. token.type \notin Closers
    BY <1>2 DEF Closers
  <2>4. field.class = "Value" => "NeedEnd" \in parse_simple_field
    BY DEF parse_simple_field
  <2> QED
    BY <1>1, <2>1, <2>2, <2>3, <2>4, GoingClass, WaitingPoints, PassesBoth, OpenNext
<1>3. CASE token.type # "Digits"
  BY <1>3, OpenFail DEF parse_arg_id
<1> QED
  BY <1>2, <1>3

LEMMA OpenArgType ==
  ASSUME Going, parse_arg_type
  PROVE  EndInv'
<1>1. pc = "arg_type" /\ pc \in Waiting
  BY WaitingPoints DEF parse_arg_type
<1>2. CASE token.type \in DOMAIN ArgTypeOf
  <2>1. PICK p : parser_next_token(stage, parse_array_field,
                   [field EXCEPT !.type = ArgTypeOf[token.type], !.prop = p])
    BY <1>2 DEF parse_arg_type
  <2> DEFINE f == [field EXCEPT !.type = ArgTypeOf[token.type], !.prop = p]
  <2>2. f.class = field.class
    BY ClassKept DEF Going, ParserInv
  <2>3. token.type \notin Closers
    BY <1>2 DEF ArgTypeOf, Closers
  <2>4. parse_array_field \in Waiting /\ (parse_array_field = "split" => field.class = "Array")
        /\ parse_array_field # "split_chars"
    BY WaitingPoints DEF parse_array_field
  <2> HIDE DEF f
  <2>5. parser_next_token(stage, parse_array_field, f)
    BY <2>1 DEF f
  <2> QED
    BY <1>1, <2>2, <2>3, <2>4, <2>5, PassesBoth, OpenWaiting
<1>3. CASE token.type \notin DOMAIN ArgTypeOf
  BY <1>3, OpenFail DEF parse_arg_type
<1> QED
  BY <1>2, <1>3

LEMMA OpenSplit ==
  ASSUME Going, parse_opt_split_chars
  PROVE  EndInv'
<1>1. pc = "split" /\ pc \in Waiting /\ field.class = "Array"
  BY WaitingPoints DEF parse_opt_split_chars, Going, OpenInv
<1>2. CASE token.type = "VlineColon"
  <2>1. parser_next_token(stage, "split_chars", [field EXCEPT !.split = <<>>])
    BY <1>2 DEF parse_opt_split_chars
  <2>2. [field EXCEPT !.split = <<>>].class = field.class
    BY ClassKept DEF Going, ParserInv
  <2>3. token.type \notin Closers
    BY <1>2 DEF Closers
  <2> QED
    BY <1>1, <2>1, <2>2, <2>3, WaitingPoints, PassesBoth, OpenWaiting
<1>3. CASE token.type # "VlineColon"
  <2>1. Skip("spec", field)
    BY <1>3 DEF parse_opt_split_chars
  <2> QED
    BY <1>1, <2>1, WaitingPoints, OpenSkip
<1> QED
  BY <1>2, <1>3

\* Two braces may be one of the separators: what ends an array is not two braces.
LEMMA OpenSplitChars ==
  ASSUME Going, parse_split_chars
  PROVE  EndInv'
<1>1. pc = "split_chars" /\ pc \in Waiting /\ field.class = "Array"
  BY WaitingPoints DEF parse_split_chars, Going, OpenInv
<1> DEFINE closed == token.type \in {"Colon", "RightBrace", "RightBracketBrace"}
           chars  == field.split \o TokenText
<1>2. CASE closed
  <2>1. Skip("spec", field)
    BY <1>2 DEF parse_split_chars
  <2> QED
    BY <1>1, <2>1, WaitingPoints, OpenSkip
<1>3. CASE ~closed
  <2>1. parser_next_token(stage, "split_chars", [field EXCEPT !.split = chars])
    BY <1>3 DEF parse_split_chars
  <2> HIDE DEF chars
  <2>2. [field EXCEPT !.split = chars].class = field.class
    BY ClassKept DEF Going, ParserInv
  <2>3. Passes(field.class, token.type)
    BY <1>1, <1>3 DEF Passes
  <2> QED
    BY <1>1, <2>1, <2>2, <2>3, WaitingPoints, OpenWaiting
<1> QED
  BY <1>2, <1>3

LEMMA OpenSpec ==
  ASSUME Going, parse_opt_formatfield_spec
  PROVE  EndInv'
<1>1. pc = "spec" /\ pc \in Waiting
  BY WaitingPoints DEF parse_opt_formatfield_spec
<1>2. CASE token.type = "Colon"
  <2>1. parser_next_token(stage \cup {"MatchChronoToken"}, "items", field)
    BY <1>2 DEF parse_opt_formatfield_spec
  <2>2. token.type \notin Closers
    BY <1>2 DEF Closers
  <2> QED
    BY <1>1, <2>1, <2>2, WaitingPoints, PassesBoth, OpenWaiting
<1>3. CASE token.type # "Colon"
  <2>1. Skip("end", field)
    BY <1>3 DEF parse_opt_formatfield_spec
  <2> QED
    BY <1>1, <2>1, WaitingPoints, OpenSkip
<1> QED
  BY <1>2, <1>3

LEMMA OpenSign ==
  ASSUME Going, pc \in Waiting, IsSign, NEW to \in {"sign", "width"}, Sign(to)
  PROVE  EndInv'
<1> DEFINE f == [field EXCEPT !.sign = SignOf(FirstChar)]
<1>1. f.class = field.class
  BY ClassKept DEF Going, ParserInv
<1>2. token.type \notin Closers
  BY DEF IsSign, Closers
<1>3. parser_next_token(stage, to, f)
  BY DEF Sign
<1> HIDE DEF f
<1> QED
  BY <1>1, <1>2, <1>3, WaitingPoints, PassesBoth, OpenWaiting

LEMMA OpenFormat ==
  ASSUME Going, pc \in Waiting, token.type = "OtherChar", parse_format_spec
  PROVE  EndInv'
<1> DEFINE f == [field EXCEPT !.fmt = FormatTypeOf[FirstChar]]
<1>1. f.class = field.class
  BY ClassKept DEF Going, ParserInv
<1>2. token.type \notin Closers
  BY DEF Closers
<1>3. parser_next_token(stage, "end", f) \/ Fail("MStr_Err_UnsupportFormatType")
  BY DEF parse_format_spec
<1> HIDE DEF f
<1> QED
  BY <1>1, <1>2, <1>3, WaitingPoints, PassesBoth, OpenWaiting, OpenFail

LEMMA OpenItems ==
  ASSUME Going, parse_opt_items
  PROVE  EndInv'
<1>1. pc \in Waiting
  BY WaitingPoints DEF parse_opt_items
<1> DEFINE f == [field EXCEPT !.fill = FirstChar]
           g == [field EXCEPT !.fill = " ", !.align = "Left"]
<1>2. f.class = field.class /\ g.class = field.class
  BY ClassKept DEF Going, ParserInv
<1>3. \/ token.type \in {"Colon", "Digits", "LeftBrace", "OtherChar"} /\ parser_next_token(stage, "align", f)
      \/ IsSign /\ Sign("sign")
      \/ token.type = "OtherChar" /\ parse_format_spec
      \/ Skip("sign", field)
      \/ Skip("sign", g)
  <2> DEFINE one  == token.type \in {"Colon", "Digits", "LeftBrace", "OtherChar"}
             fill == parser_peek_token.type \in AlignTokens \cup NoToken
  <2>1. CASE one /\ fill
    BY <2>1 DEF parse_opt_items
  <2>2. CASE one /\ ~fill /\ IsSign
    BY <2>2 DEF parse_opt_items
  <2>3. CASE one /\ ~fill /\ ~IsSign
    BY <2>3 DEF parse_opt_items
  <2>4. CASE ~one
    BY <2>4 DEF parse_opt_items
  <2> QED
    BY <2>1, <2>2, <2>3, <2>4
<1> HIDE DEF f, g
<1>4. token.type \in {"Colon", "Digits", "LeftBrace", "OtherChar"} => token.type \notin Closers
  BY DEF Closers
<1>5. ASSUME token.type \in {"Colon", "Digits", "LeftBrace", "OtherChar"}, parser_next_token(stage, "align", f)
      PROVE  EndInv'
  BY <1>1, <1>2, <1>4, <1>5, WaitingPoints, PassesBoth, OpenWaiting
<1>6. Skip("sign", field) \/ Skip("sign", g) => EndInv'
  BY <1>1, <1>2, WaitingPoints, OpenSkip
<1> QED
  BY <1>1, <1>3, <1>5, <1>6, OpenSign, OpenFormat

LEMMA OpenAlign ==
  ASSUME Going, parse_align
  PROVE  EndInv'
<1> DEFINE f == [field EXCEPT !.align = AlignOf[token.type]]
<1>1. pc \in Waiting /\ token.type \notin Closers
  BY WaitingPoints DEF parse_align, AlignTokens, Closers
<1>2. f.class = field.class
  BY ClassKept DEF Going, ParserInv
<1>3. parser_next_token(stage, "sign", f)
  BY DEF parse_align
<1> HIDE DEF f
<1> QED
  BY <1>1, <1>2, <1>3, WaitingPoints, PassesBoth, OpenWaiting

LEMMA OpenOptSign ==
  ASSUME Going, parse_opt_sign
  PROVE  EndInv'
<1>1. pc \in Waiting
  BY WaitingPoints DEF parse_opt_sign
<1>2. (IsSign /\ Sign("width")) \/ Skip("width", field)
  BY DEF parse_opt_sign
<1> QED
  BY <1>1, <1>2, WaitingPoints, OpenSign, OpenSkip

LEMMA OpenWidth ==
  ASSUME Going, parse_opt_width
  PROVE  EndInv'
<1> DEFINE w == lex_atou(TokenText)
           f == [field EXCEPT !.width = w]
<1>1. pc \in Waiting
  BY WaitingPoints DEF parse_opt_width
<1>2. f.class = field.class
  BY ClassKept DEF Going, ParserInv
<1>3. \/ Skip("format", field)
      \/ token.type = "Digits" /\ parser_next_token(stage, "format", f)
      \/ Fail("MStr_Err_WidthTooLarge")
  <2> HIDE DEF w
  <2>1. CASE token.type # "Digits"
    BY <2>1 DEF parse_opt_width
  <2>2. CASE token.type = "Digits" /\ w \in 0..(PlaceMaxWidth - 1)
    BY <2>2 DEF parse_opt_width, w
  <2>3. CASE token.type = "Digits" /\ w \notin 0..(PlaceMaxWidth - 1)
    BY <2>3 DEF parse_opt_width, w
  <2> QED
    BY <2>1, <2>2, <2>3
<1> HIDE DEF f
<1>4. token.type = "Digits" => token.type \notin Closers
  BY DEF Closers
<1>5. ASSUME token.type = "Digits", parser_next_token(stage, "format", f) PROVE EndInv'
  BY <1>1, <1>2, <1>4, <1>5, WaitingPoints, PassesBoth, OpenWaiting
<1> QED
  BY <1>1, <1>3, <1>5, WaitingPoints, OpenSkip, OpenFail

LEMMA OpenFormatChrono ==
  ASSUME Going, parse_opt_format_chrono_spec
  PROVE  EndInv'
<1>1. pc \in Waiting
  BY WaitingPoints DEF parse_opt_format_chrono_spec
<1>2. \/ token.type = "OtherChar" /\ parse_format_spec
      \/ Skip("chrono", field)
      \/ Skip("end", field)
  <2>1. CASE token.type = "OtherChar" /\ token.type \in ChronoTokens
    BY <2>1 DEF parse_opt_format_chrono_spec
  <2>2. CASE token.type = "OtherChar" /\ token.type \notin ChronoTokens
    BY <2>2 DEF parse_opt_format_chrono_spec
  <2>3. CASE token.type # "OtherChar"
    BY <2>3 DEF parse_opt_format_chrono_spec
  <2> QED
    BY <2>1, <2>2, <2>3
<1> QED
  BY <1>1, <1>2, WaitingPoints, OpenFormat, OpenSkip

LEMMA OpenChrono ==
  ASSUME Going, parse_chrono_spec
  PROVE  EndInv'
<1> DEFINE items == IF token.type = "ChronoPredef_g" THEN Predef_g ELSE Predef_f
           f     == [field EXCEPT !.items = items]
<1>1. pc \in Waiting /\ token.type \notin Closers
  BY WaitingPoints DEF parse_chrono_spec, PredefTokens, Closers
<1>2. f.class = field.class
  <2> HIDE DEF items
  <2> QED
    BY ClassKept DEF Going, ParserInv
<1>3. parser_next_token(stage, "end", f)
  BY DEF parse_chrono_spec
<1> HIDE DEF f
<1> QED
  BY <1>1, <1>2, <1>3, WaitingPoints, PassesBoth, OpenWaiting

LEMMA OpenChronoItem ==
  ASSUME Going, parse_chrono_spec_item
  PROVE  EndInv'
<1> DEFINE v == Append(field.items, Split(ChronoItemOf[token.type], <<>>))
           f == [field EXCEPT !.items = v]
<1>1. pc \in Waiting
  BY WaitingPoints DEF parse_chrono_spec_item
<1>2. f.class = field.class
  <2> HIDE DEF v
  <2> QED
    BY ClassKept DEF Going, ParserInv
<1>3. CASE ~ItemsFull /\ token.type \in UserdefTokens
  <2>1. parser_next_token(stage, "chrono_split", f)
    BY <1>3 DEF parse_chrono_spec_item
  <2>2. token.type \notin Closers
    BY <1>3, BeyondIsNoToken DEF ChronoTokens, BraceTypes
  <2> HIDE DEF f
  <2> QED
    BY <1>1, <1>2, <2>1, <2>2, WaitingPoints, PassesBoth, OpenWaiting
<1>4. CASE ~(~ItemsFull /\ token.type \in UserdefTokens)
  <2>1. \/ Fail("MStr_Err_TooMoreChronoItem")
        \/ Fail("MStr_Err_MissingChronoItemType")
    BY <1>4 DEF parse_chrono_spec_item
  <2> QED
    BY <2>1, OpenFail
<1> QED
  BY <1>3, <1>4

\* Two braces do not go into the separator of a value, which waits for its end.
LEMMA OpenChronoSplit ==
  ASSUME Going, ChronoSplit
  PROVE  EndInv'
<1> DEFINE v == [field.items EXCEPT ![Len(field.items)].split = @ \o TokenText]
           f == [field EXCEPT !.items = v]
<1>1. pc \in Waiting /\ pc \in Running
  BY WaitingPoints DEF ChronoSplit, Waiting
<1>2. f.class = field.class
  <2> HIDE DEF v
  <2> QED
    BY ClassKept DEF Going, ParserInv
<1>3. \/ Skip("chrono", field)
      \/ Skip("end", field)
      \/ parser_next_token(stage, "chrono_split", f) /\ token.type \notin SplitEnds
  <2>1. CASE token.type \in ChronoTokens /\ token.type \notin SplitEnds
    BY <2>1 DEF ChronoSplit
  <2>2. CASE token.type \in SplitEnds
    BY <2>2 DEF ChronoSplit
  <2>3. CASE token.type \notin ChronoTokens \cup SplitEnds
    BY <2>3 DEF ChronoSplit
  <2> QED
    BY <2>1, <2>2, <2>3
<1> HIDE DEF f
<1>4. token.type \notin SplitEnds => Passes(field.class, token.type)
  BY <1>1, GoingClass DEF SplitEnds, Passes, Closers
<1>5. ASSUME parser_next_token(stage, "chrono_split", f), token.type \notin SplitEnds
      PROVE  EndInv'
  BY <1>1, <1>2, <1>4, <1>5, WaitingPoints, OpenWaiting
<1> QED
  BY <1>1, <1>3, <1>5, WaitingPoints, OpenSkip

LEMMA OpenEnd ==
  ASSUME Going, parse_end_token
  PROVE  EndInv'
<1>1. pc = "end" /\ UNCHANGED <<text, token, field>>
  BY DEF parse_end_token
<1>2. field.class \in {"Value", "Array"}
  BY <1>1, GoingClass DEF Running
<1>3. CASE pc' = "failed"
  BY <1>3 DEF EndInv
<1>4. CASE pc' = "done"
  <2>1. token.type = (IF field.class = "Value" THEN "RightBrace" ELSE "RightBracketBrace")
    BY <1>4 DEF parse_end_token
  <2>2. "done" \notin Waiting
    BY DEF Waiting, Running
  <2>3. OpenInv'
    BY <1>1, <1>2, <1>4, <2>1, <2>2 DEF Going, OpenInv
  <2> QED
    BY <2>3 DEF EndInv
<1> QED
  BY <1>3, <1>4 DEF parse_end_token

LEMMA OpenStep ==
  ASSUME ParserInv, EndInv, ParserNext
  PROVE  EndInv'
<1>1. CASE NamesPointType(text)
  <2>1. text' = text
    BY DEF ParserNext, parser_next_token, Skip, Fail, Sign, parse_format_spec,
           mstr_fmt_parse_goal, EscapeChar, parse_replacement_field, parse_arg_id, parse_arg_type,
           parse_opt_split_chars, parse_split_chars, parse_opt_formatfield_spec, parse_opt_items,
           parse_align, parse_opt_sign, parse_opt_width, parse_opt_format_chrono_spec,
           parse_chrono_spec, parse_chrono_spec_item, ChronoSplit, parse_end_token
  <2> QED
    BY <1>1, <2>1 DEF EndInv, NamesPointType
<1>2. CASE ~ NamesPointType(text) /\ OpenInv
  <2>1. Going
    BY <1>2 DEF Going
  <2> QED
    BY <2>1, OpenGoal, OpenEscapeChar, OpenReplacement, OpenArgId, OpenArgType, OpenSplit,
       OpenSplitChars, OpenSpec, OpenItems, OpenAlign, OpenOptSign, OpenWidth, OpenFormatChrono,
       OpenChrono, OpenChronoItem, OpenChronoSplit, OpenEnd DEF ParserNext
<1>3. CASE pc \in {"failed", "lost"}
  BY <1>3 DEF ParserNext, mstr_fmt_parse_goal, EscapeChar, parse_replacement_field, parse_arg_id,
           parse_arg_type, parse_opt_split_chars, parse_split_chars, parse_opt_formatfield_spec,
           parse_opt_items, parse_align, parse_opt_sign, parse_opt_width,
           parse_opt_format_chrono_spec, parse_chrono_spec, parse_chrono_spec_item, ChronoSplit,
           parse_end_token
<1> QED
  BY <1>1, <1>2, <1>3 DEF EndInv

LEMMA OpenAlways == ParserSpec => []EndInv
<1>1. ParserInit => EndInv
  <2> SUFFICES ASSUME ParserInit PROVE OpenInv
    BY DEF EndInv
  <2>1. pc = "goal" /\ current = 1 /\ token.beg = 1 /\ field.class = "Value"
    BY DEF ParserInit, ParserStart, Accept, NoField
  <2>2. OpenBefore("Value", text, 1) /\ "goal" \notin Waiting
    BY DEF OpenBefore, Waiting
  <2> QED
    BY <2>1, <2>2 DEF OpenInv
<1>2. EndInv /\ UNCHANGED parser_vars => EndInv'
  BY DEF EndInv, OpenInv, parser_vars, NamesPointType
<1>3. ParserInv /\ EndInv /\ [ParserNext]_parser_vars => EndInv'
  BY <1>2, OpenStep
<1> QED
  BY <1>1, <1>3, ParserAlways, PTL DEF ParserSpec

\* Whatever the text, unless it names a point type: what has been accepted ends at the
\* first place that can close it.
THEOREM ParserEndsAtFirstClose == ParserSpec => []EndsAtFirstClose
<1>1. ASSUME ParserInv, OpenInv, pc = "done" PROVE EndsAtFirstClose
  <2>1. /\ token.beg \in Nat /\ token.len \in Nat /\ current = token.beg + token.len
        /\ text \in Seq(STRING) /\ field.class \in ArgClass /\ BracesNamed(text, token)
    BY <1>1 DEF ParserInv, FieldOK, OpenInv
  <2>2. CASE field.class = "EscapeChar"
    <3>1. token.beg = 1 /\ token.len = 2 /\ Brace(text, 1) /\ At(text, 2) = At(text, 1)
      BY <1>1, <2>1, <2>2 DEF OpenInv, BracesNamed
    <3>2. At(text, 1) # NUL
      BY <3>1, Zenon DEF Brace, Opening, Closing, NUL
    <3>3. text[1] = At(text, 1) /\ text[2] = At(text, 2)
      BY <2>1, <3>1, <3>2, WithinText
    <3>4. current = 3
      BY <2>1, <3>1
    <3>5. text[1] = text[2] /\ text[1] \in {"{", "}"}
      BY <3>1, <3>3, Zenon DEF Brace, Opening, Closing
    <3> QED
      BY <2>2, <3>4, <3>5, Zenon DEF EndsAtFirstClose
  <2>3. CASE field.class = "Value"
    <3>1. token.type = "RightBrace" /\ OpenBefore("Value", text, token.beg)
      BY <1>1, <2>3 DEF OpenInv
    <3>2. token.len = 1 /\ Closing(text, token.beg)
      BY <2>1, <3>1 DEF BracesNamed
    <3>3. current - 1 = token.beg /\ current - 1 - 1 = token.beg - 1
      BY <2>1, <3>2
    <3>4. \A p \in 1..(token.beg - 1) : ~ Closing(text, p)
      BY <3>1 DEF OpenBefore, ClosesAt
    <3> QED
      BY <2>3, <3>2, <3>3, <3>4, Zenon DEF EndsAtFirstClose, Closing
  <2>4. CASE field.class = "Array"
    <3>1. token.type = "RightBracketBrace" /\ OpenBefore("Array", text, token.beg)
      BY <1>1, <2>4 DEF OpenInv
    <3>2. token.len = 2 /\ ClosingArray(text, token.beg)
      BY <2>1, <3>1 DEF BracesNamed
    <3>3. current - 2 = token.beg /\ current - 2 - 1 = token.beg - 1
      BY <2>1, <3>2
    <3>4. \A p \in 1..(token.beg - 1) : ~ ClosingArray(text, p)
      BY <3>1 DEF OpenBefore, ClosesAt
    <3> QED
      BY <2>4, <3>2, <3>3, <3>4, Zenon DEF EndsAtFirstClose, ClosingArray, Closing
  <2> QED
    BY <2>1, <2>2, <2>3, <2>4 DEF ArgClass
<1>2. ParserInv /\ EndInv => EndsAtFirstClose
  <2>1. CASE NamesPointType(text) \/ pc # "done"
    BY <2>1, Zenon DEF EndsAtFirstClose
  <2> QED
    BY <1>1, <2>1 DEF EndInv
<1> QED
  BY <1>2, ParserAlways, OpenAlways, PTL
===============================================================================
