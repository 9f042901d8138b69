---------------------------- MODULE PatternProofs ----------------------------
(***************************************************************************)
(* Proofs about the pattern functions, for any strings, texts, patterns    *)
(* and sizes: a search reports a place where the pattern is, a removal     *)
(* takes away occurrences and nothing else, and the buffers stay those of  *)
(* the strings.                                                            *)
(*                                                                         *)
(* The code compares bytes.  The bridge to characters is WindowIsMatch and *)
(* WindowStarts: a window that equals the pattern begins where a character *)
(* begins.  Both loops of the code are functions over the offsets that     *)
(* refer to greater offsets only: BackwardRecursion says that there is     *)
(* such a function, DownwardInduction what all its values have in common.  *)
(***************************************************************************)
EXTENDS Pattern, MStringProofs

--------------------------------------------------------------------------------
(* Functions over 0..n that are defined from the end.                          *)

LEMMA DownwardInduction ==
  ASSUME NEW n \in Nat, NEW G, \A p \in 0..n : (\A q \in (p + 1)..n : q \in G) => p \in G
  PROVE  0..n \subseteq G
<1> DEFINE H == {m \in Nat : \A p \in 0..n : p > n - m => p \in G}
<1>1. 0 \in H
  OBVIOUS
<1>2. ASSUME NEW m \in Nat, m \in H PROVE m + 1 \in H
  <2> SUFFICES ASSUME NEW p \in 0..n, p > n - (m + 1) PROVE p \in G
    OBVIOUS
  <2>1. \A q \in (p + 1)..n : q \in 0..n /\ q > n - m
    OBVIOUS
  <2>2. \A q \in (p + 1)..n : q \in G
    BY <1>2, <2>1
  <2> QED
    BY <2>2
<1> HIDE DEF H
<1>3. n + 1 \in H
  BY <1>1, <1>2, NumberInduction
<1> QED
  BY <1>3 DEF H

\* A body B[p] takes a function to its value at p, and looks at the values at
\* greater places only.
LooksAhead(B, n, V) ==
  /\ B \in [0..n -> [[0..n -> V] -> V]]
  /\ \A p \in 0..n : \A f, g \in [0..n -> V] :
       (\A q \in (p + 1)..n : f[q] = g[q]) => B[p][f] = B[p][g]

Solves(f, B, n, V) == f \in [0..n -> V] /\ \A p \in 0..n : f[p] = B[p][f]

\* Such a body defines a function.
LEMMA BackwardRecursion ==
  ASSUME NEW n \in Nat, NEW V, NEW v \in V, NEW B, LooksAhead(B, n, V)
  PROVE  \E f : Solves(f, B, n, V)
<1> DEFINE Right(f, m) == \A p \in 0..n : p > n - m => f[p] = B[p][f]
           H == {m \in Nat : m <= n + 1 => \E f \in [0..n -> V] : Right(f, m)}
<1>0. /\ B \in [0..n -> [[0..n -> V] -> V]]
      /\ \A p \in 0..n : \A f, g \in [0..n -> V] :
           (\A q \in (p + 1)..n : f[q] = g[q]) => B[p][f] = B[p][g]
  BY DEF LooksAhead
<1>1. 0 \in H
  <2>1. [p \in 0..n |-> v] \in [0..n -> V] /\ Right([p \in 0..n |-> v], 0)
    OBVIOUS
  <2> HIDE DEF Right
  <2> QED
    BY <2>1
<1>2. ASSUME NEW m \in Nat, m \in H PROVE m + 1 \in H
  <2> SUFFICES ASSUME m + 1 <= n + 1 PROVE \E f \in [0..n -> V] : Right(f, m + 1)
    OBVIOUS
  <2>1. PICK f \in [0..n -> V] : Right(f, m)
    BY <1>2
  <2> DEFINE p0 == n - m
             g == [f EXCEPT ![p0] = B[p0][f]]
  <2>2. p0 \in 0..n
    OBVIOUS
  <2>3. g \in [0..n -> V] /\ g[p0] = B[p0][f] /\ \A q \in 0..n : q # p0 => g[q] = f[q]
    BY <1>0, <2>2
  <2> HIDE DEF g
  <2>4. ASSUME NEW p \in 0..n, p >= p0 PROVE g[p] = B[p][g]
    <3>1. \A q \in (p + 1)..n : q \in 0..n /\ q # p0 /\ q > p0
      BY <2>2, <2>4
    <3>2. \A q \in (p + 1)..n : f[q] = g[q]
      BY <2>3, <3>1
    <3>3. B[p][f] = B[p][g]
      BY <1>0, <2>3, <3>2
    <3>4. CASE p = p0
      BY <2>3, <3>3, <3>4
    <3>5. CASE p > p0
      BY <2>1, <2>3, <3>3, <3>5
    <3> QED
      BY <2>2, <2>4, <3>4, <3>5
  <2>5. \A p \in 0..n : p > n - (m + 1) => p >= p0
    OBVIOUS
  <2>6. Right(g, m + 1)
    BY <2>4, <2>5
  <2> HIDE DEF Right
  <2> QED
    BY <2>3, <2>6
<1> HIDE DEF H
<1>3. n + 1 \in H
  BY <1>1, <1>2, NumberInduction
<1> QED
  BY <1>3 DEF H, Solves

\* The greatest of some of the numbers up to n.
LEMMA GreatestPlace ==
  ASSUME NEW n \in Nat, NEW S \in SUBSET (0..n), S # {}
  PROVE  Max(S) \in S
<1>1. ASSUME ~\E x \in S : \A y \in S : x >= y PROVE FALSE
  <2>1. ASSUME NEW m \in Nat, \A q \in 0..n : q > n - m => q \notin S
        PROVE  \A q \in 0..n : q > n - (m + 1) => q \notin S
    <3> SUFFICES ASSUME NEW q \in 0..n, q > n - (m + 1), q \in S PROVE FALSE
      OBVIOUS
    <3>1. \A y \in S : q >= y
      BY <2>1
    <3> QED
      BY <1>1, <3>1
  <2> DEFINE L == {m \in Nat : \A q \in 0..n : q > n - m => q \notin S}
  <2>2. 0 \in L
    OBVIOUS
  <2>3. \A m \in Nat : m \in L => m + 1 \in L
    BY <2>1
  <2> HIDE DEF L
  <2>4. n + 1 \in L
    BY <2>2, <2>3, NumberInduction
  <2>5. \A q \in 0..n : q \notin S
    BY <2>4 DEF L
  <2> QED
    BY <2>5
<1> QED
  BY <1>1 DEF Max

--------------------------------------------------------------------------------
(* Windows.                                                                    *)

Matches(b, patt, p) == InText(b, patt, p) /\ Mismatches(b, patt, p) = {}

\* What a piece of text between two characters is encoded as.
LEMMA MiddleEncodes ==
  ASSUME NEW t \in Seq(Code), NEW j \in 0..Len(t), NEW k \in 0..j
  PROVE  /\ SubSeq(t, k + 1, j) \in Seq(Code) /\ Len(SubSeq(t, k + 1, j)) = j - k
         /\ SubSeq(Encode(t), Offset(t, k) + 1, Offset(t, j)) = Encode(SubSeq(t, k + 1, j))
         /\ Len(Encode(SubSeq(t, k + 1, j))) = Offset(t, j) - Offset(t, k)
         /\ Offset(t, k) <= Offset(t, j)
<1> DEFINE w == SubSeq(t, 1, j)
           m == SubSeq(t, k + 1, j)
           b == Encode(t)
           a == Encode(w)
<1>1. /\ w \in Seq(Code) /\ Len(w) = j /\ Len(t) \in Nat
      /\ \A i \in 1..j : w[i] = t[i]
  BY LenProperties, SplitText
<1>2. k \in 0..Len(w) /\ k \in 0..Len(t)
  BY <1>1
<1>3. SubSeq(w, 1, k) = SubSeq(t, 1, k) /\ SubSeq(w, k + 1, Len(w)) = m
  <2>1. /\ SubSeq(t, 1, k) \in Seq(Code) /\ Len(SubSeq(t, 1, k)) = k
        /\ \A i \in 1..k : SubSeq(t, 1, k)[i] = t[i]
    BY <1>2, SplitText
  <2>2. /\ SubSeq(w, 1, k) \in Seq(Code) /\ Len(SubSeq(w, 1, k)) = k
        /\ \A i \in 1..k : SubSeq(w, 1, k)[i] = w[i]
    BY <1>1, <1>2, SplitText
  <2>3. SubSeq(w, 1, k) = SubSeq(t, 1, k)
    BY <1>1, <2>1, <2>2, SeqEqual
  <2>4. /\ SubSeq(w, k + 1, j) \in Seq(Code) /\ Len(SubSeq(w, k + 1, j)) = j - k
        /\ \A i \in 1..(j - k) : SubSeq(w, k + 1, j)[i] = w[k + i]
    BY <1>1, <1>2, SplitText
  <2>5. m = SubSeq(w, k + 1, j)
    <3>1. m = [i \in 1..((j - (k + 1)) + 1) |-> t[(i + (k + 1)) - 1]]
      OBVIOUS
    <3>2. SubSeq(w, k + 1, j) = [i \in 1..((j - (k + 1)) + 1) |-> w[(i + (k + 1)) - 1]]
      OBVIOUS
    <3>3. \A i \in 1..((j - (k + 1)) + 1) : (i + (k + 1)) - 1 \in 1..j
      BY <1>1
    <3> HIDE DEF m, w
    <3> QED
      BY <1>1, <3>1, <3>2, <3>3
  <2> QED
    BY <1>1, <2>3, <2>5
<1>4. m \in Seq(Code) /\ Len(m) = j - k
  BY <1>1, <1>2, <1>3, SplitText
<1>5. /\ Offset(w, k) = Offset(t, k) /\ Len(a) = Offset(t, j)
      /\ Offset(t, k) \in 0..Len(a) /\ Offset(t, j) \in 0..Len(b)
      /\ SubSeq(a, Offset(t, k) + 1, Len(a)) = Encode(m)
      /\ SubSeq(b, 1, Offset(t, j)) = a
      /\ a \in Seq(Byte) /\ b \in Seq(Byte) /\ Len(a) \in Nat /\ Len(b) \in Nat
  BY <1>1, <1>2, <1>3, SplitBytes, EncodeType DEF Offset
<1>6. SubSeq(b, Offset(t, k) + 1, Offset(t, j)) = SubSeq(a, Offset(t, k) + 1, Len(a))
  <2> DEFINE x == Offset(t, k)
             y == Offset(t, j)
  <2>1. x \in 0..y /\ y \in 0..Len(b) /\ Len(a) = y
    BY <1>5
  <2>2. \A i \in 1..y : a[i] = b[i]
    BY <1>5, <2>1, SplitText
  <2> HIDE DEF x, y, a, b
  <2>3. SubSeq(b, x + 1, y) = [i \in 1..((y - (x + 1)) + 1) |-> b[(i + (x + 1)) - 1]]
    BY <1>5, <2>1
  <2>4. SubSeq(a, x + 1, y) = [i \in 1..((y - (x + 1)) + 1) |-> a[(i + (x + 1)) - 1]]
    BY <1>5, <2>1
  <2>5. \A i \in 1..((y - (x + 1)) + 1) : (i + (x + 1)) - 1 \in 1..y
    BY <2>1
  <2>6. SubSeq(b, x + 1, y) = SubSeq(a, x + 1, y)
    BY <2>2, <2>3, <2>4, <2>5
  <2> QED
    BY <2>1, <2>6 DEF x, y
<1>7. Len(Encode(m)) = Len(a) - Offset(t, k)
  <2>1. Offset(t, k) \in 0..Len(a)
    BY <1>5
  <2> HIDE DEF a
  <2> QED
    BY <1>5, <2>1, SplitText
<1> QED
  BY <1>4, <1>5, <1>6, <1>7

\* No pattern but the empty one has no bytes.
LEMMA PatternBytes ==
  ASSUME NEW u \in Seq(Code)
  PROVE  /\ Encode(u) \in Seq(Byte) /\ Len(Encode(u)) \in Nat /\ Len(u) \in Nat
         /\ Encode(u) = <<>> <=> u = <<>>
         /\ u # <<>> => Len(Encode(u)) >= 1 /\ Len(u) >= 1
<1>1. Encode(u) \in Seq(Byte) /\ Len(Encode(u)) \in Nat /\ Len(Encode(u)) >= Len(u)
  BY EncodeType
<1>2. Len(u) \in Nat /\ (u # <<>> => Len(u) # 0)
  BY LenProperties, EmptySeq
<1>3. u # <<>> => Len(Encode(u)) >= 1 /\ Len(u) >= 1
  BY <1>1, <1>2
<1>4. Encode(u) = <<>> => Len(Encode(u)) = 0
  BY EmptySeq
<1> QED
  BY <1>1, <1>2, <1>3, <1>4, EncodeEmpty

\* A window that begins with a character equals the pattern exactly when the
\* pattern occurs there, and ends with a character then.
LEMMA WindowIsMatch ==
  ASSUME NEW t \in Seq(Code), NEW u \in Seq(Code), NEW k \in 0..Len(t)
  PROVE  /\ Matches(Encode(t), Encode(u), Offset(t, k)) <=> OccursAt(t, u, k)
         /\ OccursAt(t, u, k) =>
              /\ k + Len(u) \in k..Len(t)
              /\ Offset(t, k) + Len(Encode(u)) = Offset(t, k + Len(u))
<1> DEFINE b == Encode(t)
           a == Encode(u)
           o == Offset(t, k)
           rest == SubSeq(t, k + 1, Len(t))
           y == Encode(rest)
<1>1. /\ rest \in Seq(Code) /\ Len(rest) = Len(t) - k /\ Len(t) \in Nat /\ Len(u) \in Nat
      /\ \A i \in 1..(Len(t) - k) : rest[i] = t[k + i]
  BY LenProperties, SplitText
<1>2. /\ o \in 0..Len(b) /\ SubSeq(b, o + 1, Len(b)) = y
      /\ a \in Seq(Byte) /\ b \in Seq(Byte) /\ Len(a) \in Nat /\ Len(b) \in Nat
  BY SplitBytes, EncodeType
<1>3. Len(y) = Len(b) - o /\ \A i \in 1..(Len(b) - o) : y[i] = b[o + i]
  <2> HIDE DEF o, b, y
  <2> QED
    BY <1>2, SplitText
<1>4. (Len(y) >= Len(a) /\ mstr_compare_helper(y, a, Len(a))) <=> IsPrefix(u, rest)
  BY <1>1, PrefixBytes
<1>5. Matches(b, a, o) <=> (Len(y) >= Len(a) /\ mstr_compare_helper(y, a, Len(a)))
  <2> HIDE DEF a, b, o, y
  <2>1. InText(b, a, o) <=> Len(y) >= Len(a)
    BY <1>2, <1>3 DEF InText
  <2>2. ASSUME Len(y) >= Len(a)
        PROVE  Mismatches(b, a, o) = {} <=> mstr_compare_helper(y, a, Len(a))
    <3>1. \A i \in 1..Len(a) : y[i] = b[o + i]
      BY <1>2, <1>3, <2>2
    <3> QED
      BY <3>1 DEF Mismatches, mstr_compare_helper
  <2> QED
    BY <2>1, <2>2 DEF Matches
<1>6. IsPrefix(u, rest) <=> OccursAt(t, u, k)
  <2>1. SubSeq(u, 1, Len(u)) = u
    BY SubSeqFull
  <2>2. IsPrefix(u, rest) <=> (Len(u) <= Len(rest) /\ u = SubSeq(rest, 1, Len(u)))
    BY <2>1 DEF IsPrefix
  <2>3. Len(u) <= Len(rest) <=> k + Len(u) <= Len(t)
    BY <1>1
  <2>4. SubSeq(rest, 1, Len(u)) = SubSeq(t, k + 1, k + Len(u)) \/ ~(k + Len(u) <= Len(t))
    <3> SUFFICES ASSUME k + Len(u) <= Len(t)
                 PROVE  SubSeq(rest, 1, Len(u)) = SubSeq(t, k + 1, k + Len(u))
      OBVIOUS
    <3>1. SubSeq(rest, 1, Len(u)) = [i \in 1..((Len(u) - 1) + 1) |-> rest[(i + 1) - 1]]
      OBVIOUS
    <3>2. SubSeq(t, k + 1, k + Len(u)) =
            [i \in 1..(((k + Len(u)) - (k + 1)) + 1) |-> t[(i + (k + 1)) - 1]]
      OBVIOUS
    <3>3. (Len(u) - 1) + 1 = Len(u) /\ ((k + Len(u)) - (k + 1)) + 1 = Len(u)
      BY <1>1
    <3>4. \A i \in 1..Len(u) : rest[(i + 1) - 1] = t[(i + (k + 1)) - 1]
      <4> SUFFICES ASSUME NEW i \in 1..Len(u) PROVE rest[(i + 1) - 1] = t[(i + (k + 1)) - 1]
        OBVIOUS
      <4> HIDE DEF rest
      <4>1. i \in 1..(Len(t) - k) /\ (i + 1) - 1 = i /\ (i + (k + 1)) - 1 = k + i
        BY <1>1
      <4> QED
        BY <1>1, <4>1
    <3> HIDE DEF rest
    <3> QED
      BY <3>1, <3>2, <3>3, <3>4
  <2> HIDE DEF rest
  <2> QED
    BY <2>2, <2>3, <2>4 DEF OccursAt
<1>7. ASSUME OccursAt(t, u, k)
      PROVE  k + Len(u) \in k..Len(t) /\ o + Len(a) = Offset(t, k + Len(u))
  <2> DEFINE j == k + Len(u)
  <2>1. j \in 0..Len(t) /\ k \in 0..j /\ SubSeq(t, k + 1, j) = u /\ j \in k..Len(t)
    BY <1>1, <1>7 DEF OccursAt
  <2> HIDE DEF j
  <2>2. Len(a) = Offset(t, j) - Offset(t, k)
    BY <2>1, MiddleEncodes
  <2>3. Offset(t, j) \in 0..Len(b)
    BY <2>1, SplitBytes
  <2> QED
    BY <1>2, <2>1, <2>2, <2>3 DEF j
<1> QED
  BY <1>4, <1>5, <1>6, <1>7

\* A window that equals the pattern begins with a character: the first byte of the
\* pattern is no byte of 128..191.
LEMMA WindowStarts ==
  ASSUME NEW t \in Seq(Code), NEW u \in Seq(Code), u # <<>>, NEW p \in 0..Len(Encode(t)),
         Matches(Encode(t), Encode(u), p)
  PROVE  \E k \in 0..(Len(t) - 1) : p = Offset(t, k) /\ OccursAt(t, u, k)
<1> DEFINE b == Encode(t)
           a == Encode(u)
<1>1. /\ a \in Seq(Byte) /\ Len(a) \in Nat /\ Len(a) >= 1 /\ Len(b) \in Nat
      /\ Len(u) \in Nat /\ Len(u) >= 1
  BY PatternBytes
<1>2. p + Len(a) <= Len(b) /\ \A i \in 1..Len(a) : a[i] = b[p + i]
  BY DEF Matches, InText, Mismatches
<1>3. a[1] \notin 128..191
  <2>1. 0 \in 0..(Len(u) - 1)
    BY <1>1
  <2> DEFINE c == mstr_as_utf8(u[0 + 1])
  <2>2. /\ Character(c) /\ Offset(u, 0) = 0
        /\ \A j \in 1..Len(c) : a[Offset(u, 0) + j] = c[j]
    BY <2>1, CharacterAt, OffsetEnds
  <2>3. c[1] \in Int /\ (c[1] < 128 \/ c[1] >= 192)
    BY <2>2, LeadOutside
  <2>4. 1 \in 1..Len(c)
    BY <2>2 DEF Character
  <2> HIDE DEF c, a
  <2>5. a[1] = c[1]
    <3>1. a[0 + 1] = c[1]
      BY <2>2, <2>4
    <3> QED
      BY <3>1
  <2>6. \A v \in Int : v < 128 \/ v >= 192 => v \notin 128..191
    OBVIOUS
  <2> QED
    BY <2>3, <2>5, <2>6
<1>4. p \in 0..(Len(b) - 1) /\ b[p + 1] = a[1]
  <2> HIDE DEF a, b
  <2> QED
    BY <1>1, <1>2
<1>5. PICK k \in 0..(Len(t) - 1) :
        /\ p \in Offset(t, k)..(Offset(t, k + 1) - 1)
        /\ p # Offset(t, k) => b[p + 1] \in 128..191
  BY <1>4, Located
<1>6. p = Offset(t, k) /\ k \in 0..Len(t)
  BY <1>3, <1>4, <1>5, LenProperties
<1> QED
  BY <1>6, WindowIsMatch

\* A window that differs is moved on, at most to its end, and by one byte when there
\* is no table.
LEMMA ShiftMoves ==
  ASSUME NEW b \in Seq(Byte), NEW patt \in Seq(Byte), patt # <<>>, NEW p \in 0..Len(b),
         InText(b, patt, p), ~Matches(b, patt, p)
  PROVE  /\ Shift(b, patt, p) \in 1..Len(patt)
         /\ p + Shift(b, patt, p) \in (p + 1)..Len(b)
         /\ ~UsesTable(patt) => Shift(b, patt, p) = 1
<1>1. /\ Len(patt) \in Nat /\ Len(patt) >= 1 /\ Len(b) \in Nat /\ p + Len(patt) <= Len(b)
  <2>1. Len(patt) \in Nat /\ Len(patt) # 0 /\ Len(b) \in Nat
    BY LenProperties, EmptySeq
  <2> QED
    BY <2>1 DEF InText
<1>2. Shift(b, patt, p) \in 1..Len(patt)
  <2>1. CASE ~UsesTable(patt)
    BY <1>1, <2>1 DEF Shift
  <2>2. CASE UsesTable(patt)
    <3> DEFINE x == Max(Mismatches(b, patt, p))
               byte == b[p + x]
               places == {i \in 1..(Len(patt) - 1) : patt[i] = byte}
    <3>1. x \in 1..Len(patt)
      <4>1. Mismatches(b, patt, p) \in SUBSET (0..Len(patt)) /\ Mismatches(b, patt, p) # {}
        BY <1>1 DEF Matches, Mismatches
      <4>2. x \in Mismatches(b, patt, p)
        BY <1>1, <4>1, GreatestPlace
      <4> QED
        BY <4>2 DEF Mismatches
    <3> HIDE DEF x
    <3>2. byte \in 0..255
      <4>1. p + x \in 1..Len(b)
        BY <1>1, <3>1
      <4> QED
        BY <4>1, ElementOfSeq DEF Byte
    <3>3. places # {} => Max(places) \in places
      <4>1. places \in SUBSET (0..Len(patt))
        BY <1>1
      <4> QED
        BY <1>1, <4>1, GreatestPlace
    <3>4. Shift(b, patt, p) =
            Lesser(MaxShift, IF places = {} THEN Len(patt) ELSE Len(patt) - Max(places))
      BY <2>2, <3>2 DEF Shift, make_jump_table, x
    <3> DEFINE far == IF places = {} THEN Len(patt) ELSE Len(patt) - Max(places)
    <3>5. far \in 1..Len(patt)
      <4>1. CASE places = {}
        BY <1>1, <4>1
      <4>2. CASE places # {}
        <5>1. Max(places) \in 1..(Len(patt) - 1)
          BY <3>3, <4>2
        <5> HIDE DEF places
        <5> QED
          BY <1>1, <4>2, <5>1
      <4> QED
        BY <4>1, <4>2
    <3> HIDE DEF far
    <3>6. Lesser(MaxShift, far) \in 1..Len(patt)
      BY <3>5, PatternAssumption DEF Lesser
    <3> QED
      BY <3>4, <3>6 DEF far
  <2> QED
    BY <2>1, <2>2
<1>3. ~UsesTable(patt) => Shift(b, patt, p) = 1
  BY DEF Shift
<1> HIDE DEF Shift
<1> QED
  BY <1>1, <1>2, <1>3

--------------------------------------------------------------------------------
(* The search.                                                                 *)

\* The loop over the windows, as an equation: the windows that are tried from p on
\* and what is returned, relative to begin.
Tries(search, b, begin, patt) ==
  \A p \in 0..Len(b) :
    search[p] = IF ~InText(b, patt, p) THEN -1
                ELSE IF Mismatches(b, patt, p) = {} THEN p - begin
                ELSE search[p + Shift(b, patt, p)]

LEMMA SearchExists ==
  ASSUME NEW b \in Seq(Byte), NEW patt \in Seq(Byte), patt # <<>>, NEW begin \in Nat
  PROVE  \E search : /\ Tries(search, b, begin, patt)
                     /\ patt_match_impl(b, begin, patt) = search[begin]
<1> DEFINE n == Len(b)
           Body(f, p) == IF ~InText(b, patt, p) THEN -1
                         ELSE IF Mismatches(b, patt, p) = {} THEN p - begin
                         ELSE f[p + Shift(b, patt, p)]
           B == [p \in 0..n |-> [f \in [0..n -> Int] |-> Body(f, p)]]
           search[p \in 0..Len(b)] ==
             IF ~InText(b, patt, p) THEN -1
             ELSE IF Mismatches(b, patt, p) = {} THEN p - begin
             ELSE search[p + Shift(b, patt, p)]
<1>1. n \in Nat
  BY LenProperties
<1>2. ASSUME NEW p \in 0..n, InText(b, patt, p), Mismatches(b, patt, p) # {}
      PROVE  p + Shift(b, patt, p) \in (p + 1)..n
  BY <1>2, ShiftMoves DEF Matches
<1>3. \A p \in 0..n : \A f \in [0..n -> Int] : Body(f, p) \in Int
  <2> SUFFICES ASSUME NEW p \in 0..n, NEW f \in [0..n -> Int] PROVE Body(f, p) \in Int
    OBVIOUS
  <2>1. CASE InText(b, patt, p) /\ Mismatches(b, patt, p) # {}
    <3> DEFINE q == p + Shift(b, patt, p)
    <3>1. q \in 0..n
      BY <1>1, <1>2, <2>1
    <3> HIDE DEF q
    <3>2. f[q] \in Int
      BY <3>1
    <3> QED
      BY <2>1, <3>2 DEF q
  <2>2. CASE ~(InText(b, patt, p) /\ Mismatches(b, patt, p) # {})
    BY <2>2
  <2> QED
    BY <2>1, <2>2
<1>4. \A p \in 0..n : \A f, g \in [0..n -> Int] :
        (\A q \in (p + 1)..n : f[q] = g[q]) => Body(f, p) = Body(g, p)
  BY <1>2
<1> HIDE DEF Body, search
<1>5. B \in [0..n -> [[0..n -> Int] -> Int]]
  BY <1>3
<1>6. \A p \in 0..n : \A f \in [0..n -> Int] : B[p][f] = Body(f, p)
  OBVIOUS
<1> HIDE DEF B
<1>7. \A p \in 0..n : \A f, g \in [0..n -> Int] :
        (\A q \in (p + 1)..n : f[q] = g[q]) => B[p][f] = B[p][g]
  <2> SUFFICES ASSUME NEW p \in 0..n, NEW f \in [0..n -> Int], NEW g \in [0..n -> Int],
                      \A q \in (p + 1)..n : f[q] = g[q]
               PROVE  B[p][f] = B[p][g]
    OBVIOUS
  <2>1. B[p][f] = Body(f, p) /\ B[p][g] = Body(g, p)
    BY <1>6
  <2>2. Body(f, p) = Body(g, p)
    BY <1>4
  <2> QED
    BY <2>1, <2>2
<1> DEFINE V == Int
           v == 0
<1>8. v \in V
  OBVIOUS
<1>9. PICK f \in [0..n -> Int] : \A p \in 0..n : f[p] = B[p][f]
  <2>1. LooksAhead(B, n, V)
    BY <1>5, <1>7 DEF LooksAhead
  <2> HIDE DEF n, V, v
  <2>2. \E f : Solves(f, B, n, V)
    BY <1>1, <1>8, <2>1, BackwardRecursion
  <2> QED
    BY <2>2 DEF V, Solves
<1>10. f = [p \in 0..n |-> Body(f, p)]
  BY <1>6, <1>9
<1>11. search = [p \in 0..n |-> Body(search, p)]
  BY <1>10 DEF search, Body
<1>12. Tries(search, b, begin, patt)
  BY <1>11 DEF Tries, Body
<1>13. patt_match_impl(b, begin, patt) = search[begin]
  BY DEF patt_match_impl, search
<1> QED
  BY <1>12, <1>13

\* What a search from begin on returns: -1, or where a window equals the pattern; and
\* without a table no such window is passed over.
LEMMA SearchFinds ==
  ASSUME NEW b \in Seq(Byte), NEW patt \in Seq(Byte), patt # <<>>, NEW begin \in 0..Len(b)
  PROVE  LET r == patt_match_impl(b, begin, patt)
         IN  /\ \/ r = -1
                \/ /\ r \in Nat /\ begin + r \in begin..Len(b)
                   /\ Matches(b, patt, begin + r)
             /\ ~UsesTable(patt) =>
                  \A q \in begin..Len(b) :
                    Matches(b, patt, q) => r # -1 /\ begin + r <= q
<1>1. PICK search : /\ Tries(search, b, begin, patt)
                    /\ patt_match_impl(b, begin, patt) = search[begin]
  BY SearchExists
<1> DEFINE n == Len(b)
           Good(p, r) ==
             /\ \/ r = -1
                \/ r \in Int /\ begin + r \in p..n /\ Matches(b, patt, begin + r)
             /\ ~UsesTable(patt) =>
                  \A q \in p..n : Matches(b, patt, q) => r # -1 /\ begin + r <= q
           H == {p \in 0..n : p >= begin => Good(p, search[p])}
<1>2. n \in Nat /\ begin \in Nat
  BY LenProperties
<1>3. \A p \in 0..n : (\A q \in (p + 1)..n : q \in H) => p \in H
  <2> SUFFICES ASSUME NEW p \in 0..n, \A q \in (p + 1)..n : q \in H, p >= begin
               PROVE  Good(p, search[p])
    OBVIOUS
  <2>1. search[p] = IF ~InText(b, patt, p) THEN -1
                    ELSE IF Mismatches(b, patt, p) = {} THEN p - begin
                    ELSE search[p + Shift(b, patt, p)]
    BY <1>1 DEF Tries
  <2>2. CASE ~InText(b, patt, p)
    <3>1. \A q \in p..n : ~InText(b, patt, q)
      <4>1. Len(patt) \in Nat
        BY LenProperties
      <4> QED
        BY <1>2, <2>2, <4>1 DEF InText
    <3> QED
      BY <2>1, <2>2, <3>1 DEF Matches
  <2>3. CASE Matches(b, patt, p)
    <3>1. search[p] = p - begin
      BY <2>1, <2>3 DEF Matches
    <3>2. p - begin \in Int /\ begin + (p - begin) = p /\ p \in p..n /\ p - begin # -1
      BY <1>2
    <3>3. \A q \in p..n : p <= q
      OBVIOUS
    <3> QED
      BY <2>3, <3>1, <3>2, <3>3
  <2>4. CASE InText(b, patt, p) /\ ~Matches(b, patt, p)
    <3> DEFINE next == p + Shift(b, patt, p)
    <3>1. next \in (p + 1)..n /\ (~UsesTable(patt) => next = p + 1)
      BY <2>4, ShiftMoves
    <3>2. search[p] = search[next]
      BY <2>1, <2>4 DEF Matches
    <3> HIDE DEF next
    <3>3. next \in H /\ next >= begin
      BY <1>2, <3>1
    <3>4. Good(next, search[next])
      BY <3>3
    <3>5. \A q \in p..n : Matches(b, patt, q) => q \in (p + 1)..n
      BY <1>2, <2>4
    <3>6. \A x \in next..n : x \in p..n
      BY <1>2, <3>1
    <3> QED
      BY <3>1, <3>2, <3>4, <3>5, <3>6
  <2> QED
    BY <2>2, <2>3, <2>4 DEF Matches
<1> HIDE DEF H, Good, n
<1>4. 0..n \subseteq H
  BY <1>2, <1>3, DownwardInduction
<1>5. Good(begin, search[begin])
  BY <1>2, <1>4 DEF H, n
<1>6. \A r \in Int : begin + r \in begin..n => r \in Nat
  BY <1>2
<1> QED
  BY <1>1, <1>5, <1>6 DEF Good, n

\* The same in characters, for a search that begins with the character k.
LEMMA FindSimple ==
  ASSUME NEW t \in Seq(Code), NEW u \in Seq(Code), NEW k \in 0..Len(t)
  PROVE  LET r == mstr_find_simple(Encode(t), Offset(t, k), Encode(u))
         IN  \/ r = -1 /\ (Short(u) => \A i \in k..Len(t) : ~OccursAt(t, u, i))
             \/ \E j \in k..Len(t) :
                  /\ r = Offset(t, j) - Offset(t, k)
                  /\ r # -1
                  /\ OccursAt(t, u, j)
                  /\ Short(u) => \A i \in k..(j - 1) : ~OccursAt(t, u, i)
<1> DEFINE b == Encode(t)
           a == Encode(u)
           o == Offset(t, k)
           r == mstr_find_simple(b, o, a)
<1>1. /\ a \in Seq(Byte) /\ b \in Seq(Byte) /\ Len(a) \in Nat /\ Len(b) \in Nat
      /\ Len(t) \in Nat /\ Len(u) \in Nat
      /\ a = <<>> <=> u = <<>>
  BY PatternBytes
<1>2. \A i \in 0..Len(t) : Offset(t, i) \in 0..Len(b)
  BY SplitBytes
<1>3. o \in 0..Len(b) /\ k \in k..Len(t) /\ k..Len(t) \subseteq 0..Len(t)
  BY <1>1, <1>2
<1>4. Short(u) <=> ~UsesTable(a)
  BY <1>1, PatternAssumption DEF Short, UsesTable
<1>5. ASSUME NEW i \in k..Len(t), OccursAt(t, u, i)
      PROVE  /\ Matches(b, a, Offset(t, i)) /\ Offset(t, i) \in o..Len(b)
  <2>1. i \in 0..Len(t) /\ k \in 0..i
    BY <1>3
  <2>2. Offset(t, k) <= Offset(t, i)
    BY <2>1, MiddleEncodes
  <2> QED
    BY <1>2, <1>3, <1>5, <2>1, <2>2, WindowIsMatch
<1>6. CASE u = <<>>
  <2>1. Len(a) = 0 /\ r = 0
    <3>1. Len(a) = 0
      BY <1>1, <1>6, EmptySeq
    <3> QED
      BY <1>1, <1>3, <1>6, <3>1 DEF mstr_find_simple
  <2>2. OccursAt(t, u, k)
    <3>1. SubSeq(t, k + 1, k) = <<>>
      BY <1>1, SubSeqEmpty
    <3>2. Len(u) = 0 /\ k + 0 = k /\ k <= Len(t)
      BY <1>1, <1>6, EmptySeq
    <3> QED
      BY <1>6, <3>1, <3>2 DEF OccursAt
  <2>3. r = Offset(t, k) - Offset(t, k) /\ r # -1
    BY <1>3, <2>1
  <2>4. \A i \in k..(k - 1) : ~OccursAt(t, u, i)
    BY <1>1
  <2> HIDE DEF r
  <2> QED
    BY <1>3, <2>2, <2>3, <2>4 DEF r
<1>7. CASE u # <<>> /\ Len(a) > Len(b)
  <2>1. r = -1
    BY <1>7 DEF mstr_find_simple
  <2>2. \A p \in 0..Len(b) : ~Matches(b, a, p)
    BY <1>1, <1>7 DEF Matches, InText
  <2>3. \A i \in k..Len(t) : ~OccursAt(t, u, i)
    BY <1>2, <1>3, <1>5, <2>2
  <2> QED
    BY <2>1, <2>3
<1>8. CASE u # <<>> /\ ~(Len(a) > Len(b))
  <2>1. r = patt_match_impl(b, o, a)
    BY <1>1, <1>3, <1>8 DEF mstr_find_simple
  <2> HIDE DEF a, b, o, r
  <2>2. /\ \/ r = -1
           \/ r \in Nat /\ o + r \in o..Len(b) /\ Matches(b, a, o + r)
        /\ ~UsesTable(a) => \A q \in o..Len(b) : Matches(b, a, q) => r # -1 /\ o + r <= q
    BY <1>1, <1>3, <1>8, <2>1, SearchFinds
  <2>3. CASE r = -1
    BY <1>4, <1>5, <2>2, <2>3 DEF b, a, o, r
  <2>4. CASE r # -1
    <3>1. r \in Nat /\ o + r \in 0..Len(b) /\ Matches(b, a, o + r)
      BY <1>3, <2>2, <2>4
    <3>2. PICK j \in 0..(Len(t) - 1) : o + r = Offset(t, j) /\ OccursAt(t, u, j)
      BY <1>8, <3>1, WindowStarts DEF a, b
    <3>3. j \in k..Len(t) /\ j \in 0..Len(t)
      <4>1. Offset(t, j) >= o
        BY <1>3, <3>1, <3>2
      <4>2. j < k => Offset(t, j) < o
        BY <1>1, OffsetIncreases DEF o
      <4>3. ~(Offset(t, j) >= o /\ Offset(t, j) < o)
        BY <1>3, <3>1, <3>2
      <4> QED
        BY <1>1, <4>1, <4>2, <4>3
    <3>4. r = Offset(t, j) - o
      BY <1>3, <3>1, <3>2
    <3>5. ASSUME Short(u), NEW i \in k..(j - 1), OccursAt(t, u, i) PROVE FALSE
      <4>1. i \in k..Len(t) /\ i \in 0..Len(t) /\ i < j
        BY <1>1, <1>3, <3>3
      <4>2. o + r <= Offset(t, i)
        BY <1>4, <1>5, <2>2, <3>5, <4>1
      <4>3. Offset(t, i) < Offset(t, j)
        BY <3>3, <4>1, OffsetIncreases
      <4>4. Offset(t, i) \in Int /\ Offset(t, j) \in Int
        BY <1>2, <3>3, <4>1
      <4> QED
        BY <3>2, <4>2, <4>3, <4>4
    <3> QED
      BY <2>4, <3>2, <3>3, <3>4, <3>5 DEF r, o, b, a
  <2> QED
    BY <2>3, <2>4
<1> QED
  BY <1>6, <1>7, <1>8

--------------------------------------------------------------------------------
(* What the strings hold.                                                      *)

\* The record r holds the text t; there may be no room behind it: a removal reserves
\* what the bytes take and no more.
Carries(r, t) ==
  /\ r \in Record /\ r.buff # NULL
  /\ t \in Seq(Code)
  /\ r.bytes = Encode(t) /\ r.count = Len(Encode(t)) /\ r.length = Len(t)

\* Lengths of bytes are numbers of characters.
LEMMA LengthOf ==
  ASSUME NEW t \in Seq(Code)
  PROVE  unicode_length_of(Encode(t)) = Len(t)
BY StrlenWhole DEF unicode_length_of

\* What a search that succeeds reports.
LEMMA FindReports ==
  ASSUME NEW s \in Strings, NEW t, Carries(str[s], t), NEW u \in Seq(Code),
         NEW k \in 0..str[s].length, Found(s, k, u)
  PROVE  \/ found' = NoMatch /\ (Short(u) => \A i \in k..Len(t) : ~OccursAt(t, u, i))
         \/ \E j \in k..Len(t) :
              /\ found' = [is_matched |-> TRUE, begin_pos |-> j - k,
                           begin_offset |-> Len(Encode(SubSeq(t, k + 1, j)))]
              /\ OccursAt(t, u, j)
              /\ Short(u) => \A i \in k..(j - 1) : ~OccursAt(t, u, i)
<1> DEFINE b == Encode(t)
           a == Encode(u)
           o == Offset(t, k)
           r == mstr_find_simple(b, o, a)
<1>1. /\ t \in Seq(Code) /\ Len(t) \in Nat /\ k \in 0..Len(t)
      /\ str[s].bytes = b /\ mstr_char_offset_at(b, k) = o
  <2>1. t \in Seq(Code) /\ k \in 0..Len(t) /\ str[s].bytes = b
    BY DEF Carries
  <2> QED
    BY <2>1, OffsetFound, LenProperties
<1>2. found' = IF r = -1 THEN NoMatch
               ELSE [is_matched |-> TRUE,
                     begin_pos |-> unicode_length_of(SubSeq(b, o + 1, o + r)),
                     begin_offset |-> r]
  <2> HIDE DEF b, o
  <2> QED
    BY <1>1 DEF Found, mstr_find
<1>3. \/ r = -1 /\ (Short(u) => \A i \in k..Len(t) : ~OccursAt(t, u, i))
      \/ \E j \in k..Len(t) :
           /\ r = Offset(t, j) - Offset(t, k)
           /\ r # -1
           /\ OccursAt(t, u, j)
           /\ Short(u) => \A i \in k..(j - 1) : ~OccursAt(t, u, i)
  BY <1>1, FindSimple
<1> HIDE DEF r
<1>4. CASE r = -1 /\ (Short(u) => \A i \in k..Len(t) : ~OccursAt(t, u, i))
  BY <1>2, <1>4
<1>5. ASSUME NEW j \in k..Len(t), r = Offset(t, j) - Offset(t, k), r # -1
      PROVE  found' = [is_matched |-> TRUE, begin_pos |-> j - k,
                       begin_offset |-> Len(Encode(SubSeq(t, k + 1, j)))]
  <2>1. j \in 0..Len(t) /\ k \in 0..j
    BY <1>1
  <2> DEFINE w == SubSeq(t, k + 1, j)
  <2>2. /\ w \in Seq(Code) /\ Len(w) = j - k
        /\ SubSeq(b, o + 1, Offset(t, j)) = Encode(w)
        /\ Len(Encode(w)) = Offset(t, j) - o
    BY <1>1, <2>1, MiddleEncodes
  <2>3. Offset(t, j) \in Int /\ o \in Int
    BY <1>1, <2>1, SplitBytes
  <2> HIDE DEF w, b, o
  <2>4. o + r = Offset(t, j)
    BY <1>5, <2>3 DEF o
  <2>5. unicode_length_of(SubSeq(b, o + 1, o + r)) = j - k
    BY <2>2, <2>4, LengthOf
  <2>6. r = Len(Encode(w))
    BY <1>5, <2>2 DEF o
  <2> QED
    BY <1>2, <1>5, <2>5, <2>6 DEF w
<1> QED
  BY <1>3, <1>4, <1>5

--------------------------------------------------------------------------------
(* The removal of all matches.                                                 *)

\* The scan over the windows, as an equation.
Removes(scan, b, patt) ==
  \A p \in 0..Len(b) :
    scan[p] = IF ~InText(b, patt, p)
              THEN [bytes |-> SubSeq(b, p + 1, Len(b)), matches |-> 0]
              ELSE IF Mismatches(b, patt, p) = {}
              THEN [scan[p + Len(patt)] EXCEPT !.matches = @ + 1]
              ELSE LET next == p + Shift(b, patt, p)
                   IN  [scan[next] EXCEPT !.bytes = SubSeq(b, p + 1, next) \o @]

Kept == [bytes : Seq(Byte), matches : Nat]

LEMMA RemovalExists ==
  ASSUME NEW b \in Seq(Byte), NEW patt \in Seq(Byte), patt # <<>>
  PROVE  \E scan : Removes(scan, b, patt) /\ mstr_retain_all_impl_helper(b, patt) = scan[0]
<1> DEFINE n == Len(b)
           Body(f, p) ==
             IF ~InText(b, patt, p)
             THEN [bytes |-> SubSeq(b, p + 1, Len(b)), matches |-> 0]
             ELSE IF Mismatches(b, patt, p) = {}
             THEN [f[p + Len(patt)] EXCEPT !.matches = @ + 1]
             ELSE LET next == p + Shift(b, patt, p)
                  IN  [f[next] EXCEPT !.bytes = SubSeq(b, p + 1, next) \o @]
           V == Kept
           v == [bytes |-> <<>>, matches |-> 0]
           B == [p \in 0..n |-> [f \in [0..n -> V] |-> Body(f, p)]]
           scan[p \in 0..Len(b)] ==
             IF ~InText(b, patt, p)
             THEN [bytes |-> SubSeq(b, p + 1, Len(b)), matches |-> 0]
             ELSE IF Mismatches(b, patt, p) = {}
             THEN [scan[p + Len(patt)] EXCEPT !.matches = @ + 1]
             ELSE LET next == p + Shift(b, patt, p)
                  IN  [scan[next] EXCEPT !.bytes = SubSeq(b, p + 1, next) \o @]
<1>1. n \in Nat /\ Len(patt) \in Nat /\ Len(patt) >= 1
  BY LenProperties, EmptySeq
<1>2. ASSUME NEW p \in 0..n, InText(b, patt, p)
      PROVE  /\ Mismatches(b, patt, p) # {} => p + Shift(b, patt, p) \in (p + 1)..n
             /\ p + Len(patt) \in (p + 1)..n
  BY <1>1, <1>2, ShiftMoves DEF Matches, InText
<1>3. \A p \in 0..n : \A f \in [0..n -> V] : Body(f, p) \in V
  <2> SUFFICES ASSUME NEW p \in 0..n, NEW f \in [0..n -> V] PROVE Body(f, p) \in V
    OBVIOUS
  <2>1. CASE ~InText(b, patt, p)
    <3>1. SubSeq(b, p + 1, Len(b)) \in Seq(Byte)
      BY SplitText
    <3> QED
      BY <2>1, <3>1 DEF Kept
  <2>2. CASE InText(b, patt, p) /\ Mismatches(b, patt, p) = {}
    <3> DEFINE q == p + Len(patt)
    <3>1. q \in 0..n
      BY <1>1, <1>2, <2>2
    <3> HIDE DEF q
    <3>2. f[q] \in Kept
      BY <3>1
    <3>3. [f[q] EXCEPT !.matches = @ + 1] \in Kept
      <4> DEFINE x == f[q].matches + 1
      <4>1. x \in Nat
        BY <3>2 DEF Kept
      <4> HIDE DEF x
      <4>2. [f[q] EXCEPT !.matches = x] \in Kept
        BY <3>2, <4>1 DEF Kept
      <4> QED
        BY <4>2 DEF x
    <3> QED
      BY <2>2, <3>3 DEF q
  <2>3. CASE InText(b, patt, p) /\ Mismatches(b, patt, p) # {}
    <3> DEFINE q == p + Shift(b, patt, p)
    <3>1. q \in 0..n /\ p \in 0..q
      BY <1>1, <1>2, <2>3
    <3> HIDE DEF q
    <3>2. f[q] \in Kept /\ f[q].bytes \in Seq(Byte)
      BY <3>1 DEF Kept
    <3>3. SubSeq(b, p + 1, q) \in Seq(Byte)
      <4>1. \A i \in (p + 1)..q : b[i] \in Byte
        BY <1>1, <3>1, ElementOfSeq
      <4> QED
        BY <1>1, <3>1, <4>1, SubSeqProperties
    <3>4. SubSeq(b, p + 1, q) \o f[q].bytes \in Seq(Byte)
      BY <3>2, <3>3, ConcatProperties
    <3>5. [f[q] EXCEPT !.bytes = SubSeq(b, p + 1, q) \o @] \in Kept
      <4> DEFINE x == SubSeq(b, p + 1, q) \o f[q].bytes
      <4>1. x \in Seq(Byte)
        BY <3>4
      <4> HIDE DEF x
      <4>2. [f[q] EXCEPT !.bytes = x] \in Kept
        BY <3>2, <4>1 DEF Kept
      <4> QED
        BY <4>2 DEF x
    <3> QED
      BY <2>3, <3>5 DEF q
  <2> QED
    BY <2>1, <2>2, <2>3
<1>4. \A p \in 0..n : \A f, g \in [0..n -> V] :
        (\A q \in (p + 1)..n : f[q] = g[q]) => Body(f, p) = Body(g, p)
  BY <1>2
<1> HIDE DEF Body, scan, V
<1>5. B \in [0..n -> [[0..n -> V] -> V]]
  BY <1>3
<1>6. \A p \in 0..n : \A f \in [0..n -> V] : B[p][f] = Body(f, p)
  OBVIOUS
<1> HIDE DEF B
<1>7. \A p \in 0..n : \A f, g \in [0..n -> V] :
        (\A q \in (p + 1)..n : f[q] = g[q]) => B[p][f] = B[p][g]
  <2> SUFFICES ASSUME NEW p \in 0..n, NEW f \in [0..n -> V], NEW g \in [0..n -> V],
                      \A q \in (p + 1)..n : f[q] = g[q]
               PROVE  B[p][f] = B[p][g]
    OBVIOUS
  <2>1. B[p][f] = Body(f, p) /\ B[p][g] = Body(g, p)
    BY <1>6
  <2>2. Body(f, p) = Body(g, p)
    BY <1>4
  <2> QED
    BY <2>1, <2>2
<1>8. v \in V
  <2>1. <<>> \in Seq(Byte)
    BY EmptySeq
  <2> QED
    BY <2>1 DEF V, Kept
<1> HIDE DEF v
<1>9. PICK f \in [0..n -> V] : \A p \in 0..n : f[p] = B[p][f]
  <2>1. LooksAhead(B, n, V)
    BY <1>5, <1>7 DEF LooksAhead
  <2> HIDE DEF n
  <2>2. \E f : Solves(f, B, n, V)
    BY <1>1, <1>8, <2>1, BackwardRecursion
  <2> QED
    BY <2>2 DEF Solves
<1>10. f = [p \in 0..n |-> Body(f, p)]
  BY <1>6, <1>9
<1>11. scan = [p \in 0..n |-> Body(scan, p)]
  BY <1>10 DEF scan, Body
<1>12. Removes(scan, b, patt)
  BY <1>11 DEF Removes, Body
<1>13. mstr_retain_all_impl_helper(b, patt) = scan[0]
  BY DEF mstr_retain_all_impl_helper, scan
<1> QED
  BY <1>12, <1>13

\* The texts that may remain of the characters of t from k on, as an equation.
LeavesSome(rest, t, u) ==
  \A k \in 0..Len(t) :
    rest[k] = IF k = Len(t) THEN {<<>>}
              ELSE {<<t[k + 1]>> \o x : x \in rest[k + 1]}
                     \cup (IF OccursAt(t, u, k) THEN rest[k + Len(u)] ELSE {})

LEMMA RemaindersExist ==
  ASSUME NEW t \in Seq(Code), NEW u \in Seq(Code), u # <<>>
  PROVE  \E rest : LeavesSome(rest, t, u) /\ Remainders(t, u) = rest[0]
<1> DEFINE n == Len(t)
           Body(f, k) ==
             IF k = n THEN {<<>>}
             ELSE {<<t[k + 1]>> \o x : x \in f[k + 1]}
                    \cup (IF OccursAt(t, u, k) THEN f[k + Len(u)] ELSE {})
           V == SUBSET Seq(Code)
           v == {}
           B == [k \in 0..n |-> [f \in [0..n -> V] |-> Body(f, k)]]
           rest[k \in 0..Len(t)] ==
             IF k = Len(t) THEN {<<>>}
             ELSE {<<t[k + 1]>> \o x : x \in rest[k + 1]}
                    \cup (IF OccursAt(t, u, k) THEN rest[k + Len(u)] ELSE {})
<1>1. n \in Nat /\ Len(u) \in Nat /\ Len(u) >= 1
  BY LenProperties, EmptySeq
<1>2. ASSUME NEW k \in 0..n, k # n
      PROVE  k + 1 \in (k + 1)..n /\ (OccursAt(t, u, k) => k + Len(u) \in (k + 1)..n)
  BY <1>1, <1>2 DEF OccursAt
<1>3. \A k \in 0..n : \A f \in [0..n -> V] : Body(f, k) \in V
  <2> SUFFICES ASSUME NEW k \in 0..n, NEW f \in [0..n -> V] PROVE Body(f, k) \in V
    OBVIOUS
  <2>1. CASE k = n
    BY <2>1, EmptySeq
  <2>2. CASE k # n
    <3>0. k + 1 \in 0..n /\ (OccursAt(t, u, k) => k + Len(u) \in 0..n)
      BY <1>1, <1>2, <2>2
    <3>1. f[k + 1] \subseteq Seq(Code) /\ (OccursAt(t, u, k) => f[k + Len(u)] \subseteq Seq(Code))
      <4> HIDE DEF n
      <4>1. \A i \in 0..n : f[i] \in SUBSET Seq(Code)
        OBVIOUS
      <4> QED
        BY <3>0, <4>1
    <3>2. t[k + 1] \in Code
      BY <1>1, <2>2, ElementOfSeq
    <3>3. \A x \in f[k + 1] : <<t[k + 1]>> \o x \in Seq(Code)
      BY <3>1, <3>2, ConcatProperties
    <3> QED
      BY <2>2, <3>1, <3>3
  <2> QED
    BY <2>1, <2>2
<1>4. \A k \in 0..n : \A f, g \in [0..n -> V] :
        (\A j \in (k + 1)..n : f[j] = g[j]) => Body(f, k) = Body(g, k)
  <2> SUFFICES ASSUME NEW k \in 0..n, NEW f \in [0..n -> V], NEW g \in [0..n -> V],
                      \A j \in (k + 1)..n : f[j] = g[j]
               PROVE  Body(f, k) = Body(g, k)
    OBVIOUS
  <2>1. k # n => f[k + 1] = g[k + 1] /\ (OccursAt(t, u, k) => f[k + Len(u)] = g[k + Len(u)])
    BY <1>2
  <2> QED
    BY <2>1
<1> HIDE DEF Body, rest, V
<1>5. B \in [0..n -> [[0..n -> V] -> V]]
  BY <1>3
<1>6. \A k \in 0..n : \A f \in [0..n -> V] : B[k][f] = Body(f, k)
  OBVIOUS
<1> HIDE DEF B
<1>7. \A k \in 0..n : \A f, g \in [0..n -> V] :
        (\A j \in (k + 1)..n : f[j] = g[j]) => B[k][f] = B[k][g]
  <2> SUFFICES ASSUME NEW k \in 0..n, NEW f \in [0..n -> V], NEW g \in [0..n -> V],
                      \A j \in (k + 1)..n : f[j] = g[j]
               PROVE  B[k][f] = B[k][g]
    OBVIOUS
  <2>1. B[k][f] = Body(f, k) /\ B[k][g] = Body(g, k)
    BY <1>6
  <2>2. Body(f, k) = Body(g, k)
    BY <1>4
  <2> QED
    BY <2>1, <2>2
<1>8. v \in V
  BY EmptySeq DEF V
<1> HIDE DEF v
<1>9. PICK f \in [0..n -> V] : \A k \in 0..n : f[k] = B[k][f]
  <2>1. LooksAhead(B, n, V)
    BY <1>5, <1>7 DEF LooksAhead
  <2> HIDE DEF n
  <2>2. \E f : Solves(f, B, n, V)
    BY <1>1, <1>8, <2>1, BackwardRecursion
  <2> QED
    BY <2>2 DEF Solves
<1>10. f = [k \in 0..n |-> Body(f, k)]
  BY <1>6, <1>9
<1>11. rest = [k \in 0..n |-> Body(rest, k)]
  BY <1>10 DEF rest, Body
<1>12. LeavesSome(rest, t, u)
  BY <1>11 DEF LeavesSome, Body
<1>13. Remainders(t, u) = rest[0]
  BY DEF Remainders, rest
<1> QED
  BY <1>12, <1>13

\* And the one that remains when no match is passed over.
LeavesRest(rest, t, u) ==
  \A k \in 0..Len(t) :
    rest[k] = IF k = Len(t) THEN <<>>
              ELSE IF OccursAt(t, u, k) THEN rest[k + Len(u)]
              ELSE <<t[k + 1]>> \o rest[k + 1]

LEMMA RemainderExists ==
  ASSUME NEW t \in Seq(Code), NEW u \in Seq(Code), u # <<>>
  PROVE  \E rest : LeavesRest(rest, t, u) /\ Remainder(t, u) = rest[0]
<1> DEFINE n == Len(t)
           Body(f, k) ==
             IF k = n THEN <<>>
             ELSE IF OccursAt(t, u, k) THEN f[k + Len(u)]
             ELSE <<t[k + 1]>> \o f[k + 1]
           V == Seq(Code)
           v == <<>>
           B == [k \in 0..n |-> [f \in [0..n -> V] |-> Body(f, k)]]
           rest[k \in 0..Len(t)] ==
             IF k = Len(t) THEN <<>>
             ELSE IF OccursAt(t, u, k) THEN rest[k + Len(u)]
             ELSE <<t[k + 1]>> \o rest[k + 1]
<1>1. n \in Nat /\ Len(u) \in Nat /\ Len(u) >= 1
  BY LenProperties, EmptySeq
<1>2. ASSUME NEW k \in 0..n, k # n
      PROVE  k + 1 \in (k + 1)..n /\ (OccursAt(t, u, k) => k + Len(u) \in (k + 1)..n)
  BY <1>1, <1>2 DEF OccursAt
<1>3. \A k \in 0..n : \A f \in [0..n -> V] : Body(f, k) \in V
  <2> SUFFICES ASSUME NEW k \in 0..n, NEW f \in [0..n -> V] PROVE Body(f, k) \in V
    OBVIOUS
  <2>1. CASE k = n
    BY <2>1, EmptySeq
  <2>2. CASE k # n
    <3>1. f[k + 1] \in Seq(Code) /\ (OccursAt(t, u, k) => f[k + Len(u)] \in Seq(Code))
      BY <1>1, <1>2, <2>2
    <3>2. t[k + 1] \in Code
      BY <1>1, <2>2, ElementOfSeq
    <3>3. <<t[k + 1]>> \o f[k + 1] \in Seq(Code)
      BY <3>1, <3>2, ConcatProperties
    <3> QED
      BY <2>2, <3>1, <3>3
  <2> QED
    BY <2>1, <2>2
<1>4. \A k \in 0..n : \A f, g \in [0..n -> V] :
        (\A j \in (k + 1)..n : f[j] = g[j]) => Body(f, k) = Body(g, k)
  <2> SUFFICES ASSUME NEW k \in 0..n, NEW f \in [0..n -> V], NEW g \in [0..n -> V],
                      \A j \in (k + 1)..n : f[j] = g[j]
               PROVE  Body(f, k) = Body(g, k)
    OBVIOUS
  <2>1. k # n => f[k + 1] = g[k + 1] /\ (OccursAt(t, u, k) => f[k + Len(u)] = g[k + Len(u)])
    BY <1>2
  <2> QED
    BY <2>1
<1> HIDE DEF Body, rest, V
<1>5. B \in [0..n -> [[0..n -> V] -> V]]
  BY <1>3
<1>6. \A k \in 0..n : \A f \in [0..n -> V] : B[k][f] = Body(f, k)
  OBVIOUS
<1> HIDE DEF B
<1>7. \A k \in 0..n : \A f, g \in [0..n -> V] :
        (\A j \in (k + 1)..n : f[j] = g[j]) => B[k][f] = B[k][g]
  <2> SUFFICES ASSUME NEW k \in 0..n, NEW f \in [0..n -> V], NEW g \in [0..n -> V],
                      \A j \in (k + 1)..n : f[j] = g[j]
               PROVE  B[k][f] = B[k][g]
    OBVIOUS
  <2>1. B[k][f] = Body(f, k) /\ B[k][g] = Body(g, k)
    BY <1>6
  <2>2. Body(f, k) = Body(g, k)
    BY <1>4
  <2> QED
    BY <2>1, <2>2
<1>8. v \in V
  BY EmptySeq DEF V
<1> HIDE DEF v
<1>9. PICK f \in [0..n -> V] : \A k \in 0..n : f[k] = B[k][f]
  <2>1. LooksAhead(B, n, V)
    BY <1>5, <1>7 DEF LooksAhead
  <2> HIDE DEF n
  <2>2. \E f : Solves(f, B, n, V)
    BY <1>1, <1>8, <2>1, BackwardRecursion
  <2> QED
    BY <2>2 DEF Solves
<1>10. f = [k \in 0..n |-> Body(f, k)]
  BY <1>6, <1>9
<1>11. rest = [k \in 0..n |-> Body(rest, k)]
  BY <1>10 DEF rest, Body
<1>12. LeavesRest(rest, t, u)
  BY <1>11 DEF LeavesRest, Body
<1>13. Remainder(t, u) = rest[0]
  BY DEF Remainder, rest
<1> QED
  BY <1>12, <1>13

LEMMA PiecesJoin ==
  ASSUME NEW S, NEW s \in Seq(S), NEW l \in 0..Len(s), NEW j \in 0..l, NEW i \in 0..j
  PROVE  /\ SubSeq(s, i + 1, j) \o SubSeq(s, j + 1, l) = SubSeq(s, i + 1, l)
         /\ SubSeq(s, i + 1, j) \in Seq(S)
<1>1. /\ i + 1 \in 1..(Len(s) + 1) /\ j \in ((i + 1) - 1)..Len(s) /\ l \in j..Len(s)
      /\ Len(s) \in Nat
  BY LenProperties
<1>2. SubSeq(s, i + 1, j) \in Seq(S)
  <2>1. \A x \in (i + 1)..j : s[x] \in S
    BY <1>1, ElementOfSeq
  <2> QED
    BY <1>1, <2>1, SubSeqProperties
<1> QED
  BY <1>1, <1>2, ConcatAdjacentSubSeq

\* Any characters may stay in front of what remains.
LEMMA RestGrows ==
  ASSUME NEW t \in Seq(Code), NEW u, NEW rest, LeavesSome(rest, t, u),
         NEW j \in 0..Len(t), NEW k \in 0..j, NEW v \in Seq(Code), v \in rest[j]
  PROVE  SubSeq(t, k + 1, j) \o v \in rest[k]
<1> DEFINE G == {d \in Nat : d <= j => SubSeq(t, (j - d) + 1, j) \o v \in rest[j - d]}
<1>1. Len(t) \in Nat
  BY LenProperties
<1>2. 0 \in G
  <2>1. SubSeq(t, j + 1, j) = <<>>
    BY <1>1, SubSeqEmpty
  <2>2. <<>> \o v = v
    BY ConcatEmptySeq
  <2>3. j - 0 = j
    BY <1>1
  <2> QED
    BY <2>1, <2>2, <2>3
<1>3. ASSUME NEW d \in Nat, d \in G PROVE d + 1 \in G
  <2> SUFFICES ASSUME d + 1 <= j
               PROVE  SubSeq(t, (j - (d + 1)) + 1, j) \o v \in rest[j - (d + 1)]
    OBVIOUS
  <2> DEFINE i == j - (d + 1)
  <2>1. /\ i \in 0..(Len(t) - 1) /\ i + 1 = j - d /\ i + 1 \in 1..Len(t)
        /\ i + 1 \in 0..j /\ j \in (i + 1)..Len(t) /\ (i + 1) + 1 = (j - d) + 1 /\ d <= j
        /\ i \in 0..Len(t) /\ i # Len(t)
    BY <1>1
  <2> HIDE DEF i
  <2> DEFINE w == SubSeq(t, (i + 1) + 1, j)
  <2>2. w \o v \in rest[i + 1]
    BY <1>3, <2>1
  <2>3. SubSeq(t, i + 1, j) = <<t[i + 1]>> \o w
    BY <2>1, SubSeqRecursiveFirst
  <2>4. w \in Seq(Code) /\ t[i + 1] \in Code /\ <<t[i + 1]>> \in Seq(Code)
    <3>1. w \in Seq(Code)
      BY <2>1, PiecesJoin
    <3>2. t[i + 1] \in Code
      BY <2>1, ElementOfSeq
    <3> QED
      BY <3>1, <3>2
  <2> HIDE DEF w
  <2>5. SubSeq(t, i + 1, j) \o v = <<t[i + 1]>> \o (w \o v)
    <3> DEFINE h == <<t[i + 1]>>
    <3>1. h \in Seq(Code)
      BY <2>4
    <3> HIDE DEF h
    <3>2. (h \o w) \o v = h \o (w \o v)
      BY <2>4, <3>1, ConcatAssociative
    <3> QED
      BY <2>3, <3>2 DEF h
  <2>6. \A x \in rest[i + 1] : <<t[i + 1]>> \o x \in rest[i]
    BY <2>1 DEF LeavesSome
  <2>7. SubSeq(t, i + 1, j) \o v \in rest[i]
    BY <2>2, <2>5, <2>6
  <2> QED
    BY <2>7 DEF i
<1> HIDE DEF G
<1>4. j - k \in G
  <2>1. j - k \in Nat
    BY <1>1
  <2> QED
    BY <1>2, <1>3, <2>1, NumberInduction
<1>5. j - k <= j /\ j - (j - k) = k
  BY <1>1
<1> QED
  BY <1>4, <1>5 DEF G

\* Where the pattern occurs no more, everything remains.
LEMMA RestWhole ==
  ASSUME NEW t \in Seq(Code), NEW u, NEW rest, LeavesRest(rest, t, u),
         NEW k \in 0..Len(t), \A i \in k..Len(t) : i # Len(t) => ~OccursAt(t, u, i)
  PROVE  rest[k] = SubSeq(t, k + 1, Len(t))
<1> DEFINE n == Len(t)
           G == {p \in 0..n : p >= k => rest[p] = SubSeq(t, p + 1, n)}
<1>1. n \in Nat
  BY LenProperties
<1>2. \A p \in 0..n : (\A q \in (p + 1)..n : q \in G) => p \in G
  <2> SUFFICES ASSUME NEW p \in 0..n, \A q \in (p + 1)..n : q \in G, p >= k
               PROVE  rest[p] = SubSeq(t, p + 1, n)
    OBVIOUS
  <2>1. CASE p = n
    <3>1. rest[n] = <<>>
      BY <1>1, <2>1 DEF LeavesRest
    <3>2. SubSeq(t, n + 1, n) = <<>>
      BY <1>1, SubSeqEmpty
    <3> QED
      BY <2>1, <3>1, <3>2
  <2>2. CASE p # n
    <3>1. /\ p + 1 \in (p + 1)..n /\ p + 1 \in 1..n /\ n \in (p + 1)..n /\ p + 1 >= k
          /\ p \in k..n
      BY <1>1, <2>2
    <3>2. rest[p] = <<t[p + 1]>> \o rest[p + 1]
      BY <2>2, <3>1 DEF LeavesRest
    <3>3. rest[p + 1] = SubSeq(t, (p + 1) + 1, n)
      BY <3>1
    <3>4. SubSeq(t, p + 1, n) = <<t[p + 1]>> \o SubSeq(t, (p + 1) + 1, n)
      BY <3>1, SubSeqRecursiveFirst
    <3> QED
      BY <3>2, <3>3, <3>4
  <2> QED
    BY <2>1, <2>2
<1> HIDE DEF G
<1>3. 0..n \subseteq G
  BY <1>1, <1>2, DownwardInduction
<1>4. k \in G
  BY <1>3
<1> QED
  BY <1>1, <1>4 DEF G

\* The first character that begins at p or behind it.
LEMMA ReachAtOffset ==
  ASSUME NEW t \in Seq(Code), NEW k \in 0..Len(t)
  PROVE  Reaches(t, Offset(t, k), k)
<1>1. Len(t) \in Nat /\ \A i \in 0..(k - 1) : i \in 0..Len(t) /\ i < k
  BY LenProperties
<1>2. \A i \in 0..(k - 1) : Offset(t, i) < Offset(t, k)
  BY <1>1, OffsetIncreases
<1>3. Offset(t, k) >= Offset(t, k)
  BY SplitBytes
<1> QED
  BY <1>2, <1>3 DEF Reaches

LEMMA ReachUnique ==
  ASSUME NEW t \in Seq(Code), NEW p \in 0..Len(Encode(t)),
         NEW k, Reaches(t, p, k), NEW j, Reaches(t, p, j)
  PROVE  k = j
<1>1. k \in 0..Len(t) /\ j \in 0..Len(t) /\ Len(t) \in Nat
  BY LenProperties DEF Reaches
<1>2. /\ Offset(t, k) >= p /\ Offset(t, j) >= p
      /\ Offset(t, k) \in Int /\ Offset(t, j) \in Int
  BY <1>1, SplitBytes DEF Reaches
<1>3. k < j => Offset(t, k) < p
  BY <1>1 DEF Reaches
<1>4. j < k => Offset(t, j) < p
  BY <1>1 DEF Reaches
<1> QED
  BY <1>1, <1>2, <1>3, <1>4

LEMMA ReachForward ==
  ASSUME NEW t \in Seq(Code), NEW q \in 0..Len(Encode(t)), NEW p \in 0..q,
         NEW k, Reaches(t, p, k), NEW j, Reaches(t, q, j)
  PROVE  k <= j
<1>1. k \in 0..Len(t) /\ j \in 0..Len(t) /\ Len(t) \in Nat
  BY LenProperties DEF Reaches
<1>2. Offset(t, j) >= q /\ Offset(t, j) \in Int /\ Len(Encode(t)) \in Nat
  BY <1>1, SplitBytes, PatternBytes DEF Reaches
<1>3. j < k => Offset(t, j) < p
  BY <1>1 DEF Reaches
<1> QED
  BY <1>1, <1>2, <1>3

--------------------------------------------------------------------------------
(* What a scan returns from the offset p on, where k is the first character     *)
(* that begins there: the bytes up to that character and those of a text v.     *)

LeftOver(x, v, p, k, t, u) ==
  /\ x \in Kept /\ v \in Seq(Code)
  /\ x.bytes = SubSeq(Encode(t), p + 1, Offset(t, k)) \o Encode(v)
  /\ Len(v) + x.matches * Len(u) = Len(t) - k
  /\ Len(Encode(v)) + x.matches * Len(Encode(u)) = Len(Encode(t)) - Offset(t, k)

LEMMA LeftAtEnd ==
  ASSUME NEW t \in Seq(Code), NEW u \in Seq(Code), NEW p \in 0..Len(Encode(t)),
         NEW k, Reaches(t, p, k)
  PROVE  LeftOver([bytes |-> SubSeq(Encode(t), p + 1, Len(Encode(t))), matches |-> 0],
                  SubSeq(t, k + 1, Len(t)), p, k, t, u)
<1> DEFINE b == Encode(t)
           v == SubSeq(t, k + 1, Len(t))
           o == Offset(t, k)
           y == Encode(v)
<1>1. /\ k \in 0..Len(t) /\ Len(t) \in Nat /\ Len(u) \in Nat /\ Len(Encode(u)) \in Nat
      /\ o >= p /\ b \in Seq(Byte) /\ Len(b) \in Nat
  BY PatternBytes, LenProperties DEF Reaches
<1>2. v \in Seq(Code) /\ Len(v) = Len(t) - k
  BY <1>1, SplitText
<1>3. o \in 0..Len(b) /\ SubSeq(b, o + 1, Len(b)) = y
  BY <1>1, SplitBytes
<1> HIDE DEF b, v, o, y
<1>4. o \in 0..Len(b) /\ p \in 0..o /\ Len(b) \in 0..Len(b) /\ p \in 0..Len(b)
  BY <1>1, <1>3 DEF b
<1>5. Len(y) = Len(b) - o
  BY <1>1, <1>3, SplitText
<1>6. SubSeq(b, p + 1, Len(b)) = SubSeq(b, p + 1, o) \o y
  BY <1>1, <1>3, <1>4, PiecesJoin
<1>7. SubSeq(b, p + 1, Len(b)) \in Seq(Byte)
  BY <1>1, <1>4, SplitText
<1>8. /\ Len(v) + 0 * Len(u) = Len(t) - k
      /\ Len(y) + 0 * Len(Encode(u)) = Len(b) - o
  <2>1. \A i \in Nat : 0 * i = 0
    OBVIOUS
  <2> DEFINE f == 0 * Len(u)
             g == 0 * Len(Encode(u))
  <2>2. f = 0 /\ g = 0
    BY <1>1, <2>1
  <2> HIDE DEF f, g
  <2>3. Len(v) + f = Len(t) - k /\ Len(y) + g = Len(b) - o
    BY <1>1, <1>2, <1>4, <1>5, <2>2
  <2> QED
    BY <2>3 DEF f, g
<1> QED
  BY <1>2, <1>6, <1>7, <1>8 DEF LeftOver, Kept, b, v, o, y

LEMMA LeftAfterMatch ==
  ASSUME NEW t \in Seq(Code), NEW u \in Seq(Code), NEW k \in 0..Len(t), OccursAt(t, u, k),
         NEW x, NEW v,
         LeftOver(x, v, Offset(t, k) + Len(Encode(u)), k + Len(u), t, u)
  PROVE  LeftOver([x EXCEPT !.matches = @ + 1], v, Offset(t, k), k, t, u)
<1> DEFINE b == Encode(t)
           a == Encode(u)
           o == Offset(t, k)
           y == Encode(v)
           m == x.matches
           z == [x EXCEPT !.matches = m + 1]
<1>1. /\ k + Len(u) \in k..Len(t) /\ o + Len(a) = Offset(t, k + Len(u))
      /\ o \in 0..Len(b) /\ Len(b) \in Nat /\ Len(a) \in Nat /\ Len(u) \in Nat
      /\ Len(t) \in Nat /\ b \in Seq(Byte)
  BY WindowIsMatch, SplitBytes, PatternBytes
<1>2. /\ x \in Kept /\ v \in Seq(Code) /\ m \in Nat /\ x.bytes \in Seq(Byte)
      /\ y \in Seq(Byte) /\ Len(y) \in Nat /\ Len(v) \in Nat
  BY EncodeType, LenProperties DEF LeftOver, Kept
<1>3. x.bytes = SubSeq(b, (o + Len(a)) + 1, o + Len(a)) \o y
  BY <1>1 DEF LeftOver
<1>4. SubSeq(b, (o + Len(a)) + 1, o + Len(a)) = <<>> /\ SubSeq(b, o + 1, o) = <<>>
  <2> HIDE DEF o, a, b
  <2>1. o + 1 > o /\ (o + Len(a)) + 1 > o + Len(a)
    BY <1>1
  <2> QED
    BY <1>1, <2>1, SubSeqEmpty
<1>5. x.bytes = SubSeq(b, o + 1, o) \o y
  BY <1>3, <1>4
<1>6. /\ Len(v) + m * Len(u) = Len(t) - (k + Len(u))
      /\ Len(y) + m * Len(a) = Len(b) - (o + Len(a))
  BY <1>1 DEF LeftOver
<1>7. \A i, n \in Nat : (i + 1) * n = i * n + n /\ i * n \in Nat
  OBVIOUS
<1>8. /\ (m + 1) * Len(u) = m * Len(u) + Len(u) /\ m * Len(u) \in Nat
      /\ (m + 1) * Len(a) = m * Len(a) + Len(a) /\ m * Len(a) \in Nat
  BY <1>1, <1>2, <1>7
<1> HIDE DEF b, a, o, y, m
<1>9. Len(v) + (m + 1) * Len(u) = Len(t) - k
  <2> DEFINE f == m * Len(u)
             g == (m + 1) * Len(u)
  <2>1. g = f + Len(u) /\ f \in Nat /\ Len(v) + f = Len(t) - (k + Len(u))
    BY <1>6, <1>8
  <2> HIDE DEF f, g
  <2>2. Len(v) + g = Len(t) - k
    BY <1>1, <1>2, <2>1
  <2> QED
    BY <2>2 DEF g
<1>10. Len(y) + (m + 1) * Len(a) = Len(b) - o
  <2> DEFINE f == m * Len(a)
             g == (m + 1) * Len(a)
  <2>1. g = f + Len(a) /\ f \in Nat /\ Len(y) + f = Len(b) - (o + Len(a))
    BY <1>6, <1>8
  <2> HIDE DEF f, g
  <2>2. Len(y) + g = Len(b) - o
    BY <1>1, <1>2, <2>1
  <2> QED
    BY <2>2 DEF g
<1>11. z \in Kept /\ z.matches = m + 1 /\ z.bytes = x.bytes
  <2> DEFINE n == m + 1
  <2>1. n \in Nat
    BY <1>2
  <2> HIDE DEF n
  <2>2. LET c == [x EXCEPT !.matches = n]
        IN  c \in Kept /\ c.matches = n /\ c.bytes = x.bytes
    BY <1>2, <2>1 DEF Kept
  <2> QED
    BY <2>2 DEF n
<1> HIDE DEF z
<1>12. LeftOver(z, v, o, k, t, u)
  BY <1>2, <1>5, <1>9, <1>10, <1>11 DEF LeftOver, b, a, o, y
<1> QED
  BY <1>12 DEF z, m, o

LEMMA LeftAfterShift ==
  ASSUME NEW t \in Seq(Code), NEW u \in Seq(Code), NEW q \in 0..Len(Encode(t)),
         NEW p \in 0..q, NEW k, Reaches(t, p, k), NEW j, Reaches(t, q, j),
         NEW x, NEW v, LeftOver(x, v, q, j, t, u)
  PROVE  LeftOver([x EXCEPT !.bytes = SubSeq(Encode(t), p + 1, q) \o @],
                  SubSeq(t, k + 1, j) \o v, p, k, t, u)
<1> DEFINE b == Encode(t)
           o == Offset(t, k)
           e == Offset(t, j)
           y == Encode(v)
           w == SubSeq(t, k + 1, j)
           new == SubSeq(b, p + 1, q) \o x.bytes
           z == [x EXCEPT !.bytes = new]
<1>1. /\ k \in 0..j /\ j \in 0..Len(t) /\ k \in 0..Len(t) /\ Len(t) \in Nat
      /\ o >= p /\ e >= q
  BY ReachForward, LenProperties DEF Reaches
<1>2. /\ w \in Seq(Code) /\ Len(w) = j - k
      /\ SubSeq(b, o + 1, e) = Encode(w) /\ Len(Encode(w)) = e - o /\ o <= e
  BY <1>1, MiddleEncodes
<1>3. o \in 0..Len(b) /\ e \in 0..Len(b) /\ b \in Seq(Byte) /\ Len(b) \in Nat
  BY <1>1, SplitBytes, PatternBytes
<1>4. /\ x \in Kept /\ v \in Seq(Code) /\ x.matches \in Nat /\ x.bytes \in Seq(Byte)
      /\ y \in Seq(Byte) /\ Len(y) \in Nat /\ Len(v) \in Nat
      /\ Encode(w) \in Seq(Byte)
  BY <1>2, EncodeType, LenProperties DEF LeftOver, Kept
<1>5. w \o v \in Seq(Code) /\ Len(w \o v) = (j - k) + Len(v)
  <2> HIDE DEF w
  <2> QED
    BY <1>2, <1>4, ConcatProperties
<1>6. Encode(w \o v) = Encode(w) \o y
  BY <1>2, <1>4, EncodeConcat
<1>7. Len(Encode(w \o v)) = (e - o) + Len(y)
  <2> DEFINE c == Encode(w)
  <2>1. c \in Seq(Byte) /\ Len(c) = e - o
    BY <1>2, <1>4
  <2> HIDE DEF c, y
  <2>2. Len(c \o y) = Len(c) + Len(y)
    BY <1>4, <2>1, ConcatProperties
  <2> QED
    BY <1>6, <2>1, <2>2 DEF c
<1> HIDE DEF b, o, e, y, w, new
<1>8. new = SubSeq(b, p + 1, o) \o Encode(w \o v)
  <2>0. q \in 0..e /\ p \in 0..e /\ o \in 0..e /\ p \in 0..o /\ q \in 0..Len(b)
    BY <1>1, <1>2, <1>3 DEF b
  <2>1. x.bytes = SubSeq(b, q + 1, e) \o y
    BY DEF LeftOver, b, e, y
  <2>2. /\ SubSeq(b, p + 1, q) \o SubSeq(b, q + 1, e) = SubSeq(b, p + 1, e)
        /\ SubSeq(b, p + 1, q) \in Seq(Byte)
    BY <1>3, <2>0, PiecesJoin
  <2>3. SubSeq(b, q + 1, e) \in Seq(Byte)
    <3>1. e \in 0..e
      BY <1>3
    <3> QED
      BY <1>3, <2>0, <3>1, PiecesJoin
  <2>4. /\ SubSeq(b, p + 1, o) \o SubSeq(b, o + 1, e) = SubSeq(b, p + 1, e)
        /\ SubSeq(b, p + 1, o) \in Seq(Byte)
    BY <1>3, <2>0, PiecesJoin
  <2> DEFINE b1 == SubSeq(b, p + 1, q)
             b2 == SubSeq(b, q + 1, e)
             c1 == SubSeq(b, p + 1, o)
             c2 == Encode(w)
  <2>5. /\ b1 \in Seq(Byte) /\ b2 \in Seq(Byte) /\ c1 \in Seq(Byte) /\ c2 \in Seq(Byte)
        /\ b1 \o b2 = c1 \o c2 /\ new = b1 \o (b2 \o y)
    BY <1>2, <1>4, <2>1, <2>2, <2>3, <2>4 DEF new
  <2> HIDE DEF b1, b2, c1, c2
  <2>6. /\ b1 \in Seq(Byte) /\ b2 \in Seq(Byte) /\ c1 \in Seq(Byte) /\ c2 \in Seq(Byte)
        /\ y \in Seq(Byte)
    BY <1>4, <2>5
  <2>7. /\ (b1 \o b2) \o y = b1 \o (b2 \o y)
        /\ (c1 \o c2) \o y = c1 \o (c2 \o y)
    <3>1. (b1 \o b2) \o y = b1 \o (b2 \o y)
      BY <2>6, BytesAssociate
    <3>2. (c1 \o c2) \o y = c1 \o (c2 \o y)
      BY <2>6, BytesAssociate
    <3> QED
      BY <3>1, <3>2
  <2>8. new = c1 \o (c2 \o y)
    BY <2>5, <2>7
  <2> QED
    BY <1>6, <2>8 DEF c1, c2
<1>9. new \in Seq(Byte)
  <2>1. SubSeq(b, p + 1, q) \in Seq(Byte)
    <3>1. q \in 0..Len(b) /\ q \in 0..q
      BY <1>3 DEF b
    <3> QED
      BY <1>3, <3>1, PiecesJoin
  <2> QED
    BY <1>4, <2>1, ConcatProperties DEF new
<1>10. z \in Kept /\ z.matches = x.matches /\ z.bytes = new
  BY <1>4, <1>9 DEF Kept
<1> HIDE DEF z
<1>11. /\ Len(v) + x.matches * Len(u) = Len(t) - j
       /\ Len(y) + x.matches * Len(Encode(u)) = Len(b) - e
  BY DEF LeftOver, y, b, e
<1>12. Len(w \o v) + x.matches * Len(u) = Len(t) - k
  <2> DEFINE f == x.matches * Len(u)
  <2>1. f \in Int /\ Len(v) + f = Len(t) - j
    BY <1>4, <1>11, PatternBytes
  <2> HIDE DEF f
  <2>2. Len(w \o v) + f = Len(t) - k
    BY <1>1, <1>4, <1>5, <2>1
  <2> QED
    BY <2>2 DEF f
<1>13. Len(Encode(w \o v)) + x.matches * Len(Encode(u)) = Len(b) - o
  <2> DEFINE f == x.matches * Len(Encode(u))
  <2>1. f \in Int /\ Len(y) + f = Len(b) - e
    BY <1>4, <1>11, PatternBytes
  <2> HIDE DEF f
  <2>2. Len(Encode(w \o v)) + f = Len(b) - o
    BY <1>3, <1>4, <1>7, <2>1
  <2> QED
    BY <2>2 DEF f
<1>14. LeftOver(z, w \o v, p, k, t, u)
  BY <1>5, <1>8, <1>10, <1>12, <1>13 DEF LeftOver, b, o
<1> QED
  BY <1>14 DEF z, new, w, b

\* From any offset on, a scan leaves one of the texts that may remain, and without a
\* table the one that remains when no match is passed over.
LEMMA RemovalLeaves ==
  ASSUME NEW t \in Seq(Code), NEW u \in Seq(Code), u # <<>>,
         NEW some, LeavesSome(some, t, u), NEW only, LeavesRest(only, t, u),
         NEW scan, Removes(scan, Encode(t), Encode(u))
  PROVE  \A p \in 0..Len(Encode(t)) : \A k : Reaches(t, p, k) =>
           \E v : /\ v \in some[k] /\ LeftOver(scan[p], v, p, k, t, u)
                  /\ Short(u) => v = only[k]
<1> DEFINE b == Encode(t)
           a == Encode(u)
           n == Len(b)
           Fine(p, k, v) == /\ v \in some[k] /\ LeftOver(scan[p], v, p, k, t, u)
                            /\ Short(u) => v = only[k]
           G == {p \in 0..n : \A k : Reaches(t, p, k) => \E v : Fine(p, k, v)}
<1>1. /\ b \in Seq(Byte) /\ n \in Nat /\ a \in Seq(Byte) /\ Len(a) \in Nat /\ Len(a) >= 1
      /\ a # <<>> /\ Len(u) \in Nat /\ Len(u) >= 1 /\ Len(t) \in Nat
  BY PatternBytes
<1>2. \A k \in 0..Len(t) : Offset(t, k) \in 0..n
  BY SplitBytes
<1>3. Short(u) <=> ~UsesTable(a)
  BY <1>1, PatternAssumption DEF Short, UsesTable
<1>4. ASSUME NEW p \in 0..n, \A q \in (p + 1)..n : q \in G, NEW k, Reaches(t, p, k)
      PROVE  \E v : Fine(p, k, v)
  <2>1. k \in 0..Len(t) /\ Offset(t, k) \in 0..n /\ Offset(t, k) >= p
    BY <1>2, <1>4 DEF Reaches
  <2>2. scan[p] = IF ~InText(b, a, p)
                  THEN [bytes |-> SubSeq(b, p + 1, Len(b)), matches |-> 0]
                  ELSE IF Mismatches(b, a, p) = {}
                  THEN [scan[p + Len(a)] EXCEPT !.matches = @ + 1]
                  ELSE [scan[p + Shift(b, a, p)] EXCEPT
                          !.bytes = SubSeq(b, p + 1, p + Shift(b, a, p)) \o @]
    BY DEF Removes
  <2>3. CASE ~InText(b, a, p)
    <3> DEFINE v == SubSeq(t, k + 1, Len(t))
    <3>1. LeftOver(scan[p], v, p, k, t, u)
      <4>1. scan[p] = [bytes |-> SubSeq(b, p + 1, Len(b)), matches |-> 0]
        BY <2>2, <2>3
      <4> QED
        BY <1>4, <4>1, LeftAtEnd
    <3>2. v \in some[k]
      <4>1. Len(t) \in 0..Len(t) /\ <<>> \in Seq(Code)
        BY <1>1, EmptySeq
      <4>2. <<>> \in some[Len(t)]
        BY <4>1 DEF LeavesSome
      <4>3. v \o <<>> \in some[k]
        BY <2>1, <4>1, <4>2, RestGrows
      <4>4. v \in Seq(Code)
        BY <2>1, SplitText
      <4> HIDE DEF v
      <4>5. v \o <<>> = v
        BY <4>4, ConcatEmptySeq
      <4> QED
        BY <4>3, <4>5
    <3>3. v = only[k]
      <4>1. ASSUME NEW i \in k..Len(t), OccursAt(t, u, i) PROVE FALSE
        <5>1. i \in 0..Len(t) /\ k \in 0..i
          BY <1>1, <2>1
        <5>2. InText(b, a, Offset(t, i))
          BY <4>1, <5>1, WindowIsMatch DEF Matches
        <5>3. Offset(t, k) <= Offset(t, i) /\ Offset(t, i) \in 0..n
          BY <1>2, <5>1, MiddleEncodes
        <5> QED
          BY <1>1, <2>1, <2>3, <5>2, <5>3 DEF InText
      <4> QED
        BY <2>1, <4>1, RestWhole
    <3> HIDE DEF v
    <3>4. Fine(p, k, v)
      BY <3>1, <3>2, <3>3
    <3> QED
      BY <3>4
  <2>4. CASE Matches(b, a, p)
    <3>1. OccursAt(t, u, k) /\ p = Offset(t, k) /\ k # Len(t)
      <4>1. PICK j \in 0..(Len(t) - 1) : p = Offset(t, j) /\ OccursAt(t, u, j)
        BY <2>4, WindowStarts
      <4>2. j \in 0..Len(t) /\ j # Len(t)
        BY <1>1
      <4>3. Reaches(t, p, j)
        BY <4>1, <4>2, ReachAtOffset
      <4>4. k = j
        BY <1>4, <4>3, ReachUnique
      <4> QED
        BY <4>1, <4>2, <4>4
    <3> DEFINE q == p + Len(a)
               j == k + Len(u)
    <3>2. /\ j \in k..Len(t) /\ j \in 0..Len(t) /\ q = Offset(t, j)
          /\ q \in (p + 1)..n
      <4>1. j \in k..Len(t) /\ q = Offset(t, j)
        BY <2>1, <3>1, WindowIsMatch
      <4>2. j \in 0..Len(t)
        BY <1>1, <2>1, <4>1
      <4>3. q \in 0..n
        BY <1>2, <4>1, <4>2
      <4> HIDE DEF j, n, a
      <4> QED
        BY <1>1, <4>1, <4>2, <4>3
    <3>3. Reaches(t, q, j)
      BY <3>2, ReachAtOffset
    <3>4. PICK v : Fine(q, j, v)
      BY <1>4, <3>2, <3>3
    <3>5. scan[p] = [scan[q] EXCEPT !.matches = @ + 1]
      BY <2>2, <2>4 DEF Matches
    <3>6. LeftOver(scan[p], v, p, k, t, u)
      BY <2>1, <3>1, <3>4, <3>5, LeftAfterMatch
    <3>7. v \in some[k]
      <4>1. some[k] = {<<t[k + 1]>> \o x : x \in some[k + 1]} \cup some[j]
        BY <2>1, <3>1 DEF LeavesSome
      <4> QED
        BY <3>4, <4>1
    <3>8. Short(u) => v = only[k]
      <4>1. only[k] = only[j]
        BY <2>1, <3>1 DEF LeavesRest
      <4> QED
        BY <3>4, <4>1
    <3> QED
      BY <3>6, <3>7, <3>8
  <2>5. CASE InText(b, a, p) /\ ~Matches(b, a, p)
    <3> DEFINE q == p + Shift(b, a, p)
    <3>1. /\ q \in (p + 1)..n /\ q \in 0..n /\ p \in 0..q
          /\ Short(u) => q = p + 1
      <4>1. q \in (p + 1)..n /\ (Short(u) => q = p + 1)
        BY <1>1, <1>3, <2>5, ShiftMoves
      <4> HIDE DEF q, n
      <4> QED
        BY <1>1, <4>1
    <3>2. scan[p] = [scan[q] EXCEPT !.bytes = SubSeq(b, p + 1, q) \o @]
      BY <2>2, <2>5 DEF Matches
    <3> HIDE DEF q
    <3>3. PICK j : Reaches(t, q, j)
      BY <3>1, ReachExists
    <3>4. PICK x : Fine(q, j, x)
      BY <1>4, <3>1, <3>3
    <3> DEFINE w == SubSeq(t, k + 1, j)
               v == w \o x
    <3>5. LeftOver(scan[p], v, p, k, t, u)
      <4>1. LeftOver(scan[q], x, q, j, t, u)
        BY <3>4
      <4>2. LeftOver([scan[q] EXCEPT !.bytes = SubSeq(Encode(t), p + 1, q) \o @],
                     SubSeq(t, k + 1, j) \o x, p, k, t, u)
        BY <1>4, <3>1, <3>3, <4>1, LeftAfterShift
      <4> QED
        BY <3>2, <4>2
    <3>6. x \in Seq(Code) /\ x \in some[j]
      BY <3>4 DEF LeftOver
    <3>7. j \in 0..Len(t) /\ k \in 0..j
      <4>1. k <= j
        BY <1>4, <3>1, <3>3, ReachForward
      <4> QED
        BY <1>1, <2>1, <3>3, <4>1 DEF Reaches
    <3>8. v \in some[k]
      BY <3>6, <3>7, RestGrows
    <3>9. ASSUME Short(u) PROVE v = only[k]
      <4>1. q = p + 1 /\ x = only[j]
        BY <3>1, <3>4, <3>9
      <4>2. CASE Offset(t, k) = p
        <5>1. ~OccursAt(t, u, k)
          BY <2>1, <2>5, <4>2, WindowIsMatch
        <5>2. k \in 0..(Len(t) - 1) /\ k + 1 \in 0..Len(t) /\ k # Len(t)
          <6>1. p < n
            BY <1>1, <2>5 DEF InText
          <6>2. k # Len(t)
            BY <4>2, <6>1, OffsetEnds
          <6> QED
            BY <1>1, <2>1, <6>2
        <5>3. j = k + 1
          <6>1. Offset(t, k) < Offset(t, k + 1) /\ Offset(t, k + 1) \in 0..n
            BY <1>1, <1>2, <2>1, <5>2, OffsetIncreases
          <6>2. \A i \in 0..((k + 1) - 1) : Offset(t, i) < q
            <7> SUFFICES ASSUME NEW i \in 0..((k + 1) - 1) PROVE Offset(t, i) < q
              OBVIOUS
            <7>1. i \in 0..k /\ i \in 0..Len(t)
              BY <1>1, <2>1
            <7>2. Offset(t, i) <= Offset(t, k) /\ Offset(t, i) \in 0..n
              BY <1>2, <2>1, <7>1, MiddleEncodes
            <7> QED
              BY <1>1, <4>1, <4>2, <7>2
          <6>3. Offset(t, k + 1) >= q
            BY <1>1, <4>1, <4>2, <6>1
          <6>4. Reaches(t, q, k + 1)
            BY <5>2, <6>2, <6>3 DEF Reaches
          <6> QED
            BY <3>1, <3>3, <6>4, ReachUnique
        <5>4. only[k] = <<t[k + 1]>> \o only[k + 1]
          BY <2>1, <5>1, <5>2 DEF LeavesRest
        <5>5. w = <<t[k + 1]>>
          <6>1. SubSeq(t, k + 1, k + 1) = <<t[k + 1]>> \o SubSeq(t, (k + 1) + 1, k + 1)
            <7>1. k + 1 \in 1..Len(t) /\ k + 1 \in (k + 1)..Len(t)
              BY <1>1, <5>2
            <7> QED
              BY <7>1, SubSeqRecursiveFirst
          <6>2. SubSeq(t, (k + 1) + 1, k + 1) = <<>>
            BY <2>1, SubSeqEmpty
          <6>3. t[k + 1] \in Code
            BY <5>2, NextPrefix
          <6>4. <<t[k + 1]>> \o <<>> = <<t[k + 1]>>
            BY <6>3, ConcatEmptySeq
          <6> QED
            BY <5>3, <6>1, <6>2, <6>4
        <5> QED
          BY <4>1, <5>3, <5>4, <5>5
      <4>3. CASE Offset(t, k) # p
        <5>1. Reaches(t, q, k)
          <6>1. Offset(t, k) >= q
            BY <1>1, <2>1, <4>1, <4>3
          <6>2. \A i \in 0..(k - 1) : Offset(t, i) < q
            <7> SUFFICES ASSUME NEW i \in 0..(k - 1) PROVE Offset(t, i) < q
              OBVIOUS
            <7>1. Offset(t, i) < p
              BY <1>4 DEF Reaches
            <7>2. i \in 0..Len(t)
              BY <1>1, <2>1
            <7>3. Offset(t, i) \in 0..n
              BY <1>2, <7>2
            <7> QED
              BY <1>1, <4>1, <7>1, <7>3
          <6> QED
            BY <2>1, <6>1, <6>2 DEF Reaches
        <5>2. j = k
          BY <3>1, <3>3, <5>1, ReachUnique
        <5>3. w = <<>>
          BY <2>1, <5>2, SubSeqEmpty
        <5>4. <<>> \o x = x
          BY <3>6, ConcatEmptySeq
        <5> QED
          BY <4>1, <5>2, <5>3, <5>4
      <4> QED
        BY <4>2, <4>3
    <3> HIDE DEF v
    <3> QED
      BY <3>5, <3>8, <3>9
  <2> QED
    BY <2>3, <2>4, <2>5 DEF Matches
<1> HIDE DEF Fine
<1>5. \A p \in 0..n : (\A q \in (p + 1)..n : q \in G) => p \in G
  BY <1>4
<1> HIDE DEF G, n
<1>6. 0..n \subseteq G
  BY <1>1, <1>5, DownwardInduction
<1> QED
  BY <1>6 DEF G, Fine, n

\* What is left of all the bytes.
LEMMA RemovalRemoves ==
  ASSUME NEW t \in Seq(Code), NEW u \in Seq(Code), u # <<>>
  PROVE  LET kept == mstr_retain_all_impl_helper(Encode(t), Encode(u))
         IN  \E v \in Remainders(t, u) :
               /\ v \in Seq(Code) /\ kept.bytes = Encode(v)
               /\ Len(Encode(v)) = Len(Encode(t)) - kept.matches * Len(Encode(u))
               /\ Len(v) = Len(t) - kept.matches * Len(u)
               /\ Short(u) => v = Remainder(t, u)
<1> DEFINE b == Encode(t)
           a == Encode(u)
<1>1. /\ b \in Seq(Byte) /\ Len(b) \in Nat /\ a \in Seq(Byte) /\ a # <<>> /\ Len(a) \in Nat
      /\ Len(u) \in Nat /\ Len(t) \in Nat
  BY PatternBytes
<1>2. PICK scan : Removes(scan, b, a) /\ mstr_retain_all_impl_helper(b, a) = scan[0]
  BY <1>1, RemovalExists
<1>3. PICK some : LeavesSome(some, t, u) /\ Remainders(t, u) = some[0]
  BY RemaindersExist
<1>4. PICK only : LeavesRest(only, t, u) /\ Remainder(t, u) = only[0]
  BY RemainderExists
<1>5. Reaches(t, 0, 0) /\ Offset(t, 0) = 0 /\ 0 \in 0..Len(b)
  <2>1. Offset(t, 0) = 0 /\ 0 \in 0..Len(t)
    BY <1>1, OffsetEnds
  <2> QED
    BY <1>1, <2>1, ReachAtOffset
<1>6. PICK v : /\ v \in some[0] /\ LeftOver(scan[0], v, 0, 0, t, u)
               /\ Short(u) => v = only[0]
  BY <1>2, <1>3, <1>4, <1>5, RemovalLeaves
<1> DEFINE kept == scan[0]
           m == kept.matches
           y == Encode(v)
<1>7. /\ v \in Seq(Code) /\ m \in Nat /\ y \in Seq(Byte) /\ Len(y) \in Nat /\ Len(v) \in Nat
  BY <1>6, EncodeType, LenProperties DEF LeftOver, Kept
<1>8. kept.bytes = y
  <2>1. kept.bytes = SubSeq(b, 0 + 1, 0) \o y
    BY <1>5, <1>6 DEF LeftOver
  <2>2. SubSeq(b, 0 + 1, 0) = <<>>
    BY SubSeqEmpty
  <2> HIDE DEF y
  <2>3. <<>> \o y = y
    BY <1>7, ConcatEmptySeq
  <2> QED
    BY <2>1, <2>2, <2>3
<1>9. Len(v) = Len(t) - m * Len(u)
  <2> DEFINE f == m * Len(u)
  <2>1. f \in Int /\ Len(v) + f = Len(t) - 0
    BY <1>1, <1>6, <1>7 DEF LeftOver
  <2> HIDE DEF f
  <2>2. Len(v) = Len(t) - f
    BY <1>1, <1>7, <2>1
  <2> QED
    BY <2>2 DEF f
<1>10. Len(y) = Len(b) - m * Len(a)
  <2> DEFINE f == m * Len(a)
  <2>1. f \in Int /\ Len(y) + f = Len(b) - 0
    BY <1>1, <1>5, <1>6, <1>7 DEF LeftOver
  <2> HIDE DEF f
  <2>2. Len(y) = Len(b) - f
    BY <1>1, <1>7, <2>1
  <2> QED
    BY <2>2 DEF f
<1> QED
  BY <1>2, <1>3, <1>4, <1>6, <1>7, <1>8, <1>9, <1>10

--------------------------------------------------------------------------------
(* The texts of the strings, step by step.                                     *)

TextsHeld ==
  /\ str \in [Strings -> Record]
  /\ result \in Results
  /\ \A s \in Strings : Created(s) => Carries(str[s], Text(s))

\* The string s comes to hold the text v.
Turns(s, v) == \E r : str' = [str EXCEPT ![s] = r] /\ Carries(r, v)

LEMMA CarriesText ==
  ASSUME NEW r, NEW t, Carries(r, t)
  PROVE  Decode(r.bytes) = t /\ r.buff # NULL
BY DecodeEncodes DEF Carries

LEMMA TurnsKeeps ==
  ASSUME TextsHeld, NEW s \in Strings, NEW v, Turns(s, v), result' \in Results
  PROVE  TextsHeld' /\ Text(s)' = v /\ \A t \in Strings \ {s} : Text(t)' = Text(t)
<1>1. PICK r : str' = [str EXCEPT ![s] = r] /\ Carries(r, v)
  BY DEF Turns
<1>2. /\ str'[s] = r /\ r \in Record
      /\ \A t \in Strings \ {s} : str'[t] = str[t]
      /\ str' \in [Strings -> Record]
  BY <1>1 DEF TextsHeld, Carries
<1>3. Text(s)' = v /\ Created(s)'
  BY <1>1, <1>2, CarriesText DEF Text, Created
<1>4. \A t \in Strings \ {s} : Text(t)' = Text(t) /\ (Created(t)' <=> Created(t))
  BY <1>2 DEF Text, Created
<1>5. ASSUME NEW t \in Strings, Created(t)' PROVE Carries(str'[t], Text(t)')
  <2>1. CASE t = s
    BY <1>1, <1>2, <1>3, <2>1
  <2>2. CASE t # s
    BY <1>2, <1>4, <1>5, <2>2 DEF TextsHeld
  <2> QED
    BY <2>1, <2>2
<1> QED
  BY <1>2, <1>3, <1>4, <1>5 DEF TextsHeld

LEMMA LosesText ==
  ASSUME TextsHeld, NEW s \in Strings, Loses(s), result' \in Results
  PROVE  TextsHeld' /\ Text(s)' = NULL /\ \A t \in Strings \ {s} : Text(t)' = Text(t)
<1>1. PICK r : str' = [str EXCEPT ![s] = r] /\ r \in Record /\ r.buff = NULL
  BY DEF Loses
<1>2. /\ str'[s] = r
      /\ \A t \in Strings \ {s} : str'[t] = str[t]
      /\ str' \in [Strings -> Record]
  BY <1>1 DEF TextsHeld
<1>3. Text(s)' = NULL /\ ~Created(s)'
  BY <1>1, <1>2 DEF Text, Created
<1>4. \A t \in Strings \ {s} : Text(t)' = Text(t) /\ (Created(t)' <=> Created(t))
  BY <1>2 DEF Text, Created
<1>5. ASSUME NEW t \in Strings, Created(t)' PROVE Carries(str'[t], Text(t)')
  BY <1>2, <1>3, <1>4, <1>5 DEF TextsHeld
<1> QED
  BY <1>2, <1>3, <1>4, <1>5 DEF TextsHeld

LEMMA SameTexts ==
  ASSUME TextsHeld, UNCHANGED str, result' \in Results
  PROVE  TextsHeld' /\ \A s \in Strings : Text(s)' = Text(s)
BY DEF TextsHeld, Text, Created

\* A record r with other contents.
Holding(r, bytes, count, length) ==
  [r EXCEPT !.bytes = bytes, !.count = count, !.length = length]

LEMMA ContentsCarried ==
  ASSUME NEW r, r \in Record, r.buff # NULL, NEW v \in Seq(Code),
         NEW count, count = Len(Encode(v)), NEW length, length = Len(v),
         NEW bytes, bytes = Encode(v)
  PROVE  /\ Carries(Holding(r, bytes, count, length), v)
         /\ Holding(r, bytes, count, length).buff = r.buff
         /\ Holding(r, bytes, count, length).cap_size = r.cap_size
<1> DEFINE x == Holding(r, bytes, count, length)
<1>1. bytes \in Seq(0..255) /\ count \in Nat /\ length \in Nat
  BY EncodeType, LenProperties DEF Byte
<1>2. /\ x \in Record /\ x.buff = r.buff /\ x.cap_size = r.cap_size
      /\ x.count = count /\ x.length = length /\ x.bytes = bytes
  BY <1>1 DEF Record, Holding
<1> HIDE DEF x
<1>3. Carries(x, v)
  BY <1>2 DEF Carries
<1> QED
  BY <1>2, <1>3 DEF x

\* The string tmp_str, once it has room.
LEMMA TmpString ==
  ASSUME NEW n \in Nat, NEW o \in Reserved(Empty, heap, n), DOMAIN heap \subseteq Blocks,
         \A b \in DOMAIN heap : heap[b] \in Nat
  PROVE  /\ o.result \in {"MStr_Ok", "MStr_Err_HeapTooSmall"}
         /\ o.str \in Record /\ o.str.buff # NULL
         /\ DOMAIN o.heap \subseteq Blocks /\ \A b \in DOMAIN o.heap : o.heap[b] \in Nat
         /\ \A b \in DOMAIN heap : b \in DOMAIN o.heap /\ o.heap[b] = heap[b]
         /\ o.str.buff \in Blocks =>
              /\ o.str.buff \in DOMAIN o.heap /\ o.str.buff \notin DOMAIN heap
              /\ o.heap[o.str.buff] = o.str.cap_size
<1>1. /\ Empty \in Record /\ Empty.buff # NULL /\ Empty.buff \notin Blocks
      /\ Empty.buff = Stack /\ Stack \notin DOMAIN heap
  BY EmptySeq, MStringAssumption DEF Empty, Record
<1>2. ASSUME NEW res \in {"MStr_Ok", "MStr_Err_HeapTooSmall"}, o = Outcome(Empty, heap, res)
      PROVE  /\ o.result \in {"MStr_Ok", "MStr_Err_HeapTooSmall"}
             /\ o.str = Empty /\ o.heap = heap
  BY <1>2 DEF Outcome
<1>3. ASSUME NEW b \in Available(heap),
             o = Outcome([Empty EXCEPT !.buff = b, !.cap_size = n],
                         With(Without(heap, Empty.buff), b, n), "MStr_Ok")
      PROVE  /\ o.result = "MStr_Ok"
             /\ o.str \in Record /\ o.str.buff = b /\ o.str.cap_size = n
             /\ DOMAIN o.heap = DOMAIN heap \cup {b} /\ o.heap[b] = n
             /\ \A c \in DOMAIN heap : o.heap[c] = heap[c]
             /\ b \in Blocks /\ b # NULL /\ b \notin DOMAIN heap
  <2>1. b \in Blocks /\ b # NULL /\ b \notin DOMAIN heap
    BY MStringAssumption DEF Available
  <2> DEFINE x == [Empty EXCEPT !.buff = b, !.cap_size = n]
             h == With(Without(heap, Empty.buff), b, n)
  <2>2. x \in Record /\ x.buff = b /\ x.cap_size = n
    BY <1>1, <2>1 DEF Record
  <2>3. /\ DOMAIN h = DOMAIN heap \cup {b} /\ h[b] = n
        /\ \A c \in DOMAIN heap : h[c] = heap[c]
    BY <1>1, <2>1 DEF With, Without
  <2>4. o.str = x /\ o.heap = h /\ o.result = "MStr_Ok"
    BY <1>3 DEF Outcome
  <2> HIDE DEF x, h
  <2> QED
    BY <2>1, <2>2, <2>3, <2>4
<1>4. CASE \E res \in {"MStr_Ok", "MStr_Err_HeapTooSmall"} : o = Outcome(Empty, heap, res)
  BY <1>1, <1>2, <1>4
<1>5. CASE \E b \in Available(heap) :
             o = Outcome([Empty EXCEPT !.buff = b, !.cap_size = n],
                         With(Without(heap, Empty.buff), b, n), "MStr_Ok")
  <2>1. PICK b \in Available(heap) :
             o = Outcome([Empty EXCEPT !.buff = b, !.cap_size = n],
                         With(Without(heap, Empty.buff), b, n), "MStr_Ok")
    BY <1>5
  <2>2. /\ o.result = "MStr_Ok"
        /\ o.str \in Record /\ o.str.buff = b /\ o.str.cap_size = n
        /\ DOMAIN o.heap = DOMAIN heap \cup {b} /\ o.heap[b] = n
        /\ \A c \in DOMAIN heap : o.heap[c] = heap[c]
        /\ b \in Blocks /\ b # NULL /\ b \notin DOMAIN heap
    BY <1>3, <2>1
  <2> QED
    BY <2>2
<1> QED
  BY <1>4, <1>5 DEF Reserved

\* The pattern taken off the front and off the end.
LEMMA FrontRemoved ==
  ASSUME NEW t \in Seq(Code), NEW u \in Seq(Code), IsPrefix(u, t)
  PROVE  LET b == Encode(t)
             a == Encode(u)
             v == SubSeq(t, Len(u) + 1, Len(t))
         IN  /\ v \in Seq(Code) /\ Len(v) = Len(t) - Len(u)
             /\ SubSeq(b, Len(a) + 1, Len(b)) = Encode(v) /\ Len(Encode(v)) = Len(b) - Len(a)
<1> DEFINE b == Encode(t)
           a == Encode(u)
           n == Len(u)
           v == SubSeq(t, n + 1, Len(t))
<1>1. /\ Len(t) \in Nat /\ n \in Nat /\ b \in Seq(Byte) /\ Len(b) \in Nat /\ Len(a) \in Nat
  BY PatternBytes
<1>2. OccursAt(t, u, 0)
  <2>1. n <= Len(t) /\ SubSeq(t, 1, n) = u
    BY SubSeqFull DEF IsPrefix
  <2>2. 0 + n = n /\ 0 + 1 = 1
    BY <1>1
  <2> QED
    BY <2>1, <2>2 DEF OccursAt
<1>3. n \in 0..Len(t) /\ Len(a) = Offset(t, n)
  <2>1. 0 \in 0..Len(t) /\ Offset(t, 0) = 0
    BY <1>1, OffsetEnds
  <2>2. 0 + n \in 0..Len(t) /\ 0 + Len(a) = Offset(t, 0 + n)
    BY <1>2, <2>1, WindowIsMatch
  <2>3. 0 + n = n /\ 0 + Len(a) = Len(a)
    BY <1>1
  <2> QED
    BY <2>2, <2>3
<1>4. v \in Seq(Code) /\ Len(v) = Len(t) - n
  BY <1>3, SplitText
<1>5. Len(a) \in 0..Len(b) /\ SubSeq(b, Len(a) + 1, Len(b)) = Encode(v)
  BY <1>3, SplitBytes
<1>6. Len(Encode(v)) = Len(b) - Len(a)
  <2> HIDE DEF a, b, v
  <2> QED
    BY <1>1, <1>5, SplitText
<1> QED
  BY <1>4, <1>5, <1>6

LEMMA EndRemoved ==
  ASSUME NEW t \in Seq(Code), NEW u \in Seq(Code), IsSuffix(u, t)
  PROVE  LET b == Encode(t)
             a == Encode(u)
             v == SubSeq(t, 1, Len(t) - Len(u))
         IN  /\ v \in Seq(Code) /\ Len(v) = Len(t) - Len(u)
             /\ SubSeq(b, 1, Len(b) - Len(a)) = Encode(v) /\ Len(Encode(v)) = Len(b) - Len(a)
<1> DEFINE b == Encode(t)
           a == Encode(u)
           n == Len(u)
           k == Len(t) - n
           v == SubSeq(t, 1, k)
<1>1. /\ Len(t) \in Nat /\ n \in Nat /\ b \in Seq(Byte) /\ Len(b) \in Nat /\ Len(a) \in Nat
  BY PatternBytes
<1>2. n <= Len(t) /\ SubSeq(t, k + 1, Len(t)) = u
  BY SuffixMeans
<1>3. k \in 0..Len(t) /\ k + n = Len(t)
  BY <1>1, <1>2
<1> HIDE DEF k
<1>4. OccursAt(t, u, k)
  BY <1>1, <1>2, <1>3 DEF OccursAt
<1>5. Offset(t, k) + Len(a) = Len(b)
  <2>1. Offset(t, k) + Len(a) = Offset(t, k + n)
    BY <1>3, <1>4, WindowIsMatch
  <2> QED
    BY <1>3, <2>1, OffsetEnds
<1>6. v \in Seq(Code) /\ Len(v) = k
  BY <1>3, SplitText
<1>7. Offset(t, k) \in 0..Len(b) /\ SubSeq(b, 1, Offset(t, k)) = Encode(v)
  BY <1>3, SplitBytes
<1>8. Offset(t, k) = Len(b) - Len(a) /\ Len(Encode(v)) = Offset(t, k)
  <2>1. Len(Encode(v)) = Offset(t, k)
    BY DEF Offset
  <2> HIDE DEF a, b, v
  <2> QED
    BY <1>1, <1>5, <1>7, <2>1
<1> QED
  BY <1>6, <1>7, <1>8 DEF k

--------------------------------------------------------------------------------
(* What the calls do to the texts.                                             *)

\* What a removal that succeeds makes of the text t.
RemovedFrom(t, opt, u, v) ==
  CASE opt = "StartWith" -> v = IF IsPrefix(u, t) THEN SubSeq(t, Len(u) + 1, Len(t)) ELSE t
    [] opt = "EndWith" -> v = IF IsSuffix(u, t) THEN SubSeq(t, 1, Len(t) - Len(u)) ELSE t
    [] opt = "All" -> v \in Remainders(t, u) /\ (Short(u) => v = Remainder(t, u))

Options == {"StartWith", "EndWith", "All"}

\* The text v is t without as much as u.
ShorterBy(v, t, u) ==
  /\ v \in Seq(Code)
  /\ Len(Encode(v)) = Len(Encode(t)) - Len(Encode(u)) /\ Len(v) = Len(t) - Len(u)

LEMMA CutTurns ==
  ASSUME NEW s \in Strings, NEW t, Carries(str[s], t), NEW u \in Seq(Code),
         NEW v, ShorterBy(v, t, u), Cut(s, Encode(u), Encode(v))
  PROVE  /\ Turns(s, v) /\ result' = "MStr_Ok" /\ heap' = heap
         /\ \E r : /\ str' = [str EXCEPT ![s] = r]
                   /\ r \in Record /\ r.buff = str[s].buff /\ r.cap_size = str[s].cap_size
<1> DEFINE r == str[s]
           bytes == Encode(v)
           count == r.count - Len(Encode(u))
           length == r.length - unicode_length_of(Encode(u))
           x == Holding(r, bytes, count, length)
<1>1. str' = [str EXCEPT ![s] = x] /\ heap' = heap /\ result' = "MStr_Ok"
  BY DEF Cut, Finish, Outcome, Holding
<1>2. count = Len(Encode(v)) /\ length = Len(v) /\ r \in Record /\ r.buff # NULL
  BY LengthOf DEF Carries, ShorterBy
<1>3. v \in Seq(Code) /\ bytes = Encode(v)
  BY DEF ShorterBy
<1> HIDE DEF count, length, r, bytes
<1>4. Carries(x, v) /\ x.buff = r.buff /\ x.cap_size = r.cap_size
  BY <1>2, <1>3, ContentsCarried
<1> HIDE DEF x
<1>5. x \in Record
  BY <1>4 DEF Carries
<1>6. Turns(s, v)
  BY <1>1, <1>4 DEF Turns
<1> QED
  BY <1>1, <1>4, <1>5, <1>6 DEF r

LEMMA ComparedPrefix ==
  ASSUME NEW r, NEW t, Carries(r, t), NEW u \in Seq(Code)
  PROVE  /\ mstr_start_with(r, AsString(Encode(u))) <=> IsPrefix(u, t)
         /\ mstr_end_with(r, AsString(Encode(u))) <=> IsSuffix(u, t)
<1> DEFINE a == Encode(u)
           b == Encode(t)
           o == Len(b) - Len(a)
<1>1. t \in Seq(Code) /\ r.bytes = b /\ r.count = Len(b)
  BY DEF Carries
<1>2. AsString(a).count = Len(a) /\ AsString(a).bytes = a
  BY DEF AsString
<1>3. (Len(b) >= Len(a) /\ mstr_compare_helper(b, a, Len(a))) <=> IsPrefix(u, t)
  BY <1>1, PrefixBytes
<1>4. (Len(b) >= Len(a) /\ mstr_compare_helper(SubSeq(b, o + 1, Len(b)), a, Len(a)))
        <=> IsSuffix(u, t)
  BY <1>1, SuffixBytes
<1> HIDE DEF a, b
<1>5. mstr_start_with(r, AsString(a)) <=> IsPrefix(u, t)
  BY <1>1, <1>2, <1>3 DEF mstr_start_with
<1>6. mstr_end_with(r, AsString(a)) <=> IsSuffix(u, t)
  BY <1>1, <1>2, <1>4 DEF mstr_end_with
<1> QED
  BY <1>5, <1>6 DEF a

\* A removal gives the string another text, or fails and changes none.
LEMMA RetainEffect ==
  ASSUME TextsHeld, DOMAIN heap \subseteq Blocks, \A b \in DOMAIN heap : heap[b] \in Nat,
         NEW s \in Strings, NEW opt \in Options, NEW u \in Seq(Code), mstr_retain(s, opt, u)
  PROVE  /\ Created(s) /\ Carries(str[s], Text(s))
         /\ \/ u = <<>> /\ UNCHANGED str /\ result' = "MStr_Ok"
            \/ UNCHANGED str /\ result' = "MStr_Err_HeapTooSmall"
            \/ /\ u # <<>> /\ result' = "MStr_Ok"
               /\ UNCHANGED str \/ (Turns(s, Text(s)') /\ Text(s)' \in Seq(Code))
               /\ RemovedFrom(Text(s), opt, u, Text(s)')
<1> DEFINE t == Text(s)
           b == Encode(t)
           a == Encode(u)
           r == str[s]
<1>1. Created(s) /\ Carries(r, t) /\ t \in Seq(Code) /\ r.bytes = b
  BY DEF mstr_retain, TextsHeld, Carries
<1>2. a = <<>> <=> u = <<>>
  BY PatternBytes
<1>3. CASE u = <<>>
  BY <1>1, <1>2, <1>3 DEF mstr_retain, Return
<1>4. ASSUME UNCHANGED str PROVE t' = t
  BY <1>4 DEF Text, Created
<1>5. ASSUME NEW v, Turns(s, v), result' = "MStr_Ok" PROVE t' = v
  <2>1. result' \in Results
    BY <1>5 DEF Results
  <2> QED
    BY <1>5, <2>1, TurnsKeeps
<1>6. CASE u # <<>> /\ opt = "StartWith"
  <2>1. mstr_retain_start_with_impl(s, a)
    BY <1>2, <1>6 DEF mstr_retain
  <2>2. CASE IsPrefix(u, t)
    <3> DEFINE v == SubSeq(t, Len(u) + 1, Len(t))
    <3>1. /\ v \in Seq(Code) /\ Len(v) = Len(t) - Len(u)
          /\ SubSeq(b, Len(a) + 1, Len(b)) = Encode(v) /\ Len(Encode(v)) = Len(b) - Len(a)
      BY <1>1, <2>2, FrontRemoved
    <3>2. Cut(s, a, SubSeq(b, Len(a) + 1, Len(b)))
      <4>1. mstr_start_with(r, AsString(a))
        BY <1>1, <2>2, ComparedPrefix
      <4>2. r.bytes = b /\ r.count = Len(b)
        BY <1>1 DEF Carries
      <4> HIDE DEF a, b
      <4> QED
        BY <2>1, <4>1, <4>2 DEF mstr_retain_start_with_impl
    <3> HIDE DEF v
    <3>3. Turns(s, v) /\ result' = "MStr_Ok"
      <4>1. Cut(s, a, Encode(v))
        BY <3>1, <3>2
      <4>2. ShorterBy(v, t, u)
        BY <3>1 DEF ShorterBy
      <4> HIDE DEF t
      <4> QED
        BY <1>1, <4>1, <4>2, CutTurns
    <3>4. t' = v
      BY <1>5, <3>3
    <3>5. RemovedFrom(t, opt, u, v)
      BY <1>6, <2>2 DEF RemovedFrom, v
    <3> QED
      BY <1>1, <1>6, <3>1, <3>3, <3>4, <3>5
  <2>3. CASE ~IsPrefix(u, t)
    <3>1. ~mstr_start_with(r, AsString(a))
      BY <1>1, <2>3, ComparedPrefix
    <3>2. UNCHANGED str /\ result' = "MStr_Ok"
      BY <2>1, <3>1 DEF mstr_retain_start_with_impl, Return
    <3>3. RemovedFrom(t, opt, u, t)
      BY <1>6, <2>3 DEF RemovedFrom
    <3> QED
      BY <1>1, <1>4, <1>6, <3>2, <3>3
  <2> QED
    BY <2>2, <2>3
<1>7. CASE u # <<>> /\ opt = "EndWith"
  <2>1. mstr_retain_end_with_impl(s, a)
    BY <1>2, <1>7 DEF mstr_retain
  <2>2. CASE IsSuffix(u, t)
    <3> DEFINE v == SubSeq(t, 1, Len(t) - Len(u))
    <3>1. /\ v \in Seq(Code) /\ Len(v) = Len(t) - Len(u)
          /\ SubSeq(b, 1, Len(b) - Len(a)) = Encode(v) /\ Len(Encode(v)) = Len(b) - Len(a)
      BY <1>1, <2>2, EndRemoved
    <3>2. Cut(s, a, SubSeq(b, 1, Len(b) - Len(a)))
      <4>1. mstr_end_with(r, AsString(a))
        BY <1>1, <2>2, ComparedPrefix
      <4>2. r.bytes = b /\ r.count = Len(b)
        BY <1>1 DEF Carries
      <4> HIDE DEF a, b
      <4> QED
        BY <2>1, <4>1, <4>2 DEF mstr_retain_end_with_impl
    <3> HIDE DEF v
    <3>3. Turns(s, v) /\ result' = "MStr_Ok"
      <4>1. Cut(s, a, Encode(v))
        BY <3>1, <3>2
      <4>2. ShorterBy(v, t, u)
        BY <3>1 DEF ShorterBy
      <4> HIDE DEF t
      <4> QED
        BY <1>1, <4>1, <4>2, CutTurns
    <3>4. t' = v
      BY <1>5, <3>3
    <3>5. RemovedFrom(t, opt, u, v)
      BY <1>7, <2>2 DEF RemovedFrom, v
    <3> QED
      BY <1>1, <1>7, <3>1, <3>3, <3>4, <3>5
  <2>3. CASE ~IsSuffix(u, t)
    <3>1. ~mstr_end_with(r, AsString(a))
      BY <1>1, <2>3, ComparedPrefix
    <3>2. UNCHANGED str /\ result' = "MStr_Ok"
      BY <2>1, <3>1 DEF mstr_retain_end_with_impl, Return
    <3>3. RemovedFrom(t, opt, u, t)
      BY <1>7, <2>3 DEF RemovedFrom
    <3> QED
      BY <1>1, <1>4, <1>7, <3>2, <3>3
  <2> QED
    BY <2>2, <2>3
<1>8. CASE u # <<>> /\ opt = "All"
  <2>1. mstr_retain_all_impl(s, a)
    BY <1>2, <1>8 DEF mstr_retain
  <2> DEFINE kept == mstr_retain_all_impl_helper(b, a)
  <2>2. PICK v \in Remainders(t, u) :
          /\ v \in Seq(Code) /\ kept.bytes = Encode(v)
          /\ Len(Encode(v)) = Len(b) - kept.matches * Len(a)
          /\ Len(v) = Len(t) - kept.matches * Len(u)
          /\ Short(u) => v = Remainder(t, u)
    BY <1>1, <1>8, RemovalRemoves
  <2> HIDE DEF kept
  <2>3. r.count \in Nat /\ r.count = Len(b) /\ r.length = Len(t)
    BY <1>1 DEF Carries, Record
  <2>4. PICK tmp \in Reserved(Empty, heap, r.count) :
          \/ /\ tmp.result # "MStr_Ok"
             /\ Return(tmp.result)
          \/ /\ tmp.result = "MStr_Ok" /\ UsesTable(a)
             /\ str' = str /\ heap' = tmp.heap
             /\ result' = "MStr_Err_HeapTooSmall"
          \/ /\ tmp.result = "MStr_Ok" /\ (UsesTable(a) => Available(tmp.heap) # {})
             /\ Finish(s, Outcome([tmp.str EXCEPT
                                     !.bytes = kept.bytes,
                                     !.count = r.count - kept.matches * Len(a),
                                     !.length = r.length
                                                  - kept.matches * unicode_length_of(a)],
                                  Without(tmp.heap, r.buff), "MStr_Ok"))
    BY <1>1, <2>1 DEF mstr_retain_all_impl, kept
  <2>5. /\ tmp.result \in {"MStr_Ok", "MStr_Err_HeapTooSmall"}
        /\ tmp.str \in Record /\ tmp.str.buff # NULL
    BY <2>3, TmpString
  <2>6. CASE tmp.result # "MStr_Ok" /\ Return(tmp.result)
    BY <1>1, <2>5, <2>6 DEF Return
  <2>7. CASE str' = str /\ result' = "MStr_Err_HeapTooSmall"
    BY <1>1, <2>7
  <2>8. CASE Finish(s, Outcome([tmp.str EXCEPT
                                  !.bytes = kept.bytes,
                                  !.count = r.count - kept.matches * Len(a),
                                  !.length = r.length
                                               - kept.matches * unicode_length_of(a)],
                               Without(tmp.heap, r.buff), "MStr_Ok"))
    <3> DEFINE count == r.count - kept.matches * Len(a)
               length == r.length - kept.matches * unicode_length_of(a)
               bytes == kept.bytes
               x == Holding(tmp.str, bytes, count, length)
    <3>1. str' = [str EXCEPT ![s] = x] /\ result' = "MStr_Ok"
      BY <2>8 DEF Finish, Outcome, Holding
    <3>2. bytes = Encode(v) /\ count = Len(Encode(v)) /\ length = Len(v)
      BY <2>2, <2>3, LengthOf
    <3> HIDE DEF count, length, bytes
    <3>3. Carries(x, v)
      BY <2>2, <2>5, <3>2, ContentsCarried
    <3> HIDE DEF x
    <3>4. Turns(s, v)
      BY <3>1, <3>3 DEF Turns
    <3>5. t' = v
      BY <1>5, <3>1, <3>4
    <3>6. RemovedFrom(t, opt, u, v)
      BY <1>8, <2>2 DEF RemovedFrom
    <3> QED
      BY <1>1, <1>8, <2>2, <3>1, <3>4, <3>5, <3>6
  <2> QED
    BY <2>4, <2>6, <2>7, <2>8
<1> QED
  BY <1>3, <1>6, <1>7, <1>8 DEF Options

--------------------------------------------------------------------------------
(* Who owns the blocks.                                                        *)

Owned ==
  /\ DOMAIN heap \subseteq Blocks
  /\ \A b \in DOMAIN heap : heap[b] \in Nat
  /\ BuffersOwned
  /\ \A s, t \in Strings : s # t /\ str[s].buff \in Blocks => str[s].buff # str[t].buff

\* The blocks of a heap, with their sizes.
Sized(h) == DOMAIN h \subseteq Blocks /\ \A b \in DOMAIN h : h[b] \in Nat

\* The string s may become r when the heap becomes h: the blocks of the others stay, and
\* a block that is the buffer of r is new or was that of s.
Takes(s, r, h) ==
  /\ Sized(h)
  /\ \A b \in DOMAIN heap : b # str[s].buff => b \in DOMAIN h /\ h[b] = heap[b]
  /\ r.buff \in Blocks => /\ r.buff \in DOMAIN h /\ h[r.buff] = r.cap_size
                          /\ r.buff \notin DOMAIN heap \/ r.buff = str[s].buff

LEMMA OwnedTakes ==
  ASSUME Owned, str \in [Strings -> Record], NEW s \in Strings, NEW r,
         str' = [str EXCEPT ![s] = r], Takes(s, r, heap')
  PROVE  Owned'
<1>1. str'[s] = r /\ \A t \in Strings \ {s} : str'[t] = str[t]
  OBVIOUS
<1>2. ASSUME NEW t \in Strings, t # s, str[t].buff \in Blocks
      PROVE  /\ str[t].buff \in DOMAIN heap /\ heap[str[t].buff] = str[t].cap_size
             /\ str[t].buff # str[s].buff
             /\ str[t].buff \in DOMAIN heap' /\ heap'[str[t].buff] = str[t].cap_size
  BY <1>2 DEF Owned, BuffersOwned, Takes
<1>3. ASSUME NEW t \in Strings, str'[t].buff \in Blocks
      PROVE  str'[t].buff \in DOMAIN heap' /\ heap'[str'[t].buff] = str'[t].cap_size
  <2>1. CASE t = s
    BY <1>1, <1>3, <2>1 DEF Takes
  <2>2. CASE t # s
    BY <1>1, <1>2, <1>3, <2>2
  <2> QED
    BY <2>1, <2>2
<1>4. ASSUME NEW t \in Strings, t # s, r.buff \in Blocks PROVE r.buff # str[t].buff
  BY <1>2, <1>4 DEF Takes
<1>5. ASSUME NEW t \in Strings, NEW o \in Strings, t # o, str'[t].buff \in Blocks
      PROVE  str'[t].buff # str'[o].buff
  <2>1. CASE t = s
    BY <1>1, <1>4, <1>5, <2>1
  <2>2. CASE t # s /\ o = s
    BY <1>1, <1>4, <1>5, <2>2
  <2>3. CASE t # s /\ o # s
    BY <1>1, <1>5, <2>3 DEF Owned
  <2> QED
    BY <2>1, <2>2, <2>3
<1>6. DOMAIN heap' \subseteq Blocks /\ \A b \in DOMAIN heap' : heap'[b] \in Nat
  BY DEF Takes, Sized
<1> QED
  BY <1>3, <1>5, <1>6 DEF Owned, BuffersOwned

\* Blocks that are lost are in nobody's way.
LEMMA OwnedGrows ==
  ASSUME Owned, UNCHANGED str, Sized(heap'),
         \A b \in DOMAIN heap : b \in DOMAIN heap' /\ heap'[b] = heap[b]
  PROVE  Owned'
<1>1. DOMAIN heap' \subseteq Blocks /\ \A b \in DOMAIN heap' : heap'[b] \in Nat
  BY DEF Sized
<1>2. BuffersOwned'
  BY DEF Owned, BuffersOwned
<1>3. \A s, t \in Strings : s # t /\ str'[s].buff \in Blocks => str'[s].buff # str'[t].buff
  BY DEF Owned
<1> QED
  BY <1>1, <1>2, <1>3 DEF Owned

LEMMA OwnedStays ==
  ASSUME Owned, UNCHANGED <<str, heap>>
  PROVE  Owned'
BY DEF Owned, BuffersOwned

LEMMA CreateOwned ==
  ASSUME Owned, str \in [Strings -> Record], NEW s \in Strings, NEW text \in Seq(Code),
         mstr_create(s, text)
  PROVE  Owned'
<1> DEFINE bytes == Encode(text)
           size == mstr_strlen(bytes, Len(bytes))
           cap == size.count + StackSize
           filled(buff, cap_size, held) ==
             [buff |-> buff, cap_size |-> cap_size, count |-> size.count,
              length |-> size.length, bytes |-> held]
<1>1. cap \in Nat
  <2>1. size.count \in Nat
    BY StrlenWhole, EncodeType, LenProperties
  <2> HIDE DEF size
  <2> QED
    BY <2>1, MStringAssumption
<1>2. str[s].buff = NULL /\ NULL \notin Blocks /\ Stack \notin Blocks
  BY MStringAssumption DEF mstr_create, Created
<1>3. Sized(heap)
  BY DEF Owned, Sized
<1>4. \/ Finish(s, Outcome(filled(Stack, StackSize, bytes), heap, "MStr_Ok"))
      \/ \E b \in Available(heap) :
           Finish(s, Outcome(filled(b, cap, bytes), With(heap, b, cap), "MStr_Ok"))
      \/ Finish(s, Outcome(filled(NULL, cap, <<>>), heap, "MStr_Err_HeapTooSmall"))
  BY DEF mstr_create
<1> HIDE DEF cap, bytes, size
<1>5. ASSUME NEW buff, NEW cap_size, NEW held, NEW res, buff \notin Blocks,
             Finish(s, Outcome(filled(buff, cap_size, held), heap, res))
      PROVE  Owned'
  <2> DEFINE r == filled(buff, cap_size, held)
  <2>1. str' = [str EXCEPT ![s] = r] /\ heap' = heap /\ r.buff = buff
    BY <1>5 DEF Finish, Outcome
  <2> HIDE DEF r, filled
  <2>2. Takes(s, r, heap')
    BY <1>3, <1>5, <2>1 DEF Takes
  <2> QED
    BY <2>1, <2>2, OwnedTakes
<1>6. ASSUME NEW b \in Available(heap),
             Finish(s, Outcome(filled(b, cap, bytes), With(heap, b, cap), "MStr_Ok"))
      PROVE  Owned'
  <2> DEFINE r == filled(b, cap, bytes)
  <2>1. /\ str' = [str EXCEPT ![s] = r] /\ heap' = With(heap, b, cap)
        /\ r.buff = b /\ r.cap_size = cap
    BY <1>6 DEF Finish, Outcome
  <2>2. b \in Blocks /\ b \notin DOMAIN heap
    BY DEF Available
  <2> HIDE DEF r, filled
  <2>3. /\ DOMAIN heap' = DOMAIN heap \cup {b} /\ heap'[b] = cap
        /\ \A c \in DOMAIN heap : heap'[c] = heap[c]
    BY <2>1, <2>2 DEF With
  <2>4. Sized(heap')
    BY <1>1, <1>3, <2>2, <2>3 DEF Sized
  <2>5. Takes(s, r, heap')
    BY <2>1, <2>2, <2>3, <2>4 DEF Takes
  <2> QED
    BY <2>1, <2>5, OwnedTakes
<1> QED
  BY <1>2, <1>4, <1>5, <1>6

\* A heap that one block less is taken from.
LEMMA WithoutBlock ==
  ASSUME NEW h, Sized(h), NEW b
  PROVE  /\ Sized(Without(h, b)) /\ DOMAIN Without(h, b) = DOMAIN h \ {b}
         /\ \A c \in DOMAIN h \ {b} : Without(h, b)[c] = h[c]
BY DEF Sized, Without

LEMMA FreeOwned ==
  ASSUME Owned, str \in [Strings -> Record], NEW s \in Strings, mstr_free(s)
  PROVE  Owned' /\ Loses(s) /\ result' = "MStr_Ok"
<1> DEFINE r == Freed(str[s])
<1>1. r \in Record /\ r.buff = NULL
  <2>1. <<>> \in Seq(0..255) /\ str[s] \in Record
    BY EmptySeq
  <2> QED
    BY <2>1 DEF Freed, Record
<1>2. /\ str' = [str EXCEPT ![s] = r] /\ heap' = Without(heap, str[s].buff)
      /\ result' = "MStr_Ok"
  BY DEF mstr_free, Finish, Outcome
<1> HIDE DEF r
<1>3. Sized(heap) /\ NULL \notin Blocks
  BY MStringAssumption DEF Owned, Sized
<1>4. Takes(s, r, heap')
  <2>1. /\ Sized(heap') /\ DOMAIN heap' = DOMAIN heap \ {str[s].buff}
        /\ \A c \in DOMAIN heap \ {str[s].buff} : heap'[c] = heap[c]
    BY <1>2, <1>3, WithoutBlock
  <2> QED
    BY <1>1, <1>3, <2>1 DEF Takes
<1> QED
  BY <1>1, <1>2, <1>4, OwnedTakes DEF Loses

LEMMA CutOwned ==
  ASSUME Owned, str \in [Strings -> Record], NEW s \in Strings, NEW patt, NEW bytes,
         Cut(s, patt, bytes)
  PROVE  Owned'
<1> DEFINE x == Holding(str[s], bytes, str[s].count - Len(patt),
                        str[s].length - unicode_length_of(patt))
<1>1. str' = [str EXCEPT ![s] = x] /\ heap' = heap
  BY DEF Cut, Finish, Outcome, Holding
<1>2. x.buff = str[s].buff /\ x.cap_size = str[s].cap_size
  BY DEF Holding, Record
<1> HIDE DEF x
<1>3. Sized(heap)
  BY DEF Owned, Sized
<1>4. Takes(s, x, heap')
  BY <1>1, <1>2, <1>3 DEF Takes, Owned, BuffersOwned
<1> QED
  BY <1>1, <1>4, OwnedTakes

\* A removal of all matches: the new buffer is that of the string, the old one is given
\* back; or the new one is lost.
LEMMA RetainAllOwned ==
  ASSUME Owned, str \in [Strings -> Record], NEW s \in Strings, NEW patt,
         mstr_retain_all_impl(s, patt)
  PROVE  Owned'
<1> DEFINE r == str[s]
           kept == mstr_retain_all_impl_helper(r.bytes, patt)
           count == r.count - kept.matches * Len(patt)
           length == r.length - kept.matches * unicode_length_of(patt)
<1>1. PICK tmp \in Reserved(Empty, heap, r.count) :
        \/ Return(tmp.result)
        \/ str' = str /\ heap' = tmp.heap
        \/ Finish(s, Outcome([tmp.str EXCEPT !.bytes = kept.bytes, !.count = count,
                                             !.length = length],
                             Without(tmp.heap, r.buff), "MStr_Ok"))
  BY DEF mstr_retain_all_impl
<1>2. r \in Record /\ r.count \in Nat
  BY DEF Record
<1>3. /\ tmp.str \in Record
      /\ DOMAIN tmp.heap \subseteq Blocks /\ \A b \in DOMAIN tmp.heap : tmp.heap[b] \in Nat
      /\ \A b \in DOMAIN heap : b \in DOMAIN tmp.heap /\ tmp.heap[b] = heap[b]
      /\ tmp.str.buff \in Blocks =>
           /\ tmp.str.buff \in DOMAIN tmp.heap /\ tmp.str.buff \notin DOMAIN heap
           /\ tmp.heap[tmp.str.buff] = tmp.str.cap_size
  BY <1>2, TmpString DEF Owned
<1>4. Sized(tmp.heap)
  BY <1>3 DEF Sized
<1> DEFINE x == Holding(tmp.str, kept.bytes, count, length)
<1>5. x.buff = tmp.str.buff /\ x.cap_size = tmp.str.cap_size
  BY <1>3 DEF Holding, Record
<1>6. CASE Return(tmp.result)
  BY <1>6, OwnedStays DEF Return
<1>7. CASE str' = str /\ heap' = tmp.heap
  BY <1>3, <1>4, <1>7, OwnedGrows
<1>8. CASE Finish(s, Outcome([tmp.str EXCEPT !.bytes = kept.bytes, !.count = count,
                                             !.length = length],
                             Without(tmp.heap, r.buff), "MStr_Ok"))
  <2>1. str' = [str EXCEPT ![s] = x] /\ heap' = Without(tmp.heap, r.buff)
    BY <1>8 DEF Finish, Outcome, Holding
  <2> HIDE DEF x, count, length, kept
  <2>2. /\ Sized(heap') /\ DOMAIN heap' = DOMAIN tmp.heap \ {r.buff}
        /\ \A c \in DOMAIN tmp.heap \ {r.buff} : heap'[c] = tmp.heap[c]
    BY <1>4, <2>1, WithoutBlock
  <2>3. r.buff \in Blocks => r.buff \in DOMAIN heap
    BY DEF Owned, BuffersOwned
  <2>4. Takes(s, x, heap')
    BY <1>3, <1>5, <2>2, <2>3 DEF Takes
  <2> QED
    BY <2>1, <2>4, OwnedTakes
<1> QED
  BY <1>1, <1>6, <1>7, <1>8

LEMMA RetainOwned ==
  ASSUME Owned, str \in [Strings -> Record], NEW s \in Strings, NEW opt \in Options, NEW u,
         mstr_retain(s, opt, u)
  PROVE  Owned'
<1> DEFINE a == Encode(u)
<1>1. CASE a = <<>>
  BY <1>1, OwnedStays DEF mstr_retain, Return
<1>2. CASE a # <<>> /\ opt = "StartWith"
  <2>1. mstr_retain_start_with_impl(s, a)
    BY <1>2 DEF mstr_retain
  <2>2. CASE UNCHANGED <<str, heap>>
    BY <2>2, OwnedStays
  <2>3. (\E bytes : Cut(s, a, bytes)) \/ UNCHANGED <<str, heap>>
    BY <2>1 DEF mstr_retain_start_with_impl, Return
  <2> QED
    BY <2>2, <2>3, CutOwned
<1>3. CASE a # <<>> /\ opt = "EndWith"
  <2>1. mstr_retain_end_with_impl(s, a)
    BY <1>3 DEF mstr_retain
  <2>2. CASE UNCHANGED <<str, heap>>
    BY <2>2, OwnedStays
  <2>3. (\E bytes : Cut(s, a, bytes)) \/ UNCHANGED <<str, heap>>
    BY <2>1 DEF mstr_retain_end_with_impl, Return
  <2> QED
    BY <2>2, <2>3, CutOwned
<1>4. CASE a # <<>> /\ opt = "All"
  <2>1. mstr_retain_all_impl(s, a)
    BY <1>4 DEF mstr_retain
  <2> QED
    BY <2>1, RetainAllOwned
<1> QED
  BY <1>1, <1>2, <1>3, <1>4 DEF Options

--------------------------------------------------------------------------------
(* The steps together.                                                         *)

PatternInv ==
  /\ TextsHeld
  /\ Owned
  /\ found \in [is_matched : BOOLEAN, begin_pos : Nat, begin_offset : Nat] \cup {NULL}

LEMMA PatternsEncode == Patterns \subseteq Seq(Code)
<1>1. 1..MaxCode \subseteq Code
  BY DEF Code
<1> SUFFICES ASSUME NEW t \in Patterns PROVE t \in Seq(Code)
  OBVIOUS
<1>2. t \in Seq(1..MaxCode)
  BY PatternAssumption
<1> QED
  BY <1>1, <1>2, SeqMonotonic

LEMMA HeldCarried ==
  ASSUME TextsHeld, NEW s \in Strings, Created(s)
  PROVE  Carries(str[s], Text(s)) /\ Text(s) \in Seq(Code)
BY DEF TextsHeld, Carries

\* What a step does to the texts: a string is given another, or loses its own, and the
\* call succeeds; or no text changes.
LEMMA PatternTexts ==
  ASSUME TextsHeld, Owned, PatternNext
  PROVE  /\ TextsHeld'
         /\ result' # "MStr_Ok" => \A s \in Strings : Text(s)' = Text(s)
<1>1. PICK s \in Strings :
        \/ \E text \in Texts : mstr_create(s, text)
        \/ mstr_free(s)
        \/ \E pattern \in Patterns :
             \/ \E begin_pos \in 0..str[s].length : mstr_find(s, begin_pos, pattern)
             \/ \E opt \in Options : mstr_retain(s, opt, pattern)
  BY DEF PatternNext, Options
<1>2. "MStr_Ok" \in Results /\ "MStr_Err_HeapTooSmall" \in Results
  BY DEF Results
<1>3. str \in [Strings -> Record]
  BY DEF TextsHeld
<1>4. ASSUME UNCHANGED str, result' \in Results
      PROVE  /\ TextsHeld'
             /\ result' # "MStr_Ok" => \A t \in Strings : Text(t)' = Text(t)
  BY <1>4, SameTexts
<1>5. ASSUME NEW text \in Texts, mstr_create(s, text)
      PROVE  /\ TextsHeld'
             /\ result' # "MStr_Ok" => \A t \in Strings : Text(t)' = Text(t)
  <2>1. /\ ~Created(s)
        /\ \/ result' = "MStr_Ok" /\ Becomes(s, text)
           \/ result' = "MStr_Err_HeapTooSmall" /\ Loses(s)
    BY <1>5, TextsEncode, CreateEffect
  <2>2. CASE result' = "MStr_Ok" /\ Becomes(s, text)
    <3>1. Turns(s, text)
      BY <2>2 DEF Becomes, Turns, Holds, Carries
    <3> QED
      BY <1>2, <2>2, <3>1, TurnsKeeps
  <2>3. CASE result' = "MStr_Err_HeapTooSmall" /\ Loses(s)
    <3>1. Text(s) = NULL
      BY <2>1 DEF Text
    <3>2. TextsHeld' /\ Text(s)' = NULL /\ \A t \in Strings \ {s} : Text(t)' = Text(t)
      BY <1>2, <2>3, LosesText
    <3> QED
      BY <3>1, <3>2
  <2> QED
    BY <2>1, <2>2, <2>3
<1>6. ASSUME mstr_free(s)
      PROVE  /\ TextsHeld'
             /\ result' # "MStr_Ok" => \A t \in Strings : Text(t)' = Text(t)
  <2>1. Loses(s) /\ result' = "MStr_Ok"
    BY <1>3, <1>6, FreeOwned
  <2> QED
    BY <1>2, <2>1, LosesText
<1>7. ASSUME NEW pattern \in Patterns, NEW k \in 0..str[s].length, mstr_find(s, k, pattern)
      PROVE  /\ TextsHeld'
             /\ result' # "MStr_Ok" => \A t \in Strings : Text(t)' = Text(t)
  <2>1. UNCHANGED str /\ result' \in Results
    BY <1>2, <1>7 DEF mstr_find
  <2> QED
    BY <1>4, <2>1
<1>8. ASSUME NEW pattern \in Patterns, NEW opt \in Options, mstr_retain(s, opt, pattern)
      PROVE  /\ TextsHeld'
             /\ result' # "MStr_Ok" => \A t \in Strings : Text(t)' = Text(t)
  <2>1. pattern \in Seq(Code)
    BY PatternsEncode
  <2>2. DOMAIN heap \subseteq Blocks /\ \A b \in DOMAIN heap : heap[b] \in Nat
    BY DEF Owned
  <2>3. \/ UNCHANGED str /\ result' \in Results
        \/ result' = "MStr_Ok" /\ Turns(s, Text(s)')
    <3>1. \/ UNCHANGED str /\ result' = "MStr_Ok"
          \/ UNCHANGED str /\ result' = "MStr_Err_HeapTooSmall"
          \/ result' = "MStr_Ok" /\ Turns(s, Text(s)')
      BY <1>8, <2>1, <2>2, RetainEffect
    <3> QED
      BY <1>2, <3>1
  <2>4. CASE result' = "MStr_Ok" /\ Turns(s, Text(s)')
    BY <1>2, <2>4, TurnsKeeps
  <2> QED
    BY <1>4, <2>3, <2>4
<1> QED
  BY <1>1, <1>5, <1>6, <1>7, <1>8

LEMMA PatternOwned ==
  ASSUME TextsHeld, Owned, PatternNext
  PROVE  Owned'
<1>1. PICK s \in Strings :
        \/ \E text \in Texts : mstr_create(s, text)
        \/ mstr_free(s)
        \/ \E pattern \in Patterns :
             \/ \E begin_pos \in 0..str[s].length : mstr_find(s, begin_pos, pattern)
             \/ \E opt \in Options : mstr_retain(s, opt, pattern)
  BY DEF PatternNext, Options
<1>2. str \in [Strings -> Record]
  BY DEF TextsHeld
<1>3. ASSUME NEW pattern \in Patterns, NEW k \in 0..str[s].length, mstr_find(s, k, pattern)
      PROVE  Owned'
  BY <1>3, OwnedStays DEF mstr_find
<1> QED
  BY <1>1, <1>2, <1>3, CreateOwned, FreeOwned, RetainOwned, TextsEncode

\* What a search leaves in found.
LEMMA FoundType ==
  ASSUME TextsHeld, NEW s \in Strings, NEW pattern \in Seq(Code),
         NEW k \in 0..str[s].length, mstr_find(s, k, pattern)
  PROVE  found' \in [is_matched : BOOLEAN, begin_pos : Nat, begin_offset : Nat] \cup {NULL}
<1>1. found' = NULL \/ result' = "MStr_Ok"
  BY DEF mstr_find
<1>2. CASE result' = "MStr_Ok"
  <2> DEFINE t == Text(s)
  <2>1. Created(s) /\ Carries(str[s], t) /\ t \in Seq(Code) /\ Found(s, k, pattern)
    BY <1>2, HeldCarried DEF mstr_find, Found
  <2>2. /\ k \in Nat /\ Len(t) \in Nat
        /\ \A j \in k..Len(t) : Len(Encode(SubSeq(t, k + 1, j))) \in Nat
    <3>1. k \in Nat /\ Len(t) \in Nat
      BY <2>1 DEF Carries
    <3>2. ASSUME NEW j \in k..Len(t) PROVE Len(Encode(SubSeq(t, k + 1, j))) \in Nat
      <4>1. k + 1 \in 1..(Len(t) + 1) /\ j \in 0..Len(t)
        BY <3>1
      <4>2. SubSeq(t, k + 1, j) \in Seq(Code)
        BY <2>1, <4>1, SubSeqProperties
      <4> QED
        BY <4>2, EncodeType, LenProperties
    <3> QED
      BY <3>1, <3>2
  <2>3. \/ found' = NoMatch
        \/ \E j \in k..Len(t) :
             found' = [is_matched |-> TRUE, begin_pos |-> j - k,
                       begin_offset |-> Len(Encode(SubSeq(t, k + 1, j)))]
    BY <2>1, FindReports
  <2>4. CASE found' = NoMatch
    BY <2>4 DEF NoMatch
  <2>5. ASSUME NEW j \in k..Len(t),
               found' = [is_matched |-> TRUE, begin_pos |-> j - k,
                         begin_offset |-> Len(Encode(SubSeq(t, k + 1, j)))]
        PROVE  found' \in [is_matched : BOOLEAN, begin_pos : Nat, begin_offset : Nat]
    <3>1. j - k \in Nat /\ Len(Encode(SubSeq(t, k + 1, j))) \in Nat
      BY <2>2
    <3> QED
      BY <2>5, <3>1
  <2> QED
    BY <2>3, <2>4, <2>5
<1> QED
  BY <1>1, <1>2

LEMMA PatternHolds == PatternSpec => []PatternInv
<1>1. PatternInit => PatternInv
  <2> SUFFICES ASSUME PatternInit PROVE PatternInv
    OBVIOUS
  <2>1. Init /\ found = NULL
    BY DEF PatternInit
  <2>2. Nothing \in Record /\ Nothing.buff = NULL
    BY EmptySeq DEF Nothing, Record
  <2>3. \A s \in Strings : str[s] = Nothing
    BY <2>1 DEF Init
  <2>4. TextsHeld
    BY <2>1, <2>2, <2>3 DEF Init, TextsHeld, Created, Results
  <2>5. Owned
    BY <2>1, <2>2, <2>3, MStringAssumption DEF Init, Owned, BuffersOwned
  <2> QED
    BY <2>1, <2>4, <2>5 DEF PatternInv
<1>2. PatternInv /\ [PatternNext]_patternVars => PatternInv'
  <2> SUFFICES ASSUME PatternInv, [PatternNext]_patternVars PROVE PatternInv'
    OBVIOUS
  <2>1. CASE PatternNext
    <3>1. TextsHeld' /\ Owned'
      BY <2>1, PatternTexts, PatternOwned DEF PatternInv
    <3>2. \/ found' = NULL
          \/ \E s \in Strings, pattern \in Patterns : \E k \in 0..str[s].length :
               mstr_find(s, k, pattern)
      BY <2>1 DEF PatternNext, mstr_retain
    <3>3. found' \in [is_matched : BOOLEAN, begin_pos : Nat, begin_offset : Nat] \cup {NULL}
      BY <3>2, FoundType, PatternsEncode DEF PatternInv
    <3> QED
      BY <3>1, <3>3 DEF PatternInv
  <2>2. CASE UNCHANGED patternVars
    BY <2>2 DEF patternVars, vars, PatternInv, TextsHeld, Owned, BuffersOwned, Text, Created
  <2> QED
    BY <2>1, <2>2
<1> QED
  BY <1>1, <1>2, PTL DEF PatternSpec

--------------------------------------------------------------------------------
(* The theorems.                                                               *)

\* The strings, the heap and what a search reports keep their types, in every state of
\* any program that creates, frees, searches and cuts strings: lengths and capacities
\* never become negative.
THEOREM PatternTypeCorrect == PatternSpec => []PatternTypeOK
<1>1. PatternInv => PatternTypeOK
  BY DEF PatternInv, PatternTypeOK, TypeOK, TextsHeld, Owned
<1> QED
  BY <1>1, PatternHolds, PTL

\* Moving the result of a removal over the string leaves no pointer to freed memory,
\* whichever of the allocations fail.
THEOREM PatternBuffersOwned == PatternSpec => []BuffersOwned
<1>1. PatternInv => BuffersOwned
  BY DEF PatternInv, Owned
<1> QED
  BY <1>1, PatternHolds, PTL

\* The bytes, the count and the length of a string agree after any searches and
\* removals, although the removals subtract lengths instead of counting characters.
THEOREM PatternLengthExact == PatternSpec => []LengthExact
<1>1. PatternInv => LengthExact
  <2> SUFFICES ASSUME PatternInv, NEW s \in Strings, Created(s)
               PROVE  /\ str[s].count = Len(str[s].bytes)
                      /\ str[s].bytes = Encode(Text(s))
                      /\ str[s].length = Len(Text(s))
    BY DEF LengthExact
  <2> QED
    BY HeldCarried DEF PatternInv, Carries
<1> QED
  BY <1>1, PatternHolds, PTL

\* A call that finds no memory, for the string or for the table, changes no text.
THEOREM PatternFailureKeepsTexts == PatternSpec => FailureKeepsTexts
<1>1. PatternInv /\ [PatternNext]_patternVars
        => [result' # "MStr_Ok" => \A s \in Strings : Text(s)' = Text(s)]_patternVars
  BY PatternTexts DEF PatternInv
<1> QED
  BY <1>1, PatternHolds, PTL DEF PatternSpec, FailureKeepsTexts

\* What a search reports is there, at the character and at the byte that it says, for
\* every text and every pattern, with the jump table and without.
THEOREM PatternFoundIsMatch == PatternSpec => FoundIsMatch
<1> DEFINE A == \A s \in Strings, pattern \in Patterns : \A k \in 0..str[s].length :
                  Found(s, k, pattern) /\ found'.is_matched =>
                    /\ OccursAt(Text(s), pattern, k + found'.begin_pos)
                    /\ found'.begin_offset
                         = Len(Encode(SubSeq(Text(s), k + 1, k + found'.begin_pos)))
<1>1. ASSUME PatternInv PROVE A
  <2> SUFFICES ASSUME NEW s \in Strings, NEW pattern \in Patterns, NEW k \in 0..str[s].length,
                      Found(s, k, pattern), found'.is_matched
               PROVE  /\ OccursAt(Text(s), pattern, k + found'.begin_pos)
                      /\ found'.begin_offset
                           = Len(Encode(SubSeq(Text(s), k + 1, k + found'.begin_pos)))
    OBVIOUS
  <2> DEFINE t == Text(s)
  <2>1. Carries(str[s], t) /\ pattern \in Seq(Code)
    BY <1>1, HeldCarried, PatternsEncode DEF PatternInv, Found, mstr_find
  <2>2. k \in Nat /\ Len(t) \in Nat
    BY <2>1 DEF Carries, Record
  <2> HIDE DEF t
  <2>3. found' # NoMatch
    BY DEF NoMatch
  <2>4. PICK j \in k..Len(t) :
          /\ found' = [is_matched |-> TRUE, begin_pos |-> j - k,
                       begin_offset |-> Len(Encode(SubSeq(t, k + 1, j)))]
          /\ OccursAt(t, pattern, j)
    BY <2>1, <2>3, FindReports
  <2>5. k + found'.begin_pos = j /\ found'.begin_offset = Len(Encode(SubSeq(t, k + 1, j)))
    BY <2>2, <2>4
  <2> QED
    BY <2>4, <2>5 DEF t
<1> HIDE DEF A
<1>2. PatternInv /\ [PatternNext]_patternVars => [A]_patternVars
  BY <1>1
<1> QED
  BY <1>2, PatternHolds, PTL DEF PatternSpec, FoundIsMatch, A

\* Without the jump table the first occurrence is found, and none missed, for every text.
THEOREM PatternShortFindIsFirst == PatternSpec => ShortFindIsFirst
<1> DEFINE A == \A pattern \in Patterns : Short(pattern) => FindsFirst(pattern)
<1>1. ASSUME PatternInv PROVE A
  <2> SUFFICES ASSUME NEW pattern \in Patterns, Short(pattern), NEW s \in Strings,
                      NEW k \in 0..str[s].length, Found(s, k, pattern)
               PROVE  LET all == {j \in k..Len(Text(s)) : OccursAt(Text(s), pattern, j)}
                      IN  IF all = {} THEN ~found'.is_matched
                          ELSE found'.is_matched /\ k + found'.begin_pos = Min(all)
    BY DEF FindsFirst
  <2> DEFINE t == Text(s)
             all == {j \in k..Len(t) : OccursAt(t, pattern, j)}
  <2>1. Carries(str[s], t) /\ pattern \in Seq(Code)
    BY <1>1, HeldCarried, PatternsEncode DEF PatternInv, Found, mstr_find
  <2>2. k \in Nat /\ Len(t) \in Nat
    BY <2>1 DEF Carries, Record
  <2>3. \/ found' = NoMatch /\ \A i \in k..Len(t) : ~OccursAt(t, pattern, i)
        \/ \E j \in k..Len(t) :
             /\ found' = [is_matched |-> TRUE, begin_pos |-> j - k,
                          begin_offset |-> Len(Encode(SubSeq(t, k + 1, j)))]
             /\ OccursAt(t, pattern, j)
             /\ \A i \in k..(j - 1) : ~OccursAt(t, pattern, i)
    BY <2>1, FindReports
  <2>4. CASE found' = NoMatch /\ \A i \in k..Len(t) : ~OccursAt(t, pattern, i)
    <3>1. all = {} /\ ~found'.is_matched
      BY <2>4 DEF NoMatch
    <3> QED
      BY <3>1
  <2>5. ASSUME NEW j \in k..Len(t),
               found' = [is_matched |-> TRUE, begin_pos |-> j - k,
                         begin_offset |-> Len(Encode(SubSeq(t, k + 1, j)))],
               OccursAt(t, pattern, j), \A i \in k..(j - 1) : ~OccursAt(t, pattern, i)
        PROVE  all # {} /\ found'.is_matched /\ k + found'.begin_pos = Min(all)
    <3>1. j \in all /\ \A i \in all : j <= i
      BY <2>2, <2>5
    <3>2. all \subseteq Int
      BY <2>2
    <3> HIDE DEF all
    <3>3. Min(all) = j
      <4> DEFINE m == Min(all)
      <4>1. m \in all /\ \A i \in all : m <= i
        BY <3>1 DEF Min
      <4> HIDE DEF m
      <4>2. m \in Int /\ j \in Int /\ m <= j /\ j <= m
        BY <3>1, <3>2, <4>1
      <4>3. m = j
        BY <4>2
      <4> QED
        BY <4>3 DEF m
    <3>4. found'.is_matched /\ k + found'.begin_pos = j
      BY <2>2, <2>5
    <3> QED
      BY <3>1, <3>3, <3>4
  <2> QED
    BY <2>3, <2>4, <2>5
<1> HIDE DEF A
<1>2. PatternInv /\ [PatternNext]_patternVars => [A]_patternVars
  BY <1>1
<1> QED
  BY <1>2, PatternHolds, PTL DEF PatternSpec, ShortFindIsFirst, A

\* What a removal that succeeds makes of the text.
LEMMA RetainedText ==
  ASSUME PatternInv, NEW s \in Strings, NEW opt \in Options, NEW pattern \in Patterns,
         Retained(s, opt, pattern)
  PROVE  RemovedFrom(Text(s), opt, pattern, Text(s)')
<1>1. DOMAIN heap \subseteq Blocks /\ \A b \in DOMAIN heap : heap[b] \in Nat
  BY DEF PatternInv, Owned
<1>2. /\ pattern \in Seq(Code) /\ pattern # <<>>
      /\ mstr_retain(s, opt, pattern) /\ result' = "MStr_Ok"
  BY PatternsEncode DEF Retained
<1>3. TextsHeld
  BY DEF PatternInv
<1> QED
  BY <1>1, <1>2, <1>3, RetainEffect

\* A removal takes away the pattern at the end where it is, or whole occurrences of it
\* that do not overlap, and nothing else, for every text and every pattern.
THEOREM PatternRetainRemovesMatches == PatternSpec => RetainRemovesMatches
<1> DEFINE A == \A s \in Strings, pattern \in Patterns :
                  LET text == Text(s)
                      n == Len(pattern)
                  IN  /\ Retained(s, "StartWith", pattern) =>
                           Text(s)' = IF IsPrefix(pattern, text)
                                      THEN SubSeq(text, n + 1, Len(text)) ELSE text
                      /\ Retained(s, "EndWith", pattern) =>
                           Text(s)' = IF IsSuffix(pattern, text)
                                      THEN SubSeq(text, 1, Len(text) - n) ELSE text
                      /\ Retained(s, "All", pattern) => Text(s)' \in Remainders(text, pattern)
<1>1. ASSUME PatternInv PROVE A
  <2> SUFFICES ASSUME NEW s \in Strings, NEW pattern \in Patterns
               PROVE  LET text == Text(s)
                          n == Len(pattern)
                      IN  /\ Retained(s, "StartWith", pattern) =>
                               Text(s)' = IF IsPrefix(pattern, text)
                                          THEN SubSeq(text, n + 1, Len(text)) ELSE text
                          /\ Retained(s, "EndWith", pattern) =>
                               Text(s)' = IF IsSuffix(pattern, text)
                                          THEN SubSeq(text, 1, Len(text) - n) ELSE text
                          /\ Retained(s, "All", pattern) =>
                               Text(s)' \in Remainders(text, pattern)
    OBVIOUS
  <2>1. \A opt \in Options :
          Retained(s, opt, pattern) => RemovedFrom(Text(s), opt, pattern, Text(s)')
    BY <1>1, RetainedText
  <2>2. "StartWith" \in Options /\ "EndWith" \in Options /\ "All" \in Options
    BY DEF Options
  <2>3. Retained(s, "StartWith", pattern) =>
          Text(s)' = IF IsPrefix(pattern, Text(s))
                     THEN SubSeq(Text(s), Len(pattern) + 1, Len(Text(s))) ELSE Text(s)
    BY <2>1, <2>2 DEF RemovedFrom
  <2>4. Retained(s, "EndWith", pattern) =>
          Text(s)' = IF IsSuffix(pattern, Text(s))
                     THEN SubSeq(Text(s), 1, Len(Text(s)) - Len(pattern)) ELSE Text(s)
    BY <2>1, <2>2 DEF RemovedFrom
  <2>5. Retained(s, "All", pattern) => Text(s)' \in Remainders(Text(s), pattern)
    BY <2>1, <2>2 DEF RemovedFrom
  <2> QED
    BY <2>3, <2>4, <2>5
<1> HIDE DEF A
<1>2. PatternInv /\ [PatternNext]_patternVars => [A]_patternVars
  BY <1>1
<1> QED
  BY <1>2, PatternHolds, PTL DEF PatternSpec, RetainRemovesMatches, A

\* Without the jump table every occurrence from the left on goes, for every text.
THEOREM PatternShortRetainIsComplete == PatternSpec => ShortRetainIsComplete
<1> DEFINE A == \A s \in Strings, pattern \in Patterns :
                  Short(pattern) /\ Retained(s, "All", pattern) =>
                    Text(s)' = Remainder(Text(s), pattern)
<1>1. ASSUME PatternInv PROVE A
  <2> SUFFICES ASSUME NEW s \in Strings, NEW pattern \in Patterns,
                      Short(pattern), Retained(s, "All", pattern)
               PROVE  Text(s)' = Remainder(Text(s), pattern)
    OBVIOUS
  <2>1. "All" \in Options
    BY DEF Options
  <2>2. RemovedFrom(Text(s), "All", pattern, Text(s)')
    BY <1>1, <2>1, RetainedText
  <2> QED
    BY <2>2 DEF RemovedFrom
<1> HIDE DEF A
<1>2. PatternInv /\ [PatternNext]_patternVars => [A]_patternVars
  BY <1>1
<1> QED
  BY <1>2, PatternHolds, PTL DEF PatternSpec, ShortRetainIsComplete, A
===============================================================================
