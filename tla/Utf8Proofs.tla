------------------------------ MODULE Utf8Proofs ------------------------------
(***************************************************************************)
(* What the UTF-8 functions of module Utf8 do, for every text: the         *)
(* encoding of a text is the encodings of its characters one after the     *)
(* other, the walks over its bytes stop between them, the decoder gives    *)
(* them back, and reversal keeps each one's bytes in order.                *)
(*                                                                         *)
(* Texts are unbounded, so the lemmas rest on inductions.  An induction    *)
(* here is about a set of numbers or of sequences, which has the first and *)
(* with each one the next; the function that a definition computes by      *)
(* recursion is shown to exist the same way.                               *)
(***************************************************************************)
EXTENDS Utf8, TLAPS, SequenceTheorems, FiniteSetTheorems, WellFoundedInduction

Byte == 0..255

\* The code points that have an encoding.
Code == 0..MaxCode

--------------------------------------------------------------------------------
(* Inductions.                                                                 *)

LEMMA LeastPlace ==
  ASSUME NEW S \in SUBSET Nat, S # {}
  PROVE  \E n \in S : \A m \in S : n <= m
<1> DEFINE T == {0..x : x \in S}
<1>1. T \subseteq FiniteSubsetsOf(Nat) /\ T # {}
  <2>1. ASSUME NEW x \in S PROVE IsFiniteSet(0..x) /\ 0..x \subseteq Nat
    BY FS_Interval
  <2> QED
    BY <2>1 DEF FiniteSubsetsOf
<1>2. PICK t \in T : \A u \in T : ~ (<<u, t>> \in StrictSubsetOrdering(Nat))
  <2> HIDE DEF T
  <2> QED
    BY <1>1, FS_StrictSubsetOrderingWellFounded, WFMin
<1>3. PICK x \in S : t = 0..x
  OBVIOUS
<1>4. ASSUME NEW y \in S, y < x PROVE FALSE
  <2>1. 0..y \in T /\ 0..y \subseteq 0..x /\ x \in 0..x /\ x \notin 0..y
    BY <1>4
  <2>2. <<0..y, 0..x>> \in StrictSubsetOrdering(Nat)
    BY <2>1 DEF StrictSubsetOrdering
  <2> QED
    BY <1>2, <1>3, <2>1, <2>2
<1> QED
  BY <1>4

LEMMA NumberInduction ==
  ASSUME NEW G, 0 \in G, \A n \in Nat : n \in G => n + 1 \in G
  PROVE  Nat \subseteq G
<1> DEFINE Missing == Nat \ G
<1>1. SUFFICES ASSUME Missing # {} PROVE FALSE
  OBVIOUS
<1>2. PICK n \in Missing : \A m \in Missing : n <= m
  BY <1>1, LeastPlace
<1>3. n - 1 \in Nat /\ n - 1 \notin Missing
  BY <1>2
<1> QED
  BY <1>2, <1>3

LEMMA SequenceInduction ==
  ASSUME NEW S, NEW G, <<>> \in G,
         \A s \in Seq(S), e \in S : s \in G => Append(s, e) \in G
  PROVE  Seq(S) \subseteq G
<1> DEFINE Lengths == {n \in Nat : \A s \in Seq(S) : Len(s) = n => s \in G}
<1>1. 0 \in Lengths
  OBVIOUS
<1>2. ASSUME NEW n \in Nat, n \in Lengths, NEW s \in Seq(S), Len(s) = n + 1
      PROVE  s \in G
  <2>1. PICK r \in Seq(S), e \in S : s = Append(r, e)
    BY <1>2, SequenceEmptyOrAppend, EmptySeq
  <2>2. Len(r) = n
    BY <1>2, <2>1
  <2> QED
    BY <1>2, <2>1, <2>2
<1>3. \A n \in Nat : n \in Lengths => n + 1 \in Lengths
  BY <1>2
<1> HIDE DEF Lengths
<1>4. Nat \subseteq Lengths
  BY <1>1, <1>3, NumberInduction
<1> QED
  BY <1>4, LenProperties DEF Lengths

--------------------------------------------------------------------------------
(* Sequences put one after the other.                                          *)

\* f is what FlattenSeq computes with.
Flattens(f, seqs) ==
  f = [i \in 1..Len(seqs) |-> IF i = 1 THEN seqs[i] ELSE f[i - 1] \o seqs[i]]

LEMMA FlattenExists ==
  ASSUME NEW S, NEW seqs \in Seq(S)
  PROVE  \E f : Flattens(f, seqs)
<1> DEFINE G == {s \in Seq(S) : \E f : Flattens(f, s)}
<1>1. <<>> \in G
  <2>1. Flattens(<<>>, <<>>)
    BY DEF Flattens
  <2> QED
    BY <2>1
<1>2. ASSUME NEW s \in Seq(S), NEW e \in S, s \in G PROVE Append(s, e) \in G
  <2>1. PICK f : Flattens(f, s)
    BY <1>2
  <2> DEFINE g == [i \in 1..(Len(s) + 1) |->
                     IF i <= Len(s) THEN f[i] ELSE IF i = 1 THEN e ELSE f[i - 1] \o e]
  <2>2. \A i \in 1..Len(s) : f[i] = IF i = 1 THEN s[i] ELSE f[i - 1] \o s[i]
    BY <2>1 DEF Flattens
  <2>3. \A i \in 1..(Len(s) + 1) :
           g[i] = IF i = 1 THEN Append(s, e)[i] ELSE g[i - 1] \o Append(s, e)[i]
    BY <2>2
  <2>4. Flattens(g, Append(s, e))
    BY <2>3 DEF Flattens
  <2> QED
    BY <2>4
<1> HIDE DEF G
<1>3. Seq(S) \subseteq G
  BY <1>1, <1>2, SequenceInduction
<1> QED
  BY <1>3 DEF G

LEMMA FlattenComputes ==
  ASSUME NEW S, NEW seqs \in Seq(S), Len(seqs) # 0
  PROVE  \E f : Flattens(f, seqs) /\ FlattenSeq(seqs) = f[Len(seqs)]
<1> DEFINE h[i \in 1..Len(seqs)] == IF i = 1 THEN seqs[i] ELSE h[i - 1] \o seqs[i]
<1>1. FlattenSeq(seqs) = h[Len(seqs)]
  BY DEF FlattenSeq
<1>2. Flattens(h, seqs)
  BY FlattenExists DEF Flattens
<1> QED
  BY <1>1, <1>2

LEMMA FlattenAppend ==
  ASSUME NEW S, NEW seqs \in Seq(Seq(S)), NEW e \in Seq(S)
  PROVE  FlattenSeq(Append(seqs, e)) = FlattenSeq(seqs) \o e
<1> DEFINE n == Len(seqs)
           longer == Append(seqs, e)
<1>1. /\ longer \in Seq(Seq(S)) /\ Len(longer) = n + 1 /\ n \in Nat
      /\ longer[n + 1] = e
      /\ \A i \in 1..n : longer[i] = seqs[i]
  OBVIOUS
<1>2. n = 0 => FlattenSeq(seqs) = <<>>
  BY DEF FlattenSeq
<1> HIDE DEF longer
<1>3. PICK g : Flattens(g, longer) /\ FlattenSeq(longer) = g[n + 1]
  <2>1. Len(longer) # 0
    BY <1>1
  <2> QED
    BY <1>1, <2>1, FlattenComputes
<1>4. \A i \in 1..(n + 1) : g[i] = IF i = 1 THEN longer[i] ELSE g[i - 1] \o longer[i]
  BY <1>1, <1>3 DEF Flattens
<1>5. CASE n = 0
  <2>1. g[n + 1] = e
    BY <1>1, <1>4, <1>5
  <2> QED
    BY <1>2, <1>3, <1>5, <2>1 DEF longer
<1>6. CASE n # 0
  <2>1. PICK f : Flattens(f, seqs) /\ FlattenSeq(seqs) = f[n]
    BY <1>6, FlattenComputes
  <2>2. \A i \in 1..n : f[i] = IF i = 1 THEN seqs[i] ELSE f[i - 1] \o seqs[i]
    BY <2>1 DEF Flattens
  <2> HIDE DEF n
  <2> DEFINE Same == {i \in Nat : i \in 1..n => f[i] = g[i]}
  <2>3. 0 \in Same
    OBVIOUS
  <2>4. ASSUME NEW i \in Nat, i \in Same PROVE i + 1 \in Same
    <3>1. SUFFICES ASSUME i + 1 \in 1..n PROVE f[i + 1] = g[i + 1]
      OBVIOUS
    <3>2. CASE i = 0
      BY <1>1, <1>4, <2>2, <3>1, <3>2
    <3>3. CASE i # 0
      <4>1. f[i] = g[i] /\ i + 1 # 1 /\ (i + 1) - 1 = i /\ i + 1 \in 1..(n + 1)
        BY <1>1, <2>4, <3>1, <3>3
      <4>2. f[i + 1] = f[i] \o seqs[i + 1]
        BY <2>2, <3>1, <4>1
      <4>3. g[i + 1] = g[i] \o longer[i + 1]
        BY <1>4, <4>1
      <4> QED
        BY <1>1, <3>1, <4>1, <4>2, <4>3
    <3> QED
      BY <3>2, <3>3
  <2> HIDE DEF Same
  <2>5. Nat \subseteq Same
    BY <2>3, <2>4, NumberInduction
  <2>6. f[n] = g[n]
    BY <1>1, <1>6, <2>5 DEF Same
  <2>7. g[n + 1] = g[n] \o e
    <3>1. n + 1 \in 1..(n + 1) /\ n + 1 # 1 /\ (n + 1) - 1 = n
      BY <1>1, <1>6
    <3> QED
      BY <1>1, <1>4, <3>1
  <2> QED
    BY <1>3, <2>1, <2>6, <2>7 DEF longer
<1> QED
  BY <1>5, <1>6

--------------------------------------------------------------------------------
(* One character.                                                              *)

\* The encodings, length by length.
LEMMA EncodeOne ==
  ASSUME NEW c \in Nat, c <= 127 PROVE mstr_as_utf8(c) = <<c>>
BY SMTT(10) DEF mstr_as_utf8

LEMMA EncodeTwo ==
  ASSUME NEW c \in Nat, 128 <= c, c <= 2047
  PROVE  mstr_as_utf8(c) = <<192 + (c \div 64), 128 + (c % 64)>>
<1>1. c \div 1 = c
  BY SMTT(10)
<1> QED
  BY <1>1, SMTT(10) DEF mstr_as_utf8, Continuation

LEMMA EncodeThree ==
  ASSUME NEW c \in Nat, 2048 <= c, c <= 65535
  PROVE  mstr_as_utf8(c) =
           <<224 + (c \div 4096), 128 + ((c \div 64) % 64), 128 + (c % 64)>>
<1>1. c \div 1 = c
  BY SMTT(10)
<1>2. Continuation(c, 1) = 128 + (c % 64) /\ Continuation(c, 64) = 128 + ((c \div 64) % 64)
  BY <1>1, SMTT(10) DEF Continuation
<1>3. ~(c <= 127) /\ ~(c <= 2047) /\ c <= 65535
  BY SMTT(10)
<1> QED
  BY <1>2, <1>3, SMTT(10) DEF mstr_as_utf8

LEMMA EncodeFour ==
  ASSUME NEW c \in Nat, 65536 <= c, c <= MaxCode
  PROVE  mstr_as_utf8(c) =
           <<240 + (c \div 262144), 128 + ((c \div 4096) % 64),
             128 + ((c \div 64) % 64), 128 + (c % 64)>>
<1>1. c \div 1 = c
  BY SMTT(10)
<1>2. /\ Continuation(c, 1) = 128 + (c % 64)
      /\ Continuation(c, 64) = 128 + ((c \div 64) % 64)
      /\ Continuation(c, 4096) = 128 + ((c \div 4096) % 64)
  BY <1>1, SMTT(10) DEF Continuation
<1> QED
  BY <1>2, SMTT(10) DEF mstr_as_utf8

\* What the decoder makes of one, two, three and four bytes.
LEMMA DecodeOne ==
  ASSUME NEW s, Len(s) = 1, s[1] \in 0..127
  PROVE  mstr_codepoint_of(s) = s[1] % 128
<1>1. DecodedLength(s[1]) = 1
  BY SMTT(10) DEF DecodedLength
<1> QED
  BY <1>1, SMTT(10) DEF mstr_codepoint_of

LEMMA DecodeTwo ==
  ASSUME NEW s, Len(s) = 2, s[1] \in 192..223
  PROVE  mstr_codepoint_of(s) = (s[1] % 32) * 64 + (s[2] % 64)
<1>1. DecodedLength(s[1]) = 2
  BY SMTT(10) DEF DecodedLength
<1> QED
  BY <1>1, SMTT(10) DEF mstr_codepoint_of

LEMMA DecodeThree ==
  ASSUME NEW s, Len(s) = 3, s[1] \in 224..239
  PROVE  mstr_codepoint_of(s) = (s[1] % 16) * 4096 + (s[2] % 64) * 64 + (s[3] % 64)
<1>1. DecodedLength(s[1]) = 3
  BY SMTT(10) DEF DecodedLength
<1> QED
  BY <1>1, SMTT(10) DEF mstr_codepoint_of

LEMMA DecodeFour ==
  ASSUME NEW s, Len(s) = 4, s[1] \in 240..247
  PROVE  mstr_codepoint_of(s) =
           (s[1] % 8) * 262144 + (s[2] % 64) * 4096 + (s[3] % 64) * 64 + (s[4] % 64)
<1>1. DecodedLength(s[1]) = 4
  BY SMTT(10) DEF DecodedLength
<1> QED
  BY <1>1, SMTT(10) DEF mstr_codepoint_of

--------------------------------------------------------------------------------
(* The table of mstr_char_length, at the bytes that start a character.         *)

LEMMA PowerAbove ==
  /\ \A v \in 128..255 : NextPower(v) = 256
  /\ \A v \in 64..127 : NextPower(v) = 128
  /\ \A v \in 32..63 : NextPower(v) = 64
  /\ \A v \in 16..31 : NextPower(v) = 32
  /\ \A v \in 8..15 : NextPower(v) = 16
<1>1. ASSUME NEW v \in 8..255, NEW p \in PowersOfTwo, p > v,
             \A q \in PowersOfTwo : q > v => p <= q
      PROVE  NextPower(v) = p
  BY <1>1, SMTT(20) DEF NextPower, PowersOfTwo
<1>2. \A v \in 128..255 : NextPower(v) = 256
  BY <1>1, SMTT(20) DEF PowersOfTwo
<1>3. \A v \in 32..63 : NextPower(v) = 64
  BY <1>1, SMTT(20) DEF PowersOfTwo
<1>4. \A v \in 16..31 : NextPower(v) = 32
  BY <1>1, SMTT(20) DEF PowersOfTwo
<1>5. \A v \in 8..15 : NextPower(v) = 16
  BY <1>1, SMTT(20) DEF PowersOfTwo
<1>6. \A v \in 64..127 : NextPower(v) = 128
  BY <1>1, SMTT(20) DEF PowersOfTwo
<1> QED
  BY <1>2, <1>3, <1>4, <1>5, <1>6

LEMMA LengthByLead ==
  /\ \A w \in 0..127 : mstr_char_length(w) = 1
  /\ \A w \in 128..191 : mstr_char_length(w) = 0
  /\ \A w \in 192..223 : mstr_char_length(w) = 2
  /\ \A w \in 224..239 : mstr_char_length(w) = 3
  /\ \A w \in 240..247 : mstr_char_length(w) = 4
<1> DEFINE map == <<1, 7, 2, 6, 0, 3, 4, 5>>
<1>1. /\ (256 * 232) \div 256 = 232 /\ (64 * 232) \div 256 = 58
      /\ (32 * 232) \div 256 = 29 /\ (16 * 232) \div 256 = 14
      /\ (128 * 232) \div 256 = 116
  BY SMTT(10)
<1>2. 232 % 8 = 0 /\ 58 % 8 = 2 /\ 29 % 8 = 5 /\ 14 % 8 = 6 /\ 116 % 8 = 4
  BY SMTT(10)
<1>3. map[1] = 1 /\ map[3] = 2 /\ map[5] = 0 /\ map[6] = 3 /\ map[7] = 4
  BY SMTT(10)
<1> HIDE DEF map
<1>4. \A w \in 0..255 :
        mstr_char_length(w) = map[1 + (((NextPower(255 - w) * 232) \div 256) % 8)]
  BY SMTT(10) DEF mstr_char_length, CharLength, map
<1>5. \A w \in 0..127 : NextPower(255 - w) = 256
  BY PowerAbove, SMTT(10)
<1>6. \A w \in 192..223 : NextPower(255 - w) = 64
  BY PowerAbove, SMTT(10)
<1>7. \A w \in 224..239 : NextPower(255 - w) = 32
  BY PowerAbove, SMTT(10)
<1>8. \A w \in 240..247 : NextPower(255 - w) = 16
  BY PowerAbove, SMTT(10)
<1>9. \A w \in 128..191 : NextPower(255 - w) = 128
  BY PowerAbove, SMTT(10)
<1> QED
  BY <1>1, <1>2, <1>3, <1>4, <1>5, <1>6, <1>7, <1>8, <1>9, SMTT(20)

--------------------------------------------------------------------------------
(* A code point and the groups of six bits that the encoder splits it into.    *)

LEMMA SixBits ==
  ASSUME NEW n \in Nat
  PROVE  /\ n \div 64 \in Nat
         /\ n % 64 \in 0..63
         /\ n = (n \div 64) * 64 + (n % 64)
         /\ n \div 4096 = (n \div 64) \div 64
         /\ n \div 262144 = ((n \div 64) \div 64) \div 64
BY SMTT(20)

LEMMA MasksTaken ==
  /\ \A r \in 0..63 : 128 + r \in 128..191 /\ (128 + r) % 64 = r
  /\ \A h \in 0..31 : 192 + h \in 192..223 /\ (192 + h) % 32 = h
  /\ \A h \in 0..15 : 224 + h \in 224..239 /\ (224 + h) % 16 = h
  /\ \A h \in 0..7 : 240 + h \in 240..247 /\ (240 + h) % 8 = h
<1>1. \A r \in 0..63 : 128 + r \in 128..191 /\ (128 + r) % 64 = r
  BY SMTT(20)
<1>2. \A h \in 0..31 : 192 + h \in 192..223 /\ (192 + h) % 32 = h
  BY SMTT(20)
<1>3. \A h \in 0..15 : 224 + h \in 224..239 /\ (224 + h) % 16 = h
  BY SMTT(20)
<1>4. \A h \in 0..7 : 240 + h \in 240..247 /\ (240 + h) % 8 = h
  BY SMTT(20)
<1> QED
  BY <1>1, <1>2, <1>3, <1>4

--------------------------------------------------------------------------------
(* Decoding what was encoded, length by length, and the theorem.               *)

RoundTrips(c) ==
  /\ mstr_codepoint_of(mstr_as_utf8(c)) = c
  /\ mstr_char_length(mstr_as_utf8(c)[1]) = Len(mstr_as_utf8(c))

LEMMA RoundTripOne ==
  ASSUME NEW c \in Nat, c <= 127 PROVE RoundTrips(c)
<1> DEFINE s == mstr_as_utf8(c)
<1>1. Len(s) = 1 /\ s[1] = c
  BY EncodeOne, SMTT(10)
<1>2. c \in 0..127 /\ c % 128 = c
  BY SMTT(10)
<1> HIDE DEF s
<1>3. mstr_codepoint_of(s) = c
  BY <1>1, <1>2, DecodeOne, SMTT(10)
<1>4. mstr_char_length(s[1]) = 1
  BY <1>1, <1>2, LengthByLead, SMTT(10)
<1> QED
  BY <1>1, <1>3, <1>4 DEF RoundTrips, s

LEMMA RoundTripTwo ==
  ASSUME NEW c \in Nat, 128 <= c, c <= 2047 PROVE RoundTrips(c)
<1> DEFINE s == mstr_as_utf8(c)
<1>1. /\ Len(s) = 2 /\ s[1] = 192 + (c \div 64)
      /\ s[2] = 128 + (c % 64)
  BY EncodeTwo, SMTT(10)
<1>2. c \div 64 \in 0..31
  BY SMTT(20)
<1>3. /\ c % 64 \in 0..63
      /\ c = (c \div 64) * 64 + (c % 64)
  BY SixBits, SMTT(20)
<1>4. /\ s[1] \in 192..223 /\ s[1] % 32 = c \div 64
      /\ s[2] % 64 = c % 64
  BY <1>1, <1>2, <1>3, MasksTaken, SMTT(20)
<1> HIDE DEF s
<1>5. mstr_codepoint_of(s) = c
  <2>1. mstr_codepoint_of(s) = (s[1] % 32) * 64 + (s[2] % 64)
    BY <1>1, <1>4, DecodeTwo, SMTT(20)
  <2> QED
    BY <2>1, <1>3, <1>4, SMTT(20)
<1>6. mstr_char_length(s[1]) = 2
  BY <1>4, LengthByLead, SMTT(10)
<1> QED
  BY <1>1, <1>5, <1>6 DEF RoundTrips, s

LEMMA RoundTripThree ==
  ASSUME NEW c \in Nat, 2048 <= c, c <= 65535 PROVE RoundTrips(c)
<1> DEFINE s == mstr_as_utf8(c)
<1>1. /\ Len(s) = 3 /\ s[1] = 224 + (c \div 4096)
      /\ s[2] = 128 + ((c \div 64) % 64)
      /\ s[3] = 128 + (c % 64)
  BY EncodeThree, SMTT(10)
<1>2. c \div 4096 \in 0..15
  BY SMTT(20)
<1>3. /\ (c \div 64) % 64 \in 0..63
      /\ c % 64 \in 0..63
      /\ c = (c \div 4096) * 4096 + ((c \div 64) % 64) * 64 + (c % 64)
  BY SixBits, SMTT(20)
<1>4. /\ s[1] \in 224..239 /\ s[1] % 16 = c \div 4096
      /\ s[2] % 64 = (c \div 64) % 64
      /\ s[3] % 64 = c % 64
  BY <1>1, <1>2, <1>3, MasksTaken, SMTT(20)
<1> HIDE DEF s
<1>5. mstr_codepoint_of(s) = c
  <2>1. mstr_codepoint_of(s) = (s[1] % 16) * 4096 + (s[2] % 64) * 64 + (s[3] % 64)
    BY <1>1, <1>4, DecodeThree, SMTT(20)
  <2> QED
    BY <2>1, <1>3, <1>4, SMTT(20)
<1>6. mstr_char_length(s[1]) = 3
  BY <1>4, LengthByLead, SMTT(10)
<1> QED
  BY <1>1, <1>5, <1>6 DEF RoundTrips, s

LEMMA RoundTripFour ==
  ASSUME NEW c \in Nat, 65536 <= c, c <= MaxCode PROVE RoundTrips(c)
<1> DEFINE s == mstr_as_utf8(c)
<1>1. /\ Len(s) = 4 /\ s[1] = 240 + (c \div 262144)
      /\ s[2] = 128 + ((c \div 4096) % 64)
      /\ s[3] = 128 + ((c \div 64) % 64)
      /\ s[4] = 128 + (c % 64)
  BY EncodeFour, SMTT(10)
<1>2. c \div 262144 \in 0..7
  BY SMTT(20) DEF MaxCode
<1>3. /\ (c \div 4096) % 64 \in 0..63
      /\ (c \div 64) % 64 \in 0..63
      /\ c % 64 \in 0..63
      /\ c = (c \div 262144) * 262144 + ((c \div 4096) % 64) * 4096
               + ((c \div 64) % 64) * 64 + (c % 64)
  BY SixBits, SMTT(20)
<1>4. /\ s[1] \in 240..247 /\ s[1] % 8 = c \div 262144
      /\ s[2] % 64 = (c \div 4096) % 64
      /\ s[3] % 64 = (c \div 64) % 64
      /\ s[4] % 64 = c % 64
  BY <1>1, <1>2, <1>3, MasksTaken, SMTT(20)
<1> HIDE DEF s
<1>5. mstr_codepoint_of(s) = c
  <2>1. mstr_codepoint_of(s) =
          (s[1] % 8) * 262144 + (s[2] % 64) * 4096 + (s[3] % 64) * 64 + (s[4] % 64)
    BY <1>1, <1>4, DecodeFour, SMTT(20)
  <2> QED
    BY <2>1, <1>3, <1>4, SMTT(20)
<1>6. mstr_char_length(s[1]) = 4
  BY <1>4, LengthByLead, SMTT(10)
<1> QED
  BY <1>1, <1>5, <1>6 DEF RoundTrips, s

LEMMA EveryCodeRoundTrips ==
  ASSUME NEW c \in Code PROVE RoundTrips(c)
<1>1. c \in Nat /\ c <= MaxCode
  BY SMTT(10) DEF Code
<1>2. \/ c <= 127
      \/ 128 <= c /\ c <= 2047
      \/ 2048 <= c /\ c <= 65535
      \/ 65536 <= c
  BY <1>1, SMTT(10)
<1> QED
  BY <1>1, <1>2, SMTT(10), RoundTripOne, RoundTripTwo, RoundTripThree, RoundTripFour

\* The form of an encoded character: its first byte tells how many there are, and
\* it is the only one outside 128..191.
Leads == [n \in 1..4 |->
           CASE n = 1 -> 0..127 [] n = 2 -> 192..223 [] n = 3 -> 224..239 [] n = 4 -> 240..247]

Character(s) ==
  /\ s \in Seq(Byte)
  /\ Len(s) \in 1..4
  /\ s[1] \in Leads[Len(s)]
  /\ \A j \in 2..Len(s) : s[j] \in 128..191

LEMMA EncodesCharacter ==
  ASSUME NEW c \in Code PROVE Character(mstr_as_utf8(c))
<1> DEFINE s == mstr_as_utf8(c)
<1>0. c \in Nat /\ c <= MaxCode
  BY SMTT(10) DEF Code
<1>1. /\ c % 64 \in 0..63 /\ (c \div 64) % 64 \in 0..63 /\ (c \div 4096) % 64 \in 0..63
      /\ \A r \in 0..63 : 128 + r \in 128..191
  BY <1>0, SixBits, SMTT(20)
<1>2. CASE c <= 127
  <2>1. s = <<c>> /\ c \in Leads[1] /\ c \in Byte
    BY <1>0, <1>2, EncodeOne, SMTT(10) DEF Leads, Byte
  <2> QED
    BY <2>1 DEF Character
<1>3. CASE 128 <= c /\ c <= 2047
  <2>1. s = <<192 + (c \div 64), 128 + (c % 64)>>
    BY <1>0, <1>3, EncodeTwo, SMTT(10)
  <2>2. c \div 64 \in 0..31
    BY <1>0, <1>3, SMTT(20)
  <2>3. 192 + (c \div 64) \in Leads[2] /\ 128 + (c % 64) \in 128..191
    BY <1>1, <2>2, SMTT(10) DEF Leads
  <2>4. 192 + (c \div 64) \in Byte /\ 128 + (c % 64) \in Byte
    BY <1>1, <2>2, SMTT(10) DEF Byte
  <2> QED
    BY <2>1, <2>3, <2>4 DEF Character
<1>4. CASE 2048 <= c /\ c <= 65535
  <2> DEFINE a == 224 + (c \div 4096)
             b == 128 + ((c \div 64) % 64)
             d == 128 + (c % 64)
  <2>1. s = <<a, b, d>>
    BY <1>0, <1>4, EncodeThree, SMTT(10)
  <2>2. c \div 4096 \in 0..15
    BY <1>0, <1>4, SMTT(20)
  <2>3. a \in Leads[3] /\ b \in 128..191 /\ d \in 128..191
    BY <1>1, <2>2, SMTT(10) DEF Leads
  <2>4. a \in Byte /\ b \in Byte /\ d \in Byte
    BY <1>1, <2>2, SMTT(10) DEF Byte
  <2> HIDE DEF s, a, b, d
  <2> QED
    BY <2>1, <2>3, <2>4 DEF Character, s
<1>5. CASE 65536 <= c
  <2> DEFINE a == 240 + (c \div 262144)
             b == 128 + ((c \div 4096) % 64)
             d == 128 + ((c \div 64) % 64)
             e == 128 + (c % 64)
  <2>1. s = <<a, b, d, e>>
    BY <1>0, <1>5, EncodeFour, SMTT(10)
  <2>2. c \div 262144 \in 0..7
    BY <1>0, <1>5, SMTT(20) DEF MaxCode
  <2>3. a \in Leads[4] /\ b \in 128..191 /\ d \in 128..191 /\ e \in 128..191
    BY <1>1, <2>2, SMTT(10) DEF Leads
  <2>4. a \in Byte /\ b \in Byte /\ d \in Byte /\ e \in Byte
    BY <1>1, <2>2, SMTT(10) DEF Byte
  <2> HIDE DEF s, a, b, d, e
  <2> QED
    BY <2>1, <2>3, <2>4 DEF Character, s
<1> QED
  BY <1>0, <1>2, <1>3, <1>4, <1>5, SMTT(10)

\* The first byte tells the length to the decoder and to mstr_char_length alike.
LEMMA LeadTellsLength ==
  ASSUME NEW s, Character(s)
  PROVE  mstr_char_length(s[1]) = Len(s) /\ DecodedLength(s[1]) = Len(s)
<1>0. /\ Leads[1] = 0..127 /\ Leads[2] = 192..223
      /\ Leads[3] = 224..239 /\ Leads[4] = 240..247
  BY DEF Leads
<1>5. s[1] \in Leads[Len(s)]
  BY DEF Character
<1>1. CASE Len(s) = 1
  <2>0. s[1] \in Leads[1]
    BY <1>1, <1>5, Zenon
  <2>1. s[1] \in 0..127
    BY <1>0, <2>0, Zenon
  <2>2. DecodedLength(s[1]) = 1
    BY <2>1, SMTT(10) DEF DecodedLength
  <2> QED
    BY <1>1, <2>1, <2>2, LengthByLead
<1>2. CASE Len(s) = 2
  <2>0. s[1] \in Leads[2]
    BY <1>2, <1>5, Zenon
  <2>1. s[1] \in 192..223
    BY <1>0, <2>0, Zenon
  <2>2. DecodedLength(s[1]) = 2
    BY <2>1, SMTT(10) DEF DecodedLength
  <2> QED
    BY <1>2, <2>1, <2>2, LengthByLead
<1>3. CASE Len(s) = 3
  <2>0. s[1] \in Leads[3]
    BY <1>3, <1>5, Zenon
  <2>1. s[1] \in 224..239
    BY <1>0, <2>0, Zenon
  <2>2. DecodedLength(s[1]) = 3
    BY <2>1, SMTT(10) DEF DecodedLength
  <2> QED
    BY <1>3, <2>1, <2>2, LengthByLead
<1>4. CASE Len(s) = 4
  <2>0. s[1] \in Leads[4]
    BY <1>4, <1>5, Zenon
  <2>1. s[1] \in 240..247
    BY <1>0, <2>0, Zenon
  <2>2. DecodedLength(s[1]) = 4
    BY <2>1, SMTT(10) DEF DecodedLength
  <2> QED
    BY <1>4, <2>1, <2>2, LengthByLead
<1> QED
  BY <1>1, <1>2, <1>3, <1>4 DEF Character

\* A first byte is not one of those behind it, and below 128 it is alone.
LEMMA LeadOutside ==
  ASSUME NEW s, Character(s)
  PROVE  /\ s[1] \in Int
         /\ s[1] < 128 \/ s[1] >= 192
         /\ s[1] < 128 <=> Len(s) = 1
<1>0. /\ Leads[1] = 0..127 /\ Leads[2] = 192..223
      /\ Leads[3] = 224..239 /\ Leads[4] = 240..247
  BY DEF Leads
<1>5. s[1] \in Leads[Len(s)]
  BY DEF Character
<1>1. CASE Len(s) = 1
  <2>0. s[1] \in Leads[1]
    BY <1>1, <1>5, Zenon
  <2>1. s[1] \in 0..127
    BY <1>0, <2>0, Zenon
  <2> QED
    BY <1>1, <2>1
<1>2. CASE Len(s) = 2
  <2>0. s[1] \in Leads[2]
    BY <1>2, <1>5, Zenon
  <2>1. s[1] \in 192..223
    BY <1>0, <2>0, Zenon
  <2> QED
    BY <1>2, <2>1
<1>3. CASE Len(s) = 3
  <2>0. s[1] \in Leads[3]
    BY <1>3, <1>5, Zenon
  <2>1. s[1] \in 224..239
    BY <1>0, <2>0, Zenon
  <2> QED
    BY <1>3, <2>1
<1>4. CASE Len(s) = 4
  <2>0. s[1] \in Leads[4]
    BY <1>4, <1>5, Zenon
  <2>1. s[1] \in 240..247
    BY <1>0, <2>0, Zenon
  <2> QED
    BY <1>4, <2>1
<1> QED
  BY <1>1, <1>2, <1>3, <1>4 DEF Character

\* The decoder does not look behind the character.
LEMMA DecodesFirst ==
  ASSUME NEW c \in Code, NEW rest \in Seq(Byte)
  PROVE  mstr_codepoint_of(mstr_as_utf8(c) \o rest) = c
<1> DEFINE s == mstr_as_utf8(c)
           b == s \o rest
<1>1. Character(s) /\ mstr_codepoint_of(s) = c
  BY EncodesCharacter, EveryCodeRoundTrips DEF RoundTrips
<1> HIDE DEF s
<1>2. s \in Seq(Byte) /\ DecodedLength(s[1]) = Len(s) /\ Len(s) \in 1..4
  BY <1>1, LeadTellsLength DEF Character
<1>3. Len(b) >= Len(s) /\ \A i \in 1..Len(s) : b[i] = s[i]
  BY <1>2, ConcatProperties
<1>4. Len(b) \in Nat
  BY <1>2, ConcatProperties, LenProperties
<1> HIDE DEF b
<1>5. mstr_codepoint_of(b) = mstr_codepoint_of(s)
  <2>1. CASE Len(s) = 1
    BY <1>2, <1>3, <1>4, <2>1, SMTT(10) DEF mstr_codepoint_of
  <2>2. CASE Len(s) = 2
    BY <1>2, <1>3, <1>4, <2>2, SMTT(10) DEF mstr_codepoint_of
  <2>3. CASE Len(s) = 3
    BY <1>2, <1>3, <1>4, <2>3, SMTT(10) DEF mstr_codepoint_of
  <2>4. CASE Len(s) = 4
    BY <1>2, <1>3, <1>4, <2>4, SMTT(10) DEF mstr_codepoint_of
  <2> QED
    BY <1>2, <2>1, <2>2, <2>3, <2>4
<1> QED
  BY <1>1, <1>5 DEF b, s

--------------------------------------------------------------------------------
(* The bytes of a text.                                                        *)

Encodings(t) == [i \in DOMAIN t |-> mstr_as_utf8(t[i])]

LEMMA EncodingsType ==
  ASSUME NEW t \in Seq(Code)
  PROVE  Encodings(t) \in Seq(Seq(Byte)) /\ Len(Encodings(t)) = Len(t)
<1>1. \A i \in 1..Len(t) : mstr_as_utf8(t[i]) \in Seq(Byte)
  BY EncodesCharacter DEF Character
<1> QED
  BY <1>1 DEF Encodings

LEMMA EncodeEmpty == Encode(<<>>) = <<>>
<1>1. Len(Encodings(<<>>)) = 0 /\ Encodings(<<>>) = <<>>
  BY DEF Encodings
<1> QED
  BY <1>1 DEF Encode, FlattenSeq, Encodings

LEMMA EncodeAppend ==
  ASSUME NEW t \in Seq(Code), NEW c \in Code
  PROVE  Encode(Append(t, c)) = Encode(t) \o mstr_as_utf8(c)
<1>1. mstr_as_utf8(c) \in Seq(Byte)
  BY EncodesCharacter DEF Character
<1>2. Encodings(Append(t, c)) = Append(Encodings(t), mstr_as_utf8(c))
  <2> DEFINE u == mstr_as_utf8(c)
             longer == Encodings(Append(t, c))
             other == Append(Encodings(t), u)
  <2>1. Append(t, c) \in Seq(Code) /\ Len(Append(t, c)) = Len(t) + 1
    OBVIOUS
  <2>2. longer \in Seq(Seq(Byte)) /\ Len(longer) = Len(t) + 1
    BY <2>1, EncodingsType
  <2>3. other \in Seq(Seq(Byte)) /\ Len(other) = Len(t) + 1
    BY <1>1, EncodingsType
  <2>4. \A i \in 1..(Len(t) + 1) : longer[i] = other[i]
    <3>1. ASSUME NEW i \in 1..Len(t) PROVE longer[i] = other[i]
      <4>1. longer[i] = mstr_as_utf8(t[i])
        BY DEF Encodings
      <4>2. other[i] = mstr_as_utf8(t[i])
        BY EncodingsType, AppendProperties, <1>1 DEF Encodings
      <4> QED
        BY <4>1, <4>2
    <3>2. longer[Len(t) + 1] = u
      BY DEF Encodings
    <3>3. other[Len(t) + 1] = u
      BY EncodingsType, AppendProperties, <1>1
    <3> HIDE DEF longer, other, u
    <3>4. \A i \in 1..(Len(t) + 1) : i \in 1..Len(t) \/ i = Len(t) + 1
      BY LenProperties
    <3> QED
      BY <3>1, <3>2, <3>3, <3>4
  <2> HIDE DEF longer, other
  <2>5. longer = other
    BY <2>2, <2>3, <2>4, SeqEqual
  <2> QED
    BY <2>5 DEF longer, other
<1> QED
  BY <1>1, <1>2, EncodingsType, FlattenAppend DEF Encode, Encodings

LEMMA EncodeType ==
  ASSUME NEW t \in Seq(Code)
  PROVE  Encode(t) \in Seq(Byte) /\ Len(Encode(t)) \in Nat /\ Len(Encode(t)) >= Len(t)
<1> DEFINE G == {s \in Seq(Code) : Encode(s) \in Seq(Byte) /\ Len(Encode(s)) >= Len(s)}
<1>1. <<>> \in G
  <2>1. <<>> \in Seq(Code) /\ <<>> \in Seq(Byte) /\ Len(<<>>) >= Len(<<>>)
    BY EmptySeq
  <2> QED
    BY <2>1, EncodeEmpty
<1>2. ASSUME NEW s \in Seq(Code), NEW c \in Code, s \in G PROVE Append(s, c) \in G
  <2> DEFINE u == mstr_as_utf8(c)
  <2>1. u \in Seq(Byte) /\ Len(u) \in Nat /\ Len(u) >= 1
    BY EncodesCharacter DEF Character
  <2>2. Encode(Append(s, c)) = Encode(s) \o u
    BY EncodeAppend
  <2> HIDE DEF u
  <2>3. /\ Encode(s) \o u \in Seq(Byte)
        /\ Len(Encode(s) \o u) = Len(Encode(s)) + Len(u)
    BY <1>2, <2>1, ConcatProperties
  <2>4. Len(Append(s, c)) = Len(s) + 1 /\ Append(s, c) \in Seq(Code)
    OBVIOUS
  <2>5. Len(Encode(s)) \in Nat /\ Len(s) \in Nat
    BY <1>2, LenProperties
  <2>6. Len(Encode(s)) >= Len(s)
    BY <1>2
  <2>7. Len(Encode(Append(s, c))) >= Len(Append(s, c))
    BY <2>1, <2>2, <2>3, <2>4, <2>5, <2>6
  <2> QED
    BY <2>2, <2>3, <2>4, <2>7
<1> HIDE DEF G
<1>3. Seq(Code) \subseteq G
  BY <1>1, <1>2, SequenceInduction
<1> QED
  BY <1>3, LenProperties DEF G

LEMMA BytesAssociate ==
  ASSUME NEW a \in Seq(Byte), NEW b \in Seq(Byte), NEW c \in Seq(Byte)
  PROVE  (a \o b) \o c = a \o (b \o c)
BY ConcatAssociative

LEMMA EncodeConcat ==
  ASSUME NEW s \in Seq(Code), NEW t \in Seq(Code)
  PROVE  Encode(s \o t) = Encode(s) \o Encode(t)
<1> DEFINE G == {r \in Seq(Code) : Encode(s \o r) = Encode(s) \o Encode(r)}
<1>1. <<>> \in G
  BY EncodeEmpty, EncodeType, ConcatEmptySeq
<1>2. ASSUME NEW r \in Seq(Code), NEW c \in Code, r \in G PROVE Append(r, c) \in G
  <2> DEFINE u == mstr_as_utf8(c)
  <2>1. u \in Seq(Byte) /\ Encode(s) \in Seq(Byte) /\ Encode(r) \in Seq(Byte)
    BY EncodesCharacter, EncodeType DEF Character
  <2>2. s \o Append(r, c) = Append(s \o r, c) /\ s \o r \in Seq(Code)
    <3>1. Append(r, c) = r \o <<c>> /\ Append(s \o r, c) = (s \o r) \o <<c>>
      BY AppendIsConcat, ConcatProperties
    <3>2. <<c>> \in Seq(Code)
      OBVIOUS
    <3> QED
      BY <3>1, <3>2, ConcatAssociative, ConcatProperties
  <2>3. Encode(s \o Append(r, c)) = (Encode(s) \o Encode(r)) \o u
    BY <1>2, <2>2, EncodeAppend
  <2>4. Encode(Append(r, c)) = Encode(r) \o u
    BY EncodeAppend
  <2> HIDE DEF u
  <2>5. (Encode(s) \o Encode(r)) \o u = Encode(s) \o (Encode(r) \o u)
    BY <2>1, BytesAssociate
  <2>6. Encode(s \o Append(r, c)) = Encode(s) \o Encode(Append(r, c))
    BY <2>3, <2>4, <2>5
  <2> QED
    BY <2>6
<1> HIDE DEF G
<1>3. Seq(Code) \subseteq G
  BY <1>1, <1>2, SequenceInduction
<1> QED
  BY <1>3 DEF G

LEMMA EncodeCharacter ==
  ASSUME NEW c \in Code
  PROVE  <<c>> \in Seq(Code) /\ Encode(<<c>>) = mstr_as_utf8(c)
<1>1. <<c>> = Append(<<>>, c) /\ <<>> \in Seq(Code)
  OBVIOUS
<1>2. mstr_as_utf8(c) \in Seq(Byte)
  BY EncodesCharacter DEF Character
<1>3. Encode(<<c>>) = <<>> \o mstr_as_utf8(c)
  BY <1>1, EncodeAppend, EncodeEmpty
<1> QED
  BY <1>1, <1>2, <1>3, ConcatEmptySeq

--------------------------------------------------------------------------------
(* Where the characters of a text are.                                         *)

\* The offset of the character after the first k.
Offset(t, k) == Len(Encode(SubSeq(t, 1, k)))

LEMMA SplitText ==
  ASSUME NEW S, NEW t \in Seq(S), NEW k \in 0..Len(t)
  PROVE  /\ SubSeq(t, 1, k) \in Seq(S) /\ Len(SubSeq(t, 1, k)) = k
         /\ SubSeq(t, k + 1, Len(t)) \in Seq(S) /\ Len(SubSeq(t, k + 1, Len(t))) = Len(t) - k
         /\ t = SubSeq(t, 1, k) \o SubSeq(t, k + 1, Len(t))
         /\ \A i \in 1..k : SubSeq(t, 1, k)[i] = t[i]
         /\ \A i \in 1..(Len(t) - k) : SubSeq(t, k + 1, Len(t))[i] = t[k + i]
<1>1. Len(t) \in Nat /\ k \in Int /\ k + 1 \in Int /\ 1 \in Int
  BY LenProperties
<1>2. /\ SubSeq(t, 1, k) \in Seq(S) /\ Len(SubSeq(t, 1, k)) = k
      /\ \A i \in 1..k : SubSeq(t, 1, k)[i] = t[i]
  BY <1>1, SubSeqProperties, ElementOfSeq
<1>3. /\ SubSeq(t, k + 1, Len(t)) \in Seq(S) /\ Len(SubSeq(t, k + 1, Len(t))) = Len(t) - k
      /\ \A i \in 1..(Len(t) - k) : SubSeq(t, k + 1, Len(t))[i] = t[k + i]
  BY <1>1, SubSeqProperties, ElementOfSeq
<1>4. t = SubSeq(t, 1, k) \o SubSeq(t, k + 1, Len(t))
  <2>1. SubSeq(t, 1, k) \o SubSeq(t, k + 1, Len(t)) = SubSeq(t, 1, Len(t))
    <3>1. 1 \in 1..(Len(t) + 1) /\ k \in (1 - 1)..Len(t) /\ Len(t) \in k..Len(t)
      BY <1>1
    <3> QED
      BY <3>1, ConcatAdjacentSubSeq
  <2> QED
    BY <2>1, SubSeqFull
<1> QED
  BY <1>2, <1>3, <1>4

\* The character at k + 1 behind the ones before it.
LEMMA NextPrefix ==
  ASSUME NEW S, NEW t \in Seq(S), NEW k \in 0..(Len(t) - 1)
  PROVE  /\ t[k + 1] \in S
         /\ SubSeq(t, 1, k + 1) = Append(SubSeq(t, 1, k), t[k + 1])
         /\ SubSeq(t, k + 1, Len(t)) = <<t[k + 1]>> \o SubSeq(t, k + 2, Len(t))
<1>1. k + 1 \in 1..Len(t) /\ 1 \in 1..Len(t) /\ (k + 1) - 1 = k /\ (k + 1) + 1 = k + 2
      /\ Len(t) \in (k + 1)..Len(t) /\ k \in 0..Len(t)
  BY LenProperties
<1>2. t[k + 1] \in S
  BY <1>1, ElementOfSeq
<1>3. SubSeq(t, 1, k + 1) = SubSeq(t, 1, k) \o <<t[k + 1]>>
  BY <1>1, SubSeqRecursiveSecond
<1>4. SubSeq(t, 1, k) \o <<t[k + 1]>> = Append(SubSeq(t, 1, k), t[k + 1])
  BY <1>1, <1>2, SplitText, AppendIsConcat
<1>5. SubSeq(t, k + 1, Len(t)) = <<t[k + 1]>> \o SubSeq(t, (k + 1) + 1, Len(t))
  BY <1>1, SubSeqRecursiveFirst
<1> QED
  BY <1>1, <1>2, <1>3, <1>4, <1>5

\* The two parts of a sequence that was put together.
LEMMA FrontOfConcat ==
  ASSUME NEW S, NEW x \in Seq(S), NEW y \in Seq(S)
  PROVE  /\ SubSeq(x \o y, 1, Len(x)) = x
         /\ SubSeq(x \o y, Len(x) + 1, Len(x \o y)) = y
<1> DEFINE b == x \o y
<1>1. /\ b \in Seq(S) /\ Len(b) = Len(x) + Len(y)
      /\ \A i \in 1..(Len(x) + Len(y)) : b[i] = IF i <= Len(x) THEN x[i] ELSE y[i - Len(x)]
      /\ Len(x) \in Nat /\ Len(y) \in Nat
  BY ConcatProperties, LenProperties
<1> HIDE DEF b
<1>2. SubSeq(b, 1, Len(x)) = x
  BY <1>1, SplitText, SeqEqual
<1>3. SubSeq(b, Len(x) + 1, Len(b)) = y
  BY <1>1, SplitText, SeqEqual
<1> QED
  BY <1>2, <1>3 DEF b

LEMMA SplitBytes ==
  ASSUME NEW t \in Seq(Code), NEW k \in 0..Len(t)
  PROVE  LET b == Encode(t)
         IN  /\ Offset(t, k) \in 0..Len(b)
             /\ b = Encode(SubSeq(t, 1, k)) \o Encode(SubSeq(t, k + 1, Len(t)))
             /\ SubSeq(b, 1, Offset(t, k)) = Encode(SubSeq(t, 1, k))
             /\ SubSeq(b, Offset(t, k) + 1, Len(b)) = Encode(SubSeq(t, k + 1, Len(t)))
<1> DEFINE b == Encode(t)
           x == Encode(SubSeq(t, 1, k))
           y == Encode(SubSeq(t, k + 1, Len(t)))
<1>1. x \in Seq(Byte) /\ y \in Seq(Byte) /\ Len(x) \in Nat /\ Len(y) \in Nat
  BY SplitText, EncodeType
<1>2. b = x \o y
  BY SplitText, EncodeConcat
<1>3. Offset(t, k) = Len(x)
  BY DEF Offset
<1> HIDE DEF b, x, y
<1>4. Len(b) = Len(x) + Len(y) /\ b \in Seq(Byte)
  BY <1>1, <1>2, ConcatProperties
<1>5. SubSeq(b, 1, Len(x)) = x
  BY <1>1, <1>2, FrontOfConcat
<1>6. SubSeq(b, Len(x) + 1, Len(b)) = y
  BY <1>1, <1>2, FrontOfConcat
<1> QED
  BY <1>1, <1>2, <1>3, <1>4, <1>5, <1>6 DEF b, x, y

\* The character after the first k: where it begins, what its bytes are, how long
\* it is and what it decodes to.
LEMMA CharacterAt ==
  ASSUME NEW t \in Seq(Code), NEW k \in 0..(Len(t) - 1)
  PROVE  LET b == Encode(t)
             u == mstr_as_utf8(t[k + 1])
             o == Offset(t, k)
         IN  /\ Character(u)
             /\ o + Len(u) = Offset(t, k + 1)
             /\ o \in 0..(Len(b) - 1) /\ o + Len(u) <= Len(b)
             /\ \A j \in 1..Len(u) : b[o + j] = u[j]
             /\ mstr_char_length(b[o + 1]) = Len(u)
             /\ mstr_codepoint_of(SubSeq(b, o + 1, Len(b))) = t[k + 1]
             /\ mstr_codepoint_of(SubSeq(b, o + 1, o + Len(u))) = t[k + 1]
<1> DEFINE b == Encode(t)
           c == t[k + 1]
           u == mstr_as_utf8(c)
           o == Offset(t, k)
           x == Encode(SubSeq(t, 1, k))
           z == Encode(SubSeq(t, k + 2, Len(t)))
<1>0. k \in 0..Len(t) /\ k + 1 \in 0..Len(t) /\ (k + 1) + 1 = k + 2
  BY LenProperties
<1>1. c \in Code
  BY NextPrefix
<1>2. Character(u) /\ u \in Seq(Byte) /\ Len(u) \in 1..4 /\ mstr_char_length(u[1]) = Len(u)
  BY <1>1, EncodesCharacter, LeadTellsLength DEF Character
<1>3. x \in Seq(Byte) /\ z \in Seq(Byte) /\ Len(x) \in Nat /\ Len(z) \in Nat /\ o = Len(x)
  BY <1>0, SplitText, EncodeType DEF Offset
<1>4. Encode(SubSeq(t, 1, k + 1)) = x \o u
  <2>1. SubSeq(t, 1, k) \in Seq(Code)
    BY <1>0, SplitText
  <2>2. Encode(Append(SubSeq(t, 1, k), c)) = x \o u
    BY <1>1, <2>1, EncodeAppend
  <2>3. SubSeq(t, 1, k + 1) = Append(SubSeq(t, 1, k), c)
    BY NextPrefix
  <2> QED
    BY <2>2, <2>3
<1>5. Encode(SubSeq(t, k + 1, Len(t))) = u \o z
  <2>1. SubSeq(t, (k + 1) + 1, Len(t)) \in Seq(Code)
    BY <1>0, SplitText
  <2>2. <<c>> \in Seq(Code) /\ Encode(<<c>>) = u
    BY <1>1, EncodeCharacter
  <2>3. SubSeq(t, k + 2, Len(t)) \in Seq(Code)
    BY <1>0, <2>1
  <2>4. SubSeq(t, k + 1, Len(t)) = <<c>> \o SubSeq(t, k + 2, Len(t))
    BY NextPrefix
  <2>5. Encode(<<c>> \o SubSeq(t, k + 2, Len(t))) = Encode(<<c>>) \o z
    BY <2>2, <2>3, EncodeConcat
  <2> QED
    BY <2>2, <2>4, <2>5
<1>6. b = x \o (u \o z)
  BY <1>0, <1>5, SplitBytes
<1>7. SubSeq(b, o + 1, Len(b)) = u \o z
  BY <1>0, <1>5, SplitBytes
<1>8. mstr_codepoint_of(u \o z) = c /\ mstr_codepoint_of(u) = c
  BY <1>1, <1>3, DecodesFirst, EveryCodeRoundTrips DEF RoundTrips
<1>9. Offset(t, k + 1) = Len(x \o u)
  BY <1>4 DEF Offset
<1> HIDE DEF b, c, u, o, x, z
<1>10. /\ u \o z \in Seq(Byte) /\ Len(u \o z) = Len(u) + Len(z)
       /\ \A i \in 1..(Len(u) + Len(z)) :
             (u \o z)[i] = IF i <= Len(u) THEN u[i] ELSE z[i - Len(u)]
  BY <1>2, <1>3, ConcatProperties
<1>11. /\ Len(b) = Len(x) + Len(u \o z) /\ b \in Seq(Byte)
       /\ \A i \in 1..(Len(x) + Len(u \o z)) :
             b[i] = IF i <= Len(x) THEN x[i] ELSE (u \o z)[i - Len(x)]
  BY <1>3, <1>6, <1>10, ConcatProperties
<1>12. \A j \in 1..Len(u) : b[o + j] = u[j]
  <2> SUFFICES ASSUME NEW j \in 1..Len(u) PROVE b[o + j] = u[j]
    OBVIOUS
  <2>1. /\ o + j \in 1..(Len(x) + Len(u \o z)) /\ ~(o + j <= Len(x)) /\ (o + j) - Len(x) = j
        /\ j \in 1..(Len(u) + Len(z)) /\ j <= Len(u)
    BY <1>2, <1>3, <1>10
  <2>2. b[o + j] = (u \o z)[j]
    BY <1>11, <2>1
  <2> QED
    BY <1>10, <2>1, <2>2
<1>13. b[o + 1] = u[1]
  BY <1>2, <1>12
<1>14. o + Len(u) = Offset(t, k + 1)
  BY <1>2, <1>3, <1>9, ConcatProperties
<1>15. o \in 0..(Len(b) - 1) /\ o + Len(u) <= Len(b)
  <2>1. Len(b) = Len(x) + Len(u) + Len(z)
    BY <1>10, <1>11
  <2> QED
    BY <1>2, <1>3, <2>1
<1>16. SubSeq(b, o + 1, o + Len(u)) = u
  <2> DEFINE w == SubSeq(b, o + 1, o + Len(u))
  <2>1. w \in Seq(Byte) /\ Len(w) = Len(u) /\ \A i \in 1..Len(u) : w[i] = b[o + i]
    <3>1. /\ o + 1 \in Int /\ o + Len(u) \in Int
          /\ \A i \in (o + 1)..(o + Len(u)) : b[i] \in Byte
      BY <1>2, <1>11, <1>15, ElementOfSeq
    <3>2. /\ o + 1 <= o + Len(u) /\ (o + Len(u)) - (o + 1) + 1 = Len(u)
          /\ \A i \in 1..Len(u) : (o + 1) + i - 1 = o + i
      BY <1>2, <1>15
    <3> QED
      BY <3>1, <3>2, SubSeqProperties
  <2> HIDE DEF w
  <2>2. w = u
    BY <1>2, <1>12, <2>1, SeqEqual
  <2> QED
    BY <2>2 DEF w
<1> QED
  BY <1>2, <1>7, <1>8, <1>12, <1>13, <1>14, <1>15, <1>16 DEF b, c, u, o

LEMMA OffsetEnds ==
  ASSUME NEW t \in Seq(Code)
  PROVE  Offset(t, 0) = 0 /\ Offset(t, Len(t)) = Len(Encode(t))
<1>1. SubSeq(t, 1, 0) = <<>>
  BY SubSeqEmpty
<1>2. SubSeq(t, 1, Len(t)) = t
  BY SubSeqFull
<1>3. Offset(t, 0) = Len(<<>>) /\ Offset(t, Len(t)) = Len(Encode(t))
  BY <1>1, <1>2, EncodeEmpty, Zenon DEF Offset
<1> QED
  BY <1>3, EmptySeq

LEMMA OffsetIncreases ==
  ASSUME NEW t \in Seq(Code), NEW i \in 0..Len(t), NEW j \in 0..Len(t), i < j
  PROVE  Offset(t, i) < Offset(t, j)
<1> DEFINE G == {d \in Nat : i + d + 1 <= Len(t) => Offset(t, i) < Offset(t, i + d + 1)}
<1>0. Len(t) \in Nat /\ \A k \in 0..Len(t) : Offset(t, k) \in Int
  BY LenProperties, SplitBytes, EncodeType
<1>1. \A k \in 0..(Len(t) - 1) : Offset(t, k) < Offset(t, k + 1)
  <2> SUFFICES ASSUME NEW k \in 0..(Len(t) - 1) PROVE Offset(t, k) < Offset(t, k + 1)
    OBVIOUS
  <2> DEFINE n == Len(mstr_as_utf8(t[k + 1]))
  <2>1. n \in 1..4 /\ Offset(t, k) + n = Offset(t, k + 1)
    BY CharacterAt DEF Character
  <2>2. Offset(t, k) \in Int
    BY <1>0
  <2> HIDE DEF n
  <2> QED
    BY <2>1, <2>2
<1>2. 0 \in G
  BY <1>0, <1>1
<1>3. ASSUME NEW d \in Nat, d \in G PROVE d + 1 \in G
  <2>1. SUFFICES ASSUME i + (d + 1) + 1 <= Len(t)
                 PROVE  Offset(t, i) < Offset(t, i + (d + 1) + 1)
    OBVIOUS
  <2> DEFINE k == i + d + 1
  <2>2. /\ k \in 0..(Len(t) - 1) /\ k \in 0..Len(t) /\ k + 1 \in 0..Len(t)
        /\ k + 1 = i + (d + 1) + 1 /\ k <= Len(t)
    BY <1>0, <2>1
  <2>3. Offset(t, i) < Offset(t, k)
    BY <1>3, <2>2
  <2> HIDE DEF k
  <2>4. Offset(t, k) < Offset(t, k + 1)
    BY <1>1, <2>2
  <2>5. Offset(t, i) < Offset(t, k + 1)
    BY <1>0, <2>2, <2>3, <2>4
  <2> QED
    BY <2>2, <2>5
<1> HIDE DEF G
<1>4. Nat \subseteq G
  BY <1>2, <1>3, NumberInduction
<1>5. PICK d \in Nat : i + d + 1 = j
  <2>1. j - i - 1 \in Nat /\ i + (j - i - 1) + 1 = j
    BY <1>0
  <2> QED
    BY <2>1
<1>6. d \in G
  BY <1>4
<1>7. i + d + 1 <= Len(t) => Offset(t, i) < Offset(t, i + d + 1)
  BY <1>6 DEF G
<1> HIDE DEF G
<1>8. j <= Len(t)
  BY <1>0
<1> QED
  BY <1>5, <1>7, <1>8

\* Every byte belongs to one of the characters.
LEMMA Located ==
  ASSUME NEW t \in Seq(Code), NEW p \in 0..(Len(Encode(t)) - 1)
  PROVE  \E k \in 0..(Len(t) - 1) :
            /\ p \in Offset(t, k)..(Offset(t, k + 1) - 1)
            /\ p # Offset(t, k) => Encode(t)[p + 1] \in 128..191
<1> DEFINE b == Encode(t)
           Above == {k \in 0..Len(t) : Offset(t, k) > p}
<1>0. /\ Len(t) \in Nat /\ Len(b) \in Nat
      /\ \A k \in 0..Len(t) : Offset(t, k) \in 0..Len(b)
  BY LenProperties, SplitBytes, EncodeType
<1>1. Len(t) \in Above /\ 0 \notin Above
  BY <1>0, OffsetEnds
<1>2. PICK n \in Above : \A m \in Above : n <= m
  <2>1. Above \in SUBSET Nat /\ Above # {}
    BY <1>1
  <2> HIDE DEF Above
  <2> QED
    BY <2>1, LeastPlace
<1> DEFINE k == n - 1
<1>3. k \in 0..(Len(t) - 1) /\ k \in 0..Len(t) /\ k + 1 = n /\ k \notin Above
  BY <1>0, <1>1, <1>2
<1>4. p \in Offset(t, k)..(Offset(t, k + 1) - 1)
  <2>1. ~(Offset(t, k) > p) /\ Offset(t, k + 1) > p
    BY <1>2, <1>3
  <2>2. Offset(t, k) \in Int /\ Offset(t, k + 1) \in Int /\ p \in Int
    BY <1>0, <1>2, <1>3
  <2> HIDE DEF k
  <2> QED
    BY <2>1, <2>2
<1> HIDE DEF k, Above
<1>5. p # Offset(t, k) => b[p + 1] \in 128..191
  <2> DEFINE u == mstr_as_utf8(t[k + 1])
             j == p - Offset(t, k) + 1
  <2>1. /\ Character(u) /\ Offset(t, k) + Len(u) = Offset(t, k + 1)
        /\ \A i \in 1..Len(u) : b[Offset(t, k) + i] = u[i]
    BY <1>3, CharacterAt
  <2>2. Offset(t, k) \in Nat /\ Len(u) \in Nat
    BY <1>0, <1>3, <2>1 DEF Character
  <2> HIDE DEF u
  <2>3. SUFFICES ASSUME p # Offset(t, k) PROVE b[p + 1] \in 128..191
    OBVIOUS
  <2>4. j \in 2..Len(u) /\ j \in 1..Len(u) /\ Offset(t, k) + j = p + 1
    BY <1>4, <2>1, <2>2, <2>3
  <2>5. u[j] \in 128..191
    BY <2>1, <2>4 DEF Character
  <2>6. b[Offset(t, k) + j] = u[j]
    BY <2>1, <2>4
  <2> QED
    BY <2>4, <2>5, <2>6
<1> QED
  BY <1>3, <1>4, <1>5

--------------------------------------------------------------------------------
(* The walks.                                                                  *)

\* mstr_char_offset_at finds the character.
LEMMA OffsetFound ==
  ASSUME NEW t \in Seq(Code), NEW idx \in 0..Len(t)
  PROVE  mstr_char_offset_at(Encode(t), idx) = Offset(t, idx)
<1> DEFINE b == Encode(t)
           Walks(f) == f = [i \in 0..idx |->
                              IF i = 0 THEN 0
                              ELSE f[i - 1] + mstr_char_length(b[f[i - 1] + 1])]
           offset[i \in 0..idx] ==
             IF i = 0 THEN 0 ELSE offset[i - 1] + mstr_char_length(b[offset[i - 1] + 1])
           g == [i \in 0..idx |-> Offset(t, i)]
<1>0. Len(t) \in Nat
  BY LenProperties
<1>1. mstr_char_offset_at(b, idx) = offset[idx]
  BY DEF mstr_char_offset_at
<1>2. \A i \in 1..idx : Offset(t, i) = Offset(t, i - 1) + mstr_char_length(b[Offset(t, i - 1) + 1])
  <2> SUFFICES ASSUME NEW i \in 1..idx
               PROVE  Offset(t, i) = Offset(t, i - 1) + mstr_char_length(b[Offset(t, i - 1) + 1])
    OBVIOUS
  <2>1. i - 1 \in 0..(Len(t) - 1) /\ (i - 1) + 1 = i
    BY <1>0
  <2> QED
    BY <2>1, CharacterAt
<1>3. Walks(g)
  <2>1. \A i \in 0..idx : g[i] = IF i = 0 THEN 0
                                 ELSE g[i - 1] + mstr_char_length(b[g[i - 1] + 1])
    BY <1>2, OffsetEnds
  <2> QED
    BY <2>1
<1>4. Walks(offset)
  BY <1>3
<1> HIDE DEF offset
<1> DEFINE G == {i \in Nat : i <= idx => offset[i] = Offset(t, i)}
<1>5. 0 \in G
  BY <1>4, OffsetEnds
<1>6. ASSUME NEW i \in Nat, i \in G PROVE i + 1 \in G
  <2>1. SUFFICES ASSUME i + 1 <= idx PROVE offset[i + 1] = Offset(t, i + 1)
    OBVIOUS
  <2>2. i + 1 \in 1..idx /\ i + 1 \in 0..idx /\ i + 1 # 0 /\ (i + 1) - 1 = i /\ i <= idx
    BY <1>0, <2>1
  <2>3. offset[i + 1] = offset[i] + mstr_char_length(b[offset[i] + 1])
    BY <1>4, <2>2
  <2>4. offset[i] = Offset(t, i)
    BY <1>6, <2>2
  <2> QED
    BY <1>2, <2>2, <2>3, <2>4
<1> HIDE DEF G
<1>7. Nat \subseteq G
  BY <1>5, <1>6, NumberInduction
<1> QED
  BY <1>1, <1>7 DEF G

\* The number of characters that begin before the offset e.
Reaches(t, e, j) ==
  /\ j \in 0..Len(t)
  /\ Offset(t, j) >= e
  /\ \A i \in 0..(j - 1) : Offset(t, i) < e

LEMMA ReachExists ==
  ASSUME NEW t \in Seq(Code), NEW e \in 0..Len(Encode(t))
  PROVE  \E j : Reaches(t, e, j)
<1> DEFINE Past == {k \in 0..Len(t) : Offset(t, k) >= e}
<1>0. /\ Len(t) \in Nat /\ Len(Encode(t)) \in Nat
      /\ \A k \in 0..Len(t) : Offset(t, k) \in 0..Len(Encode(t))
  BY LenProperties, SplitBytes, EncodeType
<1>1. Past \in SUBSET Nat /\ Len(t) \in Past
  BY <1>0, OffsetEnds
<1>2. PICK j \in Past : \A m \in Past : j <= m
  <2> HIDE DEF Past
  <2> QED
    BY <1>1, LeastPlace
<1>3. \A i \in 0..(j - 1) : Offset(t, i) < e
  <2> SUFFICES ASSUME NEW i \in 0..(j - 1) PROVE Offset(t, i) < e
    OBVIOUS
  <2>1. i \in 0..Len(t) /\ ~(j <= i)
    BY <1>0, <1>2
  <2>2. i \notin Past
    BY <1>2, <2>1
  <2> QED
    BY <1>0, <2>1, <2>2
<1> QED
  BY <1>2, <1>3 DEF Reaches

\* mstr_strlen counts them, tells where the last one ends, and whether that is e.
LEMMA StrlenMeasures ==
  ASSUME NEW t \in Seq(Code), NEW e \in 0..Len(Encode(t)), NEW j, Reaches(t, e, j)
  PROVE  mstr_strlen(Encode(t), e) =
           [length |-> j, count |-> Offset(t, j), complete |-> Offset(t, j) = e]
<1> DEFINE b == Encode(t)
           Reply(n, p) == [length |-> n, count |-> p, complete |-> p = e]
           Stop == Offset(t, j)
           Longer(rest) == [rest EXCEPT !.length = @ + 1]
           Walks(f) == f = [p \in 0..Len(b) |->
                              IF p >= e THEN Reply(0, p)
                              ELSE Longer(f[p + mstr_char_length(b[p + 1])])]
           walk[p \in 0..Len(b)] ==
             IF p >= e
             THEN [length |-> 0, count |-> p, complete |-> p = e]
             ELSE LET rest == walk[p + mstr_char_length(b[p + 1])]
                  IN  [rest EXCEPT !.length = @ + 1]
           g == [p \in 0..Len(b) |->
                   IF p >= e THEN Reply(0, p)
                   ELSE IF \E k \in 0..j : p = Offset(t, k)
                   THEN Reply(j - (CHOOSE k \in 0..j : p = Offset(t, k)), Stop)
                   ELSE <<>>]
<1>0. /\ Len(t) \in Nat /\ Len(b) \in Nat /\ j \in 0..Len(t) /\ e \in Nat
      /\ \A k \in 0..Len(t) : Offset(t, k) \in 0..Len(b)
      /\ Stop >= e /\ Stop \in 0..Len(b)
      /\ \A i \in 0..(j - 1) : Offset(t, i) < e
  BY LenProperties, SplitBytes, EncodeType DEF Reaches
<1>1. mstr_strlen(b, e) = walk[0]
  BY DEF mstr_strlen
<1>2. \A n, p : Longer(Reply(n, p)) = Reply(n + 1, p)
  OBVIOUS
<1>3. \A k \in 0..(j - 1) : Offset(t, k + 1) = Offset(t, k) + mstr_char_length(b[Offset(t, k) + 1])
  <2> SUFFICES ASSUME NEW k \in 0..(j - 1)
               PROVE  Offset(t, k + 1) = Offset(t, k) + mstr_char_length(b[Offset(t, k) + 1])
    OBVIOUS
  <2>1. k \in 0..(Len(t) - 1)
    BY <1>0
  <2> QED
    BY <2>1, CharacterAt
<1>4. \A k \in 0..(j - 1) : g[Offset(t, k)] = Reply(j - k, Stop)
  <2> SUFFICES ASSUME NEW k \in 0..(j - 1) PROVE g[Offset(t, k)] = Reply(j - k, Stop)
    OBVIOUS
  <2>1. k \in 0..j /\ Offset(t, k) \in 0..Len(b) /\ Offset(t, k) < e /\ ~(Offset(t, k) >= e)
    BY <1>0
  <2> DEFINE m == CHOOSE i \in 0..j : Offset(t, k) = Offset(t, i)
  <2>2. m \in 0..j /\ Offset(t, k) = Offset(t, m)
    BY <2>1
  <2>3. g[Offset(t, k)] = Reply(j - m, Stop)
    BY <2>1
  <2> HIDE DEF m, g
  <2>4. k \in 0..Len(t) /\ m \in 0..Len(t)
    BY <1>0, <2>1, <2>2
  <2>5. m = k
    <3>1. ~(m < k) /\ ~(k < m)
      <4>1. Offset(t, k) \in Int /\ Offset(t, m) \in Int
        BY <1>0, <2>4
      <4> QED
        BY <2>2, <2>4, <4>1, OffsetIncreases
    <3> QED
      BY <2>4, <3>1
  <2> QED
    BY <2>3, <2>5
<1>5. g[Stop] = Reply(0, Stop)
  BY <1>0
<1>6. \A p \in 0..Len(b) : g[p] = IF p >= e THEN Reply(0, p)
                                  ELSE Longer(g[p + mstr_char_length(b[p + 1])])
  <2> SUFFICES ASSUME NEW p \in 0..Len(b), ~(p >= e)
               PROVE  g[p] = Longer(g[p + mstr_char_length(b[p + 1])])
    OBVIOUS
  <2>1. CASE \E k \in 0..j : p = Offset(t, k)
    <3>1. PICK k \in 0..j : p = Offset(t, k)
      BY <2>1
    <3>2. k \in 0..(j - 1)
      BY <1>0, <3>1
    <3>3. p + mstr_char_length(b[p + 1]) = Offset(t, k + 1)
      BY <1>3, <3>1, <3>2
    <3>4. g[p] = Reply(j - k, Stop)
      BY <1>4, <3>1, <3>2
    <3>5. g[Offset(t, k + 1)] = Reply(j - (k + 1), Stop)
      <4> HIDE DEF g, Reply
      <4>1. CASE k + 1 = j
        <5>1. j - (k + 1) = 0
          BY <1>0, <4>1
        <5> QED
          BY <1>5, <4>1, <5>1
      <4>2. CASE k + 1 # j
        <5>1. k + 1 \in 0..(j - 1)
          BY <1>0, <3>2, <4>2
        <5> QED
          BY <1>4, <5>1
      <4> QED
        BY <4>1, <4>2
    <3>6. (j - (k + 1)) + 1 = j - k
      BY <1>0, <3>1
    <3> HIDE DEF g, Reply, Longer
    <3> QED
      BY <1>2, <3>3, <3>4, <3>5, <3>6
  <2>2. CASE ~(\E k \in 0..j : p = Offset(t, k))
    <3>1. g[p] = <<>>
      BY <2>2
    <3>2. b[p + 1] \in 128..191
      <4>1. p \in 0..(Len(b) - 1)
        BY <1>0
      <4>2. PICK k \in 0..(Len(t) - 1) :
              /\ p \in Offset(t, k)..(Offset(t, k + 1) - 1)
              /\ p # Offset(t, k) => b[p + 1] \in 128..191
        BY <4>1, Located
      <4>3. k \in 0..j
        <5> HIDE DEF g
        <5>1. SUFFICES ASSUME k > j PROVE FALSE
          BY <1>0
        <5>2. j < k /\ k \in 0..Len(t)
          BY <1>0, <5>1
        <5>3. Stop < Offset(t, k)
          BY <1>0, <5>2, OffsetIncreases
        <5> QED
          BY <1>0, <4>2, <5>2, <5>3
      <4> QED
        BY <2>2, <4>2, <4>3
    <3>3. mstr_char_length(b[p + 1]) = 0
      BY <3>2, LengthByLead
    <3>4. p + mstr_char_length(b[p + 1]) = p
      BY <3>3
    <3>5. Longer(<<>>) = <<>>
      OBVIOUS
    <3> QED
      BY <3>1, <3>4, <3>5
  <2> QED
    BY <2>1, <2>2
<1>7. Walks(g)
  <2>1. g = [p \in 0..Len(b) |-> g[p]]
    OBVIOUS
  <2> HIDE DEF g, Reply, Longer
  <2> QED
    BY <1>6, <2>1
<1>8. Walks(walk)
  <2> HIDE DEF g
  <2> QED
    BY <1>7
<1> HIDE DEF walk, g
<1> DEFINE G == {d \in Nat : d <= j => walk[Offset(t, j - d)] = Reply(d, Stop)}
<1>9. 0 \in G
  <2>1. j - 0 = j
    BY <1>0
  <2>2. walk[Stop] = Reply(0, Stop)
    BY <1>0, <1>8
  <2> QED
    BY <2>1, <2>2
<1>10. ASSUME NEW d \in Nat, d \in G PROVE d + 1 \in G
  <2>1. SUFFICES ASSUME d + 1 <= j PROVE walk[Offset(t, j - (d + 1))] = Reply(d + 1, Stop)
    OBVIOUS
  <2> DEFINE k == j - (d + 1)
  <2>2. /\ k \in 0..(j - 1) /\ k + 1 = j - d /\ d <= j /\ k \in 0..Len(t)
    BY <1>0, <2>1
  <2> HIDE DEF k
  <2>3. Offset(t, k) \in 0..Len(b) /\ ~(Offset(t, k) >= e)
    BY <1>0, <2>2
  <2>4. walk[Offset(t, k)] = Longer(walk[Offset(t, k) + mstr_char_length(b[Offset(t, k) + 1])])
    BY <1>8, <2>3
  <2>5. walk[Offset(t, k)] = Longer(walk[Offset(t, k + 1)])
    BY <1>3, <2>2, <2>4
  <2>6. walk[Offset(t, k + 1)] = Reply(d, Stop)
    BY <1>10, <2>2
  <2> HIDE DEF Longer, Reply
  <2>7. walk[Offset(t, k)] = Reply(d + 1, Stop)
    BY <1>2, <2>5, <2>6
  <2> QED
    BY <2>7 DEF k
<1> HIDE DEF G
<1>11. Nat \subseteq G
  BY <1>9, <1>10, NumberInduction
<1>12. j \in Nat /\ j <= j /\ j - j = 0 /\ Offset(t, 0) = 0
  BY <1>0, OffsetEnds
<1>13. walk[0] = Reply(j, Stop)
  BY <1>11, <1>12 DEF G
<1> QED
  BY <1>1, <1>13

LEMMA StrlenWhole ==
  ASSUME NEW t \in Seq(Code)
  PROVE  mstr_strlen(Encode(t), Len(Encode(t))) =
           [length |-> Len(t), count |-> Len(Encode(t)), complete |-> TRUE]
<1>1. /\ Len(t) \in 0..Len(t) /\ Len(Encode(t)) \in 0..Len(Encode(t))
      /\ Offset(t, Len(t)) = Len(Encode(t))
  BY LenProperties, EncodeType, OffsetEnds
<1>2. \A i \in 0..(Len(t) - 1) : Offset(t, i) < Len(Encode(t))
  <2> SUFFICES ASSUME NEW i \in 0..(Len(t) - 1) PROVE Offset(t, i) < Len(Encode(t))
    OBVIOUS
  <2>1. i \in 0..Len(t) /\ i < Len(t)
    BY <1>1
  <2> QED
    BY <1>1, <2>1, OffsetIncreases
<1>3. Reaches(t, Len(Encode(t)), Len(t))
  BY <1>1, <1>2 DEF Reaches
<1>4. mstr_strlen(Encode(t), Len(Encode(t))) =
        [length |-> Len(t), count |-> Offset(t, Len(t)),
         complete |-> Offset(t, Len(t)) = Len(Encode(t))]
  <2> DEFINE e == Len(Encode(t))
             n == Len(t)
  <2>1. e \in 0..Len(Encode(t)) /\ Reaches(t, e, n)
    BY <1>1, <1>3
  <2> HIDE DEF e, n
  <2>2. mstr_strlen(Encode(t), e) =
          [length |-> n, count |-> Offset(t, n), complete |-> Offset(t, n) = e]
    BY <2>1, StrlenMeasures
  <2> QED
    BY <2>2 DEF e, n
<1> QED
  BY <1>1, <1>4

\* mstr_lead_char_offset, asked at the end of a character, leads to its beginning.
LEMMA LeadFound ==
  ASSUME NEW t \in Seq(Code), NEW k \in 0..(Len(t) - 1)
  PROVE  LET p == Offset(t, k + 1)
         IN  mstr_lead_char_offset(Encode(t), p - 1, p) = p - Offset(t, k)
<1> DEFINE b == Encode(t)
           u == mstr_as_utf8(t[k + 1])
           o == Offset(t, k)
           p == Offset(t, k + 1)
           n == IF p > 6 THEN 6 ELSE p
           m == Len(u)
           stops == {i \in 0..(n - 1) : b[(p - 1) - i + 1] < 128 \/ b[(p - 1) - i + 1] >= 192}
<1>1. /\ Character(u) /\ p = o + m
      /\ \A j \in 1..m : b[o + j] = u[j]
  BY CharacterAt
<1>2. m \in 1..4 /\ o \in Nat
  <2>1. k \in 0..Len(t)
    BY LenProperties
  <2> QED
    BY <1>1, <2>1, SplitBytes, EncodeType DEF Character
<1>3. u[1] \in Int /\ (u[1] < 128 \/ u[1] >= 192)
  BY <1>1, LeadOutside
<1>4. \A j \in 2..m : u[j] \in 128..191
  BY <1>1 DEF Character
<1>5. mstr_lead_char_offset(b, p - 1, p) = IF stops = {} THEN n ELSE Min(stops) + 1
  BY DEF mstr_lead_char_offset
<1> HIDE DEF b, u, o, p, m
<1>6. n \in Nat /\ n >= m /\ p \in Nat
  BY <1>1, <1>2
<1>7. \A i \in 0..(m - 1) : b[(p - 1) - i + 1] = u[m - i]
  <2> SUFFICES ASSUME NEW i \in 0..(m - 1) PROVE b[(p - 1) - i + 1] = u[m - i]
    OBVIOUS
  <2>1. m - i \in 1..m /\ (p - 1) - i + 1 = o + (m - i)
    BY <1>1, <1>2
  <2> QED
    BY <1>1, <2>1
<1>8. m - 1 \in stops
  <2>1. m - 1 \in 0..(n - 1) /\ m - (m - 1) = 1 /\ m - 1 \in 0..(m - 1)
    BY <1>2, <1>6
  <2>2. b[(p - 1) - (m - 1) + 1] = u[1]
    BY <1>7, <2>1
  <2>3. (p - 1) - (m - 1) \in Int
    BY <1>2, <1>6
  <2>4. b[(p - 1) - (m - 1) + 1] < 128 \/ b[(p - 1) - (m - 1) + 1] >= 192
    BY <1>3, <2>2
  <2> HIDE DEF n
  <2> QED
    BY <2>1, <2>4
<1>9. \A i \in stops : m - 1 <= i
  <2> SUFFICES ASSUME NEW i \in stops, i < m - 1 PROVE FALSE
    BY <1>2, <1>6
  <2>1. i \in 0..(m - 1) /\ m - i \in 2..m
    BY <1>2, <1>6
  <2> DEFINE x == b[(p - 1) - i + 1]
  <2>2. x \in 128..191
    BY <1>4, <1>7, <2>1
  <2>3. x < 128 \/ x >= 192
    OBVIOUS
  <2> HIDE DEF stops, x
  <2> QED
    BY <2>2, <2>3
<1>10. Min(stops) = m - 1
  <2>1. stops \subseteq Int
    BY <1>6
  <2> HIDE DEF stops
  <2> DEFINE r == Min(stops)
  <2>2. r \in stops /\ \A i \in stops : r <= i
    BY <1>8, <1>9 DEF Min
  <2> HIDE DEF r
  <2>3. r = m - 1
    BY <1>2, <1>8, <1>9, <2>1, <2>2
  <2> QED
    BY <2>3 DEF r
<1>11. (IF stops = {} THEN n ELSE Min(stops) + 1) = p - o
  <2> HIDE DEF stops, n
  <2> QED
    BY <1>1, <1>2, <1>8, <1>10
<1>12. mstr_lead_char_offset(b, p - 1, p) = p - o
  <2> HIDE DEF stops, n
  <2> QED
    BY <1>5, <1>11
<1> QED
  BY <1>12 DEF b, p, o

--------------------------------------------------------------------------------
(* A text is determined by its bytes.                                          *)

\* Bytes that begin with the bytes of a text are those of a text that begins with it.
LEMMA PrefixTexts ==
  ASSUME NEW s \in Seq(Code), NEW t \in Seq(Code), NEW rest \in Seq(Byte),
         Encode(t) = Encode(s) \o rest
  PROVE  Len(s) <= Len(t) /\ \A i \in 1..Len(s) : s[i] = t[i]
<1> DEFINE G == {k \in Nat : k <= Len(s) => /\ k <= Len(t)
                                            /\ Offset(s, k) = Offset(t, k)
                                            /\ \A i \in 1..k : s[i] = t[i]}
<1>0. /\ Len(s) \in Nat /\ Len(t) \in Nat
      /\ Encode(s) \in Seq(Byte) /\ Len(Encode(s)) \in Nat
      /\ Len(Encode(t)) = Len(Encode(s)) + Len(rest) /\ Len(rest) \in Nat
      /\ \A i \in 1..Len(Encode(s)) : Encode(t)[i] = Encode(s)[i]
  BY LenProperties, EncodeType, ConcatProperties
<1>1. 0 \in G
  BY <1>0, OffsetEnds
<1>2. ASSUME NEW k \in Nat, k \in G PROVE k + 1 \in G
  <2>1. SUFFICES ASSUME k + 1 <= Len(s)
                 PROVE  /\ k + 1 <= Len(t)
                        /\ Offset(s, k + 1) = Offset(t, k + 1)
                        /\ \A i \in 1..(k + 1) : s[i] = t[i]
    OBVIOUS
  <2>2. /\ k <= Len(t) /\ Offset(s, k) = Offset(t, k)
        /\ \A i \in 1..k : s[i] = t[i]
    BY <1>0, <1>2, <2>1
  <2> DEFINE o == Offset(s, k)
             u == mstr_as_utf8(s[k + 1])
             v == mstr_as_utf8(t[k + 1])
  <2>3. k \in 0..(Len(s) - 1)
    BY <1>0, <2>1
  <2>4. /\ Character(u) /\ o + Len(u) = Offset(s, k + 1)
        /\ o \in 0..(Len(Encode(s)) - 1) /\ o + Len(u) <= Len(Encode(s))
        /\ \A j \in 1..Len(u) : Encode(s)[o + j] = u[j]
        /\ mstr_char_length(Encode(s)[o + 1]) = Len(u)
    BY <2>3, CharacterAt
  <2>5. k # Len(t)
    <3>1. k = Len(t) => o = Len(Encode(t))
      BY <2>2, OffsetEnds
    <3> HIDE DEF o, u
    <3> QED
      BY <1>0, <2>4, <3>1
  <2>6. k \in 0..(Len(t) - 1)
    BY <1>0, <2>2, <2>5
  <2>7. /\ Character(v) /\ o + Len(v) = Offset(t, k + 1)
        /\ \A j \in 1..Len(v) : Encode(t)[o + j] = v[j]
        /\ mstr_char_length(Encode(t)[o + 1]) = Len(v)
    BY <2>2, <2>6, CharacterAt
  <2>8. /\ mstr_codepoint_of(u) = s[k + 1] /\ mstr_codepoint_of(v) = t[k + 1]
    <3>1. s[k + 1] \in Code /\ t[k + 1] \in Code
      BY <2>3, <2>6, NextPrefix
    <3> QED
      BY <3>1, EveryCodeRoundTrips DEF RoundTrips
  <2>9. u \in Seq(Byte) /\ v \in Seq(Byte) /\ Len(u) \in 1..4 /\ Len(v) \in 1..4
    BY <2>4, <2>7 DEF Character
  <2> HIDE DEF o, u, v
  <2>10. o + 1 \in 1..Len(Encode(s))
    BY <1>0, <2>4
  <2>11. Len(u) = Len(v)
    BY <1>0, <2>4, <2>7, <2>10
  <2>12. \A j \in 1..Len(u) : u[j] = v[j]
    <3> SUFFICES ASSUME NEW j \in 1..Len(u) PROVE u[j] = v[j]
      OBVIOUS
    <3>1. o + j \in 1..Len(Encode(s))
      BY <1>0, <2>4, <2>9
    <3> QED
      BY <1>0, <2>4, <2>7, <2>11, <3>1
  <2>13. u = v
    BY <2>9, <2>11, <2>12, SeqEqual
  <2>14. s[k + 1] = t[k + 1]
    BY <2>8, <2>13
  <2>15. \A i \in 1..(k + 1) : i \in 1..k \/ i = k + 1
    OBVIOUS
  <2>16. k + 1 <= Len(t)
    BY <1>0, <2>6
  <2>17. Offset(s, k + 1) = Offset(t, k + 1)
    BY <2>4, <2>7, <2>11
  <2> QED
    BY <2>2, <2>14, <2>15, <2>16, <2>17
<1> HIDE DEF G
<1>3. Nat \subseteq G
  BY <1>1, <1>2, NumberInduction
<1> QED
  BY <1>0, <1>3 DEF G

LEMMA EncodeInjective ==
  ASSUME NEW s \in Seq(Code), NEW t \in Seq(Code), Encode(s) = Encode(t)
  PROVE  s = t
<1>1. /\ <<>> \in Seq(Byte) /\ Encode(s) \in Seq(Byte) /\ Encode(t) \in Seq(Byte)
      /\ Encode(t) \o <<>> = Encode(t) /\ Encode(s) \o <<>> = Encode(s)
  BY EncodeType, EmptySeq, ConcatEmptySeq
<1>2. Len(s) <= Len(t) /\ \A i \in 1..Len(s) : s[i] = t[i]
  BY <1>1, PrefixTexts
<1>3. Len(t) <= Len(s)
  BY <1>1, PrefixTexts
<1>4. Len(s) = Len(t)
  BY <1>2, <1>3, LenProperties
<1> QED
  BY <1>2, <1>4, SeqEqual

--------------------------------------------------------------------------------
(* Reversal.                                                                   *)

LEMMA ReverseProperties ==
  ASSUME NEW S, NEW s \in Seq(S)
  PROVE  /\ Reverse(s) \in Seq(S) /\ Len(Reverse(s)) = Len(s)
         /\ \A i \in 1..Len(s) : Reverse(s)[i] = s[(Len(s) - i) + 1]
<1>1. Len(s) \in Nat /\ \A i \in 1..Len(s) : s[(Len(s) - i) + 1] \in S
  <2>1. \A i \in 1..Len(s) : (Len(s) - i) + 1 \in 1..Len(s)
    BY LenProperties
  <2> QED
    BY <2>1, LenProperties, ElementOfSeq
<1> QED
  BY <1>1 DEF Reverse

LEMMA ReverseConcat ==
  ASSUME NEW S, NEW x \in Seq(S), NEW y \in Seq(S)
  PROVE  Reverse(x \o y) = Reverse(y) \o Reverse(x)
<1> DEFINE b == x \o y
           p == Reverse(x)
           q == Reverse(y)
           r == Reverse(b)
           w == q \o p
<1>1. /\ b \in Seq(S) /\ Len(b) = Len(x) + Len(y) /\ Len(x) \in Nat /\ Len(y) \in Nat
      /\ \A i \in 1..(Len(x) + Len(y)) : b[i] = IF i <= Len(x) THEN x[i] ELSE y[i - Len(x)]
  BY ConcatProperties, LenProperties
<1>2. /\ p \in Seq(S) /\ Len(p) = Len(x)
      /\ \A i \in 1..Len(x) : p[i] = x[(Len(x) - i) + 1]
  BY ReverseProperties
<1>3. /\ q \in Seq(S) /\ Len(q) = Len(y)
      /\ \A i \in 1..Len(y) : q[i] = y[(Len(y) - i) + 1]
  BY ReverseProperties
<1> HIDE DEF b
<1>4. /\ r \in Seq(S) /\ Len(r) = Len(b)
      /\ \A i \in 1..Len(b) : r[i] = b[(Len(b) - i) + 1]
  BY <1>1, ReverseProperties
<1> HIDE DEF p, q, r
<1>5. /\ w \in Seq(S) /\ Len(w) = Len(q) + Len(p)
      /\ \A i \in 1..(Len(q) + Len(p)) : w[i] = IF i <= Len(q) THEN q[i] ELSE p[i - Len(q)]
  <2>1. q \in Seq(S) /\ p \in Seq(S)
    BY <1>2, <1>3
  <2> QED
    BY <2>1, ConcatProperties
<1> HIDE DEF w
<1>6. \A i \in 1..Len(b) : r[i] = w[i]
  <2> SUFFICES ASSUME NEW i \in 1..Len(b) PROVE r[i] = w[i]
    OBVIOUS
  <2>1. (Len(b) - i) + 1 \in 1..(Len(x) + Len(y)) /\ i \in 1..(Len(q) + Len(p))
    BY <1>1, <1>2, <1>3
  <2>2. CASE i <= Len(y)
    <3>1. i \in 1..Len(y) /\ ~((Len(b) - i) + 1 <= Len(x))
          /\ ((Len(b) - i) + 1) - Len(x) = (Len(y) - i) + 1
      BY <1>1, <2>2
    <3>2. r[i] = y[(Len(y) - i) + 1]
      BY <1>1, <1>4, <2>1, <3>1
    <3> QED
      BY <1>3, <1>5, <2>1, <2>2, <3>1, <3>2
  <2>3. CASE ~(i <= Len(y))
    <3>1. /\ i - Len(y) \in 1..Len(x) /\ (Len(b) - i) + 1 <= Len(x)
          /\ (Len(b) - i) + 1 = (Len(x) - (i - Len(y))) + 1
      BY <1>1, <2>3
    <3>2. r[i] = x[(Len(b) - i) + 1]
      BY <1>1, <1>4, <2>1, <3>1
    <3>3. w[i] = p[i - Len(y)]
      BY <1>3, <1>5, <2>1, <2>3
    <3> QED
      BY <1>2, <3>1, <3>2, <3>3
  <2> QED
    BY <2>2, <2>3
<1>7. r = w
  <2>1. r \in Seq(S) /\ w \in Seq(S) /\ Len(r) = Len(w) /\ Len(r) = Len(b)
    BY <1>1, <1>2, <1>3, <1>4, <1>5
  <2> QED
    BY <1>6, <2>1, SeqEqual
<1> QED
  BY <1>7 DEF b, p, q, r, w

LEMMA SwappedTwo ==
  ASSUME NEW S, NEW f \in Seq(S), NEW i \in 1..Len(f), NEW j \in 1..Len(f), i # j
  PROVE  /\ Swapped(f, i, j) \in Seq(S) /\ Len(Swapped(f, i, j)) = Len(f)
         /\ Swapped(f, i, j)[i] = f[j] /\ Swapped(f, i, j)[j] = f[i]
         /\ \A k \in 1..Len(f) : k # i /\ k # j => Swapped(f, i, j)[k] = f[k]
<1> DEFINE from(k) == CASE k = i -> j [] k = j -> i [] OTHER -> k
           n == Len(f)
<1>1. n \in Nat /\ DOMAIN f = 1..n /\ \A k \in 1..n : f[k] \in S
  BY LenProperties, ElementOfSeq
<1>2. from(i) = j /\ from(j) = i /\ \A k : k # i /\ k # j => from(k) = k
  OBVIOUS
<1>3. \A k \in 1..n : from(k) \in 1..n
  OBVIOUS
<1>4. Swapped(f, i, j) = [k \in 1..n |-> f[from(k)]]
  BY <1>1 DEF Swapped
<1> HIDE DEF n, from
<1>5. [k \in 1..n |-> f[from(k)]] \in Seq(S) /\ Len([k \in 1..n |-> f[from(k)]]) = n
  <2>1. \A k \in 1..n : f[from(k)] \in S
    BY <1>1, <1>3
  <2>2. n \in Nat
    BY <1>1
  <2> QED
    BY <2>1, <2>2
<1> QED
  BY <1>2, <1>4, <1>5 DEF n

\* The bytes of one character, reversed among bytes that stay, are put in order.
Mends(x, u, y) ==
  LET B == x \o (Reverse(u) \o y)
      a == Len(x)
      m == Len(u)
  IN  /\ \A i \in 1..m : B[a + i] = u[(m - i) + 1]
      /\ m = 1 => B = x \o (u \o y)
      /\ m # 1 => MendCharacter(B, a + 1, a + m) = x \o (u \o y)

LEMMA MendRestores ==
  ASSUME NEW x \in Seq(Byte), NEW y \in Seq(Byte), NEW u, Character(u)
  PROVE  Mends(x, u, y)
<1> DEFINE v == Reverse(u)
           B == x \o (v \o y)
           D == x \o (u \o y)
           a == Len(x)
           m == Len(u)
           n == a + m + Len(y)
<1>1. u \in Seq(Byte) /\ m \in 1..4 /\ a \in Nat /\ Len(y) \in Nat
  BY LenProperties DEF Character
<1>2. v \in Seq(Byte) /\ Len(v) = m /\ \A i \in 1..m : v[i] = u[(m - i) + 1]
  BY <1>1, ReverseProperties
<1> HIDE DEF v
<1>3. ASSUME NEW w \in Seq(Byte), Len(w) = m
      PROVE  /\ x \o (w \o y) \in Seq(Byte) /\ Len(x \o (w \o y)) = n
             /\ \A i \in 1..a : (x \o (w \o y))[i] = x[i]
             /\ \A i \in 1..m : (x \o (w \o y))[a + i] = w[i]
             /\ \A i \in (a + m + 1)..n : (x \o (w \o y))[i] = y[i - a - m]
  <2> DEFINE z == w \o y
  <2>1. /\ z \in Seq(Byte) /\ Len(z) = m + Len(y)
        /\ \A i \in 1..(m + Len(y)) : z[i] = IF i <= m THEN w[i] ELSE y[i - m]
    <3>1. w \in Seq(Byte) /\ y \in Seq(Byte) /\ Len(w) = m
      BY <1>3
    <3> HIDE DEF m
    <3> QED
      BY <3>1, ConcatProperties
  <2> HIDE DEF z
  <2> DEFINE E == x \o z
  <2>2. /\ E \in Seq(Byte) /\ Len(E) = a + Len(z)
        /\ \A i \in 1..(a + Len(z)) : E[i] = IF i <= a THEN x[i] ELSE z[i - a]
    <3>1. x \in Seq(Byte) /\ z \in Seq(Byte)
      BY <2>1
    <3> QED
      BY <3>1, ConcatProperties
  <2> HIDE DEF E, a, m
  <2>3. \A i \in 1..a : E[i] = x[i]
    BY <1>1, <2>1, <2>2
  <2>4. ASSUME NEW i \in 1..m PROVE E[a + i] = w[i]
    <3>1. a + i \in 1..(a + Len(z)) /\ ~(a + i <= a) /\ (a + i) - a = i
          /\ i \in 1..(m + Len(y)) /\ i <= m
      BY <1>1, <2>1
    <3> QED
      BY <2>1, <2>2, <3>1
  <2>5. ASSUME NEW i \in (a + m + 1)..n PROVE E[i] = y[i - a - m]
    <3>1. i \in 1..(a + Len(z)) /\ ~(i <= a) /\ i - a \in 1..(m + Len(y)) /\ ~(i - a <= m)
      BY <1>1, <2>1
    <3>2. E[i] = y[(i - a) - m]
      BY <2>1, <2>2, <3>1
    <3> QED
      BY <3>2
  <2>6. Len(E) = n
    BY <1>1, <2>1, <2>2
  <2> QED
    BY <2>2, <2>3, <2>4, <2>5, <2>6 DEF E, z, a, m
<1>4. /\ B \in Seq(Byte) /\ Len(B) = n
      /\ \A i \in 1..a : B[i] = x[i]
      /\ \A i \in 1..m : B[a + i] = v[i]
      /\ \A i \in (a + m + 1)..n : B[i] = y[i - a - m]
  BY <1>2, <1>3
<1>5. /\ D \in Seq(Byte) /\ Len(D) = n
      /\ \A i \in 1..a : D[i] = x[i]
      /\ \A i \in 1..m : D[a + i] = u[i]
      /\ \A i \in (a + m + 1)..n : D[i] = y[i - a - m]
  BY <1>1, <1>3
<1> HIDE DEF B, D, a, m
<1>6. n \in Nat /\ DOMAIN B = 1..n /\ \A k \in 1..n : k \notin (a + 1)..(a + m) => B[k] = D[k]
  BY <1>1, <1>4, <1>5, LenProperties
<1>7. \A f : f \in Seq(Byte) /\ Len(f) = n /\ (\A k \in 1..n : f[k] = D[k]) => f = D
  BY <1>5, SeqEqual
<1>8. \A i \in 1..m : B[a + i] = u[(m - i) + 1]
  BY <1>2, <1>4
<1>9. ASSUME NEW f \in Seq(Byte), Len(f) = n, NEW i, NEW j, i \in 1..n, j \in 1..n, i # j
      PROVE  /\ Swapped(f, i, j) \in Seq(Byte) /\ Len(Swapped(f, i, j)) = n
             /\ Swapped(f, i, j)[i] = f[j] /\ Swapped(f, i, j)[j] = f[i]
             /\ \A k \in 1..n : k # i /\ k # j => Swapped(f, i, j)[k] = f[k]
  <2> HIDE DEF n
  <2>1. i \in 1..Len(f) /\ j \in 1..Len(f)
    BY <1>9
  <2>2. /\ Swapped(f, i, j) \in Seq(Byte) /\ Len(Swapped(f, i, j)) = Len(f)
        /\ Swapped(f, i, j)[i] = f[j] /\ Swapped(f, i, j)[j] = f[i]
        /\ \A k \in 1..Len(f) : k # i /\ k # j => Swapped(f, i, j)[k] = f[k]
    <3>1. f \in Seq(Byte) /\ i # j
      BY <1>9
    <3> QED
      BY <2>1, <3>1, SwappedTwo, Zenon
  <2> QED
    BY <1>9, <2>2
<1>10. ASSUME m = 1 PROVE B = D
  <2>1. \A k \in 1..n : B[k] = D[k]
    BY <1>1, <1>5, <1>6, <1>8, <1>10
  <2>2. B = D
    BY <1>4, <1>7, <2>1
  <2> QED
    BY <1>10, <2>2
<1>11. ASSUME m = 2 PROVE MendCharacter(B, a + 1, a + m) = D
  <2> DEFINE f == Swapped(B, a + 1, a + 2)
  <2>1. /\ B[a + 1] = u[2] /\ B[a + 2] = u[1]
        /\ D[a + 1] = u[1] /\ D[a + 2] = u[2]
    BY <1>5, <1>8, <1>11
  <2>2. a + 1 \in 1..n /\ a + 2 \in 1..n /\ a + 1 # a + 2
    BY <1>1, <1>11
  <2>3. /\ f \in Seq(Byte) /\ Len(f) = n
        /\ f[a + 1] = B[a + 2] /\ f[a + 2] = B[a + 1]
        /\ \A k \in 1..n : k # a + 1 /\ k # a + 2 => f[k] = B[k]
    <3>1. B \in Seq(Byte) /\ Len(B) = n
      BY <1>4
    <3> HIDE DEF n
    <3> QED
      BY <1>9, <2>2, <3>1, SMTT(30)
  <2>4. MendCharacter(B, a + 1, a + m) = f
    <3>1. (a + m) - (a + 1) + 1 = 2
      BY <1>1, <1>11
    <3> QED
      BY <1>11, <3>1 DEF MendCharacter
  <2> HIDE DEF f
  <2>5. \A k \in 1..n : f[k] = D[k]
    <3>1. \A k \in 1..n : k \notin (a + 1)..(a + m) => f[k] = D[k]
      BY <1>1, <1>6, <1>11, <2>3
    <3>2. \A k \in (a + 1)..(a + m) : k = a + 1 \/ k = a + 2
      BY <1>1, <1>11
    <3>3. \A k \in (a + 1)..(a + m) : f[k] = D[k]
      BY <1>1, <1>11, <2>1, <2>2, <2>3, <3>2
    <3> QED
      BY <3>1, <3>3
  <2>6. f = D
    BY <1>7, <2>3, <2>5
  <2> QED
    BY <1>11, <2>4, <2>6
<1>12. ASSUME m = 3 PROVE MendCharacter(B, a + 1, a + m) = D
  <2> DEFINE f == Swapped(B, a + 1, a + 3)
  <2>1. /\ B[a + 1] = u[3] /\ B[a + 2] = u[2] /\ B[a + 3] = u[1]
        /\ D[a + 1] = u[1] /\ D[a + 2] = u[2] /\ D[a + 3] = u[3]
    BY <1>5, <1>8, <1>12
  <2>2. a + 1 \in 1..n /\ a + 3 \in 1..n /\ a + 1 # a + 3
    BY <1>1, <1>12
  <2>3. /\ f \in Seq(Byte) /\ Len(f) = n
        /\ f[a + 1] = B[a + 3] /\ f[a + 3] = B[a + 1]
        /\ \A k \in 1..n : k # a + 1 /\ k # a + 3 => f[k] = B[k]
    <3>1. B \in Seq(Byte) /\ Len(B) = n
      BY <1>4
    <3> HIDE DEF n
    <3> QED
      BY <1>9, <2>2, <3>1, SMTT(30)
  <2>4. MendCharacter(B, a + 1, a + m) = f
    <3>1. (a + m) - (a + 1) + 1 = 3
      BY <1>1, <1>12
    <3> QED
      BY <1>12, <3>1 DEF MendCharacter
  <2> HIDE DEF f
  <2>5. \A k \in 1..n : f[k] = D[k]
    <3>1. \A k \in 1..n : k \notin (a + 1)..(a + m) => f[k] = D[k]
      BY <1>1, <1>6, <1>12, <2>3
    <3>2. \A k \in (a + 1)..(a + m) : k = a + 1 \/ k = a + 2 \/ k = a + 3
      BY <1>1, <1>12
    <3>3. \A k \in (a + 1)..(a + m) : f[k] = D[k]
      <4>1. f[a + 1] = D[a + 1] /\ f[a + 3] = D[a + 3]
        BY <2>1, <2>3
      <4>2. a + 2 \in 1..n /\ a + 2 # a + 1 /\ a + 2 # a + 3
        BY <1>1, <1>12
      <4>3. f[a + 2] = D[a + 2]
        BY <2>1, <2>3, <4>2
      <4> QED
        BY <3>2, <4>1, <4>3
    <3> QED
      BY <3>1, <3>3
  <2>6. f = D
    BY <1>7, <2>3, <2>5
  <2> QED
    BY <1>12, <2>4, <2>6
<1>13. ASSUME m = 4 PROVE MendCharacter(B, a + 1, a + m) = D
  <2> DEFINE f == Swapped(B, a + 1, a + 4)
             g == Swapped(f, a + 2, a + 3)
  <2>1. /\ B[a + 1] = u[4] /\ B[a + 2] = u[3] /\ B[a + 3] = u[2] /\ B[a + 4] = u[1]
        /\ D[a + 1] = u[1] /\ D[a + 2] = u[2] /\ D[a + 3] = u[3] /\ D[a + 4] = u[4]
    BY <1>5, <1>8, <1>13
  <2>2. /\ a + 1 \in 1..n /\ a + 4 \in 1..n /\ a + 1 # a + 4
        /\ a + 2 \in 1..n /\ a + 3 \in 1..n /\ a + 2 # a + 3
    BY <1>1, <1>13
  <2>3. /\ f \in Seq(Byte) /\ Len(f) = n
        /\ f[a + 1] = B[a + 4] /\ f[a + 4] = B[a + 1]
        /\ \A k \in 1..n : k # a + 1 /\ k # a + 4 => f[k] = B[k]
    <3>1. B \in Seq(Byte) /\ Len(B) = n
      BY <1>4
    <3> HIDE DEF n
    <3> QED
      BY <1>9, <2>2, <3>1, SMTT(30)
  <2>4. MendCharacter(B, a + 1, a + m) = g
    <3>1. (a + m) - (a + 1) + 1 = 4 /\ (a + 1) + 1 = a + 2 /\ (a + 4) - 1 = a + 3
      BY <1>1, <1>13
    <3> QED
      BY <1>13, <3>1 DEF MendCharacter
  <2> HIDE DEF f
  <2>5. /\ g \in Seq(Byte) /\ Len(g) = n
        /\ g[a + 2] = f[a + 3] /\ g[a + 3] = f[a + 2]
        /\ \A k \in 1..n : k # a + 2 /\ k # a + 3 => g[k] = f[k]
    <3>1. f \in Seq(Byte) /\ Len(f) = n
      BY <2>3
    <3> HIDE DEF n
    <3> QED
      BY <1>9, <2>2, <3>1, SMTT(30)
  <2> HIDE DEF g
  <2>6. \A k \in 1..n : g[k] = D[k]
    <3>1. /\ g[a + 1] = D[a + 1] /\ g[a + 2] = D[a + 2]
          /\ g[a + 3] = D[a + 3] /\ g[a + 4] = D[a + 4]
      BY <1>1, <2>1, <2>2, <2>3, <2>5
    <3>2. \A k \in 1..n : k \notin (a + 1)..(a + m) => g[k] = D[k]
      BY <1>1, <1>6, <1>13, <2>3, <2>5
    <3>3. \A k \in (a + 1)..(a + m) : k = a + 1 \/ k = a + 2 \/ k = a + 3 \/ k = a + 4
      BY <1>1, <1>13
    <3> QED
      BY <3>1, <3>2, <3>3
  <2>7. g = D
    BY <1>7, <2>5, <2>6
  <2> QED
    BY <1>13, <2>4, <2>7
<1>14. /\ m = 1 => B = D
       /\ m # 1 => MendCharacter(B, a + 1, a + m) = D
  BY <1>1, <1>10, <1>11, <1>12, <1>13
<1> QED
  BY <1>8, <1>14 DEF B, D, a, m, v, Mends

\* The scan of mstr_reverse_unicode_helper.
Scans(f, bytes) ==
  f = [p \in 0..Len(bytes) |->
         IF p = 0 THEN [first |-> 1, bytes |-> bytes] ELSE ScanByte(f[p - 1], p)]

\* Every value of f up to n comes from the one before.
Steps(f, n) == \A p \in 1..n : f[p] = ScanByte(f[p - 1], p)

\* The scan has put x in order and has z before it.
Stands(f, x, z) == f[Len(x)] = [first |-> Len(x) + 1, bytes |-> x \o z]

LEMMA ScanExists ==
  ASSUME NEW bytes, Len(bytes) \in Nat
  PROVE  \E f : Scans(f, bytes)
<1> DEFINE Begun == [first |-> 1, bytes |-> bytes]
           To(f, n) == f = [p \in 0..n |-> IF p = 0 THEN Begun ELSE ScanByte(f[p - 1], p)]
           G == {n \in Nat : \E f : To(f, n)}
<1> HIDE DEF Begun
<1>1. 0 \in G
  <2>1. To([p \in 0..0 |-> Begun], 0)
    OBVIOUS
  <2> QED
    BY <2>1
<1>2. ASSUME NEW n \in Nat, n \in G PROVE n + 1 \in G
  <2>1. PICK f : To(f, n)
    BY <1>2
  <2> DEFINE g == [p \in 0..(n + 1) |-> IF p <= n THEN f[p] ELSE ScanByte(f[n], n + 1)]
  <2>2. \A p \in 0..n : f[p] = IF p = 0 THEN Begun ELSE ScanByte(f[p - 1], p)
    BY <2>1
  <2>3. \A p \in 0..(n + 1) : g[p] = IF p = 0 THEN Begun ELSE ScanByte(g[p - 1], p)
    <3> SUFFICES ASSUME NEW p \in 0..(n + 1)
                 PROVE  g[p] = IF p = 0 THEN Begun ELSE ScanByte(g[p - 1], p)
      OBVIOUS
    <3>1. CASE p <= n
      <4>1. p \in 0..n /\ g[p] = f[p] /\ (p # 0 => g[p - 1] = f[p - 1])
        BY <3>1
      <4> QED
        BY <2>2, <4>1
    <3>2. CASE ~(p <= n)
      <4>1. p = n + 1 /\ p # 0 /\ p - 1 = n
        BY <3>2
      <4>2. g[p] = ScanByte(f[n], n + 1) /\ g[p - 1] = f[n]
        BY <3>2, <4>1
      <4> QED
        BY <4>1, <4>2
    <3> QED
      BY <3>1, <3>2
  <2>4. g = [p \in 0..(n + 1) |-> g[p]]
    OBVIOUS
  <2> HIDE DEF g
  <2>5. To(g, n + 1)
    BY <2>3, <2>4
  <2> QED
    BY <2>5
<1> HIDE DEF G
<1>3. Nat \subseteq G
  BY <1>1, <1>2, NumberInduction
<1> QED
  BY <1>3 DEF G, Scans, Begun

LEMMA ScanComputes ==
  ASSUME NEW bytes, Len(bytes) \in Nat
  PROVE  \E f : Scans(f, bytes) /\ mstr_reverse_unicode_helper(bytes) = f[Len(bytes)].bytes
<1> DEFINE scan[p \in 0..Len(bytes)] ==
             IF p = 0 THEN [first |-> 1, bytes |-> bytes] ELSE ScanByte(scan[p - 1], p)
<1>1. mstr_reverse_unicode_helper(bytes) = scan[Len(bytes)].bytes
  BY DEF mstr_reverse_unicode_helper
<1>2. Scans(scan, bytes)
  BY ScanExists DEF Scans
<1> QED
  BY <1>1, <1>2

\* The scan over the reversed bytes of one character: those in front are in order by
\* then, those behind wait.
LEMMA ScanCharacter ==
  ASSUME NEW x \in Seq(Byte), NEW y \in Seq(Byte), NEW u, Character(u),
         NEW f, NEW n \in Nat, Len(x) + Len(u) <= n,
         Steps(f, n),
         Stands(f, x, Reverse(u) \o y)
  PROVE  Stands(f, x \o u, y)
<1> DEFINE a == Len(x)
           m == Len(u)
           B == x \o (Reverse(u) \o y)
           D == x \o (u \o y)
           Pending == [first |-> a + 1, bytes |-> B]
           G == {i \in Nat : i < m => f[a + i] = Pending}
<1>1. /\ \A i \in 1..m : B[a + i] = u[(m - i) + 1]
      /\ m = 1 => B = D
      /\ m # 1 => MendCharacter(B, a + 1, a + m) = D
  <2>1. Mends(x, u, y)
    BY MendRestores
  <2> QED
    BY <2>1, Zenon DEF Mends
<1>2. /\ a \in Nat /\ m \in 1..4 /\ u[1] \in Int
      /\ u[1] < 128 \/ u[1] >= 192
      /\ u[1] < 128 <=> m = 1
      /\ \A j \in 2..m : u[j] \in 128..191
  BY LeadOutside, LenProperties DEF Character
<1>3. f[a] = Pending
  BY DEF Stands
<1> DEFINE z == x \o u
<1>13. Len(z) = a + m /\ D = z \o y
  <2>1. u \in Seq(Byte)
    BY DEF Character
  <2> QED
    BY <2>1, ConcatProperties, BytesAssociate
<1> HIDE DEF z
<1> HIDE DEF a, m, B, D
<1>4. 0 \in G
  BY <1>2, <1>3
<1>5. ASSUME NEW i \in Nat, i \in G PROVE i + 1 \in G
  <2>1. SUFFICES ASSUME i + 1 < m PROVE f[a + (i + 1)] = Pending
    OBVIOUS
  <2>2. /\ f[a + i] = Pending
        /\ a + (i + 1) \in 1..n /\ (a + (i + 1)) - 1 = a + i
        /\ i + 1 \in 1..m /\ (m - (i + 1)) + 1 \in 2..m
    BY <1>2, <1>5, <2>1 DEF a, m
  <2>3. f[a + (i + 1)] = ScanByte(Pending, a + (i + 1))
    BY <2>2 DEF Steps
  <2>4. B[a + (i + 1)] \in 128..191
    BY <1>1, <1>2, <2>2
  <2>5. ~(B[a + (i + 1)] < 128) /\ ~(B[a + (i + 1)] >= 192)
    <3>1. \A v \in 128..191 : ~(v < 128) /\ ~(v >= 192)
      OBVIOUS
    <3> QED
      BY <2>4, <3>1, Zenon
  <2> QED
    BY <2>3, <2>5 DEF ScanByte
<1> HIDE DEF G
<1>6. Nat \subseteq G
  BY <1>4, <1>5, NumberInduction
<1>7. m - 1 \in Nat /\ m - 1 < m /\ a + m \in 1..n /\ (a + m) - 1 = a + (m - 1) /\ (m - m) + 1 = 1
      /\ m \in 1..m
  BY <1>2 DEF a, m
<1>8. f[a + (m - 1)] = Pending
  BY <1>6, <1>7 DEF G
<1>9. f[a + m] = ScanByte(Pending, a + m)
  BY <1>7, <1>8 DEF Steps
<1>10. B[a + m] = u[1]
  BY <1>1, <1>7
<1>11. CASE m = 1
  <2>1. B[a + m] < 128
    BY <1>2, <1>10, <1>11
  <2>2. ScanByte(Pending, a + m) = [Pending EXCEPT !.first = a + m + 1]
    <3>1. Pending.bytes[a + m] < 128 /\ ~(Pending.bytes[a + m] >= 192)
      BY <1>2, <1>10, <2>1
    <3> HIDE DEF Pending
    <3> QED
      BY <3>1 DEF ScanByte
  <2>3. f[a + m] = [first |-> a + m + 1, bytes |-> D]
    BY <1>1, <1>9, <1>11, <2>2
  <2> QED
    BY <1>13, <2>3 DEF Stands, z
<1>12. CASE m # 1
  <2>1. ~(B[a + m] < 128) /\ B[a + m] >= 192
    BY <1>2, <1>10, <1>12
  <2>2. ScanByte(Pending, a + m) =
          [first |-> a + m + 1, bytes |-> MendCharacter(B, a + 1, a + m)]
    BY <2>1 DEF ScanByte
  <2>3. f[a + m] = [first |-> a + m + 1, bytes |-> D]
    BY <1>1, <1>9, <1>12, <2>2
  <2> QED
    BY <1>13, <2>3 DEF Stands, z
<1> QED
  BY <1>11, <1>12

\* mstr_reverse_self reverses the characters and keeps each one's bytes in order.
LEMMA ReverseEncodes ==
  ASSUME NEW t \in Seq(Code)
  PROVE  mstr_reverse_self(Encode(t)) = Encode(Reverse(t))
<1> DEFINE b == Encode(t)
           r == Reverse(b)
           n == Len(r)
           N == Len(t)
           Behind(k) == SubSeq(t, (N - k) + 1, N)
           Before(k) == SubSeq(t, 1, N - k)
           Done(k) == Encode(Reverse(Behind(k)))
           Waiting(k) == Reverse(Encode(Before(k)))
<1>0. /\ N \in Nat /\ b \in Seq(Byte) /\ r \in Seq(Byte) /\ n = Len(b) /\ n \in Nat
  BY EncodeType, LenProperties, ReverseProperties
<1>1. PICK f : Scans(f, r) /\ mstr_reverse_unicode_helper(r) = f[n].bytes
  BY <1>0, ScanComputes
<1>2. f[0] = [first |-> 1, bytes |-> r] /\ Steps(f, n)
  <2> HIDE DEF r
  <2>1. \A p \in 0..n : f[p] = IF p = 0 THEN [first |-> 1, bytes |-> r]
                                 ELSE ScanByte(f[p - 1], p)
    BY <1>1 DEF Scans
  <2>2. 0 \in 0..n /\ \A p \in 1..n : p \in 0..n /\ p # 0
    BY <1>0
  <2> QED
    BY <2>1, <2>2, Zenon DEF Steps
<1> DEFINE G == {k \in Nat : k <= N =>
                   /\ Len(Done(k)) + Len(Encode(Before(k))) = n
                   /\ Stands(f, Done(k), Waiting(k))}
<1>3. \A k \in 0..N : /\ Behind(k) \in Seq(Code) /\ Before(k) \in Seq(Code)
                      /\ Done(k) \in Seq(Byte) /\ Waiting(k) \in Seq(Byte)
                      /\ Len(Done(k)) \in Nat
                      /\ Encode(Before(k)) \in Seq(Byte) /\ Len(Encode(Before(k))) \in Nat
  <2> SUFFICES ASSUME NEW k \in 0..N
               PROVE  /\ Behind(k) \in Seq(Code) /\ Before(k) \in Seq(Code)
                      /\ Done(k) \in Seq(Byte) /\ Waiting(k) \in Seq(Byte)
                      /\ Len(Done(k)) \in Nat
                      /\ Encode(Before(k)) \in Seq(Byte) /\ Len(Encode(Before(k))) \in Nat
    OBVIOUS
  <2>1. N - k \in 0..Len(t)
    BY <1>0
  <2>2. Behind(k) \in Seq(Code) /\ Before(k) \in Seq(Code)
    BY <2>1, SplitText
  <2>3. Reverse(Behind(k)) \in Seq(Code)
    BY <2>2, ReverseProperties
  <2> HIDE DEF Behind, Before
  <2>4. Encode(Before(k)) \in Seq(Byte) /\ Len(Encode(Before(k))) \in Nat
    BY <2>2, EncodeType
  <2> QED
    BY <2>2, <2>3, <2>4, EncodeType, ReverseProperties
<1>4. 0 \in G
  <2>1. Behind(0) = <<>> /\ Before(0) = t
    <3>1. N - 0 = N /\ N + 1 > N
      BY <1>0
    <3> QED
      BY <1>0, <3>1, SubSeqEmpty, SubSeqFull
  <2> HIDE DEF Behind, Before
  <2>2. Done(0) = <<>> /\ Waiting(0) = r /\ Encode(Before(0)) = b
    <3>1. Reverse(<<>>) = <<>>
      BY DEF Reverse
    <3> QED
      BY <2>1, <3>1, EncodeEmpty
  <2>3. <<>> \o r = r /\ Len(<<>>) = 0
    BY <1>0, ConcatEmptySeq, EmptySeq
  <2>4. r \in Seq(Byte) /\ n = Len(b) /\ n \in Nat
    BY <1>0
  <2> HIDE DEF Done, Waiting, r, n, b
  <2>5. Stands(f, Done(0), Waiting(0))
    <3>1. f[Len(<<>>)] = [first |-> Len(<<>>) + 1, bytes |-> <<>> \o r]
      BY <1>2, <2>3
    <3> QED
      BY <2>2, <3>1, Zenon DEF Stands
  <2>6. Len(Done(0)) + Len(Encode(Before(0))) = n
    BY <2>2, <2>3, <2>4
  <2> QED
    BY <2>5, <2>6
<1>5. ASSUME NEW k \in Nat, k \in G PROVE k + 1 \in G
  <2>1. SUFFICES ASSUME k + 1 <= N
                 PROVE  /\ Len(Done(k + 1)) + Len(Encode(Before(k + 1))) = n
                        /\ Stands(f, Done(k + 1), Waiting(k + 1))
    OBVIOUS
  <2> DEFINE h == N - (k + 1)
             c == t[h + 1]
             u == mstr_as_utf8(c)
  <2>2. /\ k \in 0..N /\ k + 1 \in 0..N /\ h \in 0..(N - 1) /\ h + 1 = N - k
        /\ h + 2 = (N - k) + 1 /\ h + 1 = (N - (k + 1)) + 1
    BY <1>0, <2>1
  <2>3. /\ c \in Code
        /\ Before(k) = Append(Before(k + 1), c)
        /\ Behind(k + 1) = <<c>> \o Behind(k)
    BY <2>2, NextPrefix
  <2>4. Character(u) /\ u \in Seq(Byte) /\ Reverse(u) \in Seq(Byte) /\ Len(Reverse(u)) = Len(u)
        /\ Len(u) \in Nat
    <3>1. Character(u) /\ u \in Seq(Byte)
      BY <2>3, EncodesCharacter DEF Character
    <3> HIDE DEF u
    <3> QED
      BY <3>1, ReverseProperties, LenProperties
  <2>5. Encode(Before(k)) = Encode(Before(k + 1)) \o u
    BY <1>3, <2>2, <2>3, EncodeAppend
  <2>6. Waiting(k) = Reverse(u) \o Waiting(k + 1)
    BY <1>3, <2>2, <2>4, <2>5, ReverseConcat
  <2>7. Done(k + 1) = Done(k) \o u
    <3>1. <<c>> \in Seq(Code) /\ Reverse(<<c>>) = <<c>>
      BY <2>3 DEF Reverse
    <3>2. Reverse(Behind(k + 1)) = Reverse(Behind(k)) \o <<c>>
      BY <1>3, <2>2, <2>3, <3>1, ReverseConcat
    <3>3. Reverse(Behind(k)) \in Seq(Code)
      BY <1>3, <2>2, ReverseProperties
    <3>4. Reverse(Behind(k + 1)) = Append(Reverse(Behind(k)), c)
      BY <2>3, <3>2, <3>3, AppendIsConcat
    <3> QED
      BY <2>3, <3>3, <3>4, EncodeAppend
  <2>8. /\ Len(Done(k)) + Len(Encode(Before(k))) = n
        /\ Stands(f, Done(k), Waiting(k))
    BY <1>0, <1>5, <2>1
  <2> HIDE DEF Behind, Before, Done, Waiting, h, c, u, n
  <2> DEFINE x == Done(k)
             y == Waiting(k + 1)
             q == Encode(Before(k + 1))
  <2>9. /\ x \in Seq(Byte) /\ y \in Seq(Byte) /\ q \in Seq(Byte)
        /\ Len(x) \in Nat /\ Len(q) \in Nat
    BY <1>3, <2>2
  <2> HIDE DEF x, y, q
  <2>10. Len(Encode(Before(k))) = Len(q) + Len(u)
    BY <2>4, <2>5, <2>9, ConcatProperties DEF q
  <2>11. Len(x) + Len(u) <= n /\ (Len(x) + Len(u)) + Len(q) = n
    <3>1. n \in Nat /\ Len(x) \in Nat /\ Len(u) \in Nat /\ Len(q) \in Nat
      BY <1>0, <2>4, <2>9 DEF n
    <3>2. Len(x) + (Len(q) + Len(u)) = n
      BY <2>8, <2>10 DEF x
    <3> QED
      BY <3>1, <3>2
  <2>12. Stands(f, x, Reverse(u) \o y)
    BY <2>6, <2>8 DEF x, y
  <2>13. Stands(f, x \o u, y)
    BY <1>0, <1>2, <2>4, <2>9, <2>11, <2>12, ScanCharacter
  <2>14. Done(k + 1) = x \o u /\ Len(x \o u) = Len(x) + Len(u)
    BY <2>4, <2>7, <2>9, ConcatProperties DEF x
  <2> QED
    BY <2>11, <2>13, <2>14 DEF y, q
<1> HIDE DEF G
<1>6. Nat \subseteq G
  BY <1>4, <1>5, NumberInduction
<1>7. /\ Len(Done(N)) + Len(Encode(Before(N))) = n
      /\ Stands(f, Done(N), Waiting(N))
  <2>1. N \in G /\ N <= N
    BY <1>0, <1>6
  <2> QED
    BY <2>1 DEF G
<1>8. Before(N) = <<>> /\ Behind(N) = t
  <2>1. N - N = 0
    BY <1>0
  <2> QED
    BY <1>0, <2>1, SubSeqEmpty, SubSeqFull
<1>9. Encode(Before(N)) = <<>> /\ Waiting(N) = <<>> /\ Done(N) = Encode(Reverse(t))
  <2>1. Reverse(<<>>) = <<>>
    BY DEF Reverse
  <2> HIDE DEF Before, Behind
  <2> QED
    BY <1>8, <2>1, EncodeEmpty
<1> DEFINE d == Encode(Reverse(t))
<1>10. d \in Seq(Byte) /\ Len(d) \in Nat
  BY ReverseProperties, EncodeType
<1> HIDE DEF Before, Behind, Done, Waiting, n, d
<1>11. Len(d) = n /\ f[n].bytes = d
  <2>1. Len(Encode(Before(N))) = 0
    BY <1>9, EmptySeq
  <2>2. Len(d) = n
    BY <1>0, <1>7, <1>9, <1>10, <2>1 DEF d
  <2>3. d \o <<>> = d
    BY <1>10, ConcatEmptySeq
  <2> QED
    BY <1>7, <1>9, <2>2, <2>3 DEF d, Stands
<1> QED
  BY <1>1, <1>11 DEF mstr_reverse_self, mstr_reverse_only, d
===============================================================================
