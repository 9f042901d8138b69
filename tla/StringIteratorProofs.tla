------------------------ MODULE StringIteratorProofs ------------------------
(***************************************************************************)
(* Proofs about the iterator of mtfmt::string, for texts of any length:    *)
(* the invariant is that it stands at the offset of a character and that   *)
(* rem_length counts those from there on.  What the steps do to the offset *)
(* is the business of module Utf8Proofs.                                   *)
(***************************************************************************)
EXTENDS StringIterator, Utf8Proofs

\* The number of characters before the iterator.
Passed == Len(text) - rem_length

IInv ==
  /\ text \in Seq(Codes) /\ Len(text) <= MaxChars
  /\ rem_length \in 0..Len(text)
  /\ it = Offset(text, Passed)
  /\ code \in Codes \cup {0}

\* The texts of the iterator are texts of module Utf8Proofs.
LEMMA TextEncodes ==
  ASSUME IInv
  PROVE  /\ text \in Seq(Code) /\ Len(text) \in Nat
         /\ Bytes \in Seq(Byte) /\ Len(Bytes) \in Nat
         /\ Passed \in 0..Len(text)
<1>1. Codes \subseteq Code
  BY IteratorAssumption DEF Code
<1>2. text \in Seq(Code)
  BY <1>1, SeqMonotonic DEF IInv
<1> QED
  BY <1>2, EncodeType, LenProperties DEF IInv, Passed, Bytes

LEMMA InitHolds == Init => IInv
<1> SUFFICES ASSUME Init PROVE IInv
  OBVIOUS
<1>1. PICK n \in 0..MaxChars : text \in [1..n -> Codes]
  BY DEF Init
<1>2. text \in Seq(Codes) /\ Len(text) = n /\ n \in Nat /\ n <= MaxChars
  BY <1>1, IteratorAssumption
<1>3. text \in Seq(Code)
  <2>1. Codes \subseteq Code
    BY IteratorAssumption DEF Code
  <2> QED
    BY <1>2, <2>1, SeqMonotonic
<1>4. Offset(text, 0) = 0 /\ Offset(text, Len(text)) = Len(Bytes)
  BY <1>3, OffsetEnds DEF Bytes
<1>5. CASE begin
  <2>1. Passed = 0 /\ it = 0 /\ rem_length \in 0..Len(text)
    BY <1>2, <1>5 DEF begin, Passed
  <2> QED
    BY <1>2, <1>4, <2>1 DEF Init, IInv
<1>6. CASE end
  <2>1. Passed = Len(text) /\ it = Len(Bytes) /\ rem_length \in 0..Len(text)
    BY <1>2, <1>6 DEF end, Passed
  <2> QED
    BY <1>2, <1>4, <2>1 DEF Init, IInv
<1> QED
  BY <1>5, <1>6 DEF Init

\* ++it passes one character.
LEMMA IncrementKeeps == ASSUME IInv, increment PROVE IInv'
<1>1. /\ text \in Seq(Code) /\ Len(text) \in Nat
      /\ rem_length \in 0..Len(text) /\ rem_length > 0
      /\ text' = text /\ code' = code /\ rem_length' = rem_length - 1
  BY TextEncodes DEF IInv, increment
<1>2. Passed \in 0..(Len(text) - 1) /\ Passed' = Passed + 1
  BY <1>1 DEF Passed
<1>3. it' = Offset(text, Passed + 1)
  <2>1. it' = Offset(text, Passed) + mstr_char_length(Bytes[Offset(text, Passed) + 1])
    BY DEF IInv, increment
  <2> QED
    BY <1>1, <1>2, <2>1, CharacterAt DEF Bytes
<1>4. it' = Offset(text', Passed') /\ rem_length' \in 0..Len(text')
  BY <1>1, <1>2, <1>3
<1> QED
  BY <1>1, <1>4 DEF IInv

\* --it goes back by one.
LEMMA DecrementKeeps == ASSUME IInv, decrement PROVE IInv'
<1>1. /\ text \in Seq(Code) /\ Len(text) \in Nat /\ Passed \in 0..Len(text)
      /\ rem_length \in 0..Len(text) /\ it > 0 /\ it = Offset(text, Passed)
      /\ text' = text /\ code' = code /\ rem_length' = rem_length + 1
  BY TextEncodes DEF IInv, decrement
<1>2. Passed # 0
  BY <1>1, OffsetEnds
<1> DEFINE k == Passed - 1
<1>3. k \in 0..(Len(text) - 1) /\ k + 1 = Passed /\ Passed' = k /\ k \in 0..Len(text)
  BY <1>1, <1>2 DEF Passed
<1>4. it' = it - mstr_lead_char_offset(Encode(text), it - 1, it)
  BY DEF decrement, Bytes
<1> HIDE DEF k
<1>5. mstr_lead_char_offset(Encode(text), it - 1, it) = it - Offset(text, k)
  BY <1>1, <1>3, LeadFound
<1>6. it \in Nat /\ Offset(text, k) \in Nat
  BY <1>1, <1>3, SplitBytes, EncodeType
<1>7. it' = Offset(text', Passed')
  BY <1>1, <1>3, <1>4, <1>5, <1>6
<1>8. rem_length' \in 0..Len(text')
  BY <1>1, <1>3 DEF Passed
<1> QED
  BY <1>1, <1>7, <1>8 DEF IInv

\* *it decodes the character behind those that were passed.
LEMMA DereferenceDecodes ==
  ASSUME IInv, dereference
  PROVE  Passed \in 0..(Len(text) - 1) /\ code' = text[Passed + 1]
<1>1. /\ text \in Seq(Code) /\ Len(text) \in Nat /\ Passed \in 0..Len(text)
      /\ Bytes \in Seq(Byte) /\ Len(Bytes) \in Nat
      /\ it = Offset(text, Passed) /\ it < Len(Bytes)
  BY TextEncodes DEF IInv, dereference
<1>2. Passed # Len(text)
  <2>1. Offset(text, Len(text)) = Len(Bytes)
    BY <1>1, OffsetEnds DEF Bytes
  <2> QED
    BY <1>1, <2>1
<1>3. Passed \in 0..(Len(text) - 1)
  BY <1>1, <1>2
<1> DEFINE n == Len(mstr_as_utf8(text[Passed + 1]))
<1>4. /\ n \in 1..4 /\ it \in 0..(Len(Bytes) - 1) /\ it + n <= Len(Bytes)
      /\ mstr_char_length(Bytes[it + 1]) = n
      /\ mstr_codepoint_of(SubSeq(Bytes, it + 1, it + n)) = text[Passed + 1]
  BY <1>1, <1>3, CharacterAt DEF Bytes, Character
<1> HIDE DEF n
<1>5. SubSeq(From(it), 1, n) = SubSeq(Bytes, it + 1, it + n)
  <2> DEFINE p == it + 1
             l == Len(Bytes)
  <2>1. /\ Bytes \in Seq(Byte) /\ l = Len(Bytes)
        /\ p \in 1..Len(Bytes) /\ l \in 1..Len(Bytes)
        /\ 1 \in 1..(l - p + 1) /\ n \in 1..(l - p + 1)
        /\ p + 1 - 1 = it + 1 /\ p + n - 1 = it + n
    BY <1>1, <1>4
  <2>2. From(it) = SubSeq(Bytes, p, l)
    BY DEF From
  <2> HIDE DEF p, l
  <2>3. SubSeq(SubSeq(Bytes, p, l), 1, n) = SubSeq(Bytes, p + 1 - 1, p + n - 1)
    BY <2>1, SubSeqOfSubSeq
  <2> QED
    BY <2>1, <2>2, <2>3
<1>6. code' = mstr_codepoint_of(SubSeq(From(it), 1, mstr_char_length(Bytes[it + 1])))
  BY DEF dereference
<1> QED
  BY <1>3, <1>4, <1>5, <1>6

LEMMA DereferenceKeeps == ASSUME IInv, dereference PROVE IInv'
<1>1. UNCHANGED <<text, it, rem_length>>
  BY DEF dereference
<1>2. code' \in Codes
  <2>1. Passed \in 0..(Len(text) - 1) /\ code' = text[Passed + 1]
    BY DereferenceDecodes
  <2>2. text \in Seq(Codes)
    BY DEF IInv
  <2> QED
    BY <2>1, <2>2, NextPrefix
<1> QED
  BY <1>1, <1>2 DEF IInv, Passed

LEMMA NextKeeps == IInv /\ [Next]_vars => IInv'
<1> SUFFICES ASSUME IInv, [Next]_vars PROVE IInv'
  OBVIOUS
<1>1. CASE UNCHANGED vars
  BY <1>1 DEF IInv, Passed, vars
<1> QED
  BY <1>1, IncrementKeeps, DecrementKeeps, DereferenceKeeps DEF Next

LEMMA InvariantHolds == Spec => []IInv
BY InitHolds, NextKeeps, PTL DEF Spec

--------------------------------------------------------------------------------
(* The theorems.                                                               *)

\* The iterator stays within the text and its count within the length, whatever
\* the text and however ++, -- and * are mixed.
THEOREM IteratorTypeOK == Spec => []TypeOK
<1>1. IInv => TypeOK
  <2> SUFFICES ASSUME IInv PROVE TypeOK
    OBVIOUS
  <2>1. it \in 0..Len(Bytes)
    BY TextEncodes, SplitBytes DEF IInv, Bytes
  <2> QED
    BY <2>1 DEF IInv, TypeOK
<1> QED
  BY <1>1, InvariantHolds, PTL

\* It never stands inside a character, and rem_length is the number of characters
\* behind it: the guards of ++ and --, one on the count and one on the offset, agree.
THEOREM IteratorStandsBetweenCharacters == Spec => []StandsBetweenCharacters
<1>1. IInv => StandsBetweenCharacters
  BY DEF IInv, StandsBetweenCharacters, Offset, Passed
<1> QED
  BY <1>1, InvariantHolds, PTL

\* What operator* returns is the character that the iterator stands before.
THEOREM IteratorYieldsCharacters == Spec => YieldsCharacters
<1>1. IInv /\ [Next]_vars => [code' # code => code' = text[Len(text) - rem_length + 1]]_vars
  <2> SUFFICES ASSUME IInv, Next, code' # code
               PROVE  code' = text[Len(text) - rem_length + 1]
    OBVIOUS
  <2>1. dereference
    BY DEF Next, increment, decrement
  <2> QED
    BY <2>1, DereferenceDecodes DEF Passed
<1> QED
  BY <1>1, InvariantHolds, PTL DEF Spec, YieldsCharacters

\* mstr_codepoint_of undoes mstr_as_utf8, and mstr_char_length tells the length
\* of the encoding from its first byte: for every text of code points up to
\* MaxCode, of any length.
THEOREM IteratorCodecRoundTrip == Spec => []CodecRoundTrip
<1>1. IInv => CodecRoundTrip
  <2> SUFFICES ASSUME IInv, NEW i \in DOMAIN text
               PROVE  /\ mstr_codepoint_of(mstr_as_utf8(text[i])) = text[i]
                      /\ mstr_char_length(mstr_as_utf8(text[i])[1]) = Len(mstr_as_utf8(text[i]))
    BY DEF CodecRoundTrip
  <2>1. text[i] \in Code
    BY TextEncodes
  <2> QED
    BY <2>1, EveryCodeRoundTrips DEF RoundTrips
<1> QED
  BY <1>1, InvariantHolds, PTL

\* mstr_strlen counts the characters of any slice of any text, and reports one that
\* ends inside a character; mstr_char_offset_at finds the end of the same characters.
THEOREM IteratorSlicesMeasured == Spec => []SlicesMeasured
<1>1. IInv => SlicesMeasured
  <2> SUFFICES ASSUME IInv, NEW stop \in 0..Len(Bytes)
               PROVE  LET found == mstr_strlen(Bytes, stop)
                          whole == Len(Encode(SubSeq(text, 1, found.length)))
                      IN  /\ found.count = whole
                          /\ found.count = mstr_char_offset_at(Bytes, found.length)
                          /\ found.complete <=>
                               \E n \in 0..Len(text) : stop = Len(Encode(SubSeq(text, 1, n)))
    BY DEF SlicesMeasured
  <2>1. text \in Seq(Code)
    BY TextEncodes
  <2>2. PICK j : Reaches(text, stop, j)
    BY <2>1, ReachExists DEF Bytes
  <2>3. mstr_strlen(Bytes, stop) =
          [length |-> j, count |-> Offset(text, j), complete |-> Offset(text, j) = stop]
    BY <2>1, <2>2, StrlenMeasures DEF Bytes
  <2>4. j \in 0..Len(text) /\ Offset(text, j) >= stop /\ \A i \in 0..(j - 1) : Offset(text, i) < stop
    BY <2>2 DEF Reaches
  <2>5. mstr_char_offset_at(Bytes, j) = Offset(text, j)
    BY <2>1, <2>4, OffsetFound DEF Bytes
  <2>6. Offset(text, j) = stop <=> \E n \in 0..Len(text) : stop = Offset(text, n)
    <3> SUFFICES ASSUME NEW n \in 0..Len(text), stop = Offset(text, n) PROVE n = j
      BY <2>4
    <3>1. Offset(text, n) \in Int /\ Offset(text, j) \in Int /\ Len(text) \in Nat
      BY <2>1, <2>4, SplitBytes, EncodeType, LenProperties
    <3>2. ~(n < j)
      BY <2>4, <3>1
    <3>3. ~(j < n)
      BY <2>1, <2>4, <3>1, OffsetIncreases
    <3> QED
      BY <2>4, <3>1, <3>2, <3>3
  <2> DEFINE found == mstr_strlen(Bytes, stop)
  <2> HIDE DEF found
  <2>7. found.length = j /\ found.count = Offset(text, j) /\ found.complete = (Offset(text, j) = stop)
    BY <2>3 DEF found
  <2>8. /\ found.count = Offset(text, found.length)
        /\ found.count = mstr_char_offset_at(Bytes, found.length)
        /\ found.complete <=> \E n \in 0..Len(text) : stop = Offset(text, n)
    BY <2>5, <2>6, <2>7
  <2> QED
    BY <2>8 DEF found, Offset
<1> QED
  BY <1>1, InvariantHolds, PTL

\* mstr_reverse_self turns the bytes of any text into those of the text reversed.
THEOREM IteratorReversesCharacters == Spec => []ReversesCharacters
<1>1. IInv => ReversesCharacters
  BY TextEncodes, ReverseEncodes DEF ReversesCharacters, Bytes
<1> QED
  BY <1>1, InvariantHolds, PTL
===============================================================================
