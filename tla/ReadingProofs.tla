---------------------------- MODULE ReadingProofs ----------------------------
(***************************************************************************)
(* Every field that the manual of MtFmT describes is read as what it       *)
(* means, whatever stands behind it: FieldsReadBack, for all fields of the *)
(* grammar and not only for those of a run.                                *)
(*                                                                         *)
(* The grammar puts a field together from parts; what is left of its text  *)
(* from each part on, and which token the lexer finds there, comes first.  *)
(* The loops over a number's digits are compared by taking the least place *)
(* where they differ.  Then come the points of the parser: at each one the *)
(* invariant WithinField says how much of the field is left in the text,   *)
(* which is the current token, and what has been found so far.             *)
(***************************************************************************)
EXTENDS FieldReader, ParserProofs

--------------------------------------------------------------------------------
(* Characters in their place.                                                  *)

\* The characters stand in the text t from the place p on.
Holds(t, p, chars) == \A i \in 1..Len(chars) : At(t, p + i - 1) = chars[i]

\* What joining texts yields.
LEMMA JoinedCharacters ==
  ASSUME NEW a, NEW b, IsText(a), IsText(b)
  PROVE  /\ IsText(a \o b)
         /\ Len(a) \in Nat /\ Len(b) \in Nat /\ Len(a \o b) = Len(a) + Len(b)
         /\ \A i \in 1..Len(a) : (a \o b)[i] = a[i]
         /\ \A i \in 1..Len(b) : (a \o b)[Len(a) + i] = b[i]
         /\ a = <<>> => a \o b = b
         /\ a # <<>> => a \o b # <<>> /\ (a \o b)[1] = a[1] /\ Len(a) >= 1
         /\ b # <<>> => a \o b # <<>>
<1>1. PICK S : a \in Seq(S)
  BY DEF IsText
<1>2. PICK T : b \in Seq(T)
  BY DEF IsText
<1> DEFINE U == S \cup T
<1>3. a \in Seq(U) /\ b \in Seq(U)
  BY <1>1, <1>2
<1> HIDE DEF U
<1> DEFINE ab == a \o b
<1>4. /\ ab \in Seq(U)
      /\ Len(a) \in Nat /\ Len(b) \in Nat /\ Len(ab) = Len(a) + Len(b)
      /\ \A i \in 1..Len(a) : ab[i] = a[i]
      /\ \A i \in 1..Len(b) : ab[Len(a) + i] = b[i]
  BY <1>3, ConcatProperties
<1>5. a = <<>> => ab = b
  BY <1>3, ConcatEmptySeq
<1>6. (a # <<>> => Len(a) >= 1) /\ (b # <<>> => Len(b) >= 1) /\ Len(<<>>) = 0
  BY <1>3
<1> HIDE DEF ab
<1>7. IsText(ab)
  BY <1>4 DEF IsText
<1>8. (a # <<>> \/ b # <<>>) => ab # <<>>
  BY <1>4, <1>6
<1>9. a # <<>> => ab[1] = a[1]
  BY <1>4, <1>6
<1> QED
  BY <1>4, <1>5, <1>6, <1>7, <1>8, <1>9 DEF ab

\* One character in its place, and two.
LEMMA HoldsOne == \A t, c : \A p \in Nat : Holds(t, p, <<c>>) <=> At(t, p) = c
<1> TAKE t, c
<1> TAKE p \in Nat
<1>1. Len(<<c>>) = 1 /\ <<c>>[1] = c /\ p + 1 - 1 = p
  OBVIOUS
<1> QED
  BY <1>1 DEF Holds

LEMMA HoldsTwo ==
  \A t, c, d : \A p \in Nat : Holds(t, p, <<c, d>>) <=> At(t, p) = c /\ At(t, p + 1) = d
<1> TAKE t, c, d
<1> TAKE p \in Nat
<1>1. Len(<<c, d>>) = 2 /\ <<c, d>>[1] = c /\ <<c, d>>[2] = d /\ p + 1 - 1 = p /\ p + 2 - 1 = p + 1
  OBVIOUS
<1>2. 1..2 = {1, 2}
  OBVIOUS
<1> QED
  BY <1>1, <1>2 DEF Holds

\* One text behind the other.
LEMMA HoldsJoined ==
  ASSUME NEW t, NEW p \in Nat, NEW a, NEW b, IsText(a), IsText(b)
  PROVE  Holds(t, p, a \o b) <=> Holds(t, p, a) /\ Holds(t, p + Len(a), b)
<1> DEFINE ab == a \o b
<1>1. /\ Len(ab) = Len(a) + Len(b) /\ Len(a) \in Nat /\ Len(b) \in Nat
      /\ \A i \in 1..Len(a) : ab[i] = a[i]
      /\ \A i \in 1..Len(b) : ab[Len(a) + i] = b[i]
  BY JoinedCharacters
<1> HIDE DEF ab
<1>2. ASSUME Holds(t, p, ab) PROVE Holds(t, p, a) /\ Holds(t, p + Len(a), b)
  <2>1. ASSUME NEW i \in 1..Len(a) PROVE At(t, p + i - 1) = a[i]
    BY <1>1, <1>2 DEF Holds
  <2>2. ASSUME NEW i \in 1..Len(b) PROVE At(t, (p + Len(a)) + i - 1) = b[i]
    <3>1. Len(a) + i \in 1..Len(ab) /\ p + (Len(a) + i) - 1 = (p + Len(a)) + i - 1
      BY <1>1
    <3>2. At(t, p + (Len(a) + i) - 1) = ab[Len(a) + i]
      BY <1>2, <3>1 DEF Holds
    <3> QED
      BY <1>1, <3>1, <3>2
  <2> QED
    BY <2>1, <2>2 DEF Holds
<1>3. ASSUME Holds(t, p, a), Holds(t, p + Len(a), b), NEW i \in 1..Len(ab)
      PROVE  At(t, p + i - 1) = ab[i]
  <2>1. CASE i <= Len(a)
    BY <1>1, <1>3, <2>1 DEF Holds
  <2>2. CASE i > Len(a)
    <3> DEFINE j == i - Len(a)
    <3>1. j \in 1..Len(b) /\ i = Len(a) + j /\ (p + Len(a)) + j - 1 = p + i - 1
      BY <1>1, <2>2
    <3>2. At(t, (p + Len(a)) + j - 1) = b[j]
      BY <1>3, <3>1 DEF Holds
    <3> QED
      BY <1>1, <3>1, <3>2
  <2> QED
    BY <2>1, <2>2
<1> QED
  BY <1>2, <1>3 DEF Holds, ab

\* A character other than NUL is one of the text.
LEMMA CharacterInside ==
  ASSUME NEW t \in Seq(STRING), NEW p \in Nat, p >= 1, At(t, p) # NUL
  PROVE  p \in 1..Len(t) /\ ~(p > Len(t) + 1) /\ p # Len(t) + 1
BY DEF At

--------------------------------------------------------------------------------
(* What the lexer finds in the text of a field.                                *)

\* Where digits stand in front of something else, they end there.
LEMMA DigitsStand ==
  ASSUME NEW t \in Seq(STRING), NEW p \in Nat, p >= 1, NEW d, IsText(d), d # <<>>,
         \A i \in 1..Len(d) : d[i] \in Digit,
         Holds(t, p, d), At(t, p + Len(d)) \notin Digit
  PROVE  /\ DigitsEnd(t, p) = p + Len(d)
         /\ At(t, p) \in Digit
<1>0. Len(d) \in Nat /\ Len(d) >= 1 /\ p + 1 - 1 = p
  BY JoinedCharacters
<1>1. At(t, p) \in Digit
  BY <1>0 DEF Holds
<1>2. p \in 1..(Len(t) + 1)
  BY <1>1, NoDigit, CharacterInside
<1>3. \A i \in p..(p + Len(d) - 1) : At(t, i) \in Digit
  <2> TAKE i \in p..(p + Len(d) - 1)
  <2>1. i - p + 1 \in 1..Len(d) /\ p + (i - p + 1) - 1 = i
    BY <1>0
  <2> QED
    BY <2>1 DEF Holds
<1> DEFINE e == DigitsEnd(t, p)
<1>4. e \in p..(Len(t) + 1) /\ \A i \in p..(e - 1) : At(t, i) \in Digit
  BY <1>2, DigitsEndWithin
<1>5. At(t, e) \notin Digit
  <2>1. p + Len(d) - 1 \in 1..Len(t)
    <3>1. At(t, p + Len(d) - 1) \in Digit
      BY <1>0, <1>3
    <3> QED
      BY <1>0, <3>1, NoDigit, CharacterInside
  <2>2. p + Len(d) \in p..(Len(t) + 1)
    BY <1>0, <2>1
  <2> QED
    BY <1>3, <2>2 DEF DigitsEnd
<1> HIDE DEF e
<1>6. e = p + Len(d)
  <2>1. e >= p + Len(d)
    BY <1>0, <1>3, <1>4, <1>5
  <2>2. e <= p + Len(d)
    BY <1>0, <1>4
  <2> QED
    BY <1>0, <1>4, <2>1, <2>2
<1> QED
  BY <1>1, <1>6 DEF e

\* They are one token.
LEMMA DigitsToken ==
  ASSUME NEW t \in Seq(STRING), NEW p \in Nat, p >= 1, NEW d, IsText(d), d # <<>>,
         \A i \in 1..Len(d) : d[i] \in Digit,
         Holds(t, p, d), At(t, p + Len(d)) \notin Digit, NEW s
  PROVE  lex_next_token(t, p, s) = Accept("Digits", p, p + Len(d))
<1>1. DigitsEnd(t, p) = p + Len(d) /\ At(t, p) \in Digit
  BY DigitsStand
<1>2. ~(p > Len(t) + 1) /\ p # Len(t) + 1
  BY <1>1, NoDigit, CharacterInside
<1>3. At(t, p) \notin {"=", ">", "<", ":", "{", "}", "]", "|", "%"}
  BY <1>1, Zenon DEF Digit
<1> QED
  BY <1>1, <1>2, <1>3, Zenon DEF lex_next_token, digits_beg

\* The characters that begin a token of one kind.
LEMMA LexedAs ==
  ASSUME NEW t \in Seq(STRING), NEW p \in Nat, p >= 1, NEW s
  PROVE  /\ At(t, p) = ":" => lex_next_token(t, p, s) = colon(t, p)
         /\ At(t, p) = "{" => lex_next_token(t, p, s) = l_brace(t, p)
         /\ At(t, p) = "}" => lex_next_token(t, p, s) = r_brace(t, p, s)
         /\ At(t, p) = "]" => lex_next_token(t, p, s) = r_bracket(t, p)
         /\ At(t, p) = "|" => lex_next_token(t, p, s) = v_line(t, p)
         /\ At(t, p) = "=" => lex_next_token(t, p, s) = Accept("Equ", p, p + 1)
         /\ At(t, p) = ">" => lex_next_token(t, p, s) = Accept("Gt", p, p + 1)
         /\ At(t, p) = "<" => lex_next_token(t, p, s) = Accept("Lt", p, p + 1)
         /\ At(t, p) = "%" /\ "MatchChronoToken" \in s => lex_next_token(t, p, s) = chrono_percentage(t, p)
         /\ /\ At(t, p) \notin {"=", ">", "<", ":", "{", "}", "]", "|", NUL} \cup Digit
            /\ ~(At(t, p) = "%" /\ "MatchChronoToken" \in s)
            => lex_next_token(t, p, s) = Accept("OtherChar", p, p + 1)
<1>1. At(t, p) # NUL => ~(p > Len(t) + 1) /\ p # Len(t) + 1
  BY CharacterInside
<1>2. ASSUME At(t, p) \in {"=", ">", "<", ":", "{", "}", "]", "|", "%"}
      PROVE  At(t, p) # NUL /\ At(t, p) \notin Digit
  BY <1>2, Zenon DEF NUL, Digit
<1> QED
  BY <1>1, <1>2, Zenon DEF lex_next_token

--------------------------------------------------------------------------------
(* What is left of the text of a field.                                        *)

\* The text chars stands at the place p and ends at e.
Left(t, e, p, chars) ==
  /\ p \in Nat /\ p >= 1
  /\ IsText(chars)
  /\ Holds(t, p, chars)
  /\ p + Len(chars) = e
  /\ e <= Len(t) + 1

\* What is left behind the first of two texts.
LEMMA LeftBehind ==
  ASSUME NEW t \in Seq(STRING), NEW e, NEW p, NEW a, NEW b, IsText(a), IsText(b), Left(t, e, p, a \o b)
  PROVE  /\ Left(t, p + Len(a), p, a)
         /\ Left(t, e, p + Len(a), b)
<1>1. p \in Nat /\ p >= 1 /\ Holds(t, p, a \o b) /\ p + Len(a \o b) = e /\ e <= Len(t) + 1
  BY DEF Left
<1>2. Len(a) \in Nat /\ Len(b) \in Nat /\ Len(a \o b) = Len(a) + Len(b)
  BY JoinedCharacters
<1>3. p + Len(a) \in Nat /\ p + Len(a) >= 1 /\ (p + Len(a)) + Len(b) = e /\ p + Len(a) <= Len(t) + 1
  BY <1>1, <1>2
<1> QED
  BY <1>1, <1>3, HoldsJoined DEF Left

\* A text with nothing behind its terminator.
Clean(t) == t \in Seq(STRING) /\ \A i \in 1..Len(t) : t[i] # NUL

\* What is left lies in front of the terminator.
LEMMA LeftInside ==
  ASSUME NEW t, Clean(t), NEW e, NEW p, NEW chars, Left(t, e, p, chars), NEW q \in p..(e - 1)
  PROVE  q \in 1..Len(t) /\ At(t, q) # NUL
<1>1. e \in Nat /\ p \in Nat /\ p >= 1 /\ e <= Len(t) + 1 /\ Len(t) \in Nat
  BY TextLength DEF Left, Clean
<1>2. q \in 1..Len(t)
  BY <1>1
<1> QED
  BY <1>2 DEF At, Clean

\* The first character of what is left is the one at its place.
LEMMA LeftBegins ==
  ASSUME NEW t, NEW e, NEW p, NEW chars, Left(t, e, p, chars), chars # <<>>
  PROVE  At(t, p) = chars[1]
<1>1. p \in Nat /\ Len(chars) >= 1
  BY JoinedCharacters DEF Left
<1>2. 1 \in 1..Len(chars) /\ p + 1 - 1 = p
  BY <1>1, TextLength DEF Left
<1> QED
  BY <1>2 DEF Left, Holds

--------------------------------------------------------------------------------
(* The text of a field from each of its parts on.                              *)

CloseText(f) == IF f.class = "Value" THEN <<"}">> ELSE <<"]", "}">>

OpenText(f) == IF f.class = "Value" THEN <<"{">> ELSE <<"{", "[">>

FromItems(f) == f.spec.items.text \o CloseText(f)

FromFormat(f) == f.spec.fmt.text \o FromItems(f)

FromWidth(f) == f.spec.width.text \o FromFormat(f)

FromSign(f) == f.spec.sign.text \o FromWidth(f)

FromAlign(f) == f.spec.align.text \o FromSign(f)

FromFill(f) == f.spec.fill.text \o FromAlign(f)

FromSpec(f) == IF SpecText(f.spec) = <<>> THEN CloseText(f) ELSE <<":">> \o FromFill(f)

FromSplit(f) == f.split.text \o FromSpec(f)

FromType(f) == (<<":">> \o f.type.text) \o FromSplit(f)

FromId(f) == f.id.text \o FromType(f)

FromOpen(f) == OpenText(f) \o FromId(f)

\* The parts of a field are texts.
PartsAreTexts(f) ==
  /\ IsText(f.id.text) /\ IsText(f.type.text) /\ IsText(f.split.text)
  /\ IsText(f.spec.fill.text) /\ IsText(f.spec.align.text) /\ IsText(f.spec.sign.text)
  /\ IsText(f.spec.width.text) /\ IsText(f.spec.fmt.text) /\ IsText(f.spec.items.text)

\* What closes a field, and what opens it.
LEMMA ClosingTexts ==
  \A f : /\ IsText(CloseText(f)) /\ CloseText(f) # <<>>
         /\ CloseText(f)[1] = (IF f.class = "Value" THEN "}" ELSE "]")
         /\ Len(CloseText(f)) = (IF f.class = "Value" THEN 1 ELSE 2)
         /\ IsText(OpenText(f)) /\ OpenText(f) # <<>> /\ OpenText(f)[1] = "{"
         /\ Len(OpenText(f)) = (IF f.class = "Value" THEN 1 ELSE 2)
<1>2. /\ Len(<<"}">>) = 1 /\ Len(<<"{">>) = 1 /\ Len(<<"]", "}">>) = 2 /\ Len(<<"{", "[">>) = 2
      /\ <<"}">>[1] = "}" /\ <<"{">>[1] = "{" /\ <<"]", "}">>[1] = "]" /\ <<"{", "[">>[1] = "{"
      /\ Len(<<>>) = 0
  OBVIOUS
<1>3. /\ <<"}">> # <<>> /\ <<"{">> # <<>> /\ <<"]", "}">> # <<>> /\ <<"{", "[">> # <<>>
  BY <1>2
<1> QED
  BY <1>2, <1>3, TextOf, Zenon DEF CloseText, OpenText

\* From each part on there is something left.
LEMMA LeftTexts ==
  ASSUME NEW f, PartsAreTexts(f)
  PROVE  /\ IsText(FromItems(f)) /\ FromItems(f) # <<>>
         /\ IsText(FromFormat(f)) /\ FromFormat(f) # <<>>
         /\ IsText(FromWidth(f)) /\ FromWidth(f) # <<>>
         /\ IsText(FromSign(f)) /\ FromSign(f) # <<>>
         /\ IsText(FromAlign(f)) /\ FromAlign(f) # <<>>
         /\ IsText(FromFill(f)) /\ FromFill(f) # <<>>
         /\ IsText(FromSpec(f)) /\ FromSpec(f) # <<>>
         /\ IsText(FromSplit(f)) /\ FromSplit(f) # <<>>
         /\ IsText(FromType(f)) /\ FromType(f) # <<>>
         /\ IsText(FromId(f)) /\ FromId(f) # <<>>
         /\ IsText(FromOpen(f)) /\ FromOpen(f) # <<>>
<1> DEFINE OK(c) == IsText(c) /\ c # <<>>
<1>0. ASSUME NEW a, NEW b, IsText(a), OK(b) PROVE OK(a \o b)
  BY <1>0, JoinedCharacters
<1>1. OK(CloseText(f)) /\ IsText(OpenText(f)) /\ IsText(<<":">>)
  BY ClosingTexts, TextOf, Zenon
<1> HIDE DEF OK
<1>2. OK(FromItems(f))
  BY <1>0, <1>1 DEF FromItems, PartsAreTexts
<1>3. OK(FromFormat(f))
  BY <1>0, <1>2 DEF FromFormat, PartsAreTexts
<1>4. OK(FromWidth(f))
  BY <1>0, <1>3 DEF FromWidth, PartsAreTexts
<1>5. OK(FromSign(f))
  BY <1>0, <1>4 DEF FromSign, PartsAreTexts
<1>6. OK(FromAlign(f))
  BY <1>0, <1>5 DEF FromAlign, PartsAreTexts
<1>7. OK(FromFill(f))
  BY <1>0, <1>6 DEF FromFill, PartsAreTexts
<1>8. OK(FromSpec(f))
  BY <1>0, <1>1, <1>7 DEF FromSpec
<1>9. OK(FromSplit(f))
  BY <1>0, <1>8 DEF FromSplit, PartsAreTexts
<1>10. OK(FromType(f))
  <2>1. IsText(<<":">> \o f.type.text)
    BY <1>1, TextsJoined DEF PartsAreTexts
  <2> QED
    BY <1>0, <1>9, <2>1 DEF FromType
<1>11. OK(FromId(f))
  BY <1>0, <1>10 DEF FromId, PartsAreTexts
<1>12. OK(FromOpen(f))
  BY <1>0, <1>1, <1>11 DEF FromOpen
<1> QED
  BY <1>2, <1>3, <1>4, <1>5, <1>6, <1>7, <1>8, <1>9, <1>10, <1>11, <1>12 DEF OK

--------------------------------------------------------------------------------
(* The parts of the grammar.                                                   *)

LEMMA NumeralIsDigit == \A v \in 0..9 : Numerals[v + 1] \in Digit
BY DEF Numerals, Digit

\* The letters of a time are different ones.
LEMMA LetterNamed ==
  \A c \in DOMAIN TimeLetters : (CHOOSE d \in DOMAIN TimeLetters : TimeLetters[d] = TimeLetters[c]) = c
<1>1. \A c, d \in DOMAIN TimeLetters : TimeLetters[d] = TimeLetters[c] => d = c
  BY DEF TimeLetters
<1> QED
  BY <1>1

\* The letters of an item are those it was written with.
LEMMA LettersNamed ==
  ASSUME NEW c \in DOMAIN TimeLetters, NEW n \in 1..MostLetters(c)
  PROVE  LettersOf(TimeMeans(c, n)) = [j \in 1..n |-> c]
<1>1. (CHOOSE d \in DOMAIN TimeLetters : TimeLetters[d] = TimeMeans(c, n).value_type) = c
  BY LetterNamed DEF TimeMeans
<1>2. (IF c = "w" THEN 1 ELSE TimeMeans(c, n).format_length) = n
  BY DEF TimeMeans, MostLetters
<1> DEFINE d == CHOOSE d \in DOMAIN TimeLetters : TimeLetters[d] = TimeMeans(c, n).value_type
<1>3. LettersOf(TimeMeans(c, n)) = [j \in 1..(IF d = "w" THEN 1 ELSE TimeMeans(c, n).format_length) |-> d]
  BY DEF LettersOf
<1> HIDE DEF d
<1>4. d = c
  BY <1>1 DEF d
<1> QED
  BY <1>2, <1>3, <1>4

\* The text of an item: a percent sign, its letter so many times, and what stands behind them.
LEMMA ItemIsText ==
  ASSUME NEW i, IsTimeItem(i)
  PROVE  \E c \in DOMAIN TimeLetters : \E n \in 1..MostLetters(c) :
           /\ i.item = TimeMeans(c, n) /\ IsBehindItem(i.split, c, n)
           /\ IsText(i.split)
           /\ ItemText(i) = <<"%">> \o [j \in 1..n |-> c] \o i.split
           /\ IsText([j \in 1..n |-> c])
           /\ IsText(<<"%">> \o [j \in 1..n |-> c])
           /\ IsText(ItemText(i)) /\ ItemText(i) # <<>> /\ ItemText(i)[1] = "%"
           /\ Len(ItemText(i)) = 1 + n + Len(i.split)
<1>1. PICK c \in DOMAIN TimeLetters : \E n \in 1..MostLetters(c) :
        i.item = TimeMeans(c, n) /\ IsBehindItem(i.split, c, n)
  BY DEF IsTimeItem
<1>2. PICK n \in 1..MostLetters(c) : i.item = TimeMeans(c, n) /\ IsBehindItem(i.split, c, n)
  BY <1>1
<1> DEFINE l == [j \in 1..n |-> c]
           h == <<"%">> \o l
<1>0. n \in Nat /\ Len(l) = n
  OBVIOUS
<1>3. LettersOf(i.item) = l
  BY <1>2, LettersNamed
<1>4. IsText(l)
  BY <1>0, TextRepeated
<1>5. IsText(i.split)
  BY <1>2, Zenon DEF IsBehindItem, IsText
<1>6. ItemText(i) = h \o i.split
  BY <1>3 DEF ItemText
<1>7. IsText(<<"%">>) /\ <<"%">> # <<>> /\ <<"%">>[1] = "%" /\ Len(<<"%">>) = 1
  BY TextOf
<1> HIDE DEF l
<1>8. IsText(h) /\ h # <<>> /\ h[1] = "%" /\ Len(h) = 1 + n
  BY <1>0, <1>4, <1>7, JoinedCharacters
<1> HIDE DEF h
<1>9. IsText(h \o i.split) /\ h \o i.split # <<>> /\ (h \o i.split)[1] = "%" /\ Len(h \o i.split) = 1 + n + Len(i.split)
  BY <1>5, <1>8, JoinedCharacters
<1> QED
  BY <1>2, <1>4, <1>5, <1>6, <1>8, <1>9 DEF h, l

\* The texts of the items, one behind the other, up to the k-th.
ItemTexts(items, k) == [j \in 1..k |-> ItemText(items[j])]

\* The texts of the items one by one.
LEMMA ItemsAreTexts ==
  ASSUME NEW items, Len(items) \in Nat, \A k \in 1..Len(items) : IsTimeItem(items[k])
  PROVE  /\ \A k \in 0..Len(items) : AllTexts(ItemTexts(items, k), k) /\ IsText(FlattenSeq(ItemTexts(items, k)))
         /\ ItemsText(items) = FlattenSeq(ItemTexts(items, Len(items)))
         /\ FlattenSeq(ItemTexts(items, 0)) = <<>>
         /\ \A k \in 0..(Len(items) - 1) :
              FlattenSeq(ItemTexts(items, k + 1)) = FlattenSeq(ItemTexts(items, k)) \o ItemText(items[k + 1])
<1>1. \A k \in 1..Len(items) : IsText(ItemText(items[k]))
  BY ItemIsText
<1>2. ASSUME NEW k \in 0..Len(items) PROVE AllTexts(ItemTexts(items, k), k)
  <2>1. \A j \in 1..k : j \in 1..Len(items)
    OBVIOUS
  <2>2. \A j \in 1..k : ItemTexts(items, k)[j] = ItemText(items[j]) /\ IsText(ItemText(items[j]))
    BY <1>1, <2>1 DEF ItemTexts
  <2>3. ItemTexts(items, k) = [j \in 1..k |-> ItemTexts(items, k)[j]]
    BY <2>2 DEF ItemTexts
  <2> QED
    BY <2>2, <2>3 DEF AllTexts
<1>3. ASSUME NEW k \in 0..(Len(items) - 1)
      PROVE  FlattenSeq(ItemTexts(items, k + 1)) = FlattenSeq(ItemTexts(items, k)) \o ItemText(items[k + 1])
  <2>1. k \in Nat /\ k \in 0..Len(items) /\ k + 1 \in 0..Len(items)
    OBVIOUS
  <2>2. (\A j \in 1..k : ItemTexts(items, k)[j] = ItemTexts(items, k + 1)[j])
        /\ ItemTexts(items, k + 1)[k + 1] = ItemText(items[k + 1])
    BY <2>1 DEF ItemTexts
  <2> QED
    BY <1>2, <2>1, <2>2, FlattenedGrows
<1>4. FlattenSeq(ItemTexts(items, 0)) = <<>>
  <2>1. ItemTexts(items, 0) = <<>>
    <3>1. 1..0 = {}
      OBVIOUS
    <3> QED
      BY <3>1 DEF ItemTexts
  <2>2. Len(<<>>) = 0
    OBVIOUS
  <2> QED
    BY <2>1, <2>2 DEF FlattenSeq
<1>5. \A k \in 0..Len(items) : IsText(FlattenSeq(ItemTexts(items, k)))
  BY <1>2, FlattenedText
<1> QED
  BY <1>2, <1>3, <1>4, <1>5 DEF ItemsText, ItemTexts

\* A text of digits.
IsDigits(chars) == IsText(chars) /\ chars # <<>> /\ \A i \in 1..Len(chars) : chars[i] \in Digit

\* A number is written with digits.
LEMMA NumberIsDigits ==
  ASSUME NEW p, NEW limit, IsNumber(p, limit)
  PROVE  IsDigits(p.text)
<1>1. IsText(p.text) /\ p.text # <<>>
  BY DEF IsNumber, IsText
<1>2. ASSUME NEW i \in 1..Len(p.text) PROVE p.text[i] \in Digit
  BY NumeralIsDigit DEF IsNumber
<1> QED
  BY <1>1, <1>2 DEF IsDigits

\* Texts of up to four characters.
LEMMA FewCharacters ==
  /\ \A c, d, e : IsText(<<c, d, e>>)
  /\ \A c, d, e, g : IsText(<<c, d, e, g>>)
<1>1. \A c, d, e : <<c, d, e>> \in Seq({c, d, e})
  OBVIOUS
<1>2. \A c, d, e, g : <<c, d, e, g>> \in Seq({c, d, e, g})
  OBVIOUS
<1> QED
  BY <1>1, <1>2, Zenon DEF IsText

LEMMA TuplesGrow ==
  ASSUME NEW x, NEW y, NEW z, NEW u
  PROVE  /\ <<x, y>> \o <<>> = <<x, y>> /\ <<x, y, z>> \o <<>> = <<x, y, z>>
         /\ <<x, y>> \o <<z>> = <<x, y, z>>
         /\ <<x, y, z>> \o <<u>> = <<x, y, z, u>>
<1> DEFINE U == {x, y, z, u}
           s == <<x, y>> \o <<z>>
           r == <<x, y, z>> \o <<u>>
<1>1. <<x, y>> \in Seq(U) /\ <<z>> \in Seq(U) /\ <<x, y, z>> \in Seq(U) /\ <<u>> \in Seq(U)
  OBVIOUS
<1>2. /\ <<x, y>>[1] = x /\ <<x, y>>[2] = y /\ <<z>>[1] = z /\ Len(<<x, y>>) = 2 /\ Len(<<z>>) = 1
      /\ <<x, y, z>>[1] = x /\ <<x, y, z>>[2] = y /\ <<x, y, z>>[3] = z /\ Len(<<x, y, z>>) = 3
      /\ <<u>>[1] = u /\ Len(<<u>>) = 1
  OBVIOUS
<1>3. s \in Seq(U) /\ Len(s) = 3 /\ s[1] = x /\ s[2] = y /\ s[3] = z
  BY <1>1, <1>2, ConcatProperties
<1>4. r \in Seq(U) /\ Len(r) = 4 /\ r[1] = x /\ r[2] = y /\ r[3] = z /\ r[4] = u
  BY <1>1, <1>2, ConcatProperties
<1>5. <<x, y>> \o <<>> = <<x, y>> /\ <<x, y, z>> \o <<>> = <<x, y, z>>
  OBVIOUS
<1> HIDE DEF s, r
<1>6. s = <<x, y, z>> /\ r = <<x, y, z, u>>
  BY <1>3, <1>4
<1> QED
  BY <1>5, <1>6 DEF s, r

\* The texts of the types, with what they mean.
TypeCases(p) ==
  \/ p \in {Part(q.text, TypeMeans(q.means, 0)) : q \in PlainTypes}
  \/ \E a \in 0..9 :
       \/ p = Part(<<"q", Numerals[a + 1]>>, TypeMeans("QuantizedValue", a))
       \/ p = Part(<<"q", Numerals[a + 1], "u">>, TypeMeans("QuantizedUnsignedValue", a))
       \/ \E b \in 0..9 :
            \/ p = Part(<<"q", Numerals[a + 1], Numerals[b + 1]>>, TypeMeans("QuantizedValue", (10 * a) + b))
            \/ p = Part(<<"q", Numerals[a + 1], Numerals[b + 1], "u">>,
                        TypeMeans("QuantizedUnsignedValue", (10 * a) + b))

\* There are no other types.
LEMMA TypesNamed == \A p \in TypeParts : TypeCases(p) /\ IsText(p.text)
<1>1. \A x, y : <<x, y>> \o <<>> = <<x, y>> /\ <<x, y>> \o <<"u">> = <<x, y, "u">>
  BY TuplesGrow
<1>2. \A x, y, z : <<x, y, z>> \o <<>> = <<x, y, z>> /\ <<x, y, z>> \o <<"u">> = <<x, y, z, "u">>
  BY TuplesGrow
<1>3. ASSUME NEW p \in TypeParts PROVE TypeCases(p)
  <2>1. CASE p \in {Part(q.text, TypeMeans(q.means, 0)) : q \in PlainTypes}
    BY <2>1 DEF TypeCases
  <2>2. ASSUME NEW a \in 0..9, NEW q \in QuantSigns,
               p = Part(<<"q", Numerals[a + 1]>> \o q.text, TypeMeans(q.means, a))
        PROVE  TypeCases(p)
    <3>1. \/ q.text = <<>> /\ q.means = "QuantizedValue"
          \/ q.text = <<"u">> /\ q.means = "QuantizedUnsignedValue"
      BY DEF QuantSigns, Part
    <3>2. \/ p = Part(<<"q", Numerals[a + 1]>>, TypeMeans("QuantizedValue", a))
          \/ p = Part(<<"q", Numerals[a + 1], "u">>, TypeMeans("QuantizedUnsignedValue", a))
      BY <1>1, <2>2, <3>1
    <3> QED
      BY <3>2, Zenon DEF TypeCases
  <2>3. ASSUME NEW a \in 0..9, NEW b \in 0..9, NEW q \in QuantSigns,
               p = Part(<<"q", Numerals[a + 1], Numerals[b + 1]>> \o q.text, TypeMeans(q.means, (10 * a) + b))
        PROVE  TypeCases(p)
    <3>1. \/ q.text = <<>> /\ q.means = "QuantizedValue"
          \/ q.text = <<"u">> /\ q.means = "QuantizedUnsignedValue"
      BY DEF QuantSigns, Part
    <3>2. \/ p = Part(<<"q", Numerals[a + 1], Numerals[b + 1]>>, TypeMeans("QuantizedValue", (10 * a) + b))
          \/ p = Part(<<"q", Numerals[a + 1], Numerals[b + 1], "u">>, TypeMeans("QuantizedUnsignedValue", (10 * a) + b))
      BY <1>2, <2>3, <3>1
    <3> QED
      BY <3>2, Zenon DEF TypeCases
  <2> DEFINE One == {Part(q.text, TypeMeans(q.means, 0)) : q \in PlainTypes}
             Two == {Part(<<"q", Numerals[a + 1]>> \o q.text, TypeMeans(q.means, a)) : a \in 0..9, q \in QuantSigns}
             Value(a, b, q) == Part(<<"q", Numerals[a + 1], Numerals[b + 1]>> \o q.text, TypeMeans(q.means, (10 * a) + b))
             Three == {Value(a, b, q) : a \in 0..9, b \in 0..9, q \in QuantSigns}
  <2>4. p \in One \/ p \in Two \/ p \in Three
    <3> HIDE DEF One, Two, Three
    <3>1. TypeParts = One \cup Two \cup Three
      BY DEF TypeParts, One, Two, Three
    <3> QED
      BY <3>1
  <2>5. p \in Two => TypeCases(p)
    BY <2>2
  <2>6. p \in Three => TypeCases(p)
    <3>1. \A a \in 0..9, b \in 0..9, q \in QuantSigns : p = Value(a, b, q) => TypeCases(p)
      BY <2>3, Zenon
    <3> HIDE DEF Value, TypeCases
    <3> QED
      BY <3>1
  <2> QED
    <3> HIDE DEF One, Two, Three
    <3>1. p \in One => TypeCases(p)
      BY <2>1 DEF One
    <3> QED
      BY <2>4, <2>5, <2>6, <3>1
<1>4. ASSUME NEW p \in TypeParts PROVE IsText(p.text)
  <2>1. TypeCases(p)
    BY <1>3
  <2>2. \A x, y : Part(x, y).text = x
    BY DEF Part
  <2>3. \A q \in PlainTypes : IsText(q.text)
    <3>1. \A q \in PlainTypes : \/ \E c : q.text = <<c>>
                                \/ \E c, d : q.text = <<c, d>>
                                \/ \E c, d, e : q.text = <<c, d, e>>
      BY DEF PlainTypes, Part
    <3> QED
      BY <3>1, TextOf, FewCharacters
  <2>4. CASE p \in {Part(q.text, TypeMeans(q.means, 0)) : q \in PlainTypes}
    BY <2>2, <2>3, <2>4
  <2>5. CASE \E a \in 0..9 :
               \/ p = Part(<<"q", Numerals[a + 1]>>, TypeMeans("QuantizedValue", a))
               \/ p = Part(<<"q", Numerals[a + 1], "u">>, TypeMeans("QuantizedUnsignedValue", a))
    BY <2>2, <2>5, TextOf, FewCharacters
  <2>6. CASE \E a, b \in 0..9 :
               \/ p = Part(<<"q", Numerals[a + 1], Numerals[b + 1]>>, TypeMeans("QuantizedValue", (10 * a) + b))
               \/ p = Part(<<"q", Numerals[a + 1], Numerals[b + 1], "u">>,
                           TypeMeans("QuantizedUnsignedValue", (10 * a) + b))
    BY <2>2, <2>6, FewCharacters
  <2> QED
    BY <2>1, <2>4, <2>5, <2>6, Zenon DEF TypeCases
<1> QED
  BY <1>3, <1>4

\* An item of the manual is one of the parser.
LEMMA TimeMeansItem ==
  \A c, n : TimeMeans(c, n) = Item(TimeLetters[c], IF c = "x" \/ (c # "w" /\ n % 2 = 0) THEN TRUE ELSE FALSE,
                                  IF c = "w" THEN 0 ELSE n)
<1> TAKE c, n
<1> DEFINE b == c = "x" \/ (c # "w" /\ n % 2 = 0)
<1>1. TimeMeans(c, n) = Item(TimeLetters[c], b, IF c = "w" THEN 0 ELSE n)
  BY DEF TimeMeans, Item
<1>2. b = IF b THEN TRUE ELSE FALSE
  OBVIOUS
<1> HIDE DEF b
<1> QED
  BY <1>1, <1>2 DEF b

\* The dates of the manual are those of the parser.
LEMMA PredefTexts ==
  \A p \in PredefParts :
    /\ \/ p.text = <<"%", "g">> /\ p.means = Predef_g
       \/ p.text = <<"%", "f">> /\ p.means = Predef_f
    /\ IsText(p.text)
<1>1. /\ TimeMeans("y", 4) = Item("Year", TRUE, 4) /\ TimeMeans("M", 2) = Item("Month", TRUE, 2)
      /\ TimeMeans("d", 2) = Item("Day", TRUE, 2) /\ TimeMeans("H", 2) = Item("Hour24", TRUE, 2)
      /\ TimeMeans("m", 2) = Item("Minute", TRUE, 2) /\ TimeMeans("s", 2) = Item("Second", TRUE, 2)
      /\ TimeMeans("x", 4) = Item("SubSecond", TRUE, 4) /\ TimeMeans("w", 1) = Item("Week", FALSE, 0)
  BY TimeMeansItem DEF Item, TimeLetters
<1>2. DateAndTime(<<>>) = Predef_g
  BY <1>1, Zenon DEF DateAndTime, Predef_g, Behind, Split
<1>3. DateAndTime(<<" ">>) = [Predef_g EXCEPT ![7].split = <<" ">>]
  <2>2. \A c, n, s : Behind(c, n, s) = Split(TimeMeans(c, n), s)
    BY DEF Behind, Split
  <2> DEFINE a == Split(Item("Year", TRUE, 4), <<"-">>)
             b == Split(Item("Month", TRUE, 2), <<"-">>)
             c == Split(Item("Day", TRUE, 2), <<" ">>)
             d == Split(Item("Hour24", TRUE, 2), <<":">>)
             e == Split(Item("Minute", TRUE, 2), <<":">>)
             g == Split(Item("Second", TRUE, 2), <<".">>)
             i == Item("SubSecond", TRUE, 4)
             y == <<" ">>
  <2>3. DateAndTime(y) = <<a, b, c, d, e, g, Split(i, y)>>
    BY <1>1, <2>2, Zenon DEF DateAndTime
  <2>4. Predef_g = <<a, b, c, d, e, g, Split(i, <<>>)>>
    BY DEF Predef_g
  <2> HIDE DEF a, b, c, d, e, g, i, y
  <2>5. [<<a, b, c, d, e, g, Split(i, <<>>)>> EXCEPT ![7].split = y] = <<a, b, c, d, e, g, Split(i, y)>>
    BY DEF Split
  <2>6. DateAndTime(y) = [Predef_g EXCEPT ![7].split = y]
    BY <2>3, <2>4, <2>5
  <2> QED
    BY <2>6, Zenon DEF y
<1>4. <<Behind("w", 1, <<>>)>> = <<Split(Item("Week", FALSE, 0), <<>>)>>
  BY <1>1 DEF Behind, Split
<1>5. DateAndTime(<<" ">>) \o <<Behind("w", 1, <<>>)>> = Predef_f
  BY <1>3, <1>4, Zenon DEF Predef_f
<1> HIDE DEF Predef_g, Predef_f
<1>6. PredefParts = {Part(<<"%", "g">>, Predef_g), Part(<<"%", "f">>, Predef_f)}
  BY <1>2, <1>5, Zenon DEF PredefParts
<1> QED
  BY <1>6, TextOf DEF Part

\* The texts of one item and of more begin with a percent sign.
LEMMA ItemsBegin ==
  ASSUME NEW items, Len(items) \in Nat, \A k \in 1..Len(items) : IsTimeItem(items[k]), Len(items) >= 1
  PROVE  ItemsText(items) # <<>> /\ ItemsText(items)[1] = "%"
<1> DEFINE F(k) == FlattenSeq(ItemTexts(items, k))
           H == {k \in Nat : 1 <= k /\ k <= Len(items) => F(k) # <<>> /\ F(k)[1] = "%"}
<1>1. 0 \in H
  OBVIOUS
<1>2. ASSUME NEW k \in Nat, k \in H PROVE k + 1 \in H
  <2> SUFFICES ASSUME k + 1 <= Len(items) PROVE F(k + 1) # <<>> /\ F(k + 1)[1] = "%"
    <3> HIDE DEF F
    <3> QED
      OBVIOUS
  <2>1. k \in 0..(Len(items) - 1) /\ k + 1 \in 1..Len(items) /\ k \in 0..Len(items)
    OBVIOUS
  <2>2. F(k + 1) = F(k) \o ItemText(items[k + 1]) /\ IsText(F(k)) /\ F(0) = <<>>
    BY <2>1, ItemsAreTexts
  <2>3. IsText(ItemText(items[k + 1])) /\ ItemText(items[k + 1]) # <<>> /\ ItemText(items[k + 1])[1] = "%"
    BY <2>1, ItemIsText
  <2> HIDE DEF F
  <2>4. CASE k = 0
    BY <2>2, <2>3, <2>4, JoinedCharacters
  <2>5. CASE k # 0
    <3>1. F(k) # <<>> /\ F(k)[1] = "%"
      BY <1>2, <2>1, <2>5
    <3> QED
      BY <2>2, <2>3, <3>1, JoinedCharacters
  <2> QED
    BY <2>4, <2>5
<1> HIDE DEF H
<1>3. Nat \subseteq H
  BY <1>1, <1>2, NumberInduction
<1>4. ItemsText(items) = F(Len(items))
  BY ItemsAreTexts
<1> QED
  BY <1>3, <1>4 DEF H

AlignMeans(c) == CASE c = "<" -> "Left" [] c = "=" -> "Center" [] OTHER -> "Right"

\* What is used of the parts of a field of the grammar.
SpecParts(s) ==
  /\ \/ s.fill.text = <<>> /\ s.fill.means = " "
     \/ \E c : c \notin NotFill /\ s.fill.text = <<c>> /\ s.fill.means = c
  /\ \/ s.align.text = <<>> /\ s.align.means = "Right"
     \/ \E c \in {"<", "=", ">"} : s.align.text = <<c>> /\ s.align.means = AlignMeans(c)
  /\ s.fill.text # <<>> => s.align.text # <<>>
  /\ \/ s.sign.text = <<>> /\ s.sign.means = "NegOnly"
     \/ \E c \in SignChars : s.sign.text = <<c>> /\ s.sign.means = SignOf(c)
  /\ \/ s.width.text = <<>> /\ s.width.means = -1
     \/ IsDigits(s.width.text) /\ IsNumber(s.width, PlaceMaxWidth)
  /\ \/ s.fmt.text = <<>> /\ s.fmt.means = UnSpec
     \/ \E c \in DOMAIN FormatTypeOf : s.fmt.text = <<c>> /\ s.fmt.means = FormatTypeOf[c]
  /\ s.fmt.text # <<>> => s.items.text = <<>>

UserItems(p) ==
  /\ Len(p.means) \in Nat /\ Len(p.means) >= 1 /\ Len(p.means) <= ChronoPlaceMax
  /\ p.means = [k \in 1..Len(p.means) |-> p.means[k]]
  /\ \A k \in 1..Len(p.means) : IsTimeItem(p.means[k])
                                /\ p.means[k] = [item |-> p.means[k].item, split |-> p.means[k].split]
  /\ p.text = ItemsText(p.means)

ItemParts(p) ==
  /\ \/ p.text = <<>> /\ p.means = <<>>
     \/ p.text = <<"%", "g">> /\ p.means = Predef_g
     \/ p.text = <<"%", "f">> /\ p.means = Predef_f
     \/ UserItems(p)
  /\ IsText(p.text)
  /\ p.text # <<>> => p.text[1] = "%"

SplitParts(f) ==
  \/ f.split.text = <<>> /\ f.split.means = <<",", " ">>
  \/ /\ f.class = "Array"
     /\ f.split.means \in Seq(STRING \ {":", "}"})
     /\ f.split.text = <<"|", ":">> \o f.split.means
     /\ f.split.means # <<>> => f.split.means[Len(f.split.means)] # "|"

FieldOfParts(f) ==
  /\ PartsAreTexts(f)
  /\ f.class \in {"Value", "Array"}
  /\ IsDigits(f.id.text) /\ IsNumber(f.id, Word)
  /\ f.type \in TypeParts
  /\ SplitParts(f)
  /\ SpecParts(f.spec)
  /\ ItemParts(f.spec.items)

\* What the grammar takes for the items of a time.
LEMMA TimesNamed ==
  ASSUME NEW p, IsTimes(p, ChronoPlaceMax)
  PROVE  ItemParts(p)
<1>1. CASE p \in PredefParts
  <2>1. <<"%", "g">>[1] = "%" /\ <<"%", "f">>[1] = "%"
    OBVIOUS
  <2> QED
    BY <1>1, <2>1, PredefTexts DEF ItemParts
<1>2. CASE p \notin PredefParts
  <2> DEFINE S == [item : {TimeMeans(c, n) : c \in DOMAIN TimeLetters, n \in 1..4}, split : Seq(STRING)]
             m == p.means
  <2>1. /\ m \in Seq(S) /\ Len(m) <= ChronoPlaceMax
        /\ \A k \in 1..Len(m) : IsTimeItem(m[k])
        /\ p.text = ItemsText(m)
    BY <1>2 DEF IsTimes
  <2>2. \A i \in S : i = [item |-> i.item, split |-> i.split]
    OBVIOUS
  <2> HIDE DEF S
  <2>3. Len(m) \in Nat /\ m = [k \in 1..Len(m) |-> m[k]] /\ \A k \in 1..Len(m) : m[k] \in S
    BY <2>1
  <2>6. IsText(p.text)
    <3>1. Len(m) \in 0..Len(m)
      BY <2>3
    <3> QED
      BY <2>1, <2>3, <3>1, ItemsAreTexts
  <2>4. CASE Len(m) = 0
    <3>1. p.text = <<>>
      BY <2>1, <2>3, <2>4, ItemsAreTexts
    <3>2. m = <<>>
      BY <2>1, <2>4
    <3> QED
      BY <2>6, <3>1, <3>2 DEF ItemParts
  <2>5. CASE Len(m) # 0
    <3>1. p.text # <<>> /\ p.text[1] = "%"
      BY <2>1, <2>3, <2>5, ItemsBegin
    <3>2. UserItems(p)
      BY <2>1, <2>2, <2>3, <2>5 DEF UserItems
    <3> QED
      BY <2>6, <3>1, <3>2 DEF ItemParts
  <2> QED
    BY <2>4, <2>5
<1> QED
  BY <1>1, <1>2

\* Every field of the grammar is put together from these parts.
LEMMA GrammarParts ==
  ASSUME NEW f, Grammatical(f, Word, PlaceMaxWidth, ChronoPlaceMax)
  PROVE  FieldOfParts(f)
<1> DEFINE s == f.spec
<1>0. \A x, y : Part(x, y).text = x /\ Part(x, y).means = y
  BY DEF Part
<1>1. IsText(<<>>) /\ \A c : IsText(<<c>>)
  BY TextOf
<1>2. \/ s.fill.text = <<>> /\ s.fill.means = " "
      \/ \E c : c \notin NotFill /\ s.fill.text = <<c>> /\ s.fill.means = c
  <2>1. s.fill = Part(<<>>, " ") \/ (s.fill.means \in STRING \ NotFill /\ s.fill.text = <<s.fill.means>>)
    BY Zenon DEF Grammatical, IsFill
  <2>2. CASE s.fill = Part(<<>>, " ")
    BY <1>0, <2>2, Zenon
  <2>3. CASE s.fill.means \notin NotFill /\ s.fill.text = <<s.fill.means>>
    BY <2>3
  <2> HIDE DEF s
  <2> QED
    BY <2>1, <2>2, <2>3, Zenon
<1>3. \/ s.align.text = <<>> /\ s.align.means = "Right"
      \/ \E c \in {"<", "=", ">"} : s.align.text = <<c>> /\ s.align.means = AlignMeans(c)
  <2>1. AlignMeans("<") = "Left" /\ AlignMeans("=") = "Center" /\ AlignMeans(">") = "Right"
    BY DEF AlignMeans
  <2>2. s.align \in AlignParts
    BY DEF Grammatical
  <2> QED
    BY <1>0, <2>1, <2>2 DEF AlignParts
<1>4. \/ s.sign.text = <<>> /\ s.sign.means = "NegOnly"
      \/ \E c \in SignChars : s.sign.text = <<c>> /\ s.sign.means = SignOf(c)
  <2>1. SignOf("+") = "Always" /\ SignOf("-") = "NegOnly" /\ SignOf(" ") = "Neg_Or_Space"
    BY DEF SignOf
  <2>2. s.sign \in SignParts
    BY DEF Grammatical
  <2>3. \/ s.sign.text = <<>> /\ s.sign.means = "NegOnly"
        \/ s.sign.text = <<"+">> /\ s.sign.means = "Always"
        \/ s.sign.text = <<"-">> /\ s.sign.means = "NegOnly"
        \/ s.sign.text = <<" ">> /\ s.sign.means = "Neg_Or_Space"
    <3>1. \/ s.sign = Part(<<>>, "NegOnly") \/ s.sign = Part(<<"+">>, "Always")
          \/ s.sign = Part(<<"-">>, "NegOnly") \/ s.sign = Part(<<" ">>, "Neg_Or_Space")
      BY <2>2, Zenon DEF SignParts
    <3>2. s.sign = Part(<<>>, "NegOnly") => s.sign.text = <<>> /\ s.sign.means = "NegOnly"
      BY <1>0
    <3>3. s.sign = Part(<<"+">>, "Always") => s.sign.text = <<"+">> /\ s.sign.means = "Always"
      BY <1>0
    <3>4. s.sign = Part(<<"-">>, "NegOnly") => s.sign.text = <<"-">> /\ s.sign.means = "NegOnly"
      BY <1>0
    <3>6. \A p, x, y : p = Part(x, y) => p.text = x /\ p.means = y
      BY <1>0
    <3> HIDE DEF s
    <3>5. s.sign = Part(<<" ">>, "Neg_Or_Space") => s.sign.text = <<" ">> /\ s.sign.means = "Neg_Or_Space"
      BY <3>6, Zenon
    <3> QED
      BY <3>1, <3>2, <3>3, <3>4, <3>5, Zenon
  <2>4. "+" \in SignChars /\ "-" \in SignChars /\ " " \in SignChars
    BY DEF SignChars
  <2> QED
    BY <2>1, <2>3, <2>4, Zenon
<1>5. \/ s.width.text = <<>> /\ s.width.means = -1
      \/ IsDigits(s.width.text) /\ IsNumber(s.width, PlaceMaxWidth)
  BY <1>0, NumberIsDigits DEF Grammatical, IsWidth
<1>6. \/ s.fmt.text = <<>> /\ s.fmt.means = UnSpec
      \/ \E c \in DOMAIN FormatTypeOf : s.fmt.text = <<c>> /\ s.fmt.means = FormatTypeOf[c]
  <2>1. {"b", "d", "o", "h", "H", "x", "X"} = DOMAIN FormatTypeOf
    BY DEF FormatTypeOf
  <2>2. /\ FormatTypeOf["b"] = "Binary" /\ FormatTypeOf["d"] = "Deciaml" /\ FormatTypeOf["o"] = "Oct"
        /\ FormatTypeOf["h"] = "Hex" /\ FormatTypeOf["H"] = "Hex_UpperCase"
        /\ FormatTypeOf["x"] = "Hex_WithPrefix" /\ FormatTypeOf["X"] = "Hex_UpperCase_WithPrefix"
    BY DEF FormatTypeOf
  <2>3. s.fmt \in FormatParts
    BY DEF Grammatical
  <2> QED
    BY <1>0, <2>1, <2>2, <2>3 DEF FormatParts, UnSpec
<1>7. /\ (s.fill.text # <<>> => s.align.text # <<>>)
      /\ (s.fmt.text # <<>> => s.items.text = <<>>)
      /\ f.class \in {"Value", "Array"} /\ f.type \in TypeParts
      /\ IsNumber(f.id, Word)
  BY DEF Grammatical
<1>8. SpecParts(s)
  BY <1>2, <1>3, <1>4, <1>5, <1>6, <1>7, Zenon DEF SpecParts
<1>9. ItemParts(s.items)
  BY TimesNamed DEF Grammatical
<1>10. SplitParts(f)
  <2>1. f.split = NoSeparators \/ (f.class = "Array" /\ IsSeparators(f.split))
    BY DEF Grammatical
  <2>2. NoSeparators.text = <<>> /\ NoSeparators.means = <<",", " ">>
    BY <1>0, Zenon DEF NoSeparators
  <2> QED
    BY <2>1, <2>2, Zenon DEF SplitParts, IsSeparators
<1>11. IsDigits(f.id.text)
  BY <1>7, NumberIsDigits
<1>12. IsText(f.split.text)
  <2>1. CASE f.split.text = <<>>
    BY <1>1, <2>1
  <2>2. CASE f.split.text = <<"|", ":">> \o f.split.means /\ f.split.means \in Seq(STRING \ {":", "}"})
    <3>1. IsText(f.split.means) /\ IsText(<<"|", ":">>)
      BY <2>2, TextOf, Zenon DEF IsText
    <3> QED
      BY <2>2, <3>1, TextsJoined, Zenon
  <2> QED
    BY <1>10, <2>1, <2>2, Zenon DEF SplitParts
<1>13. PartsAreTexts(f)
  BY <1>1, <1>2, <1>3, <1>4, <1>5, <1>6, <1>7, <1>9, <1>11, <1>12, TypesNamed, Zenon
     DEF PartsAreTexts, IsDigits, ItemParts
<1> QED
  BY <1>7, <1>8, <1>9, <1>10, <1>11, <1>13 DEF FieldOfParts

--------------------------------------------------------------------------------
(* What the text of a field begins with, from each of its parts on.            *)

FromHeads(f) ==
  /\ FromItems(f)[1] \in {"%", "}", "]"}
  /\ f.spec.items.text # <<>> => FromItems(f)[1] = "%"
  /\ f.spec.items.text = <<>> => FromItems(f) = CloseText(f)
  /\ FromFormat(f)[1] \in DOMAIN FormatTypeOf \cup {"%", "}", "]"}
  /\ f.spec.fmt.text # <<>> => FromFormat(f)[1] = f.spec.fmt.text[1]
  /\ f.spec.fmt.text = <<>> => FromFormat(f) = FromItems(f)
  /\ FromWidth(f)[1] \in Digit \cup DOMAIN FormatTypeOf \cup {"%", "}", "]"}
  /\ f.spec.width.text # <<>> => FromWidth(f)[1] = f.spec.width.text[1]
  /\ f.spec.width.text = <<>> => FromWidth(f) = FromFormat(f)
  /\ FromSign(f)[1] \in SignChars \cup Digit \cup DOMAIN FormatTypeOf \cup {"%", "}", "]"}
  /\ f.spec.sign.text # <<>> => FromSign(f)[1] = f.spec.sign.text[1]
  /\ f.spec.sign.text = <<>> => FromSign(f) = FromWidth(f)
  /\ FromAlign(f)[1] \in {"<", "=", ">"} \cup SignChars \cup Digit \cup DOMAIN FormatTypeOf \cup {"%", "}", "]"}
  /\ f.spec.align.text # <<>> => FromAlign(f)[1] = f.spec.align.text[1]
  /\ f.spec.align.text = <<>> => FromAlign(f) = FromSign(f)
  /\ f.spec.fill.text # <<>> => FromFill(f)[1] = f.spec.fill.text[1]
  /\ f.spec.fill.text = <<>> => FromFill(f) = FromAlign(f)
  /\ FromSpec(f)[1] \in {":", "}", "]"}
  /\ f.class = "Array" => FromSpec(f)[1] \in {":", "]"}
  /\ FromSplit(f)[1] \in {"|", ":", "}", "]"}
  /\ f.split.text = <<>> => FromSplit(f) = FromSpec(f)
  /\ FromType(f)[1] = ":"
  /\ FromId(f)[1] \in Digit

\* Of an absent part nothing is seen, of one that is there its first character.
LEMMA FirstOfParts ==
  \A a, b : IsText(a) /\ IsText(b) =>
    /\ a # <<>> => (a \o b)[1] = a[1]
    /\ a = <<>> => a \o b = b
<1> SUFFICES ASSUME NEW a, NEW b, IsText(a), IsText(b)
             PROVE  (a # <<>> => (a \o b)[1] = a[1]) /\ (a = <<>> => a \o b = b)
  OBVIOUS
<1>1. a # <<>> => (a \o b)[1] = a[1]
  BY JoinedCharacters
<1>2. a = <<>> => a \o b = b
  BY JoinedCharacters
<1> QED
  BY <1>1, <1>2

\* The same, with what the first characters are drawn from.
LEMMA PartBegins ==
  ASSUME NEW a, NEW b, NEW A, NEW B, IsText(a), IsText(b), b # <<>>,
         a = <<>> \/ a[1] \in A, b[1] \in B
  PROVE  /\ (a \o b)[1] \in A \cup B
         /\ a # <<>> => (a \o b)[1] = a[1] /\ a[1] \in A
         /\ a = <<>> => a \o b = b
<1>1. /\ a # <<>> => (a \o b)[1] = a[1]
      /\ a = <<>> => a \o b = b
  BY FirstOfParts
<1> QED
  BY <1>1

\* A text of one character.
LEMMA OneCharacter == \A c : <<c>>[1] = c /\ <<c>> # <<>> /\ Len(<<c>>) = 1
<1>1. \A c : <<c>>[1] = c /\ Len(<<c>>) = 1
  OBVIOUS
<1> QED
  BY <1>1, TextOf

\* What is seen of a field of the grammar from each of its parts on.
LEMMA HeadsOfParts ==
  ASSUME NEW f, FieldOfParts(f)
  PROVE  FromHeads(f)
<1> DEFINE s == f.spec
           C == {"}", "]"}
           I == {"%"} \cup C
           F == DOMAIN FormatTypeOf \cup I
           W == Digit \cup F
           G == SignChars \cup W
           A == {"<", "=", ">"} \cup G
<1>0. PartsAreTexts(f) /\ SpecParts(s)
  BY DEF FieldOfParts
<1>1. /\ IsText(CloseText(f)) /\ CloseText(f) # <<>> /\ CloseText(f)[1] \in C
      /\ f.class = "Array" => CloseText(f)[1] = "]"
  BY ClosingTexts, Zenon
<1> HIDE DEF C, I, F, W, G, A, s
<1>2. /\ FromItems(f)[1] \in I
      /\ s.items.text # <<>> => FromItems(f)[1] = "%"
      /\ s.items.text = <<>> => FromItems(f) = CloseText(f)
  <2>1. IsText(s.items.text) /\ (s.items.text = <<>> \/ s.items.text[1] \in {"%"})
    BY DEF s, FieldOfParts, ItemParts
  <2> QED
    BY <1>1, <2>1, PartBegins DEF FromItems, I, s
<1>3. /\ FromFormat(f)[1] \in F
      /\ s.fmt.text # <<>> => FromFormat(f)[1] = s.fmt.text[1]
      /\ s.fmt.text = <<>> => FromFormat(f) = FromItems(f)
  <2>1. s.fmt.text = <<>> \/ s.fmt.text[1] \in DOMAIN FormatTypeOf
    BY <1>0, OneCharacter, Zenon DEF SpecParts
  <2>2. IsText(s.fmt.text) /\ IsText(FromItems(f)) /\ FromItems(f) # <<>>
    BY <1>0, LeftTexts DEF PartsAreTexts, s
  <2>3. FromFormat(f) = s.fmt.text \o FromItems(f)
    BY DEF FromFormat, s
  <2>4. F = DOMAIN FormatTypeOf \cup I
    BY DEF F
  <2> HIDE DEF F
  <2> DEFINE a == s.fmt.text
             b == FromItems(f)
             X == DOMAIN FormatTypeOf
  <2>5. IsText(a) /\ IsText(b) /\ b # <<>> /\ (a = <<>> \/ a[1] \in X) /\ b[1] \in I
    BY <1>2, <2>1, <2>2
  <2>6. F = X \cup I /\ FromFormat(f) = a \o b
    BY <2>3, <2>4
  <2> HIDE DEF a, b, X
  <2>7. /\ a # <<>> => (a \o b)[1] = a[1]
        /\ a = <<>> => a \o b = b
    BY <2>5, FirstOfParts, Zenon
  <2>8. /\ FromFormat(f)[1] \in F
        /\ a # <<>> => FromFormat(f)[1] = a[1]
        /\ a = <<>> => FromFormat(f) = b
    BY <2>5, <2>6, <2>7
  <2> QED
    BY <2>8 DEF a, b
<1>4. /\ FromWidth(f)[1] \in W
      /\ s.width.text # <<>> => FromWidth(f)[1] = s.width.text[1]
      /\ s.width.text = <<>> => FromWidth(f) = FromFormat(f)
  <2>1. s.width.text = <<>> \/ s.width.text[1] \in Digit
    <3>1. SUFFICES ASSUME s.width.text # <<>> PROVE s.width.text[1] \in Digit
      OBVIOUS
    <3>2. IsDigits(s.width.text)
      BY <1>0, <3>1, Zenon DEF SpecParts
    <3>3. Len(s.width.text) \in Nat /\ Len(s.width.text) >= 1
      BY <3>1, <3>2, JoinedCharacters DEF IsDigits
    <3> QED
      BY <3>2, <3>3 DEF IsDigits
  <2> QED
    BY <1>0, <1>3, <2>1, PartBegins, LeftTexts DEF FromWidth, W, PartsAreTexts, s
<1>5. /\ FromSign(f)[1] \in G
      /\ s.sign.text # <<>> => FromSign(f)[1] = s.sign.text[1]
      /\ s.sign.text = <<>> => FromSign(f) = FromWidth(f)
  <2>1. s.sign.text = <<>> \/ s.sign.text[1] \in SignChars
    BY <1>0, OneCharacter, Zenon DEF SpecParts
  <2> QED
    BY <1>0, <1>4, <2>1, PartBegins, LeftTexts DEF FromSign, G, PartsAreTexts, s
<1>6. /\ FromAlign(f)[1] \in A
      /\ s.align.text # <<>> => FromAlign(f)[1] = s.align.text[1]
      /\ s.align.text = <<>> => FromAlign(f) = FromSign(f)
  <2>1. s.align.text = <<>> \/ s.align.text[1] \in {"<", "=", ">"}
    BY <1>0, OneCharacter, Zenon DEF SpecParts
  <2>2. /\ IsText(s.align.text) /\ IsText(FromSign(f)) /\ FromSign(f) # <<>>
        /\ FromAlign(f) = s.align.text \o FromSign(f)
    BY <1>0, LeftTexts DEF FromAlign, PartsAreTexts, s
  <2> DEFINE M == {"<", "=", ">"}
  <2>3. A = M \cup G /\ (s.align.text = <<>> \/ s.align.text[1] \in M)
    BY <2>1 DEF A
  <2> HIDE DEF M
  <2> QED
    BY <1>5, <2>2, <2>3, PartBegins
<1>7. /\ s.fill.text # <<>> => FromFill(f)[1] = s.fill.text[1]
      /\ s.fill.text = <<>> => FromFill(f) = FromAlign(f)
  BY <1>0, JoinedCharacters, LeftTexts DEF FromFill, PartsAreTexts, s
<1>8. FromSpec(f)[1] \in {":", "}", "]"} /\ (f.class = "Array" => FromSpec(f)[1] \in {":", "]"})
  <2>1. (<<":">> \o FromFill(f))[1] = ":"
    BY <1>0, OneCharacter, TextOf, JoinedCharacters, LeftTexts
  <2> QED
    BY <1>1, <2>1, Zenon DEF FromSpec, C
<1>9. FromSplit(f)[1] \in {"|", ":", "}", "]"} /\ (f.split.text = <<>> => FromSplit(f) = FromSpec(f))
  <2>1. f.split.text = <<>> \/ f.split.text[1] \in {"|"}
    <3>1. SUFFICES ASSUME f.split.means \in Seq(STRING \ {":", "}"}), f.split.text = <<"|", ":">> \o f.split.means
                   PROVE  f.split.text[1] = "|"
      BY Zenon DEF FieldOfParts, SplitParts
    <3>2. IsText(f.split.means) /\ IsText(<<"|", ":">>)
      BY <3>1, TextOf, Zenon DEF IsText
    <3>3. <<"|", ":">>[1] = "|" /\ Len(<<"|", ":">>) = 2
      OBVIOUS
    <3>4. <<"|", ":">> # <<>>
      BY <3>3, TextOf
    <3>5. (<<"|", ":">> \o f.split.means)[1] = <<"|", ":">>[1]
      BY <3>2, <3>4, JoinedCharacters
    <3> QED
      BY <3>1, <3>3, <3>5, Zenon
  <2>2. /\ IsText(f.split.text) /\ IsText(FromSpec(f)) /\ FromSpec(f) # <<>>
        /\ FromSplit(f) = f.split.text \o FromSpec(f)
    BY <1>0, LeftTexts DEF FromSplit, PartsAreTexts
  <2> DEFINE L == {"|"}
             R == {":", "}", "]"}
  <2>3. (f.split.text = <<>> \/ f.split.text[1] \in L) /\ FromSpec(f)[1] \in R
    BY <1>8, <2>1, Zenon
  <2> HIDE DEF L, R
  <2>4. FromSplit(f)[1] \in L \cup R /\ (f.split.text = <<>> => FromSplit(f) = FromSpec(f))
    BY <2>2, <2>3, PartBegins
  <2> QED
    BY <2>4, Zenon DEF L, R
<1>10. FromType(f)[1] = ":"
  <2>1. IsText(<<":">> \o f.type.text) /\ <<":">> \o f.type.text # <<>> /\ (<<":">> \o f.type.text)[1] = ":"
    BY <1>0, OneCharacter, TextOf, JoinedCharacters DEF PartsAreTexts
  <2> QED
    BY <1>0, <2>1, JoinedCharacters, LeftTexts DEF FromType
<1>11. FromId(f)[1] \in Digit
  <2>1. IsDigits(f.id.text)
    BY DEF FieldOfParts
  <2>2. Len(f.id.text) \in Nat /\ Len(f.id.text) >= 1
    BY <2>1, JoinedCharacters DEF IsDigits
  <2>3. f.id.text[1] \in Digit
    BY <2>1, <2>2 DEF IsDigits
  <2> QED
    BY <1>0, <2>1, <2>3, JoinedCharacters, LeftTexts DEF FromId, IsDigits
<1>12. I = {"%", "}", "]"}
  BY DEF I, C
<1>13. F = DOMAIN FormatTypeOf \cup {"%", "}", "]"}
  BY <1>12, Zenon DEF F
<1>14. W = Digit \cup DOMAIN FormatTypeOf \cup {"%", "}", "]"}
  BY <1>13, Zenon DEF W
<1>15. G = SignChars \cup Digit \cup DOMAIN FormatTypeOf \cup {"%", "}", "]"}
  BY <1>14, Zenon DEF G
<1>16. A = {"<", "=", ">"} \cup SignChars \cup Digit \cup DOMAIN FormatTypeOf \cup {"%", "}", "]"}
  BY <1>15, Zenon DEF A
<1> QED
  BY <1>2, <1>3, <1>4, <1>5, <1>6, <1>7, <1>8, <1>9, <1>10, <1>11, <1>12, <1>13, <1>14, <1>15, <1>16, Zenon
     DEF FromHeads, s

--------------------------------------------------------------------------------
(* The tokens in the text of a field.                                          *)

\* A stage in which a field of the class is read from its type on.
StageOf(class, s) == "NeedEnd" \in s <=> class = "Value"

CloseType(f) == IF f.class = "Value" THEN "RightBrace" ELSE "RightBracketBrace"

\* What closes a field is one token.
LEMMA CloseToken ==
  ASSUME NEW f, f.class \in {"Value", "Array"}, NEW t \in Seq(STRING), NEW e, NEW p,
         Left(t, e, p, CloseText(f)), NEW s, StageOf(f.class, s)
  PROVE  lex_next_token(t, p, s) = Accept(CloseType(f), p, e)
<1>1. p \in Nat /\ p >= 1 /\ Holds(t, p, CloseText(f)) /\ p + Len(CloseText(f)) = e
  BY DEF Left
<1>2. CASE f.class = "Value"
  <2>1. CloseText(f) = <<"}">> /\ Len(CloseText(f)) = 1
    BY <1>2, ClosingTexts, Zenon DEF CloseText
  <2>0. Holds(t, p, <<"}">>) /\ e = p + 1
    BY <1>1, <2>1, Zenon
  <2>2. At(t, p) = "}" /\ e = p + 1
    BY <1>1, <2>0, HoldsOne, Zenon
  <2>3. lex_next_token(t, p, s) = r_brace(t, p, s)
    BY <1>1, <2>2, LexedAs, Zenon
  <2>4. "NeedEnd" \in s
    BY <1>2 DEF StageOf
  <2> QED
    BY <1>2, <2>2, <2>3, <2>4, Zenon DEF r_brace, CloseType
<1>3. CASE f.class = "Array"
  <2>1. CloseText(f) = <<"]", "}">> /\ Len(CloseText(f)) = 2
    BY <1>3, ClosingTexts, Zenon DEF CloseText
  <2> DEFINE c == "]"
             d == "}"
  <2>0. Holds(t, p, <<c, d>>) /\ e = p + 2
    BY <1>1, <2>1, Zenon
  <2> HIDE DEF c, d
  <2>4. At(t, p) = c /\ At(t, p + 1) = d
    BY <1>1, <2>0, HoldsTwo
  <2>2. At(t, p) = "]" /\ At(t, p + 1) = "}" /\ e = p + 2
    BY <2>0, <2>4, Zenon DEF c, d
  <2>3. lex_next_token(t, p, s) = r_bracket(t, p)
    BY <1>1, <2>2, LexedAs, Zenon
  <2> QED
    BY <1>3, <2>2, <2>3, Zenon DEF r_bracket, CloseType
<1> QED
  BY <1>2, <1>3

\* The letters of an item are counted up to the first other one, or to the most there can be.
Counted(t, p, c, max, n) ==
  /\ \A i \in 0..(n - 1) : At(t, p + i) = c
  /\ n = max \/ At(t, p + n) # c

\* That is what the lexer counts.
LEMMA RepeatedIs ==
  ASSUME NEW t, NEW p, NEW c, NEW max \in Nat, NEW n \in 0..max, Counted(t, p, c, max, n)
  PROVE  Repeated(t, p, c, max) = n
<1>1. ASSUME NEW m \in 0..max, Counted(t, p, c, max, m) PROVE m = n
  <2>1. CASE m < n
    <3>1. m \in 0..(n - 1)
      BY <2>1
    <3> QED
      BY <1>1, <2>1, <3>1 DEF Counted
  <2>2. CASE n < m
    <3>1. n \in 0..(m - 1) /\ n < max
      BY <2>2
    <3> QED
      BY <1>1, <3>1 DEF Counted
  <2> QED
    BY <2>1, <2>2
<1>2. Repeated(t, p, c, max) = CHOOSE m \in 0..max : Counted(t, p, c, max, m)
  BY DEF Repeated, Counted
<1> QED
  BY <1>1, <1>2

\* The letters of the manual are those of the lexer, and so are their items.
LEMMA LettersKnown ==
  /\ DOMAIN TimeLetters = DOMAIN ChronoUserdef
  /\ DOMAIN TimeLetters = {"y", "M", "d", "h", "H", "m", "s", "x", "w"}
  /\ \A c \in DOMAIN TimeLetters :
       /\ Len(ChronoUserdef[c]) = MostLetters(c)
       /\ MostLetters(c) \in Nat /\ MostLetters(c) >= 1
<1>1. /\ DOMAIN TimeLetters = DOMAIN ChronoUserdef
      /\ DOMAIN TimeLetters = {"y", "M", "d", "h", "H", "m", "s", "x", "w"}
  BY DEF TimeLetters, ChronoUserdef
<1>2. /\ Len(ChronoUserdef["y"]) = 4 /\ Len(ChronoUserdef["M"]) = 2 /\ Len(ChronoUserdef["d"]) = 2
      /\ Len(ChronoUserdef["h"]) = 2 /\ Len(ChronoUserdef["H"]) = 2 /\ Len(ChronoUserdef["m"]) = 2
      /\ Len(ChronoUserdef["s"]) = 2 /\ Len(ChronoUserdef["x"]) = 4 /\ Len(ChronoUserdef["w"]) = 1
  BY DEF ChronoUserdef
<1>3. \A c \in DOMAIN TimeLetters : MostLetters(c) \in {1, 2, 4}
  BY DEF MostLetters
<1>4. ASSUME NEW c \in DOMAIN TimeLetters PROVE Len(ChronoUserdef[c]) = MostLetters(c)
  <2>1. c \in {"y", "M", "d", "h", "H", "m", "s", "x", "w"}
    BY <1>1
  <2> QED
    BY <1>2, <2>1 DEF MostLetters
<1>5. \A c \in DOMAIN TimeLetters : MostLetters(c) \in Nat /\ MostLetters(c) >= 1
  BY <1>3
<1> QED
  BY <1>1, <1>4, <1>5

\* A letter that is repeated so often means what the manual says.
LEMMA LetterItems ==
  ASSUME NEW c \in DOMAIN TimeLetters, NEW n \in 1..MostLetters(c)
  PROVE  ChronoItemOf[ChronoUserdef[c][n]] = TimeMeans(c, n)
<1>0. c \in {"y", "M", "d", "h", "H", "m", "s", "x", "w"}
  BY LettersKnown
<1>1. CASE c = "y"
  <2>1. n \in {1, 2, 3, 4}
    BY <1>1 DEF MostLetters
  <2>2. TimeMeans("y", 1) = Item("Year", FALSE, 1)
    BY TimeMeansItem DEF TimeLetters, Item
  <2>3. TimeMeans("y", 2) = Item("Year", TRUE, 2)
    BY TimeMeansItem DEF TimeLetters, Item
  <2>4. TimeMeans("y", 3) = Item("Year", FALSE, 3)
    BY TimeMeansItem DEF TimeLetters, Item
  <2>5. TimeMeans("y", 4) = Item("Year", TRUE, 4)
    BY TimeMeansItem DEF TimeLetters, Item
  <2>6. /\ ChronoUserdef["y"][1] = "Chrono_Year_1"
         /\ ChronoUserdef["y"][2] = "Chrono_Year_Fixed2"
         /\ ChronoUserdef["y"][3] = "Chrono_Year_3"
         /\ ChronoUserdef["y"][4] = "Chrono_Year_Fixed4"
    BY DEF ChronoUserdef
  <2>7. /\ ChronoItemOf["Chrono_Year_1"] = Item("Year", FALSE, 1)
         /\ ChronoItemOf["Chrono_Year_Fixed2"] = Item("Year", TRUE, 2)
         /\ ChronoItemOf["Chrono_Year_3"] = Item("Year", FALSE, 3)
         /\ ChronoItemOf["Chrono_Year_Fixed4"] = Item("Year", TRUE, 4)
    BY DEF ChronoItemOf
  <2> QED
    BY <1>1, <2>1, <2>2, <2>3, <2>4, <2>5, <2>6, <2>7
<1>2. CASE c = "M"
  <2>1. n \in {1, 2}
    BY <1>2 DEF MostLetters
  <2>2. TimeMeans("M", 1) = Item("Month", FALSE, 1)
    BY TimeMeansItem DEF TimeLetters, Item
  <2>3. TimeMeans("M", 2) = Item("Month", TRUE, 2)
    BY TimeMeansItem DEF TimeLetters, Item
  <2>4. /\ ChronoUserdef["M"][1] = "Chrono_Month_1"
         /\ ChronoUserdef["M"][2] = "Chrono_Month_Fixed2"
    BY DEF ChronoUserdef
  <2>5. /\ ChronoItemOf["Chrono_Month_1"] = Item("Month", FALSE, 1)
         /\ ChronoItemOf["Chrono_Month_Fixed2"] = Item("Month", TRUE, 2)
    BY DEF ChronoItemOf
  <2> QED
    BY <1>2, <2>1, <2>2, <2>3, <2>4, <2>5
<1>3. CASE c = "d"
  <2>1. n \in {1, 2}
    BY <1>3 DEF MostLetters
  <2>2. TimeMeans("d", 1) = Item("Day", FALSE, 1)
    BY TimeMeansItem DEF TimeLetters, Item
  <2>3. TimeMeans("d", 2) = Item("Day", TRUE, 2)
    BY TimeMeansItem DEF TimeLetters, Item
  <2>4. /\ ChronoUserdef["d"][1] = "Chrono_Day_1"
         /\ ChronoUserdef["d"][2] = "Chrono_Day_Fixed2"
    BY DEF ChronoUserdef
  <2>5. /\ ChronoItemOf["Chrono_Day_1"] = Item("Day", FALSE, 1)
         /\ ChronoItemOf["Chrono_Day_Fixed2"] = Item("Day", TRUE, 2)
    BY DEF ChronoItemOf
  <2> QED
    BY <1>3, <2>1, <2>2, <2>3, <2>4, <2>5
<1>4. CASE c = "h"
  <2>1. n \in {1, 2}
    BY <1>4 DEF MostLetters
  <2>2. TimeMeans("h", 1) = Item("Hour", FALSE, 1)
    BY TimeMeansItem DEF TimeLetters, Item
  <2>3. TimeMeans("h", 2) = Item("Hour", TRUE, 2)
    BY TimeMeansItem DEF TimeLetters, Item
  <2>4. /\ ChronoUserdef["h"][1] = "Chrono_Hour_1"
         /\ ChronoUserdef["h"][2] = "Chrono_Hour_Fixed2"
    BY DEF ChronoUserdef
  <2>5. /\ ChronoItemOf["Chrono_Hour_1"] = Item("Hour", FALSE, 1)
         /\ ChronoItemOf["Chrono_Hour_Fixed2"] = Item("Hour", TRUE, 2)
    BY DEF ChronoItemOf
  <2> QED
    BY <1>4, <2>1, <2>2, <2>3, <2>4, <2>5
<1>5. CASE c = "H"
  <2>1. n \in {1, 2}
    BY <1>5 DEF MostLetters
  <2>2. TimeMeans("H", 1) = Item("Hour24", FALSE, 1)
    BY TimeMeansItem DEF TimeLetters, Item
  <2>3. TimeMeans("H", 2) = Item("Hour24", TRUE, 2)
    BY TimeMeansItem DEF TimeLetters, Item
  <2>4. /\ ChronoUserdef["H"][1] = "Chrono_Hour24_1"
         /\ ChronoUserdef["H"][2] = "Chrono_Hour24_Fixed2"
    BY DEF ChronoUserdef
  <2>5. /\ ChronoItemOf["Chrono_Hour24_1"] = Item("Hour24", FALSE, 1)
         /\ ChronoItemOf["Chrono_Hour24_Fixed2"] = Item("Hour24", TRUE, 2)
    BY DEF ChronoItemOf
  <2> QED
    BY <1>5, <2>1, <2>2, <2>3, <2>4, <2>5
<1>6. CASE c = "m"
  <2>1. n \in {1, 2}
    BY <1>6 DEF MostLetters
  <2>2. TimeMeans("m", 1) = Item("Minute", FALSE, 1)
    BY TimeMeansItem DEF TimeLetters, Item
  <2>3. TimeMeans("m", 2) = Item("Minute", TRUE, 2)
    BY TimeMeansItem DEF TimeLetters, Item
  <2>4. /\ ChronoUserdef["m"][1] = "Chrono_Minute_1"
         /\ ChronoUserdef["m"][2] = "Chrono_Minute_Fixed2"
    BY DEF ChronoUserdef
  <2>5. /\ ChronoItemOf["Chrono_Minute_1"] = Item("Minute", FALSE, 1)
         /\ ChronoItemOf["Chrono_Minute_Fixed2"] = Item("Minute", TRUE, 2)
    BY DEF ChronoItemOf
  <2> QED
    BY <1>6, <2>1, <2>2, <2>3, <2>4, <2>5
<1>7. CASE c = "s"
  <2>1. n \in {1, 2}
    BY <1>7 DEF MostLetters
  <2>2. TimeMeans("s", 1) = Item("Second", FALSE, 1)
    BY TimeMeansItem DEF TimeLetters, Item
  <2>3. TimeMeans("s", 2) = Item("Second", TRUE, 2)
    BY TimeMeansItem DEF TimeLetters, Item
  <2>4. /\ ChronoUserdef["s"][1] = "Chrono_Second_1"
         /\ ChronoUserdef["s"][2] = "Chrono_Second_Fixed2"
    BY DEF ChronoUserdef
  <2>5. /\ ChronoItemOf["Chrono_Second_1"] = Item("Second", FALSE, 1)
         /\ ChronoItemOf["Chrono_Second_Fixed2"] = Item("Second", TRUE, 2)
    BY DEF ChronoItemOf
  <2> QED
    BY <1>7, <2>1, <2>2, <2>3, <2>4, <2>5
<1>8. CASE c = "x"
  <2>1. n \in {1, 2, 3, 4}
    BY <1>8 DEF MostLetters
  <2>2. TimeMeans("x", 1) = Item("SubSecond", TRUE, 1)
    BY TimeMeansItem DEF TimeLetters, Item
  <2>3. TimeMeans("x", 2) = Item("SubSecond", TRUE, 2)
    BY TimeMeansItem DEF TimeLetters, Item
  <2>4. TimeMeans("x", 3) = Item("SubSecond", TRUE, 3)
    BY TimeMeansItem DEF TimeLetters, Item
  <2>5. TimeMeans("x", 4) = Item("SubSecond", TRUE, 4)
    BY TimeMeansItem DEF TimeLetters, Item
  <2>6. /\ ChronoUserdef["x"][1] = "Chrono_SubSecond_Fixed1"
         /\ ChronoUserdef["x"][2] = "Chrono_SubSecond_Fixed2"
         /\ ChronoUserdef["x"][3] = "Chrono_SubSecond_Fixed3"
         /\ ChronoUserdef["x"][4] = "Chrono_SubSecond_Fixed4"
    BY DEF ChronoUserdef
  <2>7. /\ ChronoItemOf["Chrono_SubSecond_Fixed1"] = Item("SubSecond", TRUE, 1)
         /\ ChronoItemOf["Chrono_SubSecond_Fixed2"] = Item("SubSecond", TRUE, 2)
         /\ ChronoItemOf["Chrono_SubSecond_Fixed3"] = Item("SubSecond", TRUE, 3)
         /\ ChronoItemOf["Chrono_SubSecond_Fixed4"] = Item("SubSecond", TRUE, 4)
    BY DEF ChronoItemOf
  <2> QED
    BY <1>8, <2>1, <2>2, <2>3, <2>4, <2>5, <2>6, <2>7
<1>9. CASE c = "w"
  <2>1. n \in {1}
    BY <1>9 DEF MostLetters
  <2>2. TimeMeans("w", 1) = Item("Week", FALSE, 0)
    BY TimeMeansItem DEF TimeLetters, Item
  <2>3. /\ ChronoUserdef["w"][1] = "Chrono_WeekName"
    BY DEF ChronoUserdef
  <2>4. /\ ChronoItemOf["Chrono_WeekName"] = Item("Week", FALSE, 0)
    BY DEF ChronoItemOf
  <2> QED
    BY <1>9, <2>1, <2>2, <2>3, <2>4
<1> QED
  BY <1>0, <1>1, <1>2, <1>3, <1>4, <1>5, <1>6, <1>7, <1>8, <1>9

\* An item is one token, whichever letter is repeated however often.
LEMMA ItemToken ==
  ASSUME NEW t \in Seq(STRING), NEW p \in Nat, p >= 1, NEW s, "MatchChronoToken" \in s,
         NEW c \in DOMAIN TimeLetters, NEW n \in 1..MostLetters(c),
         Holds(t, p, <<"%">> \o [j \in 1..n |-> c]),
         n < MostLetters(c) => At(t, p + 1 + n) # c
  PROVE  /\ lex_next_token(t, p, s) = Accept(ChronoUserdef[c][n], p, p + 1 + n)
         /\ ChronoUserdef[c][n] \in UserdefTokens
         /\ ChronoItemOf[ChronoUserdef[c][n]] = TimeMeans(c, n)
<1> DEFINE l == [j \in 1..n |-> c]
<1>0. n \in Nat /\ Len(l) = n /\ \A j \in 1..n : l[j] = c
  OBVIOUS
<1>1. IsText(l) /\ IsText(<<"%">>) /\ Len(<<"%">>) = 1
  BY <1>0, TextRepeated, TextOf
<1> HIDE DEF l
<1>2. Holds(t, p, <<"%">>) /\ Holds(t, p + 1, l)
  BY <1>1, HoldsJoined DEF l
<1>3. At(t, p) = "%"
  BY <1>2, HoldsOne
<1>4. \A i \in 0..(n - 1) : At(t, p + 1 + i) = c
  <2> TAKE i \in 0..(n - 1)
  <2>1. i + 1 \in 1..Len(l) /\ (p + 1) + (i + 1) - 1 = p + 1 + i
    BY <1>0
  <2>2. At(t, (p + 1) + (i + 1) - 1) = l[i + 1]
    BY <1>2, <2>1 DEF Holds
  <2> QED
    BY <1>0, <2>1, <2>2
<1>5. At(t, p + 1) = c
  <2>1. 0 \in 0..(n - 1) /\ p + 1 + 0 = p + 1
    BY <1>0
  <2> QED
    BY <1>4, <2>1
<1>6. Repeated(t, p + 1, c, MostLetters(c)) = n
  <2> DEFINE max == MostLetters(c)
             q == p + 1
  <2>1. max \in Nat
    BY LettersKnown
  <2> HIDE DEF max
  <2>2. n \in 0..max /\ q \in Nat
    BY <2>1 DEF max
  <2>3. Counted(t, q, c, max, n)
    BY <1>4, <2>1, <2>2 DEF Counted, max
  <2> HIDE DEF q
  <2>4. Repeated(t, q, c, max) = n
    BY <2>1, <2>2, <2>3, RepeatedIs
  <2> QED
    BY <2>4 DEF max, q
<1>7. lex_next_token(t, p, s) = chrono_percentage(t, p)
  BY <1>3, LexedAs, Zenon
<1>8. c \in DOMAIN ChronoUserdef /\ c \notin {"%", "f", "g", ">", "<", "="} /\ Len(ChronoUserdef[c]) = MostLetters(c)
  BY LettersKnown, Zenon
<1>9. chrono_percentage(t, p) = chrono_userdef(t, p)
  BY <1>5, <1>8 DEF chrono_percentage
<1>10. chrono_userdef(t, p) = Accept(ChronoUserdef[c][n], p, p + 1 + n)
  BY <1>5, <1>6, <1>8 DEF chrono_userdef
<1> QED
  BY <1>7, <1>8, <1>9, <1>10, UserdefNames, LetterItems

\* So are the two that stand for many items.
LEMMA PredefToken ==
  ASSUME NEW t \in Seq(STRING), NEW p \in Nat, p >= 1, NEW s, "MatchChronoToken" \in s,
         NEW c \in {"f", "g"}, Holds(t, p, <<"%", c>>)
  PROVE  lex_next_token(t, p, s) = Accept(IF c = "g" THEN "ChronoPredef_g" ELSE "ChronoPredef_f", p, p + 2)
<1>1. At(t, p) = "%" /\ At(t, p + 1) = c
  BY HoldsTwo
<1>2. lex_next_token(t, p, s) = chrono_percentage(t, p)
  BY <1>1, LexedAs, Zenon
<1>3. CASE c = "f"
  <2>1. At(t, p + 1) = "f" /\ "f" \notin DOMAIN ChronoUserdef
    BY <1>1, <1>3 DEF ChronoUserdef
  <2>2. chrono_percentage(t, p) = Accept("ChronoPredef_f", p, p + 2)
    BY <2>1 DEF chrono_percentage
  <2> QED
    BY <1>2, <1>3, <2>2
<1>4. CASE c = "g"
  <2>1. At(t, p + 1) = "g" /\ "g" \notin DOMAIN ChronoUserdef
    BY <1>1, <1>4 DEF ChronoUserdef
  <2>2. chrono_percentage(t, p) = Accept("ChronoPredef_g", p, p + 2)
    BY <2>1 DEF chrono_percentage
  <2> QED
    BY <1>2, <1>4, <2>2
<1> QED
  BY <1>3, <1>4

\* The place of the item behind the k-th, of items that begin at q.
AtItem(q, items, k) == q + Len(FlattenSeq(ItemTexts(items, k)))

\* The items stand one behind the other, and behind them what closes the field.
LEMMA ItemsStand ==
  ASSUME NEW i, UserItems(i), NEW close, IsText(close), NEW t \in Seq(STRING), NEW e, NEW q,
         Left(t, e, q, i.text \o close)
  PROVE  /\ AtItem(q, i.means, 0) = q
         /\ Left(t, e, AtItem(q, i.means, Len(i.means)), close)
         /\ \A k \in 0..(Len(i.means) - 1) :
              /\ Left(t, AtItem(q, i.means, k + 1), AtItem(q, i.means, k), ItemText(i.means[k + 1]))
              /\ AtItem(q, i.means, k + 1) = AtItem(q, i.means, k) + Len(ItemText(i.means[k + 1]))
<1> DEFINE m == i.means
           n == Len(m)
           F(k) == FlattenSeq(ItemTexts(m, k))
           Pl(k) == AtItem(q, m, k)
<1>1. /\ n \in Nat /\ n >= 1 /\ \A k \in 1..n : IsTimeItem(m[k])
      /\ i.text = F(n)
  BY ItemsAreTexts DEF UserItems
<1>2. /\ \A k \in 0..n : IsText(F(k))
      /\ F(0) = <<>>
      /\ \A k \in 0..(n - 1) : F(k + 1) = F(k) \o ItemText(m[k + 1])
  BY <1>1, ItemsAreTexts
<1>3. \A k \in 1..n : IsText(ItemText(m[k]))
  BY <1>1, ItemIsText
<1>0. \A k : Pl(k) = q + Len(F(k))
  BY DEF AtItem
<1>4. q \in Nat
  BY DEF Left
<1> HIDE DEF F, n, m
<1>5. n \in 0..n
  BY <1>1
<1>6. Left(t, Pl(n), q, F(n)) /\ Left(t, e, Pl(n), close)
  BY <1>0, <1>1, <1>2, <1>5, LeftBehind
<1>7. Pl(0) = q
  <2>1. Len(<<>>) = 0 /\ q + 0 = q
    BY <1>4
  <2> QED
    BY <1>0, <1>2, <2>1
<1> HIDE DEF Pl
<1>8. ASSUME NEW k \in 0..(n - 1), Left(t, Pl(k + 1), q, F(k + 1))
      PROVE  /\ Left(t, Pl(k), q, F(k))
             /\ Left(t, Pl(k + 1), Pl(k), ItemText(m[k + 1]))
             /\ Pl(k + 1) = Pl(k) + Len(ItemText(m[k + 1]))
  <2>1. k \in 0..n /\ k + 1 \in 1..n
    BY <1>1
  <2>2. Left(t, Pl(k + 1), q, F(k) \o ItemText(m[k + 1])) /\ IsText(F(k)) /\ IsText(ItemText(m[k + 1]))
    BY <1>2, <1>3, <1>8, <2>1
  <2>3. Left(t, Pl(k), q, F(k)) /\ Left(t, Pl(k + 1), Pl(k), ItemText(m[k + 1]))
    BY <1>0, <2>2, LeftBehind
  <2> QED
    BY <2>3 DEF Left
<1> DEFINE H == {d \in Nat : d <= n => Left(t, Pl(n - d), q, F(n - d))}
<1>9. 0 \in H
  <2>1. n - 0 = n
    BY <1>1
  <2> QED
    BY <1>6, <2>1
<1>10. ASSUME NEW d \in Nat, d \in H PROVE d + 1 \in H
  <2> SUFFICES ASSUME d + 1 <= n PROVE Left(t, Pl(n - (d + 1)), q, F(n - (d + 1)))
    OBVIOUS
  <2> DEFINE k == n - (d + 1)
  <2>1. k \in 0..(n - 1) /\ k + 1 = n - d /\ d <= n
    BY <1>1
  <2>2. Left(t, Pl(n - d), q, F(n - d))
    BY <1>10, <2>1
  <2> HIDE DEF k
  <2>3. Left(t, Pl(k), q, F(k))
    BY <1>8, <2>1, <2>2
  <2> QED
    BY <2>3 DEF k
<1> HIDE DEF H
<1>11. Nat \subseteq H
  BY <1>9, <1>10, NumberInduction
<1>12. ASSUME NEW k \in 0..(n - 1)
       PROVE  Left(t, Pl(k + 1), Pl(k), ItemText(m[k + 1])) /\ Pl(k + 1) = Pl(k) + Len(ItemText(m[k + 1]))
  <2>1. n - (k + 1) \in Nat /\ n - (k + 1) <= n /\ n - (n - (k + 1)) = k + 1
    BY <1>1
  <2>2. n - (k + 1) \in H
    BY <1>11, <2>1
  <2>3. Left(t, Pl(n - (n - (k + 1))), q, F(n - (n - (k + 1))))
    BY <2>1, <2>2 DEF H
  <2>4. Left(t, Pl(k + 1), q, F(k + 1))
    BY <2>1, <2>3
  <2> QED
    BY <1>8, <2>4
<1> QED
  BY <1>6, <1>7, <1>12 DEF Pl, n, m

\* The characters that the lexer looks for, but for the percent sign.
Marks == {"=", ">", "<", ":", "{", "}", "]", "|", NUL} \cup Digit

\* Any other character is a token of its own.
LEMMA PlainToken ==
  ASSUME NEW t, Clean(t), NEW p \in Nat, p >= 1, NEW s, At(t, p) \notin Marks \cup {"%"}
  PROVE  lex_next_token(t, p, s) = Accept("OtherChar", p, p + 1)
BY LexedAs, Zenon DEF Marks, Clean

\* Of a sign and of a letter that names a format the lexer knows nothing.
LEMMA PlainCharacters ==
  /\ SignChars \cap (Marks \cup {"%"} \cup DOMAIN FormatTypeOf) = {}
  /\ DOMAIN FormatTypeOf \cap (Marks \cup {"%"}) = {}
<1>1. "NUL" \notin DOMAIN FormatTypeOf /\ DOMAIN FormatTypeOf = {"b", "d", "o", "h", "H", "x", "X"}
  BY DEF FormatTypeOf
<1>2. DOMAIN FormatTypeOf \cap (Marks \cup {"%"}) = {}
  BY <1>1 DEF Marks, NUL, Digit
<1>3. \A c \in SignChars : c \notin Marks \cup {"%"} \cup {"b", "d", "o", "h", "H", "x", "X"}
  BY Zenon DEF SignChars, Marks, NUL, Digit
<1> QED
  BY <1>1, <1>2, <1>3

\* A part of one character.
LEMMA OneBehind ==
  ASSUME NEW t, Clean(t), NEW e, NEW p, NEW c, NEW b, IsText(b), Left(t, e, p, <<c>> \o b)
  PROVE  At(t, p) = c /\ Left(t, e, p + 1, b) /\ p \in Nat /\ p >= 1 /\ c # NUL
<1>1. IsText(<<c>>) /\ Len(<<c>>) = 1 /\ t \in Seq(STRING)
  BY TextOf, OneCharacter DEF Clean
<1>2. Left(t, p + 1, p, <<c>>) /\ Left(t, e, p + 1, b)
  BY <1>1, LeftBehind
<1>3. At(t, p) = c /\ p \in Nat /\ p >= 1
  BY <1>2, HoldsOne DEF Left
<1>4. p \in p..((p + 1) - 1)
  BY <1>3
<1> QED
  BY <1>2, <1>3, <1>4, LeftInside

--------------------------------------------------------------------------------
\* The stage of a field from its specification on.
LateStage(f, s) == "MatchChronoToken" \in s /\ StageOf(f.class, s)

\* The token of each part that is there, from the last to the first.
LEMMA FormatToken ==
  ASSUME NEW f, FieldOfParts(f), NEW t, Clean(t), NEW e, NEW p, Left(t, e, p, FromFormat(f)), NEW s,
         f.spec.fmt.text # <<>>
  PROVE  /\ lex_next_token(t, p, s) = Accept("OtherChar", p, p + 1)
         /\ At(t, p) \in DOMAIN FormatTypeOf
         /\ f.spec.fmt.means = FormatTypeOf[At(t, p)]
         /\ Left(t, e, p + 1, FromItems(f))
<1>1. PICK c \in DOMAIN FormatTypeOf : f.spec.fmt.text = <<c>> /\ f.spec.fmt.means = FormatTypeOf[c]
  BY Zenon DEF FieldOfParts, SpecParts
<1>2. IsText(FromItems(f)) /\ Left(t, e, p, <<c>> \o FromItems(f))
  BY <1>1, LeftTexts DEF FieldOfParts, FromFormat
<1>3. At(t, p) = c /\ Left(t, e, p + 1, FromItems(f)) /\ p \in Nat /\ p >= 1
  BY <1>2, OneBehind
<1>4. At(t, p) \notin Marks \cup {"%"}
  BY <1>3, PlainCharacters
<1> QED
  BY <1>1, <1>3, <1>4, PlainToken

LEMMA SignToken ==
  ASSUME NEW f, FieldOfParts(f), NEW t, Clean(t), NEW e, NEW p, Left(t, e, p, FromSign(f)), NEW s,
         f.spec.sign.text # <<>>
  PROVE  /\ lex_next_token(t, p, s) = Accept("OtherChar", p, p + 1)
         /\ At(t, p) \in SignChars
         /\ f.spec.sign.means = SignOf(At(t, p))
         /\ Left(t, e, p + 1, FromWidth(f))
<1>1. PICK c \in SignChars : f.spec.sign.text = <<c>> /\ f.spec.sign.means = SignOf(c)
  BY Zenon DEF FieldOfParts, SpecParts
<1>2. IsText(FromWidth(f)) /\ Left(t, e, p, <<c>> \o FromWidth(f))
  BY <1>1, LeftTexts DEF FieldOfParts, FromSign
<1>3. At(t, p) = c /\ Left(t, e, p + 1, FromWidth(f)) /\ p \in Nat /\ p >= 1
  BY <1>2, OneBehind
<1>4. At(t, p) \notin Marks \cup {"%"}
  BY <1>3, PlainCharacters
<1> QED
  BY <1>1, <1>3, <1>4, PlainToken

LEMMA AlignToken ==
  ASSUME NEW f, FieldOfParts(f), NEW t, Clean(t), NEW e, NEW p, Left(t, e, p, FromAlign(f)), NEW s,
         f.spec.align.text # <<>>
  PROVE  /\ lex_next_token(t, p, s).type \in AlignTokens
         /\ lex_next_token(t, p, s) = Accept(lex_next_token(t, p, s).type, p, p + 1)
         /\ f.spec.align.means = AlignOf[lex_next_token(t, p, s).type]
         /\ At(t, p) \in {"<", "=", ">"}
         /\ Left(t, e, p + 1, FromSign(f))
<1>1. PICK c \in {"<", "=", ">"} : f.spec.align.text = <<c>> /\ f.spec.align.means = AlignMeans(c)
  BY Zenon DEF FieldOfParts, SpecParts
<1>2. IsText(FromSign(f)) /\ Left(t, e, p, <<c>> \o FromSign(f))
  BY <1>1, LeftTexts DEF FieldOfParts, FromAlign
<1>3. At(t, p) = c /\ Left(t, e, p + 1, FromSign(f)) /\ p \in Nat /\ p >= 1 /\ t \in Seq(STRING)
  BY <1>2, OneBehind DEF Clean
<1>4. /\ c = "<" => lex_next_token(t, p, s) = Accept("Lt", p, p + 1) /\ AlignMeans(c) = AlignOf["Lt"]
      /\ c = "=" => lex_next_token(t, p, s) = Accept("Equ", p, p + 1) /\ AlignMeans(c) = AlignOf["Equ"]
      /\ c = ">" => lex_next_token(t, p, s) = Accept("Gt", p, p + 1) /\ AlignMeans(c) = AlignOf["Gt"]
  <2>1. AlignMeans("<") = AlignOf["Lt"] /\ AlignMeans("=") = AlignOf["Equ"] /\ AlignMeans(">") = AlignOf["Gt"]
    BY DEF AlignMeans, AlignOf
  <2> QED
    BY <1>3, <2>1, LexedAs, Zenon
<1>5. \A typ : Accept(typ, p, p + 1).type = typ
  BY DEF Accept
<1>6. {"Lt", "Equ", "Gt"} = AlignTokens
  BY DEF AlignTokens
<1> DEFINE k == lex_next_token(t, p, s)
<1> HIDE DEF k
<1>7. k.type \in AlignTokens /\ k = Accept(k.type, p, p + 1) /\ f.spec.align.means = AlignOf[k.type]
  BY <1>1, <1>4, <1>5, <1>6 DEF k
<1> QED
  BY <1>1, <1>3, <1>7 DEF k

LEMMA WidthToken ==
  ASSUME NEW f, FieldOfParts(f), NEW t, Clean(t), NEW e, NEW p, Left(t, e, p, FromWidth(f)), NEW s,
         f.spec.width.text # <<>>
  PROVE  /\ lex_next_token(t, p, s) = Accept("Digits", p, p + Len(f.spec.width.text))
         /\ Holds(t, p, f.spec.width.text)
         /\ Left(t, e, p + Len(f.spec.width.text), FromFormat(f))
         /\ IsDigits(f.spec.width.text) /\ IsNumber(f.spec.width, PlaceMaxWidth)
<1> DEFINE d == f.spec.width.text
<1>1. IsDigits(d) /\ IsNumber(f.spec.width, PlaceMaxWidth)
  BY Zenon DEF FieldOfParts, SpecParts
<1>2. IsText(d) /\ d # <<>> /\ \A i \in 1..Len(d) : d[i] \in Digit
  BY <1>1 DEF IsDigits
<1>3. IsText(FromFormat(f)) /\ FromFormat(f) # <<>> /\ Left(t, e, p, d \o FromFormat(f)) /\ t \in Seq(STRING)
  BY LeftTexts DEF FieldOfParts, FromWidth, Clean
<1> HIDE DEF d
<1>4. Left(t, p + Len(d), p, d) /\ Left(t, e, p + Len(d), FromFormat(f))
  BY <1>2, <1>3, LeftBehind
<1>5. At(t, p + Len(d)) = FromFormat(f)[1]
  BY <1>3, <1>4, LeftBegins
<1>6. FromFormat(f)[1] \notin Digit
  <2>1. FromFormat(f)[1] \in DOMAIN FormatTypeOf \cup {"%", "}", "]"}
    BY HeadsOfParts, Zenon DEF FromHeads
  <2> QED
    BY <2>1, PlainCharacters, Zenon DEF Marks, Digit
<1>7. lex_next_token(t, p, s) = Accept("Digits", p, p + Len(d))
  BY <1>2, <1>3, <1>4, <1>5, <1>6, DigitsToken DEF Left
<1> QED
  BY <1>1, <1>4, <1>7 DEF d, Left

\* A fill character stands in front of an alignment.
LEMMA FillToken ==
  ASSUME NEW f, FieldOfParts(f), NEW t, Clean(t), NEW e, NEW p, Left(t, e, p, FromFill(f)), NEW s,
         f.spec.fill.text # <<>>
  PROVE  /\ lex_next_token(t, p, s).type \in {"Colon", "Digits", "LeftBrace", "OtherChar"}
         /\ lex_next_token(t, p, s) = Accept(lex_next_token(t, p, s).type, p, p + 1)
         /\ f.spec.fill.means = At(t, p)
         /\ Left(t, e, p + 1, FromAlign(f))
         /\ At(t, p + 1) \in {"<", "=", ">"}
<1>1. PICK c : c \notin NotFill /\ f.spec.fill.text = <<c>> /\ f.spec.fill.means = c
  BY Zenon DEF FieldOfParts, SpecParts
<1>2. IsText(FromAlign(f)) /\ FromAlign(f) # <<>> /\ Left(t, e, p, <<c>> \o FromAlign(f))
  BY <1>1, LeftTexts DEF FieldOfParts, FromFill
<1>3. /\ At(t, p) = c /\ Left(t, e, p + 1, FromAlign(f)) /\ p \in Nat /\ p >= 1 /\ t \in Seq(STRING)
      /\ c # NUL
  BY <1>2, OneBehind DEF Clean
<1>4. f.spec.align.text # <<>>
  BY <1>1 DEF FieldOfParts, SpecParts
<1>5. At(t, p + 1) \in {"<", "=", ">"}
  BY <1>3, <1>4, AlignToken
<1>6. c \notin {"]", "|", "}", "<", ">", "="}
  BY <1>1, Zenon DEF NotFill
<1> DEFINE k == lex_next_token(t, p, s)
           Good2(typ) == k = Accept(typ, p, p + 1)
<1>7. Good2("Colon") \/ Good2("Digits") \/ Good2("LeftBrace") \/ Good2("OtherChar")
  <2>1. CASE c = ":"
    <3>1. At(t, p + 1) \notin {"i", "u", "q", "F", "f", "s", "t"}
      BY <1>5
    <3>2. colon(t, p) = Accept("Colon", p, p + 1)
      BY <3>1 DEF colon
    <3> QED
      BY <1>3, <2>1, <3>2, LexedAs, Zenon
  <2>2. CASE c = "{"
    <3>1. At(t, p + 1) \notin {"[", "{"}
      BY <1>5, Zenon
    <3>2. l_brace(t, p) = Accept("LeftBrace", p, p + 1)
      BY <3>1, Zenon DEF l_brace
    <3> QED
      BY <1>3, <2>2, <3>2, LexedAs, Zenon
  <2>3. CASE c \in Digit
    <3> DEFINE d == <<c>>
    <3>1. IsText(d) /\ d # <<>> /\ Len(d) = 1 /\ d[1] = c
      BY TextOf, OneCharacter
    <3>2. Holds(t, p, d)
      BY <1>3, HoldsOne
    <3> HIDE DEF d
    <3>3. At(t, p + Len(d)) \notin Digit /\ \A i \in 1..Len(d) : d[i] \in Digit
      BY <1>5, <2>3, <3>1 DEF Digit
    <3>4. k = Accept("Digits", p, p + Len(d))
      BY <1>3, <3>1, <3>2, <3>3, DigitsToken
    <3> QED
      BY <3>1, <3>4
  <2>4. CASE c = "%" /\ "MatchChronoToken" \in s
    <3>1. At(t, p + 1) \notin {"%", "f", "g"} \cup DOMAIN ChronoUserdef
      BY <1>5 DEF ChronoUserdef
    <3>2. chrono_percentage(t, p) = Accept("OtherChar", p, p + 1)
      BY <1>5, <3>1 DEF chrono_percentage
    <3>3. At(t, p) = "%" /\ "MatchChronoToken" \in s
      BY <1>3, <2>4
    <3>4. lex_next_token(t, p, s) = chrono_percentage(t, p)
      BY <1>3, <3>3, LexedAs, Zenon
    <3> QED
      BY <3>2, <3>4
  <2>5. CASE c \notin {":", "{"} \cup Digit /\ ~(c = "%" /\ "MatchChronoToken" \in s)
    BY <1>3, <1>6, <2>5, LexedAs, Zenon
  <2> QED
    BY <2>1, <2>2, <2>3, <2>4, <2>5, Zenon
<1>8. \A typ : Accept(typ, p, p + 1).type = typ
  BY DEF Accept
<1>9. k.type \in {"Colon", "Digits", "LeftBrace", "OtherChar"} /\ k = Accept(k.type, p, p + 1)
  <2> HIDE DEF k
  <2> QED
    BY <1>7, <1>8
<1> QED
  BY <1>1, <1>3, <1>5, <1>9

\* The colon in front of a specification is no type.
LEMMA SpecColon ==
  ASSUME NEW f, FieldOfParts(f), NEW t, Clean(t), NEW e, NEW p, Left(t, e, p, FromSpec(f)), NEW s,
         SpecText(f.spec) # <<>>
  PROVE  /\ lex_next_token(t, p, s) = Accept("Colon", p, p + 1)
         /\ Left(t, e, p + 1, FromFill(f))
<1>1. IsText(FromFill(f)) /\ FromFill(f) # <<>> /\ Left(t, e, p, <<":">> \o FromFill(f))
  BY LeftTexts DEF FieldOfParts, FromSpec
<1>2. At(t, p) = ":" /\ Left(t, e, p + 1, FromFill(f)) /\ p \in Nat /\ p >= 1 /\ t \in Seq(STRING)
  BY <1>1, OneBehind DEF Clean
<1>3. At(t, p + 1) = FromFill(f)[1]
  BY <1>1, <1>2, LeftBegins
<1>4. colon(t, p) = Accept("Colon", p, p + 1)
  <2>1. CASE f.spec.fill.text # <<>>
    <3>1. PICK c : c \notin NotFill /\ f.spec.fill.text = <<c>>
      BY <2>1, Zenon DEF FieldOfParts, SpecParts
    <3>2. At(t, (p + 1) + 1) \in {"<", "=", ">"} /\ f.spec.fill.means = At(t, p + 1)
      BY <1>2, <2>1, FillToken
    <3>3. At(t, p + 2) \in {"<", "=", ">"} /\ (p + 1) + 1 = p + 2
      BY <1>2, <3>2
    <3>4. At(t, p + 1) \notin {"s", "t", "f"}
      <4>1. At(t, p + 1) = c
        <5>1. FromFill(f)[1] = f.spec.fill.text[1]
          BY <2>1, HeadsOfParts, Zenon DEF FromHeads
        <5>2. f.spec.fill.text[1] = c
          BY <3>1, OneCharacter, Zenon
        <5> QED
          BY <1>3, <5>1, <5>2
      <4> QED
        BY <3>1, <4>1, Zenon DEF NotFill
    <3>5. At(t, p + 2) \notin Digit
      BY <3>3 DEF Digit
    <3>6. CASE At(t, p + 1) \in {"i", "u"}
      <4>1. type_ix(t, p) = Accept("Colon", p, p + 1)
        BY <3>3 DEF type_ix
      <4>2. colon(t, p) = type_ix(t, p)
        BY <3>6 DEF colon
      <4> QED
        BY <4>1, <4>2
    <3>7. CASE At(t, p + 1) = "q"
      BY <3>5, <3>7 DEF colon, type_quat
    <3>8. CASE At(t, p + 1) = "F"
      <4>1. type_fixed(t, p) = Accept("Colon", p, p + 1)
        BY <3>5 DEF type_fixed
      <4>2. colon(t, p) = type_fixed(t, p)
        BY <3>8 DEF colon
      <4> QED
        BY <4>1, <4>2
    <3>9. CASE At(t, p + 1) \notin {"i", "u", "q", "F"}
      BY <3>4, <3>9 DEF colon
    <3> QED
      BY <3>6, <3>7, <3>8, <3>9
  <2>2. CASE f.spec.fill.text = <<>>
    <3> DEFINE N == {"i", "u", "q", "F", "f", "s", "t"}
    <3>1. At(t, p + 1) \in {"<", "=", ">"} \cup SignChars \cup Digit \cup DOMAIN FormatTypeOf \cup {"%", "}", "]"}
      BY <1>3, <2>2, HeadsOfParts, Zenon DEF FromHeads
    <3>2. \A c \in SignChars : c \notin N
      BY Zenon DEF SignChars
    <3>3. \A c \in {"<", "=", ">"} \cup Digit \cup DOMAIN FormatTypeOf \cup {"%", "}", "]"} : c \notin N
      BY Zenon DEF Digit, FormatTypeOf
    <3>4. At(t, p + 1) \notin N
      <4> HIDE DEF N
      <4> QED
        BY <3>1, <3>2, <3>3, Zenon
    <3> QED
      BY <3>4 DEF colon
  <2> QED
    BY <2>1, <2>2
<1> QED
  BY <1>2, <1>4, LexedAs, Zenon

\* Without a specification the field ends.
LEMMA SpecClose ==
  ASSUME NEW f, FieldOfParts(f), NEW t, Clean(t), NEW e, NEW p, Left(t, e, p, FromSpec(f)), NEW s,
         StageOf(f.class, s), SpecText(f.spec) = <<>>
  PROVE  /\ lex_next_token(t, p, s) = Accept(CloseType(f), p, e)
         /\ Left(t, e, p, CloseText(f))
<1>1. FromSpec(f) = CloseText(f)
  BY DEF FromSpec
<1> QED
  BY <1>1, CloseToken DEF FieldOfParts, Clean

LEMMA SplitToken ==
  ASSUME NEW f, FieldOfParts(f), NEW t, Clean(t), NEW e, NEW p, Left(t, e, p, FromSplit(f)), NEW s,
         f.split.text # <<>>
  PROVE  /\ lex_next_token(t, p, s) = Accept("VlineColon", p, p + 2)
         /\ Left(t, e, p + 2, f.split.means \o FromSpec(f))
         /\ IsText(f.split.means)
<1>1. /\ f.split.means \in Seq(STRING \ {":", "}"})
      /\ f.split.text = <<"|", ":">> \o f.split.means
  BY Zenon DEF FieldOfParts, SplitParts
<1> DEFINE m == f.split.means
           c == "|"
           d == ":"
           h == <<c, d>>
<1>2. IsText(m) /\ IsText(FromSpec(f)) /\ IsText(h) /\ Len(h) = 2
  BY <1>1, TextOf, LeftTexts, Zenon DEF IsText, FieldOfParts
<1>3. FromSplit(f) = (h \o m) \o FromSpec(f)
  BY <1>1, Zenon DEF FromSplit
<1> HIDE DEF m, c, d, h
<1>4. IsText(h \o m) /\ IsText(m \o FromSpec(f)) /\ t \in Seq(STRING)
  BY <1>2, TextsJoined DEF Clean
<1>5. (h \o m) \o FromSpec(f) = h \o (m \o FromSpec(f))
  BY <1>2, JoinedThrice
<1>6. Left(t, p + 2, p, h) /\ Left(t, e, p + 2, m \o FromSpec(f))
  BY <1>2, <1>3, <1>4, <1>5, LeftBehind
<1>7. At(t, p) = c /\ At(t, p + 1) = d /\ p \in Nat /\ p >= 1
  BY <1>6, HoldsTwo DEF Left, h
<1>8. lex_next_token(t, p, s) = v_line(t, p)
  BY <1>4, <1>7, LexedAs, Zenon DEF c
<1> QED
  BY <1>2, <1>6, <1>7, <1>8 DEF v_line, m, d

LEMMA IdToken ==
  ASSUME NEW f, FieldOfParts(f), NEW t, Clean(t), NEW e, NEW p, Left(t, e, p, FromId(f)), NEW s
  PROVE  /\ lex_next_token(t, p, s) = Accept("Digits", p, p + Len(f.id.text))
         /\ Holds(t, p, f.id.text)
         /\ Left(t, e, p + Len(f.id.text), FromType(f))
         /\ At(t, p) \in Digit
<1> DEFINE d == f.id.text
<1>2. IsText(d) /\ d # <<>> /\ \A i \in 1..Len(d) : d[i] \in Digit
  BY DEF FieldOfParts, IsDigits
<1>3. IsText(FromType(f)) /\ FromType(f) # <<>> /\ Left(t, e, p, d \o FromType(f)) /\ t \in Seq(STRING)
  BY LeftTexts DEF FieldOfParts, FromId, Clean
<1> HIDE DEF d
<1>4. Left(t, p + Len(d), p, d) /\ Left(t, e, p + Len(d), FromType(f))
  BY <1>2, <1>3, LeftBehind
<1>5. At(t, p + Len(d)) = FromType(f)[1]
  BY <1>3, <1>4, LeftBegins
<1>6. FromType(f)[1] \notin Digit
  <2>1. FromType(f)[1] = ":"
    BY HeadsOfParts, Zenon DEF FromHeads
  <2> QED
    BY <2>1 DEF Digit
<1>7. lex_next_token(t, p, s) = Accept("Digits", p, p + Len(d))
  BY <1>2, <1>3, <1>4, <1>5, <1>6, DigitsToken DEF Left
<1>8. At(t, p) \in Digit
  BY <1>2, <1>3, <1>4, <1>5, <1>6, DigitsStand DEF Left
<1> QED
  BY <1>4, <1>7, <1>8 DEF d, Left

LEMMA OpenToken ==
  ASSUME NEW f, FieldOfParts(f), NEW t, Clean(t), NEW e, NEW p, Left(t, e, p, FromOpen(f)), NEW s
  PROVE  /\ lex_next_token(t, p, s) = Accept(IF f.class = "Value" THEN "LeftBrace" ELSE "LeftBraceBracket",
                                            p, p + Len(OpenText(f)))
         /\ Left(t, e, p + Len(OpenText(f)), FromId(f))
<1> DEFINE o == OpenText(f)
<1>1. IsText(o) /\ IsText(FromId(f)) /\ FromOpen(f) = o \o FromId(f) /\ t \in Seq(STRING)
  BY ClosingTexts, LeftTexts, Zenon DEF FieldOfParts, FromOpen, Clean
<1> HIDE DEF o
<1>2. Left(t, p + Len(o), p, o) /\ Left(t, e, p + Len(o), FromId(f))
  BY <1>1, LeftBehind
<1>3. p \in Nat /\ p >= 1 /\ Holds(t, p, o)
  BY <1>2 DEF Left
<1>4. CASE f.class = "Value"
  <2>1. o = <<"{">> /\ Len(o) = 1
    BY <1>4, ClosingTexts, Zenon DEF OpenText, o
  <2>0. Holds(t, p, <<"{">>) /\ Left(t, e, p + 1, FromId(f))
    BY <1>2, <1>3, <2>1, Zenon
  <2>2. At(t, p) = "{"
    BY <1>3, <2>0, HoldsOne, Zenon
  <2>3. At(t, p + 1) \in Digit
    BY <2>0, IdToken, Zenon
  <2>4. At(t, p + 1) \notin {"[", "{"}
    BY <2>3, Zenon DEF Digit
  <2>5. l_brace(t, p) = Accept("LeftBrace", p, p + 1)
    BY <2>4, Zenon DEF l_brace
  <2>6. lex_next_token(t, p, s) = Accept("LeftBrace", p, p + 1)
    BY <1>1, <1>3, <2>2, <2>5, LexedAs, Zenon
  <2> QED
    BY <1>2, <1>4, <2>1, <2>6, Zenon DEF o
<1>5. CASE f.class # "Value"
  <2> DEFINE c == "{"
             d == "["
  <2>1. o = <<c, d>> /\ Len(o) = 2
    BY <1>5, ClosingTexts, Zenon DEF OpenText, o
  <2> HIDE DEF c, d
  <2>0. Holds(t, p, <<c, d>>)
    BY <1>2, <1>3, <2>1
  <2>2. At(t, p) = c /\ At(t, p + 1) = d
    BY <1>3, <2>0, HoldsTwo
  <2>5. l_brace(t, p) = Accept("LeftBraceBracket", p, p + 2)
    BY <2>2, Zenon DEF l_brace, d
  <2>6. lex_next_token(t, p, s) = Accept("LeftBraceBracket", p, p + 2)
    BY <1>1, <1>3, <2>2, <2>5, LexedAs, Zenon DEF c
  <2> QED
    BY <1>2, <1>5, <2>1, <2>6 DEF o
<1> QED
  BY <1>4, <1>5

--------------------------------------------------------------------------------
(* The tokens between the values of an array and behind the items of a time.   *)

InnerTypes == {"Equ", "Gt", "Lt", "LeftBrace", "LeftBraceBracket", "LeftBraceBrace", "Digits", "OtherChar"}

\* The token of n characters at p.
TokenOf(t, p, s, n) == \E typ \in InnerTypes : lex_next_token(t, p, s) = Accept(typ, p, p + n)

\* What stands behind the characters does not end within one of their tokens.
Separates(t, r, b, chars) ==
  /\ Left(t, r, b, chars)
  /\ \A i \in 1..Len(chars) : chars[i] \notin {":", "}"}
  /\ At(t, r) \in {":", "]", "}", "%"}
  /\ chars # <<>> => /\ chars[Len(chars)] = "|" => At(t, r) # ":"
                     /\ chars[Len(chars)] = "]" => At(t, r) # "}"

\* A token among the characters does not reach behind them, and takes a percent sign alone.
LEMMA InnerToken ==
  ASSUME NEW t, Clean(t), NEW r, NEW b, NEW chars, Separates(t, r, b, chars),
         NEW j \in 0..(Len(chars) - 1), NEW s, ~(chars[j + 1] = "%" /\ "MatchChronoToken" \in s)
  PROVE  \E n \in 1..(Len(chars) - j) :
           /\ TokenOf(t, b + j, s, n)
           /\ chars[j + n] # "%" \/ n = 1
<1> DEFINE p == b + j
           x == At(t, p)
           next == At(t, p + 1)
           size == Len(chars)
<1>0. /\ b \in Nat /\ b >= 1 /\ size \in Nat /\ size >= 1 /\ r = b + size /\ p \in Nat /\ p >= 1
      /\ t \in Seq(STRING) /\ chars # <<>> /\ r <= Len(t) + 1 /\ j \in Nat /\ j < size
  <2>1. size \in Nat /\ (chars = <<>> => size = 0)
    <3>1. Len(<<>>) = 0
      OBVIOUS
    <3>2. size \in Nat
      BY TextLength, Zenon DEF Separates, Left
    <3> HIDE DEF size
    <3> QED
      BY <3>1, <3>2 DEF size
  <2>2. b \in Nat /\ b >= 1 /\ b + size = r /\ r <= Len(t) + 1 /\ t \in Seq(STRING)
    BY Zenon DEF Separates, Left, Clean
  <2> HIDE DEF size
  <2>3. j \in Nat /\ j < size
    BY <2>1 DEF size
  <2>4. chars # <<>>
    BY <2>1, <2>3 DEF size
  <2> QED
    BY <2>1, <2>2, <2>3, <2>4 DEF size
<1>1. \A i \in 1..size : At(t, b + i - 1) = chars[i]
  BY Zenon DEF Separates, Left, Holds
<1>2. x = chars[j + 1]
  <2>1. j + 1 \in 1..size /\ b + (j + 1) - 1 = p
    BY <1>0
  <2> QED
    BY <1>1, <2>1
<1>3. x \notin {":", "}", NUL}
  <2>1. j + 1 \in 1..size /\ p \in b..(r - 1)
    BY <1>0
  <2>2. x # NUL
    BY <1>0, <2>1, LeftInside, Zenon DEF Separates
  <2> QED
    BY <1>2, <2>1, <2>2, Zenon DEF Separates
<1>4. /\ j + 1 < size => next = chars[j + 2] /\ next \notin {":", "}"}
      /\ j + 1 = size => next = At(t, r) /\ x = chars[size]
  <2>1. ASSUME j + 1 < size PROVE next = chars[j + 2] /\ next \notin {":", "}"}
    <3>1. j + 2 \in 1..size /\ b + (j + 2) - 1 = p + 1
      BY <1>0, <2>1
    <3> QED
      BY <1>1, <3>1, Zenon DEF Separates
  <2>2. ASSUME j + 1 = size PROVE next = At(t, r) /\ x = chars[size]
    <3>1. p + 1 = r
      BY <1>0, <2>2
    <3> QED
      BY <1>2, <2>2, <3>1
  <2> QED
    BY <2>1, <2>2, Zenon
<1>5. j + 1 < size \/ j + 1 = size
  BY <1>0
<1>6. ASSUME NEW n \in 1..(size - j), NEW typ \in InnerTypes, lex_next_token(t, p, s) = Accept(typ, p, p + n),
             chars[j + n] # "%" \/ n = 1
      PROVE  \E m \in 1..(size - j) : TokenOf(t, p, s, m) /\ (chars[j + m] # "%" \/ m = 1)
  BY <1>6 DEF TokenOf
<1>7. 1 \in 1..(size - j)
  BY <1>0
<1>8. {"Equ", "Gt", "Lt", "LeftBrace", "LeftBraceBracket", "LeftBraceBrace", "Digits", "OtherChar"} = InnerTypes
  BY DEF InnerTypes
<1> HIDE DEF size, next, x, p
<1>9. ASSUME NEW typ \in InnerTypes, lex_next_token(t, p, s) = Accept(typ, p, p + 1)
      PROVE  \E m \in 1..(size - j) : TokenOf(t, p, s, m) /\ (chars[j + m] # "%" \/ m = 1)
  BY <1>6, <1>7, <1>9
<1>10. CASE x \in {"=", ">", "<"}
  <2>1. \E typ \in InnerTypes : lex_next_token(t, p, s) = Accept(typ, p, p + 1)
    BY <1>0, <1>8, <1>10, LexedAs, Zenon DEF x
  <2> QED
    BY <1>9, <2>1 DEF p, size
<1>11. CASE x = "{"
  <2>1. lex_next_token(t, p, s) = l_brace(t, p)
    BY <1>0, <1>11, LexedAs, Zenon DEF x
  <2>2. CASE next \in {"[", "{"}
    <3>1. \E typ \in InnerTypes : lex_next_token(t, p, s) = Accept(typ, p, p + 2)
      BY <1>8, <2>1, <2>2, Zenon DEF l_brace, next
    <3>2. j + 1 < size
      BY <1>4, <1>5, <2>2, Zenon DEF Separates
    <3>3. 2 \in 1..(size - j) /\ chars[j + 2] # "%"
      <4>1. chars[j + 2] \in {"[", "{"}
        BY <1>4, <2>2, <3>2, Zenon
      <4>2. 2 \in 1..(size - j)
        BY <1>0, <3>2
      <4> QED
        BY <4>1, <4>2, Zenon
    <3> QED
      BY <1>6, <3>1, <3>3 DEF p, size
  <2>3. CASE next \notin {"[", "{"}
    <3>1. lex_next_token(t, p, s) = Accept("LeftBrace", p, p + 1)
      BY <2>1, <2>3, Zenon DEF l_brace, next
    <3> QED
      BY <1>8, <1>9, <3>1 DEF p, size
  <2> QED
    BY <2>2, <2>3, Zenon
<1>12. CASE x = "]"
  <2>1. lex_next_token(t, p, s) = r_bracket(t, p)
    BY <1>0, <1>12, LexedAs, Zenon DEF x
  <2>2. next # "}"
    BY <1>0, <1>4, <1>5, <1>12, Zenon DEF Separates, size
  <2>3. lex_next_token(t, p, s) = Accept("OtherChar", p, p + 1)
    BY <2>1, <2>2, Zenon DEF r_bracket, next
  <2> QED
    BY <1>8, <1>9, <2>3 DEF p, size
<1>13. CASE x = "|"
  <2>1. lex_next_token(t, p, s) = v_line(t, p)
    BY <1>0, <1>13, LexedAs, Zenon DEF x
  <2>2. next # ":"
    BY <1>0, <1>4, <1>5, <1>13, Zenon DEF Separates, size
  <2>3. lex_next_token(t, p, s) = Accept("OtherChar", p, p + 1)
    BY <2>1, <2>2 DEF v_line, next
  <2> QED
    BY <1>8, <1>9, <2>3 DEF p, size
<1>14. CASE x \in Digit
  <2> DEFINE d == DigitsEnd(t, p)
  <2>1. p \in 1..(Len(t) + 1)
    BY <1>0 DEF p
  <2>2. /\ d \in p..(Len(t) + 1) /\ (\A i \in p..(d - 1) : At(t, i) \in Digit) /\ d > p
    BY <1>0, <1>14, <2>1, DigitsEndWithin DEF x
  <2>3. lex_next_token(t, p, s) = Accept("Digits", p, d)
    <3>1. ~(p > Len(t) + 1) /\ p # Len(t) + 1
      BY <1>0, <1>14, NoDigit, CharacterInside DEF x
    <3>2. At(t, p) \notin {"=", ">", "<", ":", "{", "}", "]", "|", "%"} /\ At(t, p) \in Digit
      BY <1>14, Zenon DEF Digit, x
    <3> QED
      BY <3>1, <3>2, Zenon DEF lex_next_token, digits_beg
  <2> HIDE DEF d
  <2>4. d <= r
    <3>1. At(t, r) \notin Digit
      BY Zenon DEF Separates, Digit
    <3>2. p < r
      BY <1>0 DEF p
    <3> QED
      BY <1>0, <2>2, <3>1, <3>2
  <2> DEFINE n == d - p
  <2>5. n \in 1..(size - j) /\ p + n = d /\ j + n \in 1..size /\ b + (j + n) - 1 = d - 1 /\ d - 1 \in p..(d - 1)
    BY <1>0, <2>2, <2>4 DEF p
  <2>6. chars[j + n] \in Digit
    BY <1>1, <2>2, <2>5
  <2> HIDE DEF n
  <2>7. lex_next_token(t, p, s) = Accept("Digits", p, p + n) /\ chars[j + n] # "%"
    BY <2>3, <2>5, <2>6 DEF Digit
  <2> QED
    BY <1>6, <1>8, <2>5, <2>7 DEF p, size
<1>15. CASE x \notin {"=", ">", "<", "{", "]", "|"} \cup Digit
  <2>1. ~(x = "%" /\ "MatchChronoToken" \in s)
    BY <1>2
  <2>2. x \notin {"=", ">", "<", ":", "{", "}", "]", "|", NUL} \cup Digit
    BY <1>3, <1>15, Zenon
  <2>3. lex_next_token(t, p, s) = Accept("OtherChar", p, p + 1)
    BY <1>0, <2>1, <2>2, LexedAs, Zenon DEF x
  <2> QED
    BY <1>8, <1>9, <2>3 DEF p, size
<1> QED
  BY <1>10, <1>11, <1>12, <1>13, <1>14, <1>15, Zenon

\* The first characters of a text.
Taken(chars, j) == [i \in 1..j |-> chars[i]]

\* All of them, and none.
LEMMA TakenAll ==
  ASSUME NEW chars, IsText(chars)
  PROVE  Taken(chars, Len(chars)) = chars /\ Taken(chars, 0) = <<>>
<1>1. PICK S : chars \in Seq(S)
  BY DEF IsText
<1>2. chars = [i \in 1..Len(chars) |-> chars[i]]
  BY <1>1
<1>3. 1..0 = {}
  OBVIOUS
<1>4. Taken(chars, 0) = <<>>
  BY <1>3 DEF Taken
<1> QED
  BY <1>2, <1>4 DEF Taken

LEMMA TakenText ==
  ASSUME NEW chars, IsText(chars), NEW j \in 0..Len(chars)
  PROVE  IsText(Taken(chars, j)) /\ Len(Taken(chars, j)) = j
<1>1. PICK S : chars \in Seq(S)
  BY DEF IsText
<1>2. j \in Nat /\ \A i \in 1..j : chars[i] \in S
  BY <1>1
<1>3. Taken(chars, j) \in Seq(S) /\ Len(Taken(chars, j)) = j
  BY <1>2 DEF Taken
<1> QED
  BY <1>3 DEF IsText

\* The characters of the token of n characters at p.
CharactersAt(t, p, n) == [i \in 1..n |-> At(t, p + i - 1)]

\* What a token within the characters adds to those that were read before it.
LEMMA TokenTaken ==
  ASSUME NEW t, NEW r, NEW b, NEW chars, Left(t, r, b, chars),
         NEW j \in 0..Len(chars), NEW n \in 1..(Len(chars) - j)
  PROVE  Taken(chars, j) \o CharactersAt(t, b + j, n) = Taken(chars, j + n)
<1> DEFINE x == Taken(chars, j)
           y == [i \in 1..n |-> At(t, b + j + i - 1)]
           xy == x \o y
           z == Taken(chars, j + n)
<1>1. b \in Nat /\ IsText(chars) /\ Len(chars) \in Nat /\ j \in Nat /\ n \in Nat /\ j + n \in 0..Len(chars)
  BY TextLength DEF Left
<1>2. \A i \in 1..Len(chars) : At(t, b + i - 1) = chars[i]
  BY DEF Left, Holds
<1>3. IsText(x) /\ Len(x) = j /\ IsText(z) /\ Len(z) = j + n
  BY <1>1, TakenText
<1>4. PICK S : chars \in Seq(S)
  BY <1>1 DEF IsText
<1>5. \A i \in 1..n : y[i] = chars[j + i]
  <2> TAKE i \in 1..n
  <2>1. j + i \in 1..Len(chars) /\ b + (j + i) - 1 = b + j + i - 1
    BY <1>1
  <2> QED
    BY <1>2, <2>1
<1>6. \A i \in 1..n : chars[j + i] \in S
  BY <1>1, <1>4
<1>7. y = [i \in 1..n |-> chars[j + i]]
  BY <1>5
<1>8. Len(y) = n
  BY <1>1
<1> HIDE DEF y
<1>9. y \in Seq(S)
  BY <1>1, <1>6, <1>7
<1>10. IsText(y)
  BY <1>9 DEF IsText
<1>11. \A i \in 1..j : x[i] = chars[i]
  BY DEF Taken
<1>12. \A i \in 1..(j + n) : z[i] = chars[i]
  BY DEF Taken
<1> HIDE DEF x, z
<1>13. /\ IsText(xy) /\ Len(xy) = j + n
       /\ \A i \in 1..j : xy[i] = x[i]
       /\ \A i \in 1..n : xy[j + i] = y[i]
  BY <1>3, <1>8, <1>10, JoinedCharacters
<1> HIDE DEF xy
<1>14. ASSUME NEW i \in 1..(j + n) PROVE xy[i] = z[i]
  <2>1. CASE i <= j
    BY <1>11, <1>12, <1>13, <2>1
  <2>2. CASE i > j
    <3>1. i - j \in 1..n /\ j + (i - j) = i
      BY <1>1, <2>2
    <3> QED
      BY <1>5, <1>7, <1>12, <1>13, <3>1, Zenon
  <2> QED
    BY <1>1, <2>1, <2>2
<1>15. xy = z
  <2>1. PICK T : xy \in Seq(T)
    BY <1>13 DEF IsText
  <2>2. PICK U : z \in Seq(U)
    BY <1>3 DEF IsText
  <2>3. xy = [i \in 1..(j + n) |-> xy[i]] /\ z = [i \in 1..(j + n) |-> z[i]]
    BY <1>3, <1>13, <2>1, <2>2
  <2> QED
    BY <1>14, <2>3
<1> QED
  BY <1>15 DEF xy, x, y, z, CharactersAt

--------------------------------------------------------------------------------
(* Behind the items of a time.                                                 *)

\* The percent signs of the characters stand in these pairs.
Paired(chars, pairs) ==
  /\ pairs \subseteq 1..(Len(chars) - 1)
  /\ \A p \in pairs : p + 1 \notin pairs
  /\ \A p \in 1..Len(chars) : chars[p] = "%" <=> p \in pairs \/ p - 1 \in pairs

\* A token behind an item does not reach behind its characters, and ends at no half of a pair.
LEMMA BehindToken ==
  ASSUME NEW t, Clean(t), NEW r, NEW b, NEW chars, Separates(t, r, b, chars), NEW pairs, Paired(chars, pairs),
         NEW j \in 0..(Len(chars) - 1), j \notin pairs, NEW s, "MatchChronoToken" \in s
  PROVE  \E n \in 1..(Len(chars) - j) : TokenOf(t, b + j, s, n) /\ j + n \notin pairs
<1>0. b \in Nat /\ b >= 1 /\ t \in Seq(STRING) /\ IsText(chars)
  BY Zenon DEF Separates, Left, Clean
<1>1. Len(chars) \in Nat /\ b \in Nat /\ b >= 1 /\ t \in Seq(STRING) /\ j \in Nat
  BY <1>0, TextLength
<1>2. \A p \in pairs : p \in 1..Len(chars) /\ chars[p] = "%"
  BY <1>1 DEF Paired
<1>3. CASE chars[j + 1] # "%"
  <2>1. PICK n \in 1..(Len(chars) - j) : TokenOf(t, b + j, s, n) /\ (chars[j + n] # "%" \/ n = 1)
    BY <1>3, InnerToken
  <2>2. chars[j + n] # "%"
    BY <1>3, <2>1
  <2> QED
    BY <1>2, <2>1, <2>2
<1>4. CASE chars[j + 1] = "%"
  <2>1. j + 1 \in 1..Len(chars) /\ (j + 1) - 1 = j
    BY <1>1
  <2>2. j + 1 \in pairs
    BY <1>4, <2>1 DEF Paired
  <2>3. j + 2 \in 1..Len(chars) /\ (j + 2) - 1 = j + 1 /\ 2 \in 1..(Len(chars) - j)
    BY <1>1, <2>2 DEF Paired
  <2>4. chars[j + 2] = "%" /\ j + 2 \notin pairs
    BY <1>1, <2>2, <2>3 DEF Paired
  <2>5. At(t, b + j) = "%" /\ At(t, (b + j) + 1) = "%"
    <3>1. \A i \in 1..Len(chars) : At(t, b + i - 1) = chars[i]
      BY Zenon DEF Separates, Left, Holds
    <3>2. b + (j + 1) - 1 = b + j /\ b + (j + 2) - 1 = (b + j) + 1
      BY <1>1
    <3>3. At(t, b + (j + 1) - 1) = "%" /\ At(t, b + (j + 2) - 1) = "%"
      BY <1>4, <2>1, <2>3, <2>4, <3>1
    <3> QED
      BY <3>2, <3>3
  <2> DEFINE q == b + j
  <2>6. q \in Nat /\ q >= 1
    BY <1>1
  <2>7. At(t, q) = "%" /\ At(t, q + 1) = "%"
    BY <2>5
  <2> HIDE DEF q
  <2>8. lex_next_token(t, q, s) = chrono_percentage(t, q)
    BY <1>1, <2>6, <2>7, LexedAs, Zenon
  <2>9. chrono_percentage(t, q) = Accept("OtherChar", q, q + 2)
    <3>1. "%" \notin DOMAIN ChronoUserdef
      BY DEF ChronoUserdef
    <3> QED
      BY <2>7, <3>1 DEF chrono_percentage
  <2>10. TokenOf(t, q, s, 2)
    BY <2>8, <2>9 DEF TokenOf, InnerTypes
  <2> QED
    BY <2>3, <2>4, <2>10 DEF q
<1> QED
  BY <1>3, <1>4

\* What begins the next item, or ends the field, stands behind an item.
LEMMA BehindItem ==
  ASSUME NEW f, FieldOfParts(f), UserItems(f.spec.items), NEW t, Clean(t), NEW e, NEW q,
         Left(t, e, q, FromItems(f)), NEW k \in 1..Len(f.spec.items.means)
  PROVE  LET m == f.spec.items.means
         IN  /\ k = Len(m) => Left(t, e, AtItem(q, m, k), CloseText(f))
             /\ k # Len(m) => Left(t, AtItem(q, m, k + 1), AtItem(q, m, k), ItemText(m[k + 1]))
             /\ At(t, AtItem(q, m, k)) \in {"%", "}", "]"}
<1> DEFINE m == f.spec.items.means
           i == f.spec.items
           P2(n) == AtItem(q, m, n)
<1>1. IsText(CloseText(f)) /\ CloseText(f) # <<>> /\ CloseText(f)[1] \in {"}", "]"} /\ t \in Seq(STRING)
  BY ClosingTexts, Zenon DEF Clean
<1>2. Left(t, e, q, i.text \o CloseText(f)) /\ Len(m) \in Nat /\ \A n \in 1..Len(m) : IsTimeItem(m[n])
  BY DEF FromItems, UserItems
<1>3. /\ Left(t, e, P2(Len(m)), CloseText(f))
      /\ \A n \in 0..(Len(m) - 1) : Left(t, P2(n + 1), P2(n), ItemText(m[n + 1]))
  BY <1>1, <1>2, ItemsStand, Zenon
<1> HIDE DEF m, P2
<1>4. k = Len(m) => Left(t, e, P2(k), CloseText(f)) /\ At(t, P2(k)) \in {"}", "]"}
  BY <1>1, <1>3, LeftBegins, Zenon
<1>5. ASSUME k # Len(m)
      PROVE  Left(t, P2(k + 1), P2(k), ItemText(m[k + 1])) /\ At(t, P2(k)) = "%"
  <2>1. k \in 0..(Len(m) - 1) /\ k + 1 \in 1..Len(m)
    BY <1>2, <1>5 DEF m
  <2>2. ItemText(m[k + 1]) # <<>> /\ ItemText(m[k + 1])[1] = "%"
    BY <1>2, <2>1, ItemIsText
  <2>3. Left(t, P2(k + 1), P2(k), ItemText(m[k + 1]))
    BY <1>3, <2>1
  <2> QED
    BY <2>2, <2>3, LeftBegins
<1> QED
  BY <1>4, <1>5, Zenon DEF m, P2

--------------------------------------------------------------------------------
(* The numbers of a field.                                                     *)

\* The number f[n] is read from its first digit on, by R.
ReadsAs(f, n, d, R) == f = [i \in 0..n |-> IF i = 0 THEN 0 ELSE R[(f[i - 1] * 10) + d[i]]]

\* Such a number exists, whatever becomes of its value.
LEMMA ReadsUpward ==
  ASSUME NEW n \in Nat, NEW d, \A i \in 1..n : d[i] \in Nat, NEW R, \A x \in Nat : R[x] \in Nat
  PROVE  \E f : ReadsAs(f, n, d, R)
<1> DEFINE One(x, i) == R[(x * 10) + d[i]]
           G == [i \in 1..n |-> [x \in Nat |-> One(x, i)]]
           Body(f, i) == IF i = 0 THEN 0 ELSE R[(f[i - 1] * 10) + d[i]]
<1>1. \A f, i : Body(f, i) = IF i = 0 THEN 0 ELSE One(f[i - 1], i)
  OBVIOUS
<1>2. ASSUME NEW i \in 1..n, NEW x \in Nat PROVE One(x, i) \in Nat
  <2>1. (x * 10) + d[i] \in Nat
    OBVIOUS
  <2> QED
    BY <2>1
<1> HIDE DEF One
<1>3. Takes(G, 0, n, Nat) /\ \A i \in 1..n : \A x \in Nat : G[i][x] = One(x, i)
  <2>1. \A i \in 1..n : G[i] \in [Nat -> Nat] /\ \A x \in Nat : G[i][x] = One(x, i)
    BY <1>2
  <2> HIDE DEF G
  <2> QED
    BY <2>1 DEF Takes
<1> HIDE DEF G
<1>4. PICK f \in [0..n -> Nat] : f[0] = 0 /\ Upward(f, 0, n, Nat, G)
  <2>1. \E f \in [0..n -> Nat] : (0 <= n => f[0] = 0) /\ Upward(f, 0, n, Nat, G)
    BY <1>3, UpwardExists
  <2> QED
    BY <2>1
<1> HIDE DEF Body
<1>5. f = [i \in 0..n |-> Body(f, i)]
  <2>1. ASSUME NEW i \in 0..n PROVE f[i] = Body(f, i)
    <3>1. CASE i = 0
      BY <1>1, <1>4, <3>1
    <3>2. CASE i # 0
      <4>1. i \in 1..n /\ i \in (0 + 1)..n /\ i - 1 \in 0..n
        BY <3>2
      <4>2. f[i - 1] \in Nat
        BY <4>1
      <4>3. f[i] = G[i][f[i - 1]]
        BY <1>4, <4>1, <4>2 DEF Upward
      <4> QED
        BY <1>1, <1>3, <4>1, <4>2, <4>3
    <3> QED
      BY <3>1, <3>2
  <2> QED
    BY <2>1
<1> QED
  BY <1>5 DEF Body, ReadsAs

LEMMA SmallRemainder == \A x, y \in Nat : x < y => x % y = x
BY SMT

\* The digits of a number, and what becomes of its value behind each of them.
DigitsOf(chars) == [i \in 1..Len(chars) |-> NumeralValue(chars[i])]

AsRead == [x \in Nat |-> x]

Wrapped == [x \in Nat |-> x % Word]

LEMMA WrappedIs == \A x \in Nat : Wrapped[x] = x % Word /\ Wrapped[x] \in Nat
<1>1. Word \in Nat /\ Word > 0
  BY ParserAssumption
<1> QED
  BY <1>1 DEF Wrapped

\* The digits of a number of the grammar.
LEMMA DigitsKnown ==
  ASSUME NEW p, NEW limit, IsNumber(p, limit)
  PROVE  /\ Len(p.text) \in Nat /\ Word \in Nat /\ Word > 0
         /\ \A i \in 1..Len(p.text) : /\ DigitsOf(p.text)[i] \in 0..9
                                      /\ DigitsOf(p.text)[i] = NumeralValue(p.text[i])
                                      /\ DigitsOf(p.text)[i] = DigitValue(p.text[i])
         /\ \A x \in Nat : AsRead[x] = x /\ AsRead[x] \in Nat
<1>1. Len(p.text) \in Nat /\ Word \in Nat /\ Word > 0
  BY ParserAssumption, TextLength DEF IsNumber, IsText
<1>2. ASSUME NEW i \in 1..Len(p.text)
      PROVE  NumeralValue(p.text[i]) \in 0..9 /\ DigitValue(p.text[i]) = NumeralValue(p.text[i])
  <2>1. \E v \in 0..9 : p.text[i] = Numerals[v + 1]
    BY DEF IsNumber
  <2> QED
    BY <2>1 DEF NumeralValue, DigitValue, Numerals
<1>3. \A x \in Nat : AsRead[x] = x /\ AsRead[x] \in Nat
  BY DEF AsRead
<1> QED
  BY <1>1, <1>2, <1>3 DEF DigitsOf

\* The values are numbers.
LEMMA ReadsNumbers ==
  ASSUME NEW n \in Nat, NEW d, \A i \in 1..n : d[i] \in Nat, NEW R, \A x \in Nat : R[x] \in Nat,
         NEW f, ReadsAs(f, n, d, R)
  PROVE  \A i \in 0..n : f[i] \in Nat
<1> DEFINE H == {i \in Nat : i <= n => f[i] \in Nat}
<1>1. 0 \in H
  BY DEF ReadsAs
<1>2. ASSUME NEW i \in Nat, i \in H PROVE i + 1 \in H
  <2> SUFFICES ASSUME i + 1 <= n PROVE f[i + 1] \in Nat
    OBVIOUS
  <2>1. i + 1 \in 0..n /\ i + 1 \in 1..n /\ (i + 1) - 1 = i /\ i + 1 # 0 /\ f[i] \in Nat
    BY <1>2
  <2>2. (f[i] * 10) + d[i + 1] \in Nat
    BY <2>1
  <2>3. f[i + 1] = R[(f[i] * 10) + d[i + 1]]
    BY <2>1 DEF ReadsAs
  <2> QED
    BY <2>2, <2>3
<1> HIDE DEF H
<1>3. Nat \subseteq H
  BY <1>1, <1>2, NumberInduction
<1> QED
  BY <1>3 DEF H

\* What the manual and what the parser takes a number for.
LEMMA NumberMeant ==
  ASSUME NEW p, NEW limit, IsNumber(p, limit)
  PROVE  \E f : ReadsAs(f, Len(p.text), DigitsOf(p.text), AsRead) /\ p.means = f[Len(p.text)]
<1> DEFINE chars == p.text
           n == Len(chars)
           d == DigitsOf(chars)
           value[i \in 0..n] == IF i = 0 THEN 0 ELSE (value[i - 1] * 10) + NumeralValue(chars[i])
<1>1. p.means = value[n]
  BY DEF IsNumber, NumberRead
<1>2. /\ n \in Nat
      /\ \A i \in 1..n : d[i] \in Nat /\ d[i] = NumeralValue(chars[i])
      /\ \A x \in Nat : AsRead[x] = x /\ AsRead[x] \in Nat
  BY DigitsKnown
<1> HIDE DEF chars, n, d
<1>3. PICK f : ReadsAs(f, n, d, AsRead)
  BY <1>2, ReadsUpward
<1>4. \A i \in 0..n : f[i] \in Nat
  BY <1>2, <1>3, ReadsNumbers
<1>5. \A v : (\A i \in 0..n : v[i] \in Nat) =>
        \A i \in 0..n : i # 0 => AsRead[(v[i - 1] * 10) + d[i]] = (v[i - 1] * 10) + NumeralValue(chars[i])
  <2> TAKE v
  <2> SUFFICES ASSUME \A i \in 0..n : v[i] \in Nat, NEW i \in 0..n, i # 0
               PROVE  AsRead[(v[i - 1] * 10) + d[i]] = (v[i - 1] * 10) + NumeralValue(chars[i])
    OBVIOUS
  <2>1. i \in 1..n /\ i - 1 \in 0..n
    BY <1>2
  <2>2. v[i - 1] \in Nat /\ d[i] \in Nat
    BY <1>2, <2>1
  <2>3. (v[i - 1] * 10) + d[i] \in Nat
    BY <2>2
  <2> QED
    BY <1>2, <2>1, <2>3
<1>6. f = [i \in 0..n |-> IF i = 0 THEN 0 ELSE (f[i - 1] * 10) + NumeralValue(chars[i])]
  BY <1>3, <1>4, <1>5 DEF ReadsAs
<1>7. value = [i \in 0..n |-> IF i = 0 THEN 0 ELSE (value[i - 1] * 10) + NumeralValue(chars[i])]
  BY <1>6 DEF value
<1> HIDE DEF value
<1> DEFINE H == {i \in Nat : i <= n => value[i] = f[i]}
<1>8. 0 \in H
  BY <1>2, <1>6, <1>7
<1>9. ASSUME NEW i \in Nat, i \in H PROVE i + 1 \in H
  <2> SUFFICES ASSUME i + 1 <= n PROVE value[i + 1] = f[i + 1]
    OBVIOUS
  <2>1. i + 1 \in 0..n /\ (i + 1) - 1 = i /\ i + 1 # 0 /\ value[i] = f[i]
    BY <1>2, <1>9
  <2>2. f[i + 1] = (f[i] * 10) + NumeralValue(chars[i + 1])
    BY <1>6, <2>1
  <2>3. value[i + 1] = (value[i] * 10) + NumeralValue(chars[i + 1])
    BY <1>7, <2>1
  <2> QED
    BY <2>1, <2>2, <2>3
<1>10. Nat \subseteq H
  <2> HIDE DEF H
  <2> QED
    BY <1>8, <1>9, NumberInduction
<1>11. value[n] = f[n]
  BY <1>2, <1>10
<1> QED
  BY <1>1, <1>3, <1>11 DEF chars, n, d

LEMMA NumberLexed ==
  ASSUME NEW p, NEW limit, IsNumber(p, limit)
  PROVE  \E f : ReadsAs(f, Len(p.text), DigitsOf(p.text), Wrapped) /\ lex_atou(p.text) = f[Len(p.text)]
<1> DEFINE chars == p.text
           n == Len(chars)
           d == DigitsOf(chars)
           value[i \in 0..n] == IF i = 0 THEN 0 ELSE (value[i - 1] * 10 + DigitValue(chars[i])) % Word
<1>1. lex_atou(chars) = value[n]
  BY DEF lex_atou
<1>2. /\ n \in Nat
      /\ \A i \in 1..n : d[i] \in Nat /\ d[i] = DigitValue(chars[i])
      /\ \A x \in Nat : Wrapped[x] = x % Word /\ Wrapped[x] \in Nat
  <2>1. \A x \in Nat : Wrapped[x] = x % Word /\ Wrapped[x] \in Nat
    BY WrappedIs, Zenon
  <2>2. n \in Nat /\ \A i \in 1..n : d[i] \in Nat /\ d[i] = DigitValue(chars[i])
    BY DigitsKnown
  <2> QED
    BY <2>1, <2>2, Zenon
<1> HIDE DEF chars, n, d
<1>3. PICK f : ReadsAs(f, n, d, Wrapped)
  BY <1>2, ReadsUpward
<1>4. \A i \in 0..n : f[i] \in Nat
  BY <1>2, <1>3, ReadsNumbers
<1>5. \A v : (\A i \in 0..n : v[i] \in Nat) =>
        \A i \in 0..n : i # 0 => Wrapped[(v[i - 1] * 10) + d[i]] = (v[i - 1] * 10 + DigitValue(chars[i])) % Word
  <2> TAKE v
  <2> SUFFICES ASSUME \A i \in 0..n : v[i] \in Nat, NEW i \in 0..n, i # 0
               PROVE  Wrapped[(v[i - 1] * 10) + d[i]] = (v[i - 1] * 10 + DigitValue(chars[i])) % Word
    OBVIOUS
  <2>1. i \in 1..n /\ i - 1 \in 0..n
    BY <1>2
  <2>2. v[i - 1] \in Nat /\ d[i] \in Nat
    BY <1>2, <2>1
  <2>3. (v[i - 1] * 10) + d[i] \in Nat
    BY <2>2
  <2> QED
    BY <1>2, <2>1, <2>3
<1>6. f = [i \in 0..n |-> IF i = 0 THEN 0 ELSE (f[i - 1] * 10 + DigitValue(chars[i])) % Word]
  BY <1>3, <1>4, <1>5 DEF ReadsAs
<1>7. value = [i \in 0..n |-> IF i = 0 THEN 0 ELSE (value[i - 1] * 10 + DigitValue(chars[i])) % Word]
  BY <1>6 DEF value
<1> HIDE DEF value
<1> DEFINE H == {i \in Nat : i <= n => value[i] = f[i]}
<1>8. 0 \in H
  BY <1>2, <1>6, <1>7
<1>9. ASSUME NEW i \in Nat, i \in H PROVE i + 1 \in H
  <2> SUFFICES ASSUME i + 1 <= n PROVE value[i + 1] = f[i + 1]
    OBVIOUS
  <2>1. i + 1 \in 0..n /\ (i + 1) - 1 = i /\ i + 1 # 0 /\ value[i] = f[i]
    BY <1>2, <1>9
  <2>2. f[i + 1] = (f[i] * 10 + DigitValue(chars[i + 1])) % Word
    BY <1>6, <2>1
  <2>3. value[i + 1] = (value[i] * 10 + DigitValue(chars[i + 1])) % Word
    BY <1>7, <2>1
  <2> QED
    BY <2>1, <2>2, <2>3
<1>10. Nat \subseteq H
  <2> HIDE DEF H
  <2> QED
    BY <1>8, <1>9, NumberInduction
<1>11. value[n] = f[n]
  BY <1>2, <1>10
<1> QED
  BY <1>1, <1>3, <1>11 DEF chars, n, d

\* What the parser takes a number for is what it means, if a word holds it.
LEMMA NumberTaken ==
  ASSUME NEW p, NEW limit \in Nat, IsNumber(p, limit), limit <= Word
  PROVE  lex_atou(p.text) = p.means /\ p.means \in 0..(limit - 1)
<1> DEFINE n == Len(p.text)
           d == DigitsOf(p.text)
<1>1. PICK f : ReadsAs(f, n, d, AsRead) /\ p.means = f[n]
  BY NumberMeant
<1>2. PICK g : ReadsAs(g, n, d, Wrapped) /\ lex_atou(p.text) = g[n]
  BY NumberLexed
<1>3. /\ n \in Nat /\ Word \in Nat /\ Word > 0
      /\ \A i \in 1..n : d[i] \in Nat
      /\ \A x \in Nat : AsRead[x] = x /\ AsRead[x] \in Nat /\ Wrapped[x] = x % Word /\ Wrapped[x] \in Nat
  <2>1. \A x \in Nat : AsRead[x] = x /\ AsRead[x] \in Nat /\ Wrapped[x] = x % Word /\ Wrapped[x] \in Nat
    <3>1. \A x \in Nat : AsRead[x] = x /\ AsRead[x] \in Nat
      BY DigitsKnown
    <3> QED
      BY <3>1, WrappedIs, Zenon
  <2>2. n \in Nat /\ Word \in Nat /\ Word > 0 /\ \A i \in 1..n : d[i] \in Nat
    BY DigitsKnown
  <2> QED
    BY <2>1, <2>2, Zenon
<1> HIDE DEF n, d
<1>4. \A i \in 0..n : f[i] \in Nat /\ g[i] \in Nat
  BY <1>1, <1>2, <1>3, ReadsNumbers
<1> DEFINE K == {i \in Nat : i <= n => (f[i] < Word => g[i] = f[i])}
<1>5. 0 \in K
  BY <1>1, <1>2, <1>3 DEF ReadsAs
<1>6. ASSUME NEW i \in Nat, i \in K PROVE i + 1 \in K
  <2> SUFFICES ASSUME i + 1 <= n, f[i + 1] < Word PROVE g[i + 1] = f[i + 1]
    OBVIOUS
  <2> DEFINE x == f[i]
             c == d[i + 1]
             y == (x * 10) + c
  <2>1. /\ i + 1 \in 0..n /\ i + 1 \in 1..n /\ (i + 1) - 1 = i /\ i + 1 # 0 /\ i \in 0..n
        /\ x \in Nat /\ (x < Word => g[i] = x)
    BY <1>3, <1>4, <1>6
  <2>2. c \in Nat
    BY <1>3, <2>1
  <2>3. f[i + 1] = AsRead[y] /\ g[i + 1] = Wrapped[(g[i] * 10) + c]
    BY <1>1, <1>2, <2>1 DEF ReadsAs
  <2>4. y \in Nat /\ x <= y
    BY <2>1, <2>2
  <2>5. y < Word /\ f[i + 1] = y
    BY <1>3, <2>3, <2>4
  <2>6. g[i] = x
    BY <1>3, <2>1, <2>4, <2>5
  <2>7. g[i + 1] = Wrapped[y]
    BY <2>3, <2>6
  <2> HIDE DEF y
  <2> QED
    BY <1>3, <2>4, <2>5, <2>7, SmallRemainder
<1>7. Nat \subseteq K
  <2> HIDE DEF K
  <2> QED
    BY <1>5, <1>6, NumberInduction
<1>8. f[n] \in Nat /\ (f[n] < Word => g[n] = f[n])
  BY <1>3, <1>4, <1>7
<1>9. p.means < limit
  BY DEF IsNumber
<1> QED
  BY <1>1, <1>2, <1>3, <1>8, <1>9

--------------------------------------------------------------------------------
(* The items of a time, and the types.                                         *)

\* The k-th item is one token, and what stands behind it its characters.
LEMMA UserItemToken ==
  ASSUME NEW f, FieldOfParts(f), UserItems(f.spec.items), NEW t, Clean(t), NEW e, NEW q,
         Left(t, e, q, FromItems(f)), NEW k \in 1..Len(f.spec.items.means), NEW s, "MatchChronoToken" \in s
  PROVE  LET m == f.spec.items.means
         IN  \E typ \in UserdefTokens, b \in Nat : \E pairs :
               /\ lex_next_token(t, AtItem(q, m, k - 1), s) = Accept(typ, AtItem(q, m, k - 1), b)
               /\ ChronoItemOf[typ] = m[k].item
               /\ IsText(m[k].split)
               /\ Separates(t, AtItem(q, m, k), b, m[k].split)
               /\ Paired(m[k].split, pairs)
               /\ At(t, AtItem(q, m, k - 1)) = "%"
<1> DEFINE m == f.spec.items.means
           Pl(j) == AtItem(q, m, j)
<1>1. IsText(CloseText(f)) /\ t \in Seq(STRING)
  BY ClosingTexts, Zenon DEF Clean
<1>2. Left(t, e, q, f.spec.items.text \o CloseText(f)) /\ Len(m) \in Nat /\ IsTimeItem(m[k])
  BY DEF FromItems, UserItems
<1>3. k - 1 \in 0..(Len(m) - 1) /\ (k - 1) + 1 = k
  BY <1>2
<1>4. Left(t, Pl(k), Pl(k - 1), ItemText(m[k]))
  <2>1. \A n \in 0..(Len(m) - 1) : Left(t, Pl(n + 1), Pl(n), ItemText(m[n + 1]))
    BY <1>1, <1>2, ItemsStand
  <2> HIDE DEF m, Pl
  <2> QED
    BY <1>3, <2>1
<1>5. At(t, Pl(k)) \in {"%", "}", "]"}
  BY BehindItem, Zenon
<1> HIDE DEF Pl
<1> DEFINE r == Pl(k)
           p == Pl(k - 1)
           u == m[k]
<1>6. PICK c \in DOMAIN TimeLetters : \E n \in 1..MostLetters(c) :
           /\ u.item = TimeMeans(c, n) /\ IsBehindItem(u.split, c, n)
           /\ IsText(u.split)
           /\ ItemText(u) = <<"%">> \o [j \in 1..n |-> c] \o u.split
           /\ IsText([j \in 1..n |-> c])
           /\ IsText(<<"%">> \o [j \in 1..n |-> c])
           /\ ItemText(u)[1] = "%" /\ ItemText(u) # <<>>
  BY <1>2, ItemIsText, Zenon
<1>7. PICK n \in 1..MostLetters(c) :
           /\ u.item = TimeMeans(c, n) /\ IsBehindItem(u.split, c, n)
           /\ IsText(u.split)
           /\ ItemText(u) = <<"%">> \o [j \in 1..n |-> c] \o u.split
           /\ IsText([j \in 1..n |-> c])
           /\ IsText(<<"%">> \o [j \in 1..n |-> c])
           /\ ItemText(u)[1] = "%" /\ ItemText(u) # <<>>
  BY <1>6, Zenon
<1>8. n \in Nat /\ p \in Nat /\ p >= 1
  BY <1>4 DEF Left
<1> DEFINE l == <<"%">> \o [j \in 1..n |-> c]
           b == p + 1 + n
           x == u.split
<1>9. Len(l) = 1 + n
  <2> DEFINE a == <<"%">>
             z == [j \in 1..n |-> c]
  <2>1. Len(a) = 1 /\ IsText(a) /\ IsText(z)
    BY <1>7, TextOf, Zenon
  <2>2. Len(z) = n
    BY <1>8
  <2> HIDE DEF a, z
  <2>3. Len(a \o z) = Len(a) + Len(z)
    BY <2>1, JoinedCharacters
  <2>4. Len(a \o z) = 1 + n
    BY <1>8, <2>1, <2>2, <2>3
  <2> QED
    BY <2>4 DEF a, z
<1>10. At(t, p) = "%"
  BY <1>4, <1>7, LeftBegins, Zenon
<1>11. Left(t, r, p, l \o x)
  BY <1>4, <1>7, Zenon
<1>12. IsText(l) /\ IsText(x) /\ IsBehindItem(x, c, n)
  BY <1>7, Zenon
<1> HIDE DEF l, x, u, m, r, p
<1>13. Holds(t, p, l) /\ Left(t, r, b, x)
  <2>1. Left(t, p + Len(l), p, l) /\ Left(t, r, p + Len(l), x)
    BY <1>1, <1>11, <1>12, LeftBehind
  <2>2. p + Len(l) = b
    BY <1>8, <1>9
  <2> QED
    BY <2>1, <2>2 DEF Left
<1>14. n < MostLetters(c) => At(t, b) # c
  <2>1. CASE x # <<>>
    BY <1>12, <1>13, <2>1, LeftBegins, Zenon DEF IsBehindItem
  <2>2. CASE x = <<>>
    <3>1. Len(x) = 0
      BY <2>2
    <3>2. r = b
      BY <1>8, <1>13, <3>1 DEF Left
    <3>3. c \notin {"%", "}", "]"}
      BY LettersKnown, Zenon
    <3> QED
      BY <1>5, <3>2, <3>3, Zenon DEF r
  <2> QED
    BY <2>1, <2>2
<1>15. /\ lex_next_token(t, p, s) = Accept(ChronoUserdef[c][n], p, b)
       /\ ChronoUserdef[c][n] \in UserdefTokens
       /\ ChronoItemOf[ChronoUserdef[c][n]] = TimeMeans(c, n)
  <2>1. Holds(t, p, <<"%">> \o [j \in 1..n |-> c])
    BY <1>13 DEF l
  <2> QED
    BY <1>1, <1>8, <1>14, <2>1, ItemToken
<1>16. Separates(t, r, b, x)
  <2>1. \A i \in 1..Len(x) : x[i] \notin {":", "}"}
    <3>1. x \in Seq(STRING \ {":", "}"})
      BY <1>12, Zenon DEF IsBehindItem
    <3> DEFINE S == STRING \ {":", "}"}
    <3>3. x \in Seq(S)
      BY <3>1, Zenon
    <3> HIDE DEF S
    <3>2. \A i \in 1..Len(x) : x[i] \in S
      BY <3>3
    <3> QED
      BY <3>2, Zenon DEF S
  <2>2. x # <<>> => x[Len(x)] # "]"
    BY <1>12, Zenon DEF IsBehindItem
  <2>3. At(t, r) \in {"%", "}", "]"}
    BY <1>5, Zenon DEF r
  <2> QED
    BY <1>13, <2>1, <2>2, <2>3, Zenon DEF Separates
<1>17. \E pairs : Paired(x, pairs)
  <2>1. PICK pairs \in SUBSET (1..(Len(x) - 1)) :
       /\ \A i \in pairs : i + 1 \notin pairs
       /\ \A i \in 1..Len(x) : x[i] = "%" <=> i \in pairs \/ i - 1 \in pairs
    BY <1>12, Zenon DEF IsBehindItem
  <2>2. Paired(x, pairs)
    BY <2>1 DEF Paired
  <2> QED
    BY <2>2
<1>18. u.item = TimeMeans(c, n)
  BY <1>7
<1>19. b \in Nat
  BY <1>8
<1> HIDE DEF b
<1>20. \E pairs : /\ lex_next_token(t, p, s) = Accept(ChronoUserdef[c][n], p, b)
                  /\ ChronoItemOf[ChronoUserdef[c][n]] = u.item
                  /\ IsText(x)
                  /\ Separates(t, r, b, x)
                  /\ Paired(x, pairs)
                  /\ At(t, p) = "%"
  BY <1>10, <1>12, <1>15, <1>16, <1>17, <1>18
<1> QED
  BY <1>15, <1>19, <1>20 DEF p, r, x, u, m, Pl

\* The token of the predefined items.
LEMMA PredefStands ==
  ASSUME NEW f, FieldOfParts(f), NEW t, Clean(t), NEW e, NEW q, Left(t, e, q, FromItems(f)),
         NEW c \in {"f", "g"}, f.spec.items.text = <<"%", c>>, NEW s, "MatchChronoToken" \in s
  PROVE  /\ lex_next_token(t, q, s) = Accept(IF c = "g" THEN "ChronoPredef_g" ELSE "ChronoPredef_f", q, q + 2)
         /\ Left(t, e, q + 2, CloseText(f))
<1>1. Left(t, e, q, <<"%", c>> \o CloseText(f)) /\ t \in Seq(STRING)
  BY DEF FromItems, Clean
<1>2. IsText(<<"%", c>>) /\ Len(<<"%", c>>) = 2 /\ IsText(CloseText(f))
  BY ClosingTexts, Zenon DEF FieldOfParts, PartsAreTexts
<1> DEFINE l == <<"%", c>>
<1> HIDE DEF l
<1>3. Left(t, q + 2, q, l) /\ Left(t, e, q + 2, CloseText(f))
  <2>1. Left(t, q + Len(l), q, l) /\ Left(t, e, q + Len(l), CloseText(f))
    BY <1>1, <1>2, LeftBehind DEF l
  <2> QED
    BY <1>2, <2>1 DEF l
<1>4. Holds(t, q, <<"%", c>>) /\ q \in Nat /\ q >= 1
  BY <1>3 DEF Left, l
<1> QED
  BY <1>1, <1>3, <1>4, PredefToken

\* A numeral is the digit that it stands for.
LEMMA NumeralNamed == \A v \in 0..9 : Numerals[v + 1] \in Digit /\ DigitValue(Numerals[v + 1]) = v
BY DEF Numerals, Digit, DigitValue

\* A colon with a type behind it is one token.
TypeTokenOf(t, p, s, n, means) ==
  \E typ \in DOMAIN ArgTypeOf :
    /\ lex_next_token(t, p, s) = Accept(typ, p, p + n)
    /\ ArgTypeOf[typ] = means.type
    /\ means.prop = IF typ \in QuatTokens THEN parse_arg_get_fixed_props(CharactersAt(t, p, n)) ELSE 0

\* The first four characters of a text in their place.
LEMMA CharactersHeld ==
  ASSUME NEW t, NEW p \in Nat, NEW x, Holds(t, p, x), Len(x) \in Nat
  PROVE  /\ Len(x) >= 1 => At(t, p) = x[1]
         /\ Len(x) >= 2 => At(t, p + 1) = x[2]
         /\ Len(x) >= 3 => At(t, p + 2) = x[3]
         /\ Len(x) >= 4 => At(t, p + 3) = x[4]
<1>1. \A i \in 1..Len(x) : At(t, p + i - 1) = x[i]
  BY DEF Holds
<1>2. p + 1 - 1 = p /\ p + 2 - 1 = p + 1 /\ p + 3 - 1 = p + 2 /\ p + 4 - 1 = p + 3
  OBVIOUS
<1>3. /\ Len(x) >= 1 => At(t, p + 1 - 1) = x[1]
      /\ Len(x) >= 2 => At(t, p + 2 - 1) = x[2]
      /\ Len(x) >= 3 => At(t, p + 3 - 1) = x[3]
      /\ Len(x) >= 4 => At(t, p + 4 - 1) = x[4]
  BY <1>1
<1> QED
  BY <1>2, <1>3

\* The types without digits of their own, and those with one or two.
LEMMA PlainTypeToken ==
  ASSUME NEW t \in Seq(STRING), NEW p \in Nat, p >= 1, NEW s, At(t, p) = ":",
         NEW u \in PlainTypes, Holds(t, p + 1, u.text)
  PROVE  TypeTokenOf(t, p, s, 1 + Len(u.text), TypeMeans(u.means, 0))
<1> DEFINE x == u.text
           q == p + 1
<1>1. lex_next_token(t, p, s) = colon(t, p)
  BY LexedAs, Zenon
<1>2. q \in Nat /\ q + 1 = p + 2 /\ q + 2 = p + 3
  OBVIOUS
<1>3. Len(x) \in {1, 2, 3}
  BY DEF PlainTypes, Part
<1> HIDE DEF x, q
<1>4. /\ Len(x) >= 1 => At(t, q) = x[1]
      /\ Len(x) >= 2 => At(t, q + 1) = x[2]
      /\ Len(x) >= 3 => At(t, q + 2) = x[3]
  <2>1. Len(x) \in Nat
    BY <1>3
  <2>2. Holds(t, q, x)
    BY DEF x, q
  <2> QED
    BY <1>2, <2>1, <2>2, CharactersHeld
<1> DEFINE Is(typ, n) == /\ colon(t, p) = Accept(typ, p, p + n)
                         /\ n = 1 + Len(x) /\ ArgTypeOf[typ] = u.means /\ typ \in DOMAIN ArgTypeOf \ QuatTokens
<1>5. /\ u = Part(<<"i", "8">>, "Int8") => Is("Type_Int8", 3)
      /\ u = Part(<<"i", "1", "6">>, "Int16") => Is("Type_Int16", 4)
      /\ u = Part(<<"i", "3", "2">>, "Int32") => Is("Type_Int32", 4)
  <2>1. u = Part(<<"i", "8">>, "Int8") => Is("Type_Int8", 3)
    BY <1>2, <1>3, <1>4 DEF colon, type_ix, ArgTypeOf, QuatTokens, Part, x, q
  <2>2. u = Part(<<"i", "1", "6">>, "Int16") => Is("Type_Int16", 4)
    BY <1>2, <1>3, <1>4 DEF colon, type_ix, ArgTypeOf, QuatTokens, Part, x, q
  <2>3. u = Part(<<"i", "3", "2">>, "Int32") => Is("Type_Int32", 4)
    BY <1>2, <1>3, <1>4 DEF colon, type_ix, ArgTypeOf, QuatTokens, Part, x, q
  <2> QED
    BY <2>1, <2>2, <2>3
<1>6. /\ u = Part(<<"u", "8">>, "Uint8") => Is("Type_Uint8", 3)
      /\ u = Part(<<"u", "1", "6">>, "Uint16") => Is("Type_Uint16", 4)
      /\ u = Part(<<"u", "3", "2">>, "Uint32") => Is("Type_Uint32", 4)
  <2>1. u = Part(<<"u", "8">>, "Uint8") => Is("Type_Uint8", 3)
    BY <1>2, <1>3, <1>4 DEF colon, type_ix, ArgTypeOf, QuatTokens, Part, x, q
  <2>2. u = Part(<<"u", "1", "6">>, "Uint16") => Is("Type_Uint16", 4)
    BY <1>2, <1>3, <1>4 DEF colon, type_ix, ArgTypeOf, QuatTokens, Part, x, q
  <2>3. u = Part(<<"u", "3", "2">>, "Uint32") => Is("Type_Uint32", 4)
    BY <1>2, <1>3, <1>4 DEF colon, type_ix, ArgTypeOf, QuatTokens, Part, x, q
  <2> QED
    BY <2>1, <2>2, <2>3
<1>7. /\ u = Part(<<"s">>, "CString") => Is("Type_CString", 2)
      /\ u = Part(<<"t">>, "Time") => Is("Type_SysTime", 2)
  <2>1. u = Part(<<"s">>, "CString") => Is("Type_CString", 2)
    BY <1>2, <1>3, <1>4 DEF colon, ArgTypeOf, QuatTokens, Part, x, q
  <2>2. u = Part(<<"t">>, "Time") => Is("Type_SysTime", 2)
    BY <1>2, <1>3, <1>4 DEF colon, ArgTypeOf, QuatTokens, Part, x, q
  <2> QED
    BY <2>1, <2>2
<1>8. \E typ, n : Is(typ, n)
  BY <1>5, <1>6, <1>7 DEF PlainTypes
<1> QED
  BY <1>1, <1>8 DEF TypeTokenOf, TypeMeans, x

\* What stands behind the digits of a quantized type may be its u.
LEMMA QuantTypeToken ==
  ASSUME NEW t \in Seq(STRING), NEW p \in Nat, p >= 1, NEW s, At(t, p) = ":", At(t, p + 1) = "q",
         NEW d, IsText(d), d # <<>>, \A i \in 1..Len(d) : d[i] \in Digit, Holds(t, p + 2, d),
         At(t, p + 2 + Len(d)) \notin Digit
  PROVE  lex_next_token(t, p, s) =
           IF At(t, p + 2 + Len(d)) = "u" THEN Accept("Type_UQuant", p, p + 3 + Len(d))
                                          ELSE Accept("Type_IQuant", p, p + 2 + Len(d))
<1>1. lex_next_token(t, p, s) = colon(t, p)
  BY LexedAs, Zenon
<1>2. colon(t, p) = type_quat(t, p)
  BY DEF colon
<1> DEFINE q == p + 2
           n == Len(d)
<1>3. q \in Nat /\ q >= 1 /\ n \in Nat /\ q + n + 1 = p + 3 + n
  BY JoinedCharacters
<1> HIDE DEF q, n
<1>4. DigitsEnd(t, q) = q + n /\ At(t, q) \in Digit
  BY <1>3, DigitsStand DEF q, n
<1>5. type_quat(t, p) = Unsigned(t, p, q + n, "Type_IQuant", "Type_UQuant")
  BY <1>4 DEF type_quat, q
<1> QED
  BY <1>1, <1>2, <1>3, <1>5 DEF Unsigned, q, n

LEMMA QuantTypeTokens ==
  ASSUME NEW t \in Seq(STRING), NEW p \in Nat, p >= 1, NEW s, At(t, p) = ":", NEW a \in 0..9, NEW b \in 0..9
  PROVE  LET A == Numerals[a + 1]
             B == Numerals[b + 1]
             Ends(n) == At(t, p + n) \notin Digit \cup {"u"}
         IN  /\ Holds(t, p + 1, <<"q", A>>) /\ Ends(3)
                => TypeTokenOf(t, p, s, 3, TypeMeans("QuantizedValue", a))
             /\ Holds(t, p + 1, <<"q", A, "u">>) /\ Ends(4)
                => TypeTokenOf(t, p, s, 4, TypeMeans("QuantizedUnsignedValue", a))
             /\ Holds(t, p + 1, <<"q", A, B>>) /\ Ends(4)
                => TypeTokenOf(t, p, s, 4, TypeMeans("QuantizedValue", (10 * a) + b))
             /\ Holds(t, p + 1, <<"q", A, B, "u">>) /\ Ends(5)
                => TypeTokenOf(t, p, s, 5, TypeMeans("QuantizedUnsignedValue", (10 * a) + b))
<1> DEFINE A == Numerals[a + 1]
           B == Numerals[b + 1]
           Ends(n) == At(t, p + n) \notin Digit \cup {"u"}
           One == <<A>>
           Two == <<A, B>>
<1>1. A \in Digit /\ DigitValue(A) = a /\ B \in Digit /\ DigitValue(B) = b
  BY NumeralNamed
<1>2. "u" \notin Digit
  BY DEF Digit
<1>3. /\ IsText(One) /\ One # <<>> /\ Len(One) = 1 /\ \A i \in 1..Len(One) : One[i] \in Digit
      /\ IsText(Two) /\ Two # <<>> /\ Len(Two) = 2 /\ \A i \in 1..Len(Two) : Two[i] \in Digit
  <2> HIDE DEF A, B
  <2>1. IsText(One) /\ IsText(Two)
    BY TextOf
  <2> QED
    BY <1>1, <2>1
<1>4. Ends(3) => At(t, p + 3) # "u" /\ At(t, p + 3) \notin Digit
  OBVIOUS
<1>5. Ends(4) => At(t, p + 4) # "u" /\ At(t, p + 4) \notin Digit
  OBVIOUS
<1>6. Ends(5) => At(t, p + 5) # "u" /\ At(t, p + 5) \notin Digit
  OBVIOUS
<1> DEFINE C(n) == CharactersAt(t, p, n)
<1>7. /\ Len(C(3)) = 3 /\ C(3)[3] = At(t, p + 2)
      /\ Len(C(4)) = 4 /\ C(4)[3] = At(t, p + 2) /\ C(4)[4] = At(t, p + 3)
      /\ Len(C(5)) = 5 /\ C(5)[3] = At(t, p + 2) /\ C(5)[4] = At(t, p + 3)
  <2>1. p + 3 - 1 = p + 2 /\ p + 4 - 1 = p + 3
    OBVIOUS
  <2> QED
    BY <2>1 DEF CharactersAt
<1>8. "Type_IQuant" \in QuatTokens \cap DOMAIN ArgTypeOf /\ "Type_UQuant" \in QuatTokens \cap DOMAIN ArgTypeOf
      /\ ArgTypeOf["Type_IQuant"] = "QuantizedValue" /\ ArgTypeOf["Type_UQuant"] = "QuantizedUnsignedValue"
  BY DEF QuatTokens, ArgTypeOf
<1> DEFINE q == p + 1
<1>9. q \in Nat /\ q + 1 = p + 2 /\ q + 2 = p + 3 /\ q + 3 = p + 4
  OBVIOUS
<1> HIDE DEF A, B, Ends, One, Two, C, q
<1>10. /\ At(t, p + 2) = A => Holds(t, p + 2, One)
       /\ At(t, p + 2) = A /\ At(t, p + 3) = B => Holds(t, p + 2, Two)
  <2> DEFINE r == p + 2
  <2>1. r \in Nat /\ r + 1 = p + 3
    OBVIOUS
  <2> HIDE DEF r
  <2>2. /\ At(t, r) = A => Holds(t, r, One)
        /\ At(t, r) = A /\ At(t, r + 1) = B => Holds(t, r, Two)
    BY <2>1, HoldsOne, HoldsTwo DEF One, Two
  <2> QED
    BY <2>1, <2>2 DEF r
<1>11. ASSUME At(t, p + 1) = "q", At(t, p + 2) = A, Ends(3)
       PROVE  TypeTokenOf(t, p, s, 3, TypeMeans("QuantizedValue", a))
  <2>1. p + 2 + Len(One) = p + 3
    BY <1>3
  <2>2. lex_next_token(t, p, s) = Accept("Type_IQuant", p, p + 3)
    BY <1>3, <1>4, <1>10, <1>11, <2>1, QuantTypeToken
  <2>3. parse_arg_get_fixed_props(C(3)) = a
    BY <1>1, <1>7, <1>11 DEF parse_arg_get_fixed_props
  <2> QED
    BY <1>8, <2>2, <2>3 DEF TypeTokenOf, TypeMeans, C
<1>12. ASSUME At(t, p + 1) = "q", At(t, p + 2) = A, At(t, p + 3) = "u"
       PROVE  TypeTokenOf(t, p, s, 4, TypeMeans("QuantizedUnsignedValue", a))
  <2>1. p + 2 + Len(One) = p + 3 /\ p + 3 + Len(One) = p + 4
    BY <1>3
  <2>2. lex_next_token(t, p, s) = Accept("Type_UQuant", p, p + 4)
    BY <1>2, <1>3, <1>10, <1>12, <2>1, QuantTypeToken
  <2>3. parse_arg_get_fixed_props(C(4)) = a
    BY <1>1, <1>2, <1>7, <1>12 DEF parse_arg_get_fixed_props
  <2> QED
    BY <1>8, <2>2, <2>3 DEF TypeTokenOf, TypeMeans, C
<1>13. ASSUME At(t, p + 1) = "q", At(t, p + 2) = A, At(t, p + 3) = B, Ends(4)
       PROVE  TypeTokenOf(t, p, s, 4, TypeMeans("QuantizedValue", (10 * a) + b))
  <2>1. p + 2 + Len(Two) = p + 4
    BY <1>3
  <2>5. Holds(t, p + 2, Two) /\ At(t, p + 4) # "u" /\ At(t, p + 4) \notin Digit
    BY <1>5, <1>10, <1>13
  <2>2. lex_next_token(t, p, s) = Accept("Type_IQuant", p, p + 4)
    <3>1. lex_next_token(t, p, s) =
           IF At(t, p + 2 + Len(Two)) = "u" THEN Accept("Type_UQuant", p, p + 3 + Len(Two))
                                            ELSE Accept("Type_IQuant", p, p + 2 + Len(Two))
      BY <1>3, <1>13, <2>1, <2>5, QuantTypeToken
    <3> QED
      BY <2>1, <2>5, <3>1
  <2>3. parse_arg_get_fixed_props(C(4)) = (a * 10) + b
    BY <1>1, <1>7, <1>13 DEF parse_arg_get_fixed_props
  <2>4. (a * 10) + b = (10 * a) + b
    OBVIOUS
  <2> QED
    BY <1>8, <2>2, <2>3, <2>4 DEF TypeTokenOf, TypeMeans, C
<1>14. ASSUME At(t, p + 1) = "q", At(t, p + 2) = A, At(t, p + 3) = B, At(t, p + 4) = "u"
       PROVE  TypeTokenOf(t, p, s, 5, TypeMeans("QuantizedUnsignedValue", (10 * a) + b))
  <2>1. p + 2 + Len(Two) = p + 4 /\ p + 3 + Len(Two) = p + 5
    BY <1>3
  <2>2. lex_next_token(t, p, s) = Accept("Type_UQuant", p, p + 5)
    BY <1>2, <1>3, <1>10, <1>14, <2>1, QuantTypeToken
  <2>3. parse_arg_get_fixed_props(C(5)) = (a * 10) + b
    BY <1>1, <1>7, <1>14 DEF parse_arg_get_fixed_props
  <2>4. (a * 10) + b = (10 * a) + b
    OBVIOUS
  <2> QED
    BY <1>8, <2>2, <2>3, <2>4 DEF TypeTokenOf, TypeMeans, C
<1>15. /\ Holds(t, p + 1, <<"q", A>>) => At(t, p + 1) = "q" /\ At(t, p + 2) = A
       /\ Holds(t, p + 1, <<"q", A, "u">>) => At(t, p + 1) = "q" /\ At(t, p + 2) = A /\ At(t, p + 3) = "u"
       /\ Holds(t, p + 1, <<"q", A, B>>) => At(t, p + 1) = "q" /\ At(t, p + 2) = A /\ At(t, p + 3) = B
       /\ Holds(t, p + 1, <<"q", A, B, "u">>)
            => At(t, p + 1) = "q" /\ At(t, p + 2) = A /\ At(t, p + 3) = B /\ At(t, p + 4) = "u"
  <2>1. \A x, y : Len(<<x, y>>) = 2 /\ <<x, y>>[1] = x /\ <<x, y>>[2] = y
    OBVIOUS
  <2>2. \A x, y, z : Len(<<x, y, z>>) = 3 /\ <<x, y, z>>[1] = x /\ <<x, y, z>>[2] = y /\ <<x, y, z>>[3] = z
    OBVIOUS
  <2>3. \A x, y, z, u : /\ Len(<<x, y, z, u>>) = 4 /\ <<x, y, z, u>>[1] = x /\ <<x, y, z, u>>[2] = y
                        /\ <<x, y, z, u>>[3] = z /\ <<x, y, z, u>>[4] = u
    OBVIOUS
  <2>4. ASSUME NEW x, NEW y, Holds(t, p + 1, <<x, y>>)
        PROVE  At(t, p + 1) = x /\ At(t, p + 2) = y
    <3> DEFINE c == <<x, y>>
    <3>1. Len(c) = 2 /\ c[1] = x /\ c[2] = y /\ Holds(t, q, c)
      BY <2>4, <2>1 DEF q
    <3> HIDE DEF c
    <3>3. Len(c) \in Nat /\ Len(c) >= 1 /\ Len(c) >= 2
      BY <3>1
    <3>2. At(t, q) = c[1] /\ At(t, q + 1) = c[2]
      BY <1>9, <3>1, <3>3, CharactersHeld
    <3> QED
      BY <1>9, <3>1, <3>2 DEF q
  <2>5. ASSUME NEW x, NEW y, NEW z, Holds(t, p + 1, <<x, y, z>>)
        PROVE  At(t, p + 1) = x /\ At(t, p + 2) = y /\ At(t, p + 3) = z
    <3> DEFINE c == <<x, y, z>>
    <3>1. Len(c) = 3 /\ c[1] = x /\ c[2] = y /\ c[3] = z /\ Holds(t, q, c)
      BY <2>5, <2>2 DEF q
    <3> HIDE DEF c
    <3>3. Len(c) \in Nat /\ Len(c) >= 1 /\ Len(c) >= 2 /\ Len(c) >= 3
      BY <3>1
    <3>2. At(t, q) = c[1] /\ At(t, q + 1) = c[2] /\ At(t, q + 2) = c[3]
      BY <1>9, <3>1, <3>3, CharactersHeld
    <3> QED
      BY <1>9, <3>1, <3>2 DEF q
  <2>6. ASSUME NEW x, NEW y, NEW z, NEW u, Holds(t, p + 1, <<x, y, z, u>>)
        PROVE  At(t, p + 1) = x /\ At(t, p + 2) = y /\ At(t, p + 3) = z /\ At(t, p + 4) = u
    <3> DEFINE c == <<x, y, z, u>>
    <3>1. Len(c) = 4 /\ c[1] = x /\ c[2] = y /\ c[3] = z /\ c[4] = u /\ Holds(t, q, c)
      BY <2>6, <2>3 DEF q
    <3> HIDE DEF c
    <3>3. Len(c) \in Nat /\ Len(c) >= 1 /\ Len(c) >= 2 /\ Len(c) >= 3 /\ Len(c) >= 4
      BY <3>1
    <3>2. At(t, q) = c[1] /\ At(t, q + 1) = c[2] /\ At(t, q + 2) = c[3] /\ At(t, q + 3) = c[4]
      BY <1>9, <3>1, <3>3, CharactersHeld
    <3> QED
      BY <1>9, <3>1, <3>2 DEF q
  <2> QED
    BY <2>4, <2>5, <2>6, Zenon
<1> QED
  BY <1>11, <1>12, <1>13, <1>14, <1>15 DEF A, B, Ends

\* The token of the type, whichever it is.
LEMMA TypeToken ==
  ASSUME NEW f, FieldOfParts(f), NEW t, Clean(t), NEW e, NEW p, Left(t, e, p, FromType(f)), NEW s
  PROVE  /\ TypeTokenOf(t, p, s, 1 + Len(f.type.text), f.type.means)
         /\ Left(t, e, p + (1 + Len(f.type.text)), FromSplit(f))
<1> DEFINE x == f.type.text
           n == 1 + Len(x)
           g == FromSplit(f)
<1>1. /\ IsText(x) /\ TypeCases(f.type) /\ t \in Seq(STRING)
      /\ IsText(g) /\ g # <<>>
      /\ Left(t, e, p, (<<":">> \o x) \o g)
      /\ g[1] \in {"|", ":", "}", "]"}
  BY TypesNamed, LeftTexts, HeadsOfParts, Zenon DEF FieldOfParts, FromHeads, FromType, Clean
<1> HIDE DEF x, g
<1>2. IsText(<<":">>) /\ Len(<<":">>) = 1 /\ Len(x) \in Nat
  BY <1>1, TextOf, JoinedCharacters, Zenon
<1>3. IsText(<<":">> \o x) /\ Len(<<":">> \o x) = n
  <2>1. IsText(<<":">> \o x) /\ Len(<<":">> \o x) = Len(<<":">>) + Len(x)
    BY <1>1, <1>2, JoinedCharacters, Zenon
  <2> QED
    BY <1>2, <2>1
<1>4. Left(t, p + n, p, <<":">> \o x) /\ Left(t, e, p + n, g)
  BY <1>1, <1>3, LeftBehind, Zenon
<1>5. At(t, p) = ":" /\ Left(t, p + n, p + 1, x) /\ p \in Nat /\ p >= 1
  BY <1>1, <1>4, OneBehind, Zenon
<1>6. At(t, p + n) \notin Digit \cup {"u"}
  BY <1>1, <1>4, LeftBegins, Zenon DEF Digit
<1>7. Holds(t, p + 1, x)
  BY <1>5 DEF Left
<1>8. TypeTokenOf(t, p, s, n, f.type.means)
  <2>1. ASSUME NEW u \in PlainTypes, f.type = Part(u.text, TypeMeans(u.means, 0))
        PROVE  TypeTokenOf(t, p, s, n, f.type.means)
    <3>1. x = u.text /\ f.type.means = TypeMeans(u.means, 0)
      BY <2>1 DEF Part, x
    <3> QED
      BY <1>1, <1>5, <1>7, <3>1, PlainTypeToken, Zenon
  <2>2. ASSUME NEW a \in 0..9, f.type = Part(<<"q", Numerals[a + 1]>>, TypeMeans("QuantizedValue", a))
        PROVE  TypeTokenOf(t, p, s, n, f.type.means)
    <3>1. x = <<"q", Numerals[a + 1]>> /\ f.type.means = TypeMeans("QuantizedValue", a)
      BY <2>2 DEF Part, x
    <3>2. n = 3
      BY <3>1
    <3> QED
      BY <1>1, <1>5, <1>6, <1>7, <3>1, <3>2, QuantTypeTokens, Zenon
  <2>3. ASSUME NEW a \in 0..9, f.type = Part(<<"q", Numerals[a + 1], "u">>, TypeMeans("QuantizedUnsignedValue", a))
        PROVE  TypeTokenOf(t, p, s, n, f.type.means)
    <3>1. x = <<"q", Numerals[a + 1], "u">> /\ f.type.means = TypeMeans("QuantizedUnsignedValue", a)
      BY <2>3 DEF Part, x
    <3>2. n = 4
      BY <3>1
    <3> QED
      BY <1>1, <1>5, <1>6, <1>7, <3>1, <3>2, QuantTypeTokens, Zenon
  <2>4. ASSUME NEW a \in 0..9, NEW b \in 0..9,
               f.type = Part(<<"q", Numerals[a + 1], Numerals[b + 1]>>, TypeMeans("QuantizedValue", (10 * a) + b))
        PROVE  TypeTokenOf(t, p, s, n, f.type.means)
    <3>1. x = <<"q", Numerals[a + 1], Numerals[b + 1]>> /\ f.type.means = TypeMeans("QuantizedValue", (10 * a) + b)
      BY <2>4 DEF Part, x
    <3>2. n = 4
      BY <3>1
    <3> QED
      BY <1>1, <1>5, <1>6, <1>7, <3>1, <3>2, QuantTypeTokens, Zenon
  <2>5. ASSUME NEW a \in 0..9, NEW b \in 0..9,
               f.type = Part(<<"q", Numerals[a + 1], Numerals[b + 1], "u">>,
                             TypeMeans("QuantizedUnsignedValue", (10 * a) + b))
        PROVE  TypeTokenOf(t, p, s, n, f.type.means)
    <3>1. /\ x = <<"q", Numerals[a + 1], Numerals[b + 1], "u">>
          /\ f.type.means = TypeMeans("QuantizedUnsignedValue", (10 * a) + b)
      BY <2>5 DEF Part, x
    <3>2. n = 5
      BY <3>1
    <3> QED
      BY <1>1, <1>5, <1>6, <1>7, <3>1, <3>2, QuantTypeTokens, Zenon
  <2> QED
    BY <1>1, <2>1, <2>2, <2>3, <2>4, <2>5, Zenon DEF TypeCases
<1> QED
  BY <1>4, <1>8 DEF x, g

\* Texts may be joined in any order.
LEMMA Reassociated ==
  ASSUME NEW x, NEW y, NEW z, NEW xy, NEW yz, IsText(x), IsText(y), IsText(z), xy = x \o y, yz = y \o z
  PROVE  xy \o z = x \o yz
BY JoinedThrice

\* The text of a field is what is left of it at its beginning.
LEMMA FieldIsOpened ==
  ASSUME NEW f, PartsAreTexts(f), f.class \in {"Value", "Array"}
  PROVE  FieldText(f) = FromOpen(f)
<1> DEFINE fill   == f.spec.fill.text
           align  == f.spec.align.text
           sgn   == f.spec.sign.text
           width  == f.spec.width.text
           form    == f.spec.fmt.text
           items  == f.spec.items.text
           id     == f.id.text
           type   == f.type.text
           split  == f.split.text
           open   == OpenText(f)
           close  == CloseText(f)
           c      == <<":">>
           whole    == SpecText(f.spec)
           spec   == IF whole = <<>> THEN <<>> ELSE c \o whole
           core   == id \o c \o type \o split \o spec
<1>1. /\ IsText(fill) /\ IsText(align) /\ IsText(sgn) /\ IsText(width) /\ IsText(form) /\ IsText(items)
      /\ IsText(id) /\ IsText(type) /\ IsText(split) /\ IsText(open) /\ IsText(close) /\ IsText(c)
  BY ClosingTexts, TextOf, Zenon DEF PartsAreTexts
<1>2. FieldText(f) = open \o core \o close
  BY Zenon DEF FieldText, OpenText, CloseText
<1>3. whole = fill \o align \o sgn \o width \o form \o items
  BY DEF SpecText
<1>4. FromFill(f) = fill \o (align \o (sgn \o (width \o (form \o (items \o close)))))
  BY DEF FromFill, FromAlign, FromSign, FromWidth, FromFormat, FromItems
<1>5. FromOpen(f) = open \o (id \o ((c \o type) \o (split \o FromSpec(f))))
  BY DEF FromOpen, FromId, FromType, FromSplit
<1>6. FromSpec(f) = IF whole = <<>> THEN close ELSE c \o FromFill(f)
  BY DEF FromSpec
<1> HIDE DEF fill, align, sgn, width, form, items, id, type, split, open, close, c, whole
<1>7. /\ IsText(fill \o align) /\ IsText((fill \o align) \o sgn) /\ IsText(((fill \o align) \o sgn) \o width)
      /\ IsText((((fill \o align) \o sgn) \o width) \o form) /\ IsText(whole)
      /\ IsText(items \o close) /\ IsText(form \o (items \o close)) /\ IsText(width \o (form \o (items \o close)))
      /\ IsText(sgn \o (width \o (form \o (items \o close))))
  BY <1>1, <1>3, TextsJoined, Zenon
<1>8. whole \o close = FromFill(f)
  <2> DEFINE a == fill \o align
             b == a \o sgn
             d == b \o width
             g == d \o form
             z == items \o close
             y == form \o z
             x == width \o y
             w == sgn \o x
  <2>1. /\ IsText(a) /\ IsText(b) /\ IsText(d) /\ IsText(g) /\ IsText(z) /\ IsText(y) /\ IsText(x) /\ IsText(w)
        /\ a = fill \o align /\ b = a \o sgn /\ d = b \o width /\ g = d \o form
        /\ z = items \o close /\ y = form \o z /\ x = width \o y /\ w = sgn \o x
        /\ whole = g \o items /\ FromFill(f) = fill \o (align \o w)
    BY <1>3, <1>4, <1>7
  <2> HIDE DEF a, b, d, g, z, y, x, w
  <2>2. whole \o close = g \o z
    <3>1. IsText(g) /\ IsText(items) /\ IsText(close) /\ whole = g \o items /\ z = items \o close
      BY <1>1, <2>1
    <3> QED
      BY <3>1, Reassociated
  <2>3. g \o z = d \o y
    <3>1. IsText(d) /\ IsText(form) /\ IsText(z) /\ g = d \o form /\ y = form \o z
      BY <1>1, <2>1
    <3> QED
      BY <3>1, Reassociated
  <2>4. d \o y = b \o x
    <3>1. IsText(b) /\ IsText(width) /\ IsText(y) /\ d = b \o width /\ x = width \o y
      BY <1>1, <2>1
    <3> QED
      BY <3>1, Reassociated
  <2>5. b \o x = a \o w
    <3>1. IsText(a) /\ IsText(sgn) /\ IsText(x) /\ b = a \o sgn /\ w = sgn \o x
      BY <1>1, <2>1
    <3> QED
      BY <3>1, Reassociated
  <2>6. a \o w = fill \o (align \o w)
    <3>1. IsText(fill) /\ IsText(align) /\ IsText(w) /\ a = fill \o align
      BY <1>1, <2>1
    <3> QED
      BY <3>1, Reassociated
  <2> QED
    BY <2>1, <2>2, <2>3, <2>4, <2>5, <2>6
<1>9. spec \o close = FromSpec(f) /\ IsText(spec)
  <2>1. CASE whole = <<>>
    BY <1>1, <1>6, <2>1, JoinedCharacters, TextOf
  <2>2. CASE whole # <<>>
    <3>1. IsText(c \o whole)
      BY <1>1, <1>7, TextsJoined
    <3>2. (c \o whole) \o close = c \o (whole \o close)
      BY <1>1, <1>7, Reassociated
    <3> QED
      BY <1>6, <1>8, <2>2, <3>1, <3>2
  <2> QED
    BY <2>1, <2>2
<1> HIDE DEF spec
<1>10. core \o close = id \o ((c \o type) \o (split \o FromSpec(f))) /\ IsText(core)
  <2> DEFINE a == id \o c
             b == a \o type
             d == b \o split
             g == c \o type
             h == split \o FromSpec(f)
  <2>1. IsText(a) /\ IsText(b) /\ IsText(d) /\ IsText(g) /\ IsText(core) /\ IsText(FromSpec(f)) /\ IsText(h)
    <3>1. IsText(a) /\ IsText(g) /\ IsText(FromSpec(f))
      BY <1>1, <1>9, TextsJoined, LeftTexts
    <3>2. IsText(b) /\ IsText(h)
      BY <1>1, <3>1, TextsJoined
    <3>3. IsText(d)
      BY <1>1, <3>2, TextsJoined
    <3>4. IsText(core)
      BY <1>9, <3>3, TextsJoined
    <3> QED
      BY <3>1, <3>2, <3>3, <3>4
  <2>2. core = d \o spec /\ d = b \o split /\ b = a \o type /\ a = id \o c /\ g = c \o type
        /\ h = split \o FromSpec(f)
    OBVIOUS
  <2> HIDE DEF a, b, d, g, h, core
  <2>3. core \o close = d \o FromSpec(f)
    <3>1. IsText(d) /\ IsText(spec) /\ IsText(close) /\ core = d \o spec /\ FromSpec(f) = spec \o close
      BY <1>1, <1>9, <2>1, <2>2
    <3> QED
      BY <3>1, Reassociated
  <2>4. d \o FromSpec(f) = b \o h
    <3>1. IsText(b) /\ IsText(split) /\ IsText(FromSpec(f)) /\ d = b \o split /\ h = split \o FromSpec(f)
      BY <1>1, <2>1, <2>2
    <3> QED
      BY <3>1, Reassociated
  <2>5. b = id \o g
    <3>1. IsText(id) /\ IsText(c) /\ IsText(type) /\ b = a \o type /\ a = id \o c /\ g = c \o type
      BY <1>1, <2>1, <2>2
    <3> QED
      BY <3>1, Reassociated
  <2>6. (id \o g) \o h = id \o (g \o h)
    BY <1>1, <2>1, Reassociated
  <2> QED
    BY <2>1, <2>2, <2>3, <2>4, <2>5, <2>6
<1> HIDE DEF core
<1>11. (open \o core) \o close = open \o (core \o close)
  <2>1. IsText(open) /\ IsText(core) /\ IsText(close)
    BY <1>1, <1>10
  <2> QED
    BY <2>1, Reassociated
<1> QED
  BY <1>2, <1>5, <1>10, <1>11

--------------------------------------------------------------------------------
(* The tokens that are met, part by part.                                      *)

\* The tokens of a time are none of the others.
LEMMA TimeTokensApart ==
  /\ ChronoTokens \cap (NoToken \cup AlignTokens) = {}
  /\ ChronoTokens \cap {"Colon", "Digits", "LeftBrace", "LeftBraceBracket", "LeftBraceBrace", "OtherChar",
                       "RightBrace", "RightBracketBrace", "EOF"} = {}
  /\ PredefTokens \cap UserdefTokens = {}
<1>1. ASSUME NEW c \in DOMAIN ChronoUserdef, NEW n \in 1..Len(ChronoUserdef[c])
      PROVE  ChronoUserdef[c][n] \notin NoToken \cup AlignTokens \cup PredefTokens
                \cup {"Colon", "Digits", "LeftBrace", "LeftBraceBracket", "LeftBraceBrace", "OtherChar", "RightBrace",
                       "RightBracketBrace", "EOF"}
  <2>1. c \in {"y", "M", "d", "h", "H", "m", "s", "x", "w"}
    BY DEF ChronoUserdef
  <2>2. CASE c = "y"
    BY <2>2 DEF ChronoUserdef, NoToken, AlignTokens, PredefTokens
  <2>3. CASE c = "M"
    BY <2>3 DEF ChronoUserdef, NoToken, AlignTokens, PredefTokens
  <2>4. CASE c = "d"
    BY <2>4 DEF ChronoUserdef, NoToken, AlignTokens, PredefTokens
  <2>5. CASE c = "h"
    BY <2>5 DEF ChronoUserdef, NoToken, AlignTokens, PredefTokens
  <2>6. CASE c = "H"
    BY <2>6 DEF ChronoUserdef, NoToken, AlignTokens, PredefTokens
  <2>7. CASE c = "m"
    BY <2>7 DEF ChronoUserdef, NoToken, AlignTokens, PredefTokens
  <2>8. CASE c = "s"
    BY <2>8 DEF ChronoUserdef, NoToken, AlignTokens, PredefTokens
  <2>9. CASE c = "x"
    BY <2>9 DEF ChronoUserdef, NoToken, AlignTokens, PredefTokens
  <2>10. CASE c = "w"
    BY <2>10 DEF ChronoUserdef, NoToken, AlignTokens, PredefTokens
  <2> QED
    BY <2>1, <2>2, <2>3, <2>4, <2>5, <2>6, <2>7, <2>8, <2>9, <2>10
<1>2. UserdefTokens \cap (NoToken \cup AlignTokens \cup PredefTokens
         \cup {"Colon", "Digits", "LeftBrace", "LeftBraceBracket", "LeftBraceBrace", "OtherChar", "RightBrace",
                       "RightBracketBrace", "EOF"}) = {}
  BY <1>1 DEF UserdefTokens
<1> QED
  BY <1>2 DEF NoToken, AlignTokens, PredefTokens, ChronoTokens

\* A token is of the type it was accepted as.
LEMMA AcceptedType == \A typ, b, e : Accept(typ, b, e).type = typ /\ Accept(typ, b, e).beg = b
                                     /\ Accept(typ, b, e).len = e - b
BY DEF Accept

\* What the items, or the end of the field, begin with.
LEMMA ItemsHead ==
  ASSUME NEW f, FieldOfParts(f), NEW t, Clean(t), NEW e, NEW p, Left(t, e, p, FromItems(f)),
         NEW s, LateStage(f, s)
  PROVE  LET k == lex_next_token(t, p, s)
         IN  /\ f.spec.items.text = <<>> => k = Accept(CloseType(f), p, e) /\ Left(t, e, p, CloseText(f))
             /\ f.spec.items.text # <<>> => k.type \in ChronoTokens
<1>1. t \in Seq(STRING) /\ f.class \in {"Value", "Array"} /\ StageOf(f.class, s) /\ "MatchChronoToken" \in s
  BY DEF Clean, FieldOfParts, LateStage
<1>2. f.spec.items.text = <<>> => Left(t, e, p, CloseText(f))
  BY HeadsOfParts, Zenon DEF FromHeads
<1>3. f.spec.items.text = <<>> => lex_next_token(t, p, s) = Accept(CloseType(f), p, e)
  BY <1>1, <1>2, CloseToken
<1>4. ASSUME NEW c \in {"f", "g"}, f.spec.items.text = <<"%", c>>
      PROVE  lex_next_token(t, p, s).type \in ChronoTokens
  <2>1. lex_next_token(t, p, s) = Accept(IF c = "g" THEN "ChronoPredef_g" ELSE "ChronoPredef_f", p, p + 2)
    BY <1>1, <1>4, PredefStands
  <2> QED
    BY <2>1, AcceptedType DEF ChronoTokens, PredefTokens
<1>5. ASSUME UserItems(f.spec.items) PROVE lex_next_token(t, p, s).type \in ChronoTokens
  <2> DEFINE m == f.spec.items.means
  <2>1. 1 \in 1..Len(m) /\ 1 - 1 = 0
    BY <1>5 DEF UserItems
  <2>2. AtItem(p, m, 0) = p
    <3>1. FlattenSeq(ItemTexts(m, 0)) = <<>> /\ p \in Nat /\ p + 0 = p
      <4>1. Len(m) \in Nat /\ (\A k \in 1..Len(m) : IsTimeItem(m[k])) /\ p \in Nat
        BY <1>5 DEF UserItems, Left
      <4> HIDE DEF m
      <4>2. FlattenSeq(ItemTexts(m, 0)) = <<>>
        BY <4>1, ItemsAreTexts, Zenon
      <4> QED
        BY <4>1, <4>2
    <3>2. Len(<<>>) = 0
      OBVIOUS
    <3> QED
      BY <3>1, <3>2 DEF AtItem
  <2>3. \E typ \in UserdefTokens, b \in Nat :
               lex_next_token(t, AtItem(p, m, 0), s) = Accept(typ, AtItem(p, m, 0), b)
    BY <1>1, <1>5, <2>1, UserItemToken
  <2> QED
    BY <2>2, <2>3, AcceptedType DEF ChronoTokens
<1>6. f.spec.items.text # <<>> =>
        UserItems(f.spec.items) \/ \E c \in {"f", "g"} : f.spec.items.text = <<"%", c>>
  BY DEF FieldOfParts, ItemParts
<1> QED
  BY <1>2, <1>3, <1>4, <1>5, <1>6

\* The token of a part, and of what follows it where it is absent.
LEMMA FormatHead ==
  ASSUME NEW f, FieldOfParts(f), NEW t, Clean(t), NEW e, NEW p, Left(t, e, p, FromFormat(f)),
         NEW s, LateStage(f, s)
  PROVE  LET k == lex_next_token(t, p, s)
         IN  /\ k.type \notin NoToken \cup AlignTokens \cup {"Digits"}
             /\ f.spec.fmt.text = <<>> => Left(t, e, p, FromItems(f)) /\ k.type # "OtherChar"
             /\ f.spec.fmt.text # <<>> => k.type = "OtherChar"
<1> DEFINE k == lex_next_token(t, p, s)
<1>1. CASE f.spec.fmt.text # <<>>
  <2>1. k.type = "OtherChar"
    BY <1>1, FormatToken, AcceptedType
  <2> QED
    BY <1>1, <2>1 DEF NoToken, AlignTokens
<1>2. CASE f.spec.fmt.text = <<>>
  <2>1. Left(t, e, p, FromItems(f))
    BY <1>2, HeadsOfParts, Zenon DEF FromHeads
  <2>2. k.type \in ChronoTokens \cup {"RightBrace", "RightBracketBrace"}
    BY <2>1, ItemsHead, AcceptedType DEF CloseType
  <2>3. k.type \notin NoToken \cup AlignTokens \cup {"Digits", "OtherChar"}
    <3>1. CASE k.type \in ChronoTokens
      BY <3>1, TimeTokensApart
    <3>2. CASE k.type \in {"RightBrace", "RightBracketBrace"}
      BY <3>2 DEF NoToken, AlignTokens
    <3> QED
      BY <2>2, <3>1, <3>2
  <2> QED
    BY <1>2, <2>1, <2>3
<1> QED
  BY <1>1, <1>2

LEMMA WidthHead ==
  ASSUME NEW f, FieldOfParts(f), NEW t, Clean(t), NEW e, NEW p, Left(t, e, p, FromWidth(f)),
         NEW s, LateStage(f, s)
  PROVE  LET k == lex_next_token(t, p, s)
         IN  /\ k.type \notin NoToken \cup AlignTokens
             /\ f.spec.width.text = <<>> => Left(t, e, p, FromFormat(f)) /\ k.type # "Digits"
             /\ f.spec.width.text # <<>> => k.type = "Digits"
             /\ At(t, p) \notin SignChars
<1> DEFINE k == lex_next_token(t, p, s)
<1>1. At(t, p) \notin SignChars
  <2>1. FromWidth(f) # <<>> /\ FromWidth(f)[1] \in Digit \cup DOMAIN FormatTypeOf \cup {"%", "}", "]"}
    BY LeftTexts, HeadsOfParts, Zenon DEF FieldOfParts, FromHeads
  <2>2. At(t, p) \in Digit \cup DOMAIN FormatTypeOf \cup {"%", "}", "]"}
    BY <2>1, LeftBegins, Zenon
  <2> QED
    BY <2>2, PlainCharacters, Zenon DEF Marks
<1>2. CASE f.spec.width.text # <<>>
  <2>1. k.type = "Digits"
    BY <1>2, WidthToken, AcceptedType
  <2> QED
    BY <1>1, <1>2, <2>1 DEF NoToken, AlignTokens
<1>3. CASE f.spec.width.text = <<>>
  <2>1. Left(t, e, p, FromFormat(f))
    BY <1>3, HeadsOfParts, Zenon DEF FromHeads
  <2> QED
    BY <1>1, <1>3, <2>1, FormatHead
<1> QED
  BY <1>2, <1>3

LEMMA SignHead ==
  ASSUME NEW f, FieldOfParts(f), NEW t, Clean(t), NEW e, NEW p, Left(t, e, p, FromSign(f)),
         NEW s, LateStage(f, s)
  PROVE  LET k == lex_next_token(t, p, s)
         IN  /\ k.type \notin NoToken \cup AlignTokens
             /\ f.spec.sign.text = <<>> => Left(t, e, p, FromWidth(f)) /\ At(t, p) \notin SignChars
             /\ f.spec.sign.text # <<>> => k.type = "OtherChar" /\ At(t, p) \in SignChars
<1> DEFINE k == lex_next_token(t, p, s)
<1>1. CASE f.spec.sign.text # <<>>
  <2>1. k.type = "OtherChar" /\ At(t, p) \in SignChars
    BY <1>1, SignToken, AcceptedType
  <2> QED
    BY <1>1, <2>1 DEF NoToken, AlignTokens
<1>2. CASE f.spec.sign.text = <<>>
  <2>1. Left(t, e, p, FromWidth(f))
    BY <1>2, HeadsOfParts, Zenon DEF FromHeads
  <2> QED
    BY <1>2, <2>1, WidthHead
<1> QED
  BY <1>1, <1>2

LEMMA AlignHead ==
  ASSUME NEW f, FieldOfParts(f), NEW t, Clean(t), NEW e, NEW p, Left(t, e, p, FromAlign(f)),
         NEW s, LateStage(f, s)
  PROVE  LET k == lex_next_token(t, p, s)
         IN  /\ k.type \notin NoToken
             /\ f.spec.align.text = <<>> => Left(t, e, p, FromSign(f)) /\ k.type \notin AlignTokens
             /\ f.spec.align.text # <<>> => k.type \in AlignTokens
<1> DEFINE k == lex_next_token(t, p, s)
<1>1. CASE f.spec.align.text # <<>>
  <2>1. k.type \in AlignTokens
    BY <1>1, AlignToken
  <2> QED
    BY <1>1, <2>1 DEF NoToken, AlignTokens
<1>2. CASE f.spec.align.text = <<>>
  <2>1. Left(t, e, p, FromSign(f))
    BY <1>2, HeadsOfParts, Zenon DEF FromHeads
  <2> QED
    BY <1>2, <2>1, SignHead
<1> QED
  BY <1>1, <1>2

LEMMA FillHead ==
  ASSUME NEW f, FieldOfParts(f), NEW t, Clean(t), NEW e, NEW p, Left(t, e, p, FromFill(f)),
         NEW s, LateStage(f, s)
  PROVE  LET k == lex_next_token(t, p, s)
         IN  /\ k.type \notin NoToken
             /\ f.spec.fill.text = <<>> => Left(t, e, p, FromAlign(f))
             /\ f.spec.fill.text # <<>> =>
                  k.type \in {"Colon", "Digits", "LeftBrace", "OtherChar"} /\ k.type \notin AlignTokens
<1> DEFINE k == lex_next_token(t, p, s)
<1>1. CASE f.spec.fill.text # <<>>
  <2>1. k.type \in {"Colon", "Digits", "LeftBrace", "OtherChar"}
    BY <1>1, FillToken
  <2> QED
    BY <1>1, <2>1 DEF NoToken, AlignTokens
<1>2. CASE f.spec.fill.text = <<>>
  <2>1. Left(t, e, p, FromAlign(f))
    BY <1>2, HeadsOfParts, Zenon DEF FromHeads
  <2> QED
    BY <1>2, <2>1, AlignHead
<1> QED
  BY <1>1, <1>2

LEMMA SpecHead ==
  ASSUME NEW f, FieldOfParts(f), NEW t, Clean(t), NEW e, NEW p, Left(t, e, p, FromSpec(f)),
         NEW s, StageOf(f.class, s)
  PROVE  LET k == lex_next_token(t, p, s)
         IN  /\ k.type \notin NoToken \cup {"VlineColon"}
             /\ k.type \in {"Colon", "RightBrace", "RightBracketBrace"}
             /\ SpecText(f.spec) # <<>> <=> k.type = "Colon"
<1> DEFINE k == lex_next_token(t, p, s)
<1>1. CASE SpecText(f.spec) # <<>>
  <2>1. k.type = "Colon"
    BY <1>1, SpecColon, AcceptedType
  <2> QED
    BY <1>1, <2>1 DEF NoToken
<1>2. CASE SpecText(f.spec) = <<>>
  <2>1. k.type = CloseType(f)
    BY <1>2, SpecClose, AcceptedType
  <2> QED
    BY <1>2, <2>1 DEF NoToken, CloseType
<1> QED
  BY <1>1, <1>2

LEMMA SplitHead ==
  ASSUME NEW f, FieldOfParts(f), NEW t, Clean(t), NEW e, NEW p, Left(t, e, p, FromSplit(f)),
         NEW s, StageOf(f.class, s)
  PROVE  LET k == lex_next_token(t, p, s)
         IN  /\ k.type \notin NoToken
             /\ f.split.text = <<>> => Left(t, e, p, FromSpec(f)) /\ k.type # "VlineColon"
             /\ f.split.text # <<>> => k.type = "VlineColon"
<1> DEFINE k == lex_next_token(t, p, s)
<1>1. CASE f.split.text # <<>>
  <2>1. k.type = "VlineColon"
    BY <1>1, SplitToken, AcceptedType
  <2> QED
    BY <1>1, <2>1 DEF NoToken
<1>2. CASE f.split.text = <<>>
  <2>1. Left(t, e, p, FromSpec(f))
    BY <1>2, HeadsOfParts, Zenon DEF FromHeads
  <2> QED
    BY <1>2, <2>1, SpecHead
<1> QED
  BY <1>1, <1>2

--------------------------------------------------------------------------------
(* What has been found of a field.                                             *)

FieldOf(class, id, type, prop, split, align, fill, sgn, width, form, items) ==
  [class |-> class, id |-> id, type |-> type, prop |-> prop, split |-> split,
   align |-> align, fill |-> fill, sign |-> sgn, width |-> width, fmt |-> form,
   items |-> items]

\* The first n parts of the field f, with the alignment a.
FoundField(f, n, a) ==
  FieldOf(IF n >= 1 THEN f.class ELSE NoField.class,
          IF n >= 2 THEN f.id.means ELSE NoField.id,
          IF n >= 3 THEN f.type.means.type ELSE NoField.type,
          IF n >= 3 THEN f.type.means.prop ELSE NoField.prop,
          IF n >= 4 THEN f.split.means ELSE NoField.split,
          a,
          IF n >= 5 THEN f.spec.fill.means ELSE NoField.fill,
          IF n >= 6 THEN f.spec.sign.means ELSE NoField.sign,
          IF n >= 7 THEN f.spec.width.means ELSE NoField.width,
          IF n >= 8 THEN f.spec.fmt.means ELSE NoField.fmt,
          IF n >= 9 THEN f.spec.items.means ELSE NoField.items)

\* With the characters chars of its separators, and with the items i.
WithSplit(f, chars) ==
  FieldOf(f.class, f.id.means, f.type.means.type, f.type.means.prop, chars, "Right",
          NoField.fill, NoField.sign, NoField.width, NoField.fmt, NoField.items)

WithItems(f, a, i) ==
  FieldOf(f.class, f.id.means, f.type.means.type, f.type.means.prop, f.split.means, a,
          f.spec.fill.means, f.spec.sign.means, f.spec.width.means, f.spec.fmt.means, i)

\* What has been found up to each part.
LEMMA FoundParts ==
  ASSUME NEW f, NEW a
  PROVE  /\ FoundField(f, 0, a) = FieldOf(NoField.class, NoField.id, NoField.type, NoField.prop, NoField.split, a,
                 NoField.fill, NoField.sign, NoField.width, NoField.fmt, NoField.items)
         /\ FoundField(f, 1, a) = FieldOf(f.class, NoField.id, NoField.type, NoField.prop, NoField.split, a,
                 NoField.fill, NoField.sign, NoField.width, NoField.fmt, NoField.items)
         /\ FoundField(f, 2, a) = FieldOf(f.class, f.id.means, NoField.type, NoField.prop, NoField.split, a,
                 NoField.fill, NoField.sign, NoField.width, NoField.fmt, NoField.items)
         /\ FoundField(f, 3, a) = FieldOf(f.class, f.id.means, f.type.means.type, f.type.means.prop, NoField.split, a,
                 NoField.fill, NoField.sign, NoField.width, NoField.fmt, NoField.items)
         /\ FoundField(f, 4, a) = FieldOf(f.class, f.id.means, f.type.means.type, f.type.means.prop, f.split.means, a,
                 NoField.fill, NoField.sign, NoField.width, NoField.fmt, NoField.items)
         /\ FoundField(f, 5, a) = FieldOf(f.class, f.id.means, f.type.means.type, f.type.means.prop, f.split.means, a,
                 f.spec.fill.means, NoField.sign, NoField.width, NoField.fmt, NoField.items)
         /\ FoundField(f, 6, a) = FieldOf(f.class, f.id.means, f.type.means.type, f.type.means.prop, f.split.means, a,
                 f.spec.fill.means, f.spec.sign.means, NoField.width, NoField.fmt, NoField.items)
         /\ FoundField(f, 7, a) = FieldOf(f.class, f.id.means, f.type.means.type, f.type.means.prop, f.split.means, a,
                 f.spec.fill.means, f.spec.sign.means, f.spec.width.means, NoField.fmt, NoField.items)
         /\ FoundField(f, 8, a) = FieldOf(f.class, f.id.means, f.type.means.type, f.type.means.prop, f.split.means, a,
                 f.spec.fill.means, f.spec.sign.means, f.spec.width.means, f.spec.fmt.means, NoField.items)
         /\ FoundField(f, 9, a) = FieldOf(f.class, f.id.means, f.type.means.type, f.type.means.prop, f.split.means, a,
                 f.spec.fill.means, f.spec.sign.means, f.spec.width.means, f.spec.fmt.means, f.spec.items.means)
<1>0. FoundField(f, 0, a) = FieldOf(NoField.class, NoField.id, NoField.type, NoField.prop, NoField.split, a,
              NoField.fill, NoField.sign, NoField.width, NoField.fmt, NoField.items)
  BY DEF FoundField
<1>1. FoundField(f, 1, a) = FieldOf(f.class, NoField.id, NoField.type, NoField.prop, NoField.split, a,
              NoField.fill, NoField.sign, NoField.width, NoField.fmt, NoField.items)
  BY DEF FoundField
<1>2. FoundField(f, 2, a) = FieldOf(f.class, f.id.means, NoField.type, NoField.prop, NoField.split, a,
              NoField.fill, NoField.sign, NoField.width, NoField.fmt, NoField.items)
  BY DEF FoundField
<1>3. FoundField(f, 3, a) = FieldOf(f.class, f.id.means, f.type.means.type, f.type.means.prop, NoField.split, a,
              NoField.fill, NoField.sign, NoField.width, NoField.fmt, NoField.items)
  BY DEF FoundField
<1>4. FoundField(f, 4, a) = FieldOf(f.class, f.id.means, f.type.means.type, f.type.means.prop, f.split.means, a,
              NoField.fill, NoField.sign, NoField.width, NoField.fmt, NoField.items)
  BY DEF FoundField
<1>5. FoundField(f, 5, a) = FieldOf(f.class, f.id.means, f.type.means.type, f.type.means.prop, f.split.means, a,
              f.spec.fill.means, NoField.sign, NoField.width, NoField.fmt, NoField.items)
  BY DEF FoundField
<1>6. FoundField(f, 6, a) = FieldOf(f.class, f.id.means, f.type.means.type, f.type.means.prop, f.split.means, a,
              f.spec.fill.means, f.spec.sign.means, NoField.width, NoField.fmt, NoField.items)
  BY DEF FoundField
<1>7. FoundField(f, 7, a) = FieldOf(f.class, f.id.means, f.type.means.type, f.type.means.prop, f.split.means, a,
              f.spec.fill.means, f.spec.sign.means, f.spec.width.means, NoField.fmt, NoField.items)
  BY DEF FoundField
<1>8. FoundField(f, 8, a) = FieldOf(f.class, f.id.means, f.type.means.type, f.type.means.prop, f.split.means, a,
              f.spec.fill.means, f.spec.sign.means, f.spec.width.means, f.spec.fmt.means, NoField.items)
  BY DEF FoundField
<1>9. FoundField(f, 9, a) = FieldOf(f.class, f.id.means, f.type.means.type, f.type.means.prop, f.split.means, a,
              f.spec.fill.means, f.spec.sign.means, f.spec.width.means, f.spec.fmt.means, f.spec.items.means)
  BY DEF FoundField
<1> QED
  BY <1>0, <1>1, <1>2, <1>3, <1>4, <1>5, <1>6, <1>7, <1>8, <1>9

\* What is taken for known of a field before anything of it is.
LEMMA NothingFound ==
  /\ NoField.class = "Value" /\ NoField.split = <<",", " ">> /\ NoField.fill = " "
  /\ NoField.sign = "NegOnly" /\ NoField.width = -1 /\ NoField.fmt = UnSpec /\ NoField.items = <<>>
  /\ \A f : FoundField(f, 0, "Right") = NoField
<1>1. NoField = FieldOf("Value", 0, Unknown, 0, <<",", " ">>, "Right", " ", "NegOnly", -1, UnSpec, <<>>)
  BY Zenon DEF NoField, FieldOf
<1>2. ASSUME NEW c, NEW i, NEW t, NEW p, NEW s, NEW a, NEW l, NEW g, NEW w, NEW m, NEW x, NEW r,
             r = FieldOf(c, i, t, p, s, a, l, g, w, m, x)
      PROVE  /\ r.class = c /\ r.split = s /\ r.align = a /\ r.fill = l /\ r.sign = g /\ r.width = w
             /\ r.fmt = m /\ r.items = x
             /\ r = FieldOf(r.class, r.id, r.type, r.prop, r.split, r.align, r.fill, r.sign,
                            r.width, r.fmt, r.items)
  BY <1>2 DEF FieldOf
<1>3. /\ NoField.class = "Value" /\ NoField.split = <<",", " ">> /\ NoField.fill = " "
      /\ NoField.sign = "NegOnly" /\ NoField.width = -1 /\ NoField.fmt = UnSpec /\ NoField.items = <<>>
      /\ NoField.align = "Right"
      /\ NoField = FieldOf(NoField.class, NoField.id, NoField.type, NoField.prop, NoField.split, NoField.align,
                           NoField.fill, NoField.sign, NoField.width, NoField.fmt, NoField.items)
  <2> DEFINE blank == " "
             comma == <<",", " ">>
             r == NoField
             minus == -1
  <2> HIDE DEF blank, comma, r, minus
  <2>1. r = FieldOf("Value", 0, Unknown, 0, comma, "Right", blank, "NegOnly", minus, UnSpec, <<>>)
    BY <1>1, Zenon DEF blank, comma, r, minus
  <2>2. /\ r.class = "Value" /\ r.split = comma /\ r.fill = blank
        /\ r.sign = "NegOnly" /\ r.width = minus /\ r.fmt = UnSpec /\ r.items = <<>>
        /\ r.align = "Right"
        /\ r = FieldOf(r.class, r.id, r.type, r.prop, r.split, r.align, r.fill, r.sign,
                       r.width, r.fmt, r.items)
    BY <1>2, <2>1
  <2> QED
    BY <2>2, Zenon DEF blank, comma, r, minus
<1>4. \A f : FoundField(f, 0, "Right") =
        FieldOf(NoField.class, NoField.id, NoField.type, NoField.prop, NoField.split, "Right",
                NoField.fill, NoField.sign, NoField.width, NoField.fmt, NoField.items)
  BY FoundParts
<1>5. \A f : FoundField(f, 0, "Right") = NoField
  BY <1>3, <1>4, Zenon
<1> QED
  BY <1>3, <1>5, Zenon

\* The next part.
LEMMA FoundFirst ==
  ASSUME NEW f
  PROVE  /\ [FoundField(f, 0, "Right") EXCEPT !.class = f.class] = FoundField(f, 1, "Right")
         /\ [FoundField(f, 1, "Right") EXCEPT !.id = f.id.means] = FoundField(f, 2, "Right")
         /\ [FoundField(f, 2, "Right") EXCEPT !.type = f.type.means.type, !.prop = f.type.means.prop]
              = FoundField(f, 3, "Right")
         /\ FoundField(f, 1, "Right").class = f.class
         /\ FoundField(f, 2, "Right").class = f.class
<1>1. \A g, y, z : [g EXCEPT !.type = y, !.prop = z] = [[g EXCEPT !.type = y] EXCEPT !.prop = z]
  OBVIOUS
<1>2. [FoundField(f, 0, "Right") EXCEPT !.class = f.class] = FoundField(f, 1, "Right")
  BY FoundParts DEF FieldOf
<1>3. [FoundField(f, 1, "Right") EXCEPT !.id = f.id.means] = FoundField(f, 2, "Right")
  BY FoundParts DEF FieldOf
<1>4. [[FoundField(f, 2, "Right") EXCEPT !.type = f.type.means.type] EXCEPT !.prop = f.type.means.prop]
              = FoundField(f, 3, "Right")
  <2> DEFINE g == [FoundField(f, 2, "Right") EXCEPT !.type = f.type.means.type]
  <2>1. g = FieldOf(f.class, f.id.means, f.type.means.type, NoField.prop, NoField.split, "Right",
                    NoField.fill, NoField.sign, NoField.width, NoField.fmt, NoField.items)
    BY FoundParts DEF FieldOf
  <2> HIDE DEF g
  <2>2. [g EXCEPT !.prop = f.type.means.prop] = FoundField(f, 3, "Right")
    BY <2>1, FoundParts DEF FieldOf
  <2> QED
    BY <2>2 DEF g
<1>5. FoundField(f, 1, "Right").class = f.class /\ FoundField(f, 2, "Right").class = f.class
  BY FoundParts DEF FieldOf
<1> QED
  BY <1>1, <1>2, <1>3, <1>4, <1>5, Zenon

\* The separators are found one by one.
LEMMA FoundSplit ==
  ASSUME NEW f
  PROVE  /\ f.split.means = NoField.split => FoundField(f, 3, "Right") = FoundField(f, 4, "Right")
         /\ [FoundField(f, 3, "Right") EXCEPT !.split = <<>>] = WithSplit(f, <<>>)
         /\ \A x, y : [WithSplit(f, x) EXCEPT !.split = @ \o y] = WithSplit(f, x \o y)
         /\ WithSplit(f, f.split.means) = FoundField(f, 4, "Right")
<1>1. \A g, x, y : g.split = x => [g EXCEPT !.split = @ \o y] = [g EXCEPT !.split = x \o y]
  OBVIOUS
<1>2. f.split.means = NoField.split => FoundField(f, 3, "Right") = FoundField(f, 4, "Right")
  BY FoundParts
<1>3. [FoundField(f, 3, "Right") EXCEPT !.split = <<>>] = WithSplit(f, <<>>)
  <2>1. \A z : [FoundField(f, 3, "Right") EXCEPT !.split = z] = WithSplit(f, z)
    BY FoundParts DEF FieldOf, WithSplit
  <2> QED
    BY <2>1, Zenon
<1>4. \A x, y : [WithSplit(f, x) EXCEPT !.split = @ \o y] = WithSplit(f, x \o y)
  <2> TAKE x, y
  <2>1. WithSplit(f, x).split = x
    BY DEF WithSplit, FieldOf
  <2>3. \A z : [WithSplit(f, x) EXCEPT !.split = z] = WithSplit(f, z)
    BY DEF WithSplit, FieldOf
  <2>2. [WithSplit(f, x) EXCEPT !.split = x \o y] = WithSplit(f, x \o y)
    BY <2>3, Zenon
  <2> QED
    BY <1>1, <2>1, <2>2, Zenon
<1>5. WithSplit(f, f.split.means) = FoundField(f, 4, "Right")
  BY FoundParts DEF WithSplit
<1> QED
  BY <1>2, <1>3, <1>4, <1>5, Zenon

\* The parts of a specification, and its items.
LEMMA FoundSpec ==
  ASSUME NEW f, NEW a
  PROVE  /\ [FoundField(f, 4, a) EXCEPT !.fill = f.spec.fill.means] = FoundField(f, 5, a)
         /\ f.spec.fill.means = NoField.fill => FoundField(f, 4, a) = FoundField(f, 5, a)
         /\ \A b : [FoundField(f, 5, a) EXCEPT !.align = b] = FoundField(f, 5, b)
         /\ [FoundField(f, 5, a) EXCEPT !.sign = f.spec.sign.means] = FoundField(f, 6, a)
         /\ f.spec.sign.means = NoField.sign => FoundField(f, 5, a) = FoundField(f, 6, a)
         /\ [FoundField(f, 6, a) EXCEPT !.width = f.spec.width.means] = FoundField(f, 7, a)
         /\ f.spec.width.means = NoField.width => FoundField(f, 6, a) = FoundField(f, 7, a)
         /\ FoundField(f, 4, a).class = f.class
<1>2. [FoundField(f, 4, a) EXCEPT !.fill = f.spec.fill.means] = FoundField(f, 5, a)
  BY FoundParts DEF FieldOf
<1>3. f.spec.fill.means = NoField.fill => FoundField(f, 4, a) = FoundField(f, 5, a)
  BY FoundParts
<1>4. \A b : [FoundField(f, 5, a) EXCEPT !.align = b] = FoundField(f, 5, b)
  BY FoundParts DEF FieldOf
<1>6. [FoundField(f, 5, a) EXCEPT !.sign = f.spec.sign.means] = FoundField(f, 6, a)
  BY FoundParts DEF FieldOf
<1>7. f.spec.sign.means = NoField.sign => FoundField(f, 5, a) = FoundField(f, 6, a)
  BY FoundParts
<1>8. [FoundField(f, 6, a) EXCEPT !.width = f.spec.width.means] = FoundField(f, 7, a)
  BY FoundParts DEF FieldOf
<1>9. f.spec.width.means = NoField.width => FoundField(f, 6, a) = FoundField(f, 7, a)
  BY FoundParts
<1>10. FoundField(f, 4, a).class = f.class
  BY FoundParts DEF FieldOf
<1> QED
  BY <1>2, <1>3, <1>4, <1>6, <1>7, <1>8, <1>9, <1>10, Zenon

LEMMA FoundNoFill ==
  ASSUME NEW f, NEW a, NEW b
  PROVE  [FoundField(f, 4, a) EXCEPT !.fill = NoField.fill, !.align = b] = FoundField(f, 4, b)
<1> DEFINE g == [FoundField(f, 4, a) EXCEPT !.fill = NoField.fill]
<1>1. \A h, y, z : [h EXCEPT !.fill = y, !.align = z] = [[h EXCEPT !.fill = y] EXCEPT !.align = z]
  OBVIOUS
<1>2. g = FoundField(f, 4, a)
  BY FoundParts DEF FieldOf
<1>3. [FoundField(f, 4, a) EXCEPT !.align = b] = FoundField(f, 4, b)
  BY FoundParts DEF FieldOf
<1>4. [g EXCEPT !.align = b] = FoundField(f, 4, b)
  BY <1>2, <1>3
<1> QED
  BY <1>1, <1>4, Zenon

LEMMA FoundTimes ==
  ASSUME NEW f, NEW a
  PROVE  /\ [FoundField(f, 7, a) EXCEPT !.fmt = f.spec.fmt.means] = FoundField(f, 8, a)
         /\ f.spec.fmt.means = NoField.fmt => FoundField(f, 7, a) = FoundField(f, 8, a)
         /\ FoundField(f, 8, a) = WithItems(f, a, NoField.items)
         /\ FoundField(f, 9, a) = WithItems(f, a, f.spec.items.means)
         /\ \A x, y : [WithItems(f, a, x) EXCEPT !.items = y] = WithItems(f, a, y)
         /\ \A x, y : [WithItems(f, a, x) EXCEPT !.items = Append(@, y)] = WithItems(f, a, Append(x, y))
         /\ \A x, y, n : [WithItems(f, a, x) EXCEPT !.items[n].split = @ \o y]
                           = WithItems(f, a, [x EXCEPT ![n].split = @ \o y])
         /\ \A x : WithItems(f, a, x).items = x /\ WithItems(f, a, x).class = f.class
<1>1. \A g, x, y : g.items = x => [g EXCEPT !.items = Append(@, y)] = [g EXCEPT !.items = Append(x, y)]
  OBVIOUS
<1>2. \A g, x, y, n : g.items = x => [g EXCEPT !.items[n].split = @ \o y]
                                     = [g EXCEPT !.items = [x EXCEPT ![n].split = @ \o y]]
  OBVIOUS
<1>3. [FoundField(f, 7, a) EXCEPT !.fmt = f.spec.fmt.means] = FoundField(f, 8, a)
  BY FoundParts DEF FieldOf
<1>4. f.spec.fmt.means = NoField.fmt => FoundField(f, 7, a) = FoundField(f, 8, a)
  BY FoundParts
<1>5. FoundField(f, 8, a) = WithItems(f, a, NoField.items)
  BY FoundParts DEF WithItems
<1>6. FoundField(f, 9, a) = WithItems(f, a, f.spec.items.means)
  BY FoundParts DEF WithItems
<1>7. \A x, y : [WithItems(f, a, x) EXCEPT !.items = y] = WithItems(f, a, y)
  BY DEF WithItems, FieldOf
<1>8. \A x : WithItems(f, a, x).items = x /\ WithItems(f, a, x).class = f.class
  BY DEF WithItems, FieldOf
<1>9. \A x, y : [WithItems(f, a, x) EXCEPT !.items = Append(@, y)] = WithItems(f, a, Append(x, y))
  BY <1>1, <1>7, <1>8, Zenon
<1>10. \A x, y, n : [WithItems(f, a, x) EXCEPT !.items[n].split = @ \o y]
                     = WithItems(f, a, [x EXCEPT ![n].split = @ \o y])
  <2> TAKE x, y, n
  <2>1. WithItems(f, a, x).items = x
    BY <1>8
  <2>2. [WithItems(f, a, x) EXCEPT !.items[n].split = @ \o y]
          = [WithItems(f, a, x) EXCEPT !.items = [x EXCEPT ![n].split = @ \o y]]
    BY <2>1
  <2>3. [WithItems(f, a, x) EXCEPT !.items = [x EXCEPT ![n].split = @ \o y]]
          = WithItems(f, a, [x EXCEPT ![n].split = @ \o y])
    BY <1>7, Zenon
  <2> QED
    BY <2>2, <2>3, Zenon
<1> QED
  BY <1>3, <1>4, <1>5, <1>6, <1>7, <1>8, <1>9, <1>10, Zenon

\* The first k items, of the last of them only n characters of what stands behind it.
ItemsTaken(items, k, n) ==
  [j \in 1..k |-> IF j = k THEN Split(items[k].item, Taken(items[k].split, n)) ELSE items[j]]

\* Of the items so many are taken as were read.
LEMMA ItemsAreText ==
  ASSUME NEW p, UserItems(p)
  PROVE  IsText(p.means)
<1> DEFINE m == p.means
           n == Len(m)
           S == {m[k] : k \in 1..n}
<1>1. n \in Nat /\ m = [k \in 1..n |-> m[k]]
  BY DEF UserItems
<1> HIDE DEF m, n
<1>2. m \in [1..n -> S]
  BY <1>1
<1>3. m \in Seq(S)
  <2> HIDE DEF S
  <2> QED
    BY <1>1, <1>2
<1> QED
  BY <1>3 DEF IsText, m

LEMMA ItemsTakenLength ==
  ASSUME NEW items, NEW k \in Nat, NEW n
  PROVE  Len(ItemsTaken(items, k, n)) = k
BY DEF ItemsTaken

LEMMA ItemTakenNext ==
  ASSUME NEW p, UserItems(p), NEW k \in 0..(Len(p.means) - 1)
  PROVE  Append(Taken(p.means, k), Split(p.means[k + 1].item, <<>>)) = ItemsTaken(p.means, k + 1, 0)
<1> DEFINE m == p.means
           x == Split(m[k + 1].item, <<>>)
           s == Taken(m, k)
<1>1. IsText(m) /\ Len(m) \in Nat
  BY ItemsAreText DEF UserItems
<1>2. k \in Nat /\ k \in 0..Len(m) /\ k + 1 \in 1..Len(m)
  BY <1>1
<1>3. IsText(s) /\ Len(s) = k
  BY <1>1, <1>2, TakenText
<1>4. x = Split(m[k + 1].item, Taken(m[k + 1].split, 0))
  <2>1. \A c : Taken(c, 0) = <<>>
    BY DEF Taken
  <2> QED
    BY <2>1
<1>5. \A j \in 1..k : s[j] = m[j]
  BY DEF Taken
<1>6. ItemsTaken(m, k + 1, 0) = [j \in 1..(k + 1) |-> IF j = k + 1 THEN x ELSE m[j]]
  BY <1>4 DEF ItemsTaken
<1> HIDE DEF x, s, m
<1>7. PICK S : s \in Seq(S)
  BY <1>3 DEF IsText
<1>8. Append(s, x) = [j \in 1..(k + 1) |-> IF j = k + 1 THEN x ELSE m[j]]
  <2> DEFINE T == S \cup {x}
  <2>1. s \in Seq(T) /\ x \in T
    BY <1>7
  <2> HIDE DEF T
  <2>2. Append(s, x) \in Seq(T) /\ Len(Append(s, x)) = k + 1
    BY <1>2, <1>3, <2>1
  <2>3. \A j \in 1..(k + 1) : Append(s, x)[j] = IF j = k + 1 THEN x ELSE m[j]
    BY <1>2, <1>3, <1>5, <2>1
  <2>4. Append(s, x) = [j \in 1..(k + 1) |-> Append(s, x)[j]]
    <3> DEFINE z == Append(s, x)
    <3>1. z \in Seq(T) /\ Len(z) = k + 1
      BY <2>2
    <3> HIDE DEF z
    <3>2. z \in [1..(k + 1) -> T]
      BY <1>2, <3>1
    <3>3. z = [j \in 1..(k + 1) |-> z[j]]
      BY <3>2
    <3> QED
      BY <3>3 DEF z
  <2> QED
    BY <2>3, <2>4
<1> QED
  BY <1>6, <1>8 DEF m, x, s

LEMMA ItemTakenAll ==
  ASSUME NEW p, UserItems(p), NEW k \in 1..Len(p.means), IsText(p.means[k].split)
  PROVE  ItemsTaken(p.means, k, Len(p.means[k].split)) = Taken(p.means, k)
<1> DEFINE m == p.means
<1>1. m[k] = [item |-> m[k].item, split |-> m[k].split] /\ Len(m) \in Nat
  BY DEF UserItems
<1>2. Taken(m[k].split, Len(m[k].split)) = m[k].split
  BY TakenAll
<1>3. Split(m[k].item, Taken(m[k].split, Len(m[k].split))) = m[k]
  BY <1>1, <1>2, Zenon DEF Split
<1> HIDE DEF m
<1> QED
  BY <1>3 DEF ItemsTaken, Taken, m

\* The characters y behind the k-th item, added to those that stand there.
SplitLonger(items, k, y) == [items EXCEPT ![k].split = @ \o y]

LEMMA ItemTakenMore ==
  ASSUME NEW items, NEW k \in Nat, k >= 1, NEW a, NEW b, NEW y,
         Taken(items[k].split, a) \o y = Taken(items[k].split, b)
  PROVE  SplitLonger(ItemsTaken(items, k, a), k, y) = ItemsTaken(items, k, b)
<1> DEFINE s == ItemsTaken(items, k, a)
           x == Split(items[k].item, Taken(items[k].split, b))
<1>1. s = [j \in 1..k |-> IF j = k THEN Split(items[k].item, Taken(items[k].split, a)) ELSE items[j]]
  BY DEF ItemsTaken
<1>2. s[k] = Split(items[k].item, Taken(items[k].split, a)) /\ k \in 1..k
  BY <1>1
<1>3. [s[k] EXCEPT !.split = @ \o y] = x
  <2> DEFINE c == Taken(items[k].split, a)
             d == Taken(items[k].split, b)
             i == items[k].item
  <2>1. s[k] = [item |-> i, split |-> c] /\ c \o y = d
    BY <1>2 DEF Split
  <2>2. x = [item |-> i, split |-> d]
    BY DEF Split
  <2> HIDE DEF c, d, i, s, x
  <2> DEFINE r == s[k]
  <2>3. r = [item |-> i, split |-> c]
    BY <2>1
  <2> HIDE DEF r
  <2>4. r.split = c
    BY <2>3
  <2>5. [r EXCEPT !.split = @ \o y] = [r EXCEPT !.split = d]
    BY <2>1, <2>4
  <2>6. [r EXCEPT !.split = d] = [item |-> i, split |-> d]
    BY <2>3
  <2> QED
    BY <2>2, <2>5, <2>6 DEF r
<1>4. [s EXCEPT ![k].split = @ \o y] = [s EXCEPT ![k] = [s[k] EXCEPT !.split = @ \o y]]
  OBVIOUS
<1> HIDE DEF x
<1>5. [s EXCEPT ![k] = x] = [j \in 1..k |-> IF j = k THEN x ELSE items[j]]
  BY <1>1
<1> QED
  BY <1>3, <1>4, <1>5 DEF ItemsTaken, SplitLonger, x

--------------------------------------------------------------------------------
(* The parser within a field.                                                  *)

\* The stage of a field from its type on, up to its specification.
EarlyStage(f, s) == "MatchChronoToken" \notin s /\ StageOf(f.class, s)

\* The current token begins what is left of the field, up to the place e.
On(e, rest) ==
  /\ Left(text, e, token.beg, rest)
  /\ token = lex_next_token(text, token.beg, stage)
  /\ current = token.beg + token.len

\* The alignment tells only where there is a width.
AlignFound(f, a) == f.spec.width.text # <<>> => a = f.spec.align.means

BeforeField(f, e) == Left(text, e, current, FromOpen(f)) /\ stage = {} /\ field = FoundField(f, 0, "Right")

OnOpen(f, e) == On(e, FromOpen(f)) /\ stage = {} /\ field = FoundField(f, 0, "Right")

OnId(f, e) == On(e, FromId(f)) /\ stage = {} /\ field = FoundField(f, 1, "Right")

OnType(f, e) == On(e, FromType(f)) /\ EarlyStage(f, stage) /\ field = FoundField(f, 2, "Right")

OnSplit(f, e) == On(e, FromSplit(f)) /\ EarlyStage(f, stage) /\ field = FoundField(f, 3, "Right")

\* m characters of the separators, which begin at q, have been read.
InSplit(f, e, q, m) ==
  /\ f.split.text # <<>> /\ IsText(f.split.means)
  /\ Left(text, e, q, f.split.means \o FromSpec(f))
  /\ m \in 0..Len(f.split.means)
  /\ token.beg = q + m
  /\ token = lex_next_token(text, token.beg, stage)
  /\ current = token.beg + token.len
  /\ EarlyStage(f, stage)
  /\ field = WithSplit(f, Taken(f.split.means, m))

OnSpec(f, e) == On(e, FromSpec(f)) /\ StageOf(f.class, stage) /\ field = FoundField(f, 4, "Right")

OnFill(f, e) ==
  On(e, FromFill(f)) /\ LateStage(f, stage) /\ field = FoundField(f, 4, "Right") /\ SpecText(f.spec) # <<>>

OnAlign(f, e) ==
  On(e, FromAlign(f)) /\ LateStage(f, stage) /\ field = FoundField(f, 5, "Right") /\ f.spec.align.text # <<>>

OnSign(f, e, a) ==
  /\ LateStage(f, stage) /\ AlignFound(f, a)
  /\ \/ On(e, FromSign(f)) /\ field = FoundField(f, 5, a)
     \/ On(e, FromWidth(f)) /\ field = FoundField(f, 6, a)

OnWidth(f, e, a) == On(e, FromWidth(f)) /\ LateStage(f, stage) /\ AlignFound(f, a) /\ field = FoundField(f, 6, a)

OnFormat(f, e, a) == On(e, FromFormat(f)) /\ LateStage(f, stage) /\ AlignFound(f, a) /\ field = FoundField(f, 7, a)

\* On the item behind the first k, which begin at q.
OnItem(f, e, a, q, k) ==
  LET m == f.spec.items.means
  IN  /\ UserItems(f.spec.items)
      /\ Left(text, e, q, FromItems(f))
      /\ k \in 0..(Len(m) - 1)
      /\ token.beg = AtItem(q, m, k)
      /\ token = lex_next_token(text, token.beg, stage)
      /\ current = token.beg + token.len
      /\ field = WithItems(f, a, Taken(m, k))

OnItems(f, e, a) ==
  /\ LateStage(f, stage) /\ AlignFound(f, a)
  /\ \/ /\ f.spec.items.text = <<"%", "g">> \/ f.spec.items.text = <<"%", "f">>
        /\ On(e, FromItems(f)) /\ field = WithItems(f, a, <<>>)
     \/ \E q : \E k : OnItem(f, e, a, q, k)

\* n characters behind the k-th item, which begin at b, have been read.
BehindOne(f, e, a, q, k, b, n, pairs) ==
  LET m == f.spec.items.means
  IN  /\ UserItems(f.spec.items)
      /\ Left(text, e, q, FromItems(f))
      /\ k \in 1..Len(m)
      /\ IsText(m[k].split)
      /\ Separates(text, AtItem(q, m, k), b, m[k].split)
      /\ Paired(m[k].split, pairs)
      /\ n \in 0..Len(m[k].split) /\ n \notin pairs
      /\ token.beg = b + n
      /\ token = lex_next_token(text, token.beg, stage)
      /\ current = token.beg + token.len
      /\ field = WithItems(f, a, ItemsTaken(m, k, n))

OnBehind(f, e, a) ==
  /\ LateStage(f, stage) /\ AlignFound(f, a)
  /\ \E q : \E k : \E b : \E n : \E pairs : BehindOne(f, e, a, q, k, b, n, pairs)

OnClose(f, e, a) == On(e, CloseText(f)) /\ StageOf(f.class, stage) /\ AlignFound(f, a) /\ field = FoundField(f, 9, a)

FieldRead(f, e, a) == current = e /\ AlignFound(f, a) /\ field = FoundField(f, 9, a)

\* Where the parser is in the field f, which ends at e.
WithinField(f, e) ==
  /\ pc \notin {"failed", "lost"}
  /\ pc = "goal" => BeforeField(f, e)
  /\ pc = "replacement" => OnOpen(f, e)
  /\ pc = "arg_id" => OnId(f, e)
  /\ pc = "arg_type" => OnType(f, e)
  /\ pc = "split" => OnSplit(f, e)
  /\ pc = "split_chars" => \E q : \E m : InSplit(f, e, q, m)
  /\ pc = "spec" => OnSpec(f, e)
  /\ pc = "items" => OnFill(f, e)
  /\ pc = "align" => OnAlign(f, e)
  /\ pc = "sign" => \E a : OnSign(f, e, a)
  /\ pc = "width" => \E a : OnWidth(f, e, a)
  /\ pc = "format" => \E a : OnFormat(f, e, a)
  /\ pc = "chrono" => \E a : OnItems(f, e, a)
  /\ pc = "chrono_split" => \E a : OnBehind(f, e, a)
  /\ pc = "end" => \E a : OnClose(f, e, a)
  /\ pc = "done" => \E a : FieldRead(f, e, a)

--------------------------------------------------------------------------------
(* What a step does.                                                           *)

\* A step onto the next token, where something is left, and a step without one.
LEMMA NextToken ==
  ASSUME Clean(text), NEW s, NEW to, NEW g, parser_next_token(s, to, g), NEW e, NEW r, r # <<>>, IsText(r),
         Left(text, e, current, r), lex_next_token(text, current, s).type \notin NoToken
  PROVE  /\ pc' = to /\ field' = g /\ stage' = s /\ text' = text
         /\ token' = lex_next_token(text', token'.beg, stage')
         /\ token'.beg = current
         /\ current' = token'.beg + token'.len
         /\ Left(text', e, token'.beg, r)
<1> DEFINE k == lex_next_token(text, current, s)
<1>1. k.beg = current
  <2>1. Len(r) \in Nat /\ Len(r) >= 1 /\ text \in Seq(STRING) /\ Len(text) \in Nat
    BY JoinedCharacters DEF Clean
  <2>2. current \in 1..(Len(text) + 2)
    BY <2>1 DEF Left
  <2>3. Lexed(text, current, k)
    BY <2>1, <2>2, LexerLexed
  <2> QED
    BY <2>3 DEF Lexed
<1>2. pc' = to /\ field' = g /\ stage' = s /\ text' = text /\ token' = k /\ current' = current + k.len
  BY DEF parser_next_token, NoToken
<1> HIDE DEF k
<1>3. token'.beg = current /\ token' = lex_next_token(text', token'.beg, stage')
  BY <1>1, <1>2 DEF k
<1> QED
  BY <1>1, <1>2, <1>3

LEMMA NextOn ==
  ASSUME Clean(text), NEW s, NEW to, NEW g, parser_next_token(s, to, g), NEW e, NEW r, r # <<>>, IsText(r),
         Left(text, e, current, r), lex_next_token(text, current, s).type \notin NoToken
  PROVE  pc' = to /\ field' = g /\ stage' = s /\ On(e, r)'
<1>1. /\ pc' = to /\ field' = g /\ stage' = s /\ text' = text
      /\ token' = lex_next_token(text', token'.beg, stage')
      /\ current' = token'.beg + token'.len
      /\ Left(text', e, token'.beg, r)
  BY NextToken
<1> QED
  BY <1>1 DEF On

LEMMA SkipOn ==
  ASSUME NEW to, NEW g, Skip(to, g), NEW e, NEW r, On(e, r)
  PROVE  pc' = to /\ field' = g /\ stage' = stage /\ On(e, r)'
BY DEF Skip, On

\* Where a token ends.
LEMMA TokenEnds ==
  ASSUME NEW e, NEW r, On(e, r), NEW typ, NEW q \in Nat,
         lex_next_token(text, token.beg, stage) = Accept(typ, token.beg, q)
  PROVE  token.type = typ /\ current = q /\ token.len = q - token.beg /\ token.beg \in Nat
BY DEF On, Accept, Left

\* A token of a text shows its characters.
LEMMA TextHeld ==
  ASSUME NEW t, NEW p, NEW chars, IsText(chars), Holds(t, p, chars), NEW n, n = Len(chars)
  PROVE  [i \in 1..n |-> At(t, p + i - 1)] = chars
<1>1. PICK S : chars \in Seq(S)
  BY DEF IsText
<1>2. chars = [i \in 1..Len(chars) |-> chars[i]]
  BY <1>1
<1> QED
  BY <1>2 DEF Holds

--------------------------------------------------------------------------------
(* The steps, up to the specification.                                         *)

\* Each function leads from one point of the field to the next.
LEMMA GoalReads ==
  ASSUME NEW f, FieldOfParts(f), NEW e, Clean(text), WithinField(f, e), mstr_fmt_parse_goal
  PROVE  WithinField(f, e)'
<1>1. parser_next_token(stage, "replacement", field) /\ BeforeField(f, e)
  BY DEF mstr_fmt_parse_goal, WithinField
<1>2. Left(text, e, current, FromOpen(f)) /\ IsText(FromOpen(f)) /\ FromOpen(f) # <<>>
  BY <1>1, LeftTexts DEF BeforeField, FieldOfParts
<1>3. lex_next_token(text, current, stage).type \in {"LeftBrace", "LeftBraceBracket"}
  BY <1>2, OpenToken, AcceptedType
<1>4. pc' = "replacement" /\ field' = field /\ stage' = stage /\ On(e, FromOpen(f))'
  BY <1>1, <1>2, <1>3, NextOn DEF NoToken
<1>5. OnOpen(f, e)'
  BY <1>1, <1>4 DEF OnOpen, BeforeField
<1> QED
  BY <1>4, <1>5 DEF WithinField

\* What opens the field.
LEMMA OpenStands ==
  ASSUME NEW f, FieldOfParts(f), NEW e, Clean(text), OnOpen(f, e)
  PROVE  /\ token.type = IF f.class = "Value" THEN "LeftBrace" ELSE "LeftBraceBracket"
         /\ Left(text, e, current, FromId(f))
<1> DEFINE p == token.beg
<1>1. On(e, FromOpen(f)) /\ Left(text, e, p, FromOpen(f))
  BY DEF OnOpen, On
<1>2. /\ lex_next_token(text, p, stage) = Accept(IF f.class = "Value" THEN "LeftBrace" ELSE "LeftBraceBracket",
                                            p, p + Len(OpenText(f)))
      /\ Left(text, e, p + Len(OpenText(f)), FromId(f))
  BY <1>1, OpenToken
<1>3. p + Len(OpenText(f)) \in Nat
  BY <1>2 DEF Left
<1> QED
  BY <1>1, <1>2, <1>3, TokenEnds

\* It is no brace that is written twice.
LEMMA EscapeReads ==
  ASSUME NEW f, FieldOfParts(f), NEW e, Clean(text), WithinField(f, e), EscapeChar
  PROVE  FALSE
<1>1. pc = "replacement" /\ token.type \in {"LeftBraceBrace", "RightBraceBrace"}
  BY DEF EscapeChar
<1>2. OnOpen(f, e)
  BY <1>1 DEF WithinField
<1> QED
  BY <1>1, <1>2, OpenStands

LEMMA ReplacementReads ==
  ASSUME NEW f, FieldOfParts(f), NEW e, Clean(text), WithinField(f, e), parse_replacement_field
  PROVE  WithinField(f, e)'
<1>1. pc = "replacement" /\ OnOpen(f, e)
  BY DEF parse_replacement_field, WithinField
<1>2. /\ token.type = IF f.class = "Value" THEN "LeftBrace" ELSE "LeftBraceBracket"
      /\ Left(text, e, current, FromId(f))
  BY <1>1, OpenStands
<1>3. f.class \in {"Value", "Array"}
  BY DEF FieldOfParts
<1>4. parser_next_token(stage, "arg_id", [field EXCEPT !.class = f.class])
  BY <1>2, <1>3 DEF parse_replacement_field
<1>5. IsText(FromId(f)) /\ FromId(f) # <<>>
  BY LeftTexts DEF FieldOfParts
<1>6. lex_next_token(text, current, stage).type = "Digits"
  BY <1>2, IdToken, AcceptedType
<1>7. pc' = "arg_id" /\ field' = [field EXCEPT !.class = f.class] /\ stage' = stage /\ On(e, FromId(f))'
  BY <1>2, <1>4, <1>5, <1>6, NextOn DEF NoToken
<1>8. field' = FoundField(f, 1, "Right") /\ stage = {}
  BY <1>1, <1>7, FoundFirst, Zenon DEF OnOpen
<1>9. OnId(f, e)'
  BY <1>7, <1>8 DEF OnId
<1> QED
  BY <1>7, <1>9 DEF WithinField

LEMMA ArgIdReads ==
  ASSUME NEW f, FieldOfParts(f), NEW e, Clean(text), WithinField(f, e), parse_arg_id
  PROVE  WithinField(f, e)'
<1> DEFINE p == token.beg
           d == f.id.text
<1>1. pc = "arg_id" /\ OnId(f, e) /\ On(e, FromId(f)) /\ Left(text, e, p, FromId(f))
  BY DEF parse_arg_id, WithinField, OnId, On
<1>2. /\ lex_next_token(text, p, stage) = Accept("Digits", p, p + Len(d))
      /\ Holds(text, p, d)
      /\ Left(text, e, p + Len(d), FromType(f))
      /\ IsText(d)
  BY <1>1, IdToken DEF FieldOfParts, PartsAreTexts
<1>3. p \in Nat /\ Len(d) \in Nat /\ p + Len(d) \in Nat
  BY <1>1, <1>2, TextLength DEF Left
<1>4. token.type = "Digits" /\ current = p + Len(d) /\ token.len = (p + Len(d)) - p
  BY <1>1, <1>2, <1>3, TokenEnds
<1>5. token.len = Len(d)
  BY <1>3, <1>4
<1>6. TokenText = d
  BY <1>2, <1>5, TextHeld DEF TokenText
<1>7. lex_atou(TokenText) = f.id.means
  <2>1. IsNumber(f.id, Word) /\ Word \in Nat /\ Word <= Word
    BY ParserAssumption DEF FieldOfParts
  <2>2. lex_atou(f.id.text) = f.id.means
    BY <2>1, NumberTaken
  <2> QED
    BY <1>6, <2>2
<1> DEFINE s == parse_simple_field
<1>8. parser_next_token(s, "arg_type", [field EXCEPT !.id = f.id.means])
  BY <1>4, <1>7 DEF parse_arg_id
<1>9. field = FoundField(f, 1, "Right") /\ field.class = f.class /\ stage = {}
  BY <1>1, FoundFirst, Zenon DEF OnId
<1>10. EarlyStage(f, s)
  BY <1>9 DEF EarlyStage, StageOf, parse_simple_field
<1> HIDE DEF s, p, d
<1>11. Left(text, e, current, FromType(f)) /\ IsText(FromType(f)) /\ FromType(f) # <<>>
  BY <1>2, <1>4, LeftTexts DEF FieldOfParts
<1>12. lex_next_token(text, current, s).type \in DOMAIN ArgTypeOf
  BY <1>11, TypeToken, AcceptedType DEF TypeTokenOf
<1>13. lex_next_token(text, current, s).type \notin NoToken
  BY <1>12 DEF ArgTypeOf, NoToken
<1>14. pc' = "arg_type" /\ field' = [field EXCEPT !.id = f.id.means] /\ stage' = s /\ On(e, FromType(f))'
  BY <1>8, <1>11, <1>13, NextOn
<1>15. field' = FoundField(f, 2, "Right")
  BY <1>9, <1>14, FoundFirst, Zenon
<1>16. OnType(f, e)'
  BY <1>10, <1>14, <1>15 DEF OnType
<1> QED
  BY <1>14, <1>16 DEF WithinField

LEMMA ArgTypeReads ==
  ASSUME NEW f, FieldOfParts(f), NEW e, Clean(text), WithinField(f, e), parse_arg_type
  PROVE  WithinField(f, e)'
<1> DEFINE p == token.beg
           n == 1 + Len(f.type.text)
<1>1. pc = "arg_type" /\ OnType(f, e) /\ On(e, FromType(f)) /\ Left(text, e, p, FromType(f))
  BY DEF parse_arg_type, WithinField, OnType, On
<1>2. TypeTokenOf(text, p, stage, n, f.type.means) /\ Left(text, e, p + n, FromSplit(f))
  BY <1>1, TypeToken
<1>3. n \in Nat /\ p \in Nat /\ p + n \in Nat
  <2>1. Len(f.type.text) \in Nat
    BY TextLength DEF FieldOfParts, PartsAreTexts
  <2> QED
    BY <1>1, <2>1 DEF Left
<1> HIDE DEF n
<1>4. PICK typ \in DOMAIN ArgTypeOf :
        /\ lex_next_token(text, p, stage) = Accept(typ, p, p + n)
        /\ ArgTypeOf[typ] = f.type.means.type
        /\ f.type.means.prop =
             IF typ \in QuatTokens THEN parse_arg_get_fixed_props(CharactersAt(text, p, n)) ELSE 0
  BY <1>2 DEF TypeTokenOf
<1>5. token.type = typ /\ current = p + n /\ token.len = n
  <2>1. token.type = typ /\ current = p + n /\ token.len = (p + n) - p
    BY <1>1, <1>3, <1>4, TokenEnds
  <2> QED
    BY <1>3, <2>1
<1>6. TokenText = CharactersAt(text, p, n)
  BY <1>5 DEF TokenText, CharactersAt
<1>7. field = FoundField(f, 2, "Right") /\ field.class = f.class /\ EarlyStage(f, stage)
  BY <1>1, FoundFirst, Zenon DEF OnType
<1> DEFINE g == [field EXCEPT !.type = f.type.means.type, !.prop = f.type.means.prop]
<1>8. g = FoundField(f, 3, "Right")
  BY <1>7, FoundFirst, Zenon
<1>9. parser_next_token(stage, parse_array_field, g)
  <2>1. parser_next_token(stage, parse_array_field,
            [field EXCEPT !.type = ArgTypeOf[token.type],
                          !.prop = IF token.type \in QuatTokens
                                   THEN parse_arg_get_fixed_props(TokenText) ELSE 0])
    BY <1>4, <1>5 DEF parse_arg_type
  <2>2. ArgTypeOf[token.type] = f.type.means.type
    BY <1>4, <1>5
  <2>3. (IF token.type \in QuatTokens THEN parse_arg_get_fixed_props(TokenText) ELSE 0) = f.type.means.prop
    BY <1>4, <1>5, <1>6
  <2> QED
    BY <2>1, <2>2, <2>3, Zenon
<1> HIDE DEF g, p
<1>10. Left(text, e, current, FromSplit(f)) /\ IsText(FromSplit(f)) /\ FromSplit(f) # <<>>
  BY <1>2, <1>5, LeftTexts DEF FieldOfParts
<1>11. lex_next_token(text, current, stage).type \notin NoToken
  BY <1>7, <1>10, SplitHead DEF EarlyStage
<1>12. pc' = parse_array_field /\ field' = g /\ stage' = stage /\ On(e, FromSplit(f))'
  BY <1>9, <1>10, <1>11, NextOn
<1>13. CASE f.class = "Array"
  <2>1. pc' = "split"
    BY <1>7, <1>12, <1>13 DEF parse_array_field
  <2>2. OnSplit(f, e)'
    BY <1>7, <1>8, <1>12 DEF OnSplit
  <2> QED
    BY <2>1, <2>2 DEF WithinField
<1>14. CASE f.class # "Array"
  <2>1. pc' = "spec"
    BY <1>7, <1>12, <1>14 DEF parse_array_field
  <2>2. f.split.text = <<>> /\ f.split.means = NoField.split
    BY <1>14, NothingFound, Zenon DEF FieldOfParts, SplitParts
  <2>3. FromSplit(f) = FromSpec(f)
    BY <2>2, HeadsOfParts, Zenon DEF FromHeads
  <2>4. field' = FoundField(f, 4, "Right")
    BY <1>8, <1>12, <2>2, FoundSplit
  <2>5. OnSpec(f, e)'
    BY <1>7, <1>12, <2>3, <2>4 DEF OnSpec, EarlyStage
  <2> QED
    BY <2>1, <2>5 DEF WithinField
<1> QED
  BY <1>13, <1>14

--------------------------------------------------------------------------------
(* The steps, over the separators of an array.                                 *)

\* Where the characters of the separators begin and end.
LEMMA SeparatorsStand ==
  ASSUME NEW f, FieldOfParts(f), f.split.text # <<>>, NEW t, Clean(t), NEW e, NEW q,
         Left(t, e, q, f.split.means \o FromSpec(f)), IsText(f.split.means)
  PROVE  /\ Separates(t, q + Len(f.split.means), q, f.split.means)
         /\ Left(t, e, q + Len(f.split.means), FromSpec(f))
         /\ q \in Nat /\ Len(f.split.means) \in Nat
<1> DEFINE m == f.split.means
           r == q + Len(m)
<1>1. IsText(FromSpec(f)) /\ FromSpec(f) # <<>> /\ t \in Seq(STRING)
  BY LeftTexts DEF FieldOfParts, Clean
<1>2. Left(t, r, q, m) /\ Left(t, e, r, FromSpec(f))
  BY <1>1, LeftBehind
<1>3. q \in Nat /\ Len(m) \in Nat
  BY <1>2, TextLength DEF Left
<1>4. /\ f.class = "Array" /\ m \in Seq(STRING \ {":", "}"})
      /\ m # <<>> => m[Len(m)] # "|"
  BY Zenon DEF FieldOfParts, SplitParts
<1>5. \A i \in 1..Len(m) : m[i] \notin {":", "}"}
  <2>1. \A S : m \in Seq(S) => \A i \in 1..Len(m) : m[i] \in S
    OBVIOUS
  <2>2. \A i \in 1..Len(m) : m[i] \in STRING \ {":", "}"}
    BY <1>4, <2>1, Zenon
  <2> QED
    BY <2>2, Zenon
<1>6. At(t, r) \in {":", "]"}
  <2>1. At(t, r) = FromSpec(f)[1]
    BY <1>1, <1>2, LeftBegins
  <2> QED
    BY <1>4, <2>1, HeadsOfParts, Zenon DEF FromHeads
<1> HIDE DEF m, r
<1>7. Separates(t, r, q, m)
  BY <1>2, <1>4, <1>5, <1>6, Zenon DEF Separates
<1> QED
  BY <1>2, <1>3, <1>7 DEF m, r

LEMMA SplitOpens ==
  ASSUME NEW f, FieldOfParts(f), NEW e, Clean(text), WithinField(f, e), parse_opt_split_chars
  PROVE  WithinField(f, e)'
<1> DEFINE p == token.beg
           m == f.split.means
<1>1. pc = "split" /\ OnSplit(f, e) /\ On(e, FromSplit(f)) /\ Left(text, e, p, FromSplit(f))
  BY DEF parse_opt_split_chars, WithinField, OnSplit, On
<1>2. EarlyStage(f, stage) /\ field = FoundField(f, 3, "Right") /\ StageOf(f.class, stage)
  BY <1>1 DEF OnSplit, EarlyStage
<1>3. token = lex_next_token(text, p, stage)
  BY <1>1 DEF On
<1>4. CASE f.split.text = <<>>
  <2>1. On(e, FromSpec(f)) /\ token.type # "VlineColon"
    BY <1>1, <1>2, <1>3, <1>4, SplitHead DEF On
  <2>2. Skip("spec", field)
    BY <2>1 DEF parse_opt_split_chars
  <2>3. pc' = "spec" /\ field' = field /\ stage' = stage /\ On(e, FromSpec(f))'
    BY <2>1, <2>2, SkipOn
  <2>4. f.split.means = NoField.split
    <3>1. f.split.means = <<",", " ">>
      <4>1. SplitParts(f)
        BY DEF FieldOfParts
      <4>2. f.split.text # <<"|", ":">> \o f.split.means
             \/ f.split.means \notin Seq(STRING \ {":", "}"})
        <5> SUFFICES ASSUME f.split.text = <<"|", ":">> \o f.split.means,
                            f.split.means \in Seq(STRING \ {":", "}"})
                     PROVE  FALSE
          BY Zenon
        <5>1. IsText(f.split.means) /\ IsText(<<"|", ":">>) /\ <<"|", ":">> # <<>>
          BY TextOf, Zenon DEF IsText
        <5>2. <<"|", ":">> \o f.split.means # <<>>
          BY <5>1, JoinedCharacters, Zenon
        <5> QED
          BY <1>4, <5>2, Zenon
      <4> QED
        BY <4>1, <4>2, Zenon DEF SplitParts
    <3> QED
      BY <3>1, NothingFound, Zenon
  <2>5. field' = FoundField(f, 4, "Right")
    BY <1>2, <2>3, <2>4, FoundSplit
  <2>6. OnSpec(f, e)'
    BY <1>2, <2>3, <2>5 DEF OnSpec
  <2> QED
    BY <2>3, <2>6 DEF WithinField
<1>5. CASE f.split.text # <<>>
  <2>1. /\ token = Accept("VlineColon", p, p + 2)
        /\ Left(text, e, p + 2, m \o FromSpec(f))
        /\ IsText(m)
    BY <1>1, <1>3, <1>5, SplitToken
  <2>2. p \in Nat
    BY <1>1 DEF Left
  <2>3. token.type = "VlineColon" /\ token.len = (p + 2) - p /\ current = p + token.len
    BY <1>1, <2>1, AcceptedType DEF On
  <2>4. current = p + 2
    BY <2>2, <2>3
  <2>5. parser_next_token(stage, "split_chars", [field EXCEPT !.split = <<>>])
    BY <2>3 DEF parse_opt_split_chars
  <2> DEFINE r == m \o FromSpec(f)
  <2>6. IsText(r) /\ r # <<>>
    BY <2>1, LeftTexts, JoinedCharacters DEF FieldOfParts
  <2>7. lex_next_token(text, current, stage).type \notin NoToken
    <3>1. Separates(text, p + 2 + Len(m), p + 2, m) /\ Left(text, e, p + 2 + Len(m), FromSpec(f)) /\ Len(m) \in Nat
      BY <1>5, <2>1, SeparatorsStand
    <3>2. CASE m = <<>>
      <4>1. p + 2 + Len(m) = current
        BY <2>2, <2>4, <3>2
      <4> QED
        BY <1>2, <3>1, <4>1, SpecHead
    <3>3. CASE m # <<>>
      <4>1. Len(m) >= 1 /\ 0 \in 0..(Len(m) - 1)
        BY <2>1, <3>1, <3>3, JoinedCharacters
      <4>2. "MatchChronoToken" \notin stage
        BY <1>2 DEF EarlyStage
      <4>3. \E n \in 1..(Len(m) - 0) : TokenOf(text, p + 2 + 0, stage, n)
        BY <3>1, <4>1, <4>2, InnerToken
      <4>4. p + 2 + 0 = current
        BY <2>2, <2>4
      <4>5. PICK typ \in InnerTypes : \E n : lex_next_token(text, current, stage) = Accept(typ, current, current + n)
        BY <4>3, <4>4 DEF TokenOf
      <4> QED
        BY <4>5, AcceptedType DEF InnerTypes, NoToken
    <3> QED
      BY <3>2, <3>3
  <2> HIDE DEF r
  <2>8. /\ pc' = "split_chars" /\ field' = [field EXCEPT !.split = <<>>] /\ stage' = stage /\ text' = text
        /\ token' = lex_next_token(text', token'.beg, stage')
        /\ token'.beg = current
        /\ current' = token'.beg + token'.len
    BY <2>1, <2>4, <2>5, <2>6, <2>7, NextToken DEF r
  <2>9. field' = WithSplit(f, Taken(m, 0))
    <3>1. field' = WithSplit(f, <<>>)
      BY <1>2, <2>8, FoundSplit
    <3> QED
      BY <2>1, <3>1, TakenAll
  <2>10. Left(text', e, p + 2, m \o FromSpec(f)) /\ EarlyStage(f, stage')
    BY <1>2, <2>1, <2>8
  <2>11. 0 \in 0..Len(m) /\ token'.beg = (p + 2) + 0
    BY <2>1, <2>2, <2>4, <2>8, JoinedCharacters
  <2>13. PICK q : q = p + 2
    OBVIOUS
  <2>14. token'.beg = q + 0 /\ Left(text', e, q, m \o FromSpec(f))
    BY <2>10, <2>11, <2>13
  <2> HIDE DEF p
  <2>12. InSplit(f, e, q, 0)'
    BY <1>5, <2>1, <2>8, <2>9, <2>10, <2>11, <2>14 DEF InSplit
  <2> QED
    BY <2>8, <2>12 DEF WithinField
<1> QED
  BY <1>4, <1>5

\* The token at each of the separators, and behind the last one.
LEMMA SeparatorToken ==
  ASSUME NEW f, FieldOfParts(f), f.split.text # <<>>, NEW t, Clean(t), NEW e, NEW q,
         Left(t, e, q, f.split.means \o FromSpec(f)), IsText(f.split.means),
         NEW j \in 0..(Len(f.split.means) - 1), NEW s, EarlyStage(f, s)
  PROVE  /\ lex_next_token(t, q + j, s).type \in InnerTypes
         /\ lex_next_token(t, q + j, s).len \in 1..(Len(f.split.means) - j)
<1> DEFINE m == f.split.means
           k == lex_next_token(t, q + j, s)
<1>1. Separates(t, q + Len(m), q, m) /\ q \in Nat /\ Len(m) \in Nat
  BY SeparatorsStand
<1>2. "MatchChronoToken" \notin s
  BY DEF EarlyStage
<1>3. PICK n \in 1..(Len(m) - j) : TokenOf(t, q + j, s, n)
  BY <1>1, <1>2, InnerToken
<1>4. PICK typ \in InnerTypes : k = Accept(typ, q + j, q + j + n)
  BY <1>3 DEF TokenOf
<1>5. k.type = typ /\ k.len = (q + j + n) - (q + j)
  BY <1>4, AcceptedType
<1> HIDE DEF k
<1>6. k.len = n
  BY <1>1, <1>3, <1>5
<1> QED
  BY <1>3, <1>5, <1>6 DEF k

\* The same for all of them.
LEMMA SeparatorTokens ==
  ASSUME NEW f, FieldOfParts(f), f.split.text # <<>>, NEW t, Clean(t), NEW e, NEW q,
         Left(t, e, q, f.split.means \o FromSpec(f)), IsText(f.split.means),
         NEW s, EarlyStage(f, s)
  PROVE  /\ \A j \in 0..(Len(f.split.means) - 1) :
              /\ lex_next_token(t, q + j, s).type \in InnerTypes
              /\ lex_next_token(t, q + j, s).len \in 1..(Len(f.split.means) - j)
         /\ lex_next_token(t, q + Len(f.split.means), s).type \in {"Colon", "RightBrace", "RightBracketBrace"}
<1>1. lex_next_token(t, q + Len(f.split.means), s).type \in {"Colon", "RightBrace", "RightBracketBrace"}
  BY SeparatorsStand, SpecHead DEF EarlyStage
<1>2. ASSUME NEW j \in 0..(Len(f.split.means) - 1)
      PROVE  /\ lex_next_token(t, q + j, s).type \in InnerTypes
             /\ lex_next_token(t, q + j, s).len \in 1..(Len(f.split.means) - j)
  BY SeparatorToken
<1> QED
  BY <1>1, <1>2

\* The loop over the separators ends behind the last of them.
LEMMA SplitReads ==
  ASSUME NEW f, FieldOfParts(f), NEW e, Clean(text), WithinField(f, e), parse_split_chars
  PROVE  WithinField(f, e)'
<1> DEFINE m == f.split.means
<1>1. PICK q, j : InSplit(f, e, q, j)
  BY DEF parse_split_chars, WithinField
<1>2. /\ f.split.text # <<>> /\ IsText(m)
      /\ Left(text, e, q, m \o FromSpec(f))
      /\ j \in 0..Len(m)
      /\ token.beg = q + j
      /\ token = lex_next_token(text, q + j, stage)
      /\ current = token.beg + token.len
      /\ EarlyStage(f, stage)
      /\ field = WithSplit(f, Taken(m, j))
  BY <1>1 DEF InSplit
<1>3. Separates(text, q + Len(m), q, m) /\ Left(text, e, q + Len(m), FromSpec(f)) /\ q \in Nat /\ Len(m) \in Nat
  BY <1>2, SeparatorsStand
<1> DEFINE Tok(i) == lex_next_token(text, q + i, stage)
<1>6. /\ \A i \in 0..(Len(m) - 1) : Tok(i).type \in InnerTypes /\ Tok(i).len \in 1..(Len(m) - i)
      /\ Tok(Len(m)).type \in {"Colon", "RightBrace", "RightBracketBrace"}
  BY <1>2, SeparatorTokens
<1>7. token = Tok(j)
  BY <1>2
<1> HIDE DEF Tok, m
<1>4. CASE j = Len(m)
  <2>1. token.type \in {"Colon", "RightBrace", "RightBracketBrace"}
    BY <1>2, <1>4, <1>6, <1>7
  <2>2. Skip("spec", field)
    BY <2>1 DEF parse_split_chars
  <2>3. On(e, FromSpec(f))
    BY <1>2, <1>3, <1>4 DEF On
  <2>4. pc' = "spec" /\ field' = field /\ stage' = stage /\ On(e, FromSpec(f))'
    BY <2>2, <2>3, SkipOn
  <2>5. field' = FoundField(f, 4, "Right")
    <3>1. Taken(m, j) = m
      BY <1>2, <1>4, TakenAll
    <3> QED
      BY <1>2, <2>4, <3>1, FoundSplit DEF m
  <2>6. OnSpec(f, e)'
    BY <1>2, <2>4, <2>5 DEF OnSpec, EarlyStage
  <2> QED
    BY <2>4, <2>6 DEF WithinField
<1>5. CASE j # Len(m)
  <2> DEFINE n == token.len
  <2>17. j \in 0..(Len(m) - 1)
    BY <1>2, <1>3, <1>5
  <2>1. n \in 1..(Len(m) - j)
    BY <2>17, <1>6, <1>7 DEF InnerTypes
  <2>2. token.type \notin {"Colon", "RightBrace", "RightBracketBrace"}
    BY <2>17, <1>6, <1>7 DEF InnerTypes
  <2>3. j \in Nat /\ n \in Nat /\ j + n \in 0..Len(m)
    BY <1>2, <1>3, <2>1
  <2> HIDE DEF n
  <2>4. current = q + (j + n)
    BY <1>2, <1>3, <2>3 DEF n
  <2>5. TokenText = CharactersAt(text, q + j, n)
    BY <1>2 DEF TokenText, CharactersAt, n
  <2>6. Taken(m, j) \o TokenText = Taken(m, j + n)
    <3>1. Left(text, q + Len(m), q, m)
      BY <1>3, Zenon DEF Separates
    <3>2. j \in 0..Len(m) /\ n \in 1..(Len(m) - j)
      BY <1>2, <2>1
    <3>3. Taken(m, j) \o CharactersAt(text, q + j, n) = Taken(m, j + n)
      BY <3>1, <3>2, TokenTaken
    <3> QED
      BY <2>5, <3>3
  <2>7. parser_next_token(stage, "split_chars", [field EXCEPT !.split = @ \o TokenText])
    BY <2>2 DEF parse_split_chars
  <2>8. [field EXCEPT !.split = @ \o TokenText] = WithSplit(f, Taken(m, j + n))
    <3>1. \A x, y : [WithSplit(f, x) EXCEPT !.split = @ \o y] = WithSplit(f, x \o y)
      BY FoundSplit
    <3>2. \A F, x, y : F = WithSplit(f, x) => [F EXCEPT !.split = @ \o y] = WithSplit(f, x \o y)
      BY <3>1, Zenon
    <3>3. field = WithSplit(f, Taken(m, j))
      BY <1>2
    <3>4. [field EXCEPT !.split = @ \o TokenText] = WithSplit(f, Taken(m, j) \o TokenText)
      BY <3>2, <3>3, Zenon
    <3> QED
      BY <2>6, <3>4, Zenon
  <2>9. lex_next_token(text, current, stage).type \notin NoToken
    <3>1. j + n \in 0..(Len(m) - 1) \/ j + n = Len(m)
      BY <1>3, <2>3
    <3>2. Tok(j + n).type \notin NoToken
      BY <1>6, <3>1 DEF InnerTypes, NoToken
    <3> QED
      BY <2>4, <3>2 DEF Tok
  <2> DEFINE c == q + (j + n)
             g == [field EXCEPT !.split = @ \o TokenText]
             tok == lex_next_token(text, current, stage)
  <2>10. tok.beg = current
    <3>1. c \in 1..(Len(text) + 2)
      <4>1. Len(text) \in Nat /\ q >= 1 /\ Left(text, q + Len(m), q, m) /\ q + Len(m) <= Len(text) + 1
        <5>1. Left(text, q + Len(m), q, m)
          BY <1>3, Zenon DEF Separates
        <5>2. Len(text) \in Nat
          BY DEF Clean
        <5> QED
          BY <5>1, <5>2 DEF Left
      <4> QED
        BY <1>3, <2>3, <4>1
    <3>2. Lexed(text, current, tok)
      BY <2>4, <3>1, LexerLexed DEF Clean
    <3> QED
      BY <3>2 DEF Lexed
  <2>11. /\ pc' = "split_chars" /\ field' = g /\ stage' = stage /\ text' = text
         /\ token' = tok /\ current' = current + tok.len
    BY <2>7, <2>9 DEF parser_next_token, NoToken
  <2> HIDE DEF g, tok
  <2>12. /\ token'.beg = q + (j + n)
         /\ token' = lex_next_token(text', token'.beg, stage')
         /\ current' = token'.beg + token'.len
    BY <2>4, <2>10, <2>11 DEF tok
  <2>13. field' = WithSplit(f, Taken(m, j + n))
    BY <2>8, <2>11 DEF g
  <2>14. Left(text', e, q, m \o FromSpec(f)) /\ EarlyStage(f, stage')
    BY <1>2, <2>11
  <2>15. PICK h : h = j + n
    OBVIOUS
  <2>16. InSplit(f, e, q, h)'
    BY <1>2, <2>3, <2>12, <2>13, <2>14, <2>15 DEF InSplit, m
  <2> QED
    BY <2>11, <2>16 DEF WithinField
<1> QED
  BY <1>4, <1>5

\* A specification without text has no parts.
LEMMA SpecAbsent ==
  ASSUME NEW f, FieldOfParts(f), SpecText(f.spec) = <<>>
  PROVE  /\ f.spec.fill.text = <<>> /\ f.spec.align.text = <<>> /\ f.spec.sign.text = <<>>
         /\ f.spec.width.text = <<>> /\ f.spec.fmt.text = <<>> /\ f.spec.items.text = <<>>
<1> DEFINE s == f.spec
           A == s.fill.text \o s.align.text
           B == A \o s.sign.text
           C == B \o s.width.text
           D == C \o s.fmt.text
<1>1. /\ IsText(s.fill.text) /\ IsText(s.align.text) /\ IsText(s.sign.text)
      /\ IsText(s.width.text) /\ IsText(s.fmt.text) /\ IsText(s.items.text)
  BY DEF FieldOfParts, PartsAreTexts
<1>2. D \o s.items.text = <<>>
  BY DEF SpecText
<1> HIDE DEF s
<1>3. /\ \A x, y : IsText(x) /\ IsText(y) => IsText(x \o y)
      /\ \A x, y : IsText(x) /\ IsText(y) /\ x \o y = <<>> => x = <<>> /\ y = <<>>
  BY JoinedCharacters
<1>4. IsText(A)
  BY <1>1, <1>3
<1>5. IsText(B)
  BY <1>1, <1>3, <1>4
<1>6. IsText(C)
  BY <1>1, <1>3, <1>5
<1>7. IsText(D)
  BY <1>1, <1>3, <1>6
<1> HIDE DEF A, B, C, D
<1>8. D = <<>> /\ s.items.text = <<>>
  BY <1>1, <1>2, <1>3, <1>7
<1>9. C = <<>> /\ s.fmt.text = <<>>
  BY <1>1, <1>3, <1>6, <1>8 DEF D
<1>10. B = <<>> /\ s.width.text = <<>>
  BY <1>1, <1>3, <1>5, <1>9 DEF C
<1>11. A = <<>> /\ s.sign.text = <<>>
  BY <1>1, <1>3, <1>4, <1>10 DEF B
<1>12. s.fill.text = <<>> /\ s.align.text = <<>>
  BY <1>1, <1>3, <1>11 DEF A
<1> QED
  BY <1>8, <1>9, <1>10, <1>11, <1>12 DEF s

--------------------------------------------------------------------------------
(* The steps, over the specification.                                          *)

\* A part that is absent means what is taken for known before.
LEMMA AbsentMeans ==
  ASSUME NEW f, FieldOfParts(f)
  PROVE  /\ f.spec.fill.text = <<>> => f.spec.fill.means = NoField.fill
         /\ f.spec.align.text = <<>> => f.spec.align.means = "Right"
         /\ f.spec.sign.text = <<>> => f.spec.sign.means = NoField.sign
         /\ f.spec.width.text = <<>> => f.spec.width.means = NoField.width
         /\ f.spec.fmt.text = <<>> => f.spec.fmt.means = NoField.fmt
         /\ f.spec.items.text = <<>> => f.spec.items.means = NoField.items
<1>1. SpecParts(f.spec) /\ ItemParts(f.spec.items)
  BY DEF FieldOfParts
<1>2. \A c : <<c>> # <<>>
  BY OneCharacter
<1>3. f.spec.fill.text = <<>> => f.spec.fill.means = NoField.fill
  <2>1. f.spec.fill.text = <<>> => f.spec.fill.means = " "
    BY <1>1, <1>2, Zenon DEF SpecParts
  <2> QED
    BY <2>1, NothingFound, Zenon
<1>4. f.spec.align.text = <<>> => f.spec.align.means = "Right"
  BY <1>1, <1>2, Zenon DEF SpecParts
<1>5. f.spec.sign.text = <<>> => f.spec.sign.means = NoField.sign
  <2>1. f.spec.sign.text = <<>> => f.spec.sign.means = "NegOnly"
    BY <1>1, <1>2, Zenon DEF SpecParts
  <2> QED
    BY <2>1, NothingFound, Zenon
<1>6. f.spec.width.text = <<>> => f.spec.width.means = NoField.width
  <2>1. f.spec.width.text = <<>> => f.spec.width.means = -1
    BY <1>1, Zenon DEF SpecParts, IsDigits
  <2> QED
    BY <2>1, NothingFound, Zenon
<1>7. f.spec.fmt.text = <<>> => f.spec.fmt.means = NoField.fmt
  <2>1. f.spec.fmt.text = <<>> => f.spec.fmt.means = UnSpec
    BY <1>1, <1>2, Zenon DEF SpecParts
  <2> QED
    BY <2>1, NothingFound, Zenon
<1>8. f.spec.items.text = <<>> => f.spec.items.means = NoField.items
  <2> SUFFICES ASSUME f.spec.items.text = <<>> PROVE f.spec.items.means = NoField.items
    OBVIOUS
  <2>1. \A c, d : <<c, d>> # <<>>
    OBVIOUS
  <2>2. ~UserItems(f.spec.items)
    <3> SUFFICES ASSUME UserItems(f.spec.items) PROVE FALSE
      OBVIOUS
    <3>1. ItemsText(f.spec.items.means) # <<>>
      BY ItemsBegin DEF UserItems
    <3> QED
      BY <3>1 DEF UserItems
  <2>3. f.spec.items.means = <<>>
    BY <1>1, <2>1, <2>2, Zenon DEF ItemParts
  <2> QED
    BY <2>3, NothingFound, Zenon
<1> QED
  BY <1>3, <1>4, <1>5, <1>6, <1>7, <1>8

\* Nothing more is known of a field behind a part that is absent.
LEMMA AbsentFound ==
  ASSUME NEW f, FieldOfParts(f), NEW a
  PROVE  /\ f.spec.fill.text = <<>> => FoundField(f, 4, a) = FoundField(f, 5, a)
         /\ f.spec.sign.text = <<>> => FoundField(f, 5, a) = FoundField(f, 6, a)
         /\ f.spec.width.text = <<>> => FoundField(f, 6, a) = FoundField(f, 7, a)
         /\ f.spec.fmt.text = <<>> => FoundField(f, 7, a) = FoundField(f, 8, a)
         /\ f.spec.items.text = <<>> => FoundField(f, 8, a) = FoundField(f, 9, a)
<1>1. f.spec.fill.text = <<>> => FoundField(f, 4, a) = FoundField(f, 5, a)
  <2>1. f.spec.fill.text = <<>> => f.spec.fill.means = NoField.fill
    BY AbsentMeans
  <2>2. f.spec.fill.means = NoField.fill => FoundField(f, 4, a) = FoundField(f, 5, a)
    BY FoundSpec
  <2> QED
    BY <2>1, <2>2
<1>2. f.spec.sign.text = <<>> => FoundField(f, 5, a) = FoundField(f, 6, a)
  <2>1. f.spec.sign.text = <<>> => f.spec.sign.means = NoField.sign
    BY AbsentMeans
  <2>2. f.spec.sign.means = NoField.sign => FoundField(f, 5, a) = FoundField(f, 6, a)
    BY FoundSpec
  <2> QED
    BY <2>1, <2>2
<1>3. f.spec.width.text = <<>> => FoundField(f, 6, a) = FoundField(f, 7, a)
  <2>1. f.spec.width.text = <<>> => f.spec.width.means = NoField.width
    BY AbsentMeans
  <2>2. f.spec.width.means = NoField.width => FoundField(f, 6, a) = FoundField(f, 7, a)
    BY FoundSpec
  <2> QED
    BY <2>1, <2>2
<1>4. f.spec.fmt.text = <<>> => FoundField(f, 7, a) = FoundField(f, 8, a)
  <2>1. f.spec.fmt.text = <<>> => f.spec.fmt.means = NoField.fmt
    BY AbsentMeans
  <2>2. f.spec.fmt.means = NoField.fmt => FoundField(f, 7, a) = FoundField(f, 8, a)
    BY FoundTimes
  <2> QED
    BY <2>1, <2>2
<1>5. f.spec.items.text = <<>> => FoundField(f, 8, a) = FoundField(f, 9, a)
  <2>1. f.spec.items.text = <<>> => f.spec.items.means = NoField.items
    BY AbsentMeans
  <2>2. FoundField(f, 8, a) = WithItems(f, a, NoField.items) /\ FoundField(f, 9, a) = WithItems(f, a, f.spec.items.means)
    BY FoundTimes, Zenon
  <2> QED
    BY <2>1, <2>2
<1> QED
  BY <1>1, <1>2, <1>3, <1>4, <1>5

LEMMA SpecReads ==
  ASSUME NEW f, FieldOfParts(f), NEW e, Clean(text), WithinField(f, e), parse_opt_formatfield_spec
  PROVE  WithinField(f, e)'
<1> DEFINE p == token.beg
<1>1. pc = "spec" /\ OnSpec(f, e) /\ On(e, FromSpec(f)) /\ Left(text, e, p, FromSpec(f))
  BY DEF parse_opt_formatfield_spec, WithinField, OnSpec, On
<1>2. StageOf(f.class, stage) /\ field = FoundField(f, 4, "Right") /\ token = lex_next_token(text, p, stage)
  BY <1>1 DEF OnSpec, On
<1>3. CASE SpecText(f.spec) # <<>>
  <2>1. token = Accept("Colon", p, p + 1) /\ Left(text, e, p + 1, FromFill(f))
    BY <1>1, <1>2, <1>3, SpecColon
  <2>2. p \in Nat
    BY <1>1 DEF Left
  <2>3. token.type = "Colon" /\ token.len = (p + 1) - p /\ current = p + token.len
    BY <1>1, <2>1, AcceptedType DEF On
  <2>4. current = p + 1
    BY <2>2, <2>3
  <2> DEFINE s == stage \cup {"MatchChronoToken"}
  <2>5. parser_next_token(s, "items", field)
    BY <2>3 DEF parse_opt_formatfield_spec
  <2>6. LateStage(f, s)
    BY <1>2 DEF LateStage, StageOf
  <2> HIDE DEF s, p
  <2>7. Left(text, e, current, FromFill(f)) /\ IsText(FromFill(f)) /\ FromFill(f) # <<>>
    BY <2>1, <2>4, LeftTexts DEF FieldOfParts
  <2>8. lex_next_token(text, current, s).type \notin NoToken
    BY <2>6, <2>7, FillHead
  <2>9. pc' = "items" /\ field' = field /\ stage' = s /\ On(e, FromFill(f))'
    BY <2>5, <2>7, <2>8, NextOn
  <2>10. OnFill(f, e)'
    BY <1>2, <1>3, <2>6, <2>9 DEF OnFill
  <2> QED
    BY <2>9, <2>10 DEF WithinField
<1>4. CASE SpecText(f.spec) = <<>>
  <2>1. token = Accept(CloseType(f), p, e) /\ Left(text, e, p, CloseText(f))
    BY <1>1, <1>2, <1>4, SpecClose
  <2>2. token.type # "Colon"
    BY <2>1, AcceptedType DEF CloseType
  <2>3. Skip("end", field)
    BY <2>2 DEF parse_opt_formatfield_spec
  <2>4. On(e, CloseText(f))
    BY <1>1, <2>1 DEF On
  <2>5. pc' = "end" /\ field' = field /\ stage' = stage /\ On(e, CloseText(f))'
    BY <2>3, <2>4, SkipOn
  <2>6. /\ f.spec.fill.text = <<>> /\ f.spec.align.text = <<>> /\ f.spec.sign.text = <<>>
        /\ f.spec.width.text = <<>> /\ f.spec.fmt.text = <<>> /\ f.spec.items.text = <<>>
    BY <1>4, SpecAbsent
  <2>7. FoundField(f, 4, "Right") = FoundField(f, 9, "Right")
    BY <2>6, AbsentFound
  <2>9. field' = FoundField(f, 9, "Right") /\ AlignFound(f, "Right")
    BY <1>2, <2>5, <2>6, <2>7 DEF AlignFound
  <2>10. OnClose(f, e, "Right")'
    BY <1>2, <2>5, <2>9 DEF OnClose, AlignFound
  <2> QED
    BY <2>5, <2>10 DEF WithinField
<1> QED
  BY <1>3, <1>4

\* The alignment, and on to what follows it.
LEMMA AlignTaken ==
  ASSUME NEW f, FieldOfParts(f), NEW e, Clean(text), LateStage(f, stage), On(e, FromAlign(f)),
         f.spec.align.text # <<>>, field = FoundField(f, 5, "Right"),
         parser_next_token(stage, "sign", [field EXCEPT !.align = AlignOf[token.type]])
  PROVE  WithinField(f, e)'
<1> DEFINE p == token.beg
           a == f.spec.align.means
<1>1. Left(text, e, p, FromAlign(f)) /\ token = lex_next_token(text, p, stage) /\ current = p + token.len
  BY DEF On
<1>2. /\ token = Accept(token.type, p, p + 1)
      /\ a = AlignOf[token.type]
      /\ Left(text, e, p + 1, FromSign(f))
  BY <1>1, AlignToken
<1>3. p \in Nat /\ token.len = (p + 1) - p
  BY <1>1, <1>2, AcceptedType DEF Left
<1>4. current = p + 1
  BY <1>1, <1>3
<1>5. [field EXCEPT !.align = AlignOf[token.type]] = FoundField(f, 5, a)
  <2>1. \A b : [FoundField(f, 5, "Right") EXCEPT !.align = b] = FoundField(f, 5, b)
    BY FoundSpec
  <2> QED
    BY <1>2, <2>1
<1> HIDE DEF p
<1>6. Left(text, e, current, FromSign(f)) /\ IsText(FromSign(f)) /\ FromSign(f) # <<>>
  BY <1>2, <1>4, LeftTexts DEF FieldOfParts
<1>7. lex_next_token(text, current, stage).type \notin NoToken
  BY <1>6, SignHead
<1>8. pc' = "sign" /\ field' = FoundField(f, 5, a) /\ stage' = stage /\ On(e, FromSign(f))'
  BY <1>5, <1>6, <1>7, NextOn
<1>9. AlignFound(f, a)
  BY DEF AlignFound
<1>10. OnSign(f, e, a)'
  BY <1>8, <1>9 DEF OnSign, AlignFound
<1> QED
  BY <1>8, <1>10 DEF WithinField

LEMMA AlignReads ==
  ASSUME NEW f, FieldOfParts(f), NEW e, Clean(text), WithinField(f, e), parse_align
  PROVE  WithinField(f, e)'
<1>1. /\ pc \in {"items", "align"} /\ token.type \in AlignTokens
      /\ parser_next_token(stage, "sign", [field EXCEPT !.align = AlignOf[token.type]])
  BY DEF parse_align
<1>2. CASE pc = "align"
  <2>1. OnAlign(f, e)
    BY <1>2 DEF WithinField
  <2> QED
    BY <1>1, <2>1, AlignTaken DEF OnAlign
<1>3. CASE pc = "items"
  <2>1. On(e, FromFill(f)) /\ LateStage(f, stage) /\ field = FoundField(f, 4, "Right")
    BY <1>3 DEF WithinField, OnFill
  <2>2. Left(text, e, token.beg, FromFill(f)) /\ token = lex_next_token(text, token.beg, stage)
    BY <2>1 DEF On
  <2>3. f.spec.fill.text = <<>> /\ Left(text, e, token.beg, FromAlign(f))
    BY <1>1, <2>1, <2>2, FillHead
  <2>4. f.spec.align.text # <<>> /\ On(e, FromAlign(f))
    BY <1>1, <2>1, <2>2, <2>3, AlignHead DEF On
  <2>5. field = FoundField(f, 5, "Right")
    BY <2>1, <2>3, AbsentFound
  <2> QED
    BY <1>1, <2>1, <2>4, <2>5, AlignTaken
<1> QED
  BY <1>1, <1>2, <1>3

\* A token of one character.
LEMMA OneOn ==
  ASSUME NEW e, NEW r, On(e, r), NEW typ, lex_next_token(text, token.beg, stage) = Accept(typ, token.beg, token.beg + 1)
  PROVE  token.type = typ /\ current = token.beg + 1 /\ token.beg \in Nat
<1>1. token.beg \in Nat /\ token = lex_next_token(text, token.beg, stage) /\ current = token.beg + token.len
  BY DEF On, Left
<1>2. token.type = typ /\ token.len = (token.beg + 1) - token.beg
  BY <1>1, AcceptedType
<1> QED
  BY <1>1, <1>2

\* The sign, and on to what follows it.
LEMMA SignTaken ==
  ASSUME NEW f, FieldOfParts(f), NEW e, Clean(text), LateStage(f, stage), On(e, FromSign(f)),
         f.spec.sign.text # <<>>, NEW a, field = FoundField(f, 5, a), NEW to, Sign(to)
  PROVE  pc' = to /\ field' = FoundField(f, 6, a) /\ stage' = stage /\ On(e, FromWidth(f))'
<1>1. Left(text, e, token.beg, FromSign(f))
  BY DEF On
<1>2. /\ lex_next_token(text, token.beg, stage) = Accept("OtherChar", token.beg, token.beg + 1)
      /\ f.spec.sign.means = SignOf(FirstChar)
      /\ Left(text, e, token.beg + 1, FromWidth(f))
  BY <1>1, SignToken DEF FirstChar
<1>3. current = token.beg + 1
  BY <1>2, OneOn
<1>4. [field EXCEPT !.sign = SignOf(FirstChar)] = FoundField(f, 6, a)
  <2>1. [FoundField(f, 5, a) EXCEPT !.sign = f.spec.sign.means] = FoundField(f, 6, a)
    BY FoundSpec
  <2> QED
    BY <1>2, <2>1, Zenon
<1>5. Left(text, e, current, FromWidth(f)) /\ IsText(FromWidth(f)) /\ FromWidth(f) # <<>>
  BY <1>2, <1>3, LeftTexts DEF FieldOfParts
<1>6. lex_next_token(text, current, stage).type \notin NoToken
  BY <1>5, WidthHead
<1>7. parser_next_token(stage, to, [field EXCEPT !.sign = SignOf(FirstChar)])
  BY DEF Sign
<1>8. pc' = to /\ field' = [field EXCEPT !.sign = SignOf(FirstChar)] /\ stage' = stage /\ On(e, FromWidth(f))'
  BY <1>5, <1>6, <1>7, NextOn
<1> QED
  BY <1>4, <1>8

\* The format, and on to the end.
LEMMA FormatTaken ==
  ASSUME NEW f, FieldOfParts(f), NEW e, Clean(text), LateStage(f, stage), On(e, FromFormat(f)),
         f.spec.fmt.text # <<>>, NEW a, AlignFound(f, a), field = FoundField(f, 7, a), parse_format_spec
  PROVE  WithinField(f, e)'
<1>1. Left(text, e, token.beg, FromFormat(f))
  BY DEF On
<1>2. /\ lex_next_token(text, token.beg, stage) = Accept("OtherChar", token.beg, token.beg + 1)
      /\ FirstChar \in DOMAIN FormatTypeOf
      /\ f.spec.fmt.means = FormatTypeOf[FirstChar]
      /\ Left(text, e, token.beg + 1, FromItems(f))
  BY <1>1, FormatToken DEF FirstChar
<1>3. current = token.beg + 1
  BY <1>2, OneOn
<1>4. f.spec.items.text = <<>> /\ FromItems(f) = CloseText(f)
  <2>1. f.spec.items.text = <<>>
    BY Zenon DEF FieldOfParts, SpecParts
  <2> QED
    BY <2>1, HeadsOfParts, Zenon DEF FromHeads
<1>5. [field EXCEPT !.fmt = FormatTypeOf[FirstChar]] = FoundField(f, 9, a)
  <2>1. [FoundField(f, 7, a) EXCEPT !.fmt = f.spec.fmt.means] = FoundField(f, 8, a)
    BY FoundTimes
  <2>2. FoundField(f, 8, a) = FoundField(f, 9, a)
    BY <1>4, AbsentFound
  <2> QED
    BY <1>2, <2>1, <2>2, Zenon
<1>6. Left(text, e, current, CloseText(f)) /\ IsText(CloseText(f)) /\ CloseText(f) # <<>>
  BY <1>2, <1>3, <1>4, ClosingTexts, Zenon
<1>7. StageOf(f.class, stage)
  BY DEF LateStage
<1>8. lex_next_token(text, current, stage).type \notin NoToken
  <2>1. lex_next_token(text, current, stage) = Accept(CloseType(f), current, e)
    BY <1>6, <1>7, CloseToken DEF FieldOfParts, Clean
  <2> QED
    BY <2>1, AcceptedType DEF CloseType, NoToken
<1>9. parser_next_token(stage, "end", [field EXCEPT !.fmt = FormatTypeOf[FirstChar]])
  BY <1>2 DEF parse_format_spec
<1>10. /\ pc' = "end" /\ field' = [field EXCEPT !.fmt = FormatTypeOf[FirstChar]] /\ stage' = stage
       /\ On(e, CloseText(f))'
  BY <1>6, <1>8, <1>9, NextOn
<1>11. OnClose(f, e, a)'
  BY <1>5, <1>7, <1>10 DEF OnClose, AlignFound
<1> QED
  BY <1>10, <1>11 DEF WithinField

LEMMA SignReads ==
  ASSUME NEW f, FieldOfParts(f), NEW e, Clean(text), WithinField(f, e), parse_opt_sign
  PROVE  WithinField(f, e)'
<1>1. pc = "sign" /\ \E a : OnSign(f, e, a)
  BY DEF parse_opt_sign, WithinField
<1>2. PICK a : OnSign(f, e, a)
  BY <1>1
<1>3. LateStage(f, stage) /\ AlignFound(f, a)
  BY <1>2 DEF OnSign
<1>4. CASE On(e, FromSign(f)) /\ field = FoundField(f, 5, a) /\ f.spec.sign.text # <<>>
  <2>1. Left(text, e, token.beg, FromSign(f)) /\ token = lex_next_token(text, token.beg, stage)
    BY <1>4 DEF On
  <2>2. IsSign
    BY <1>3, <1>4, <2>1, SignHead DEF IsSign, FirstChar
  <2>3. Sign("width")
    BY <2>2 DEF parse_opt_sign
  <2>4. pc' = "width" /\ field' = FoundField(f, 6, a) /\ stage' = stage /\ On(e, FromWidth(f))'
    BY <1>3, <1>4, <2>3, SignTaken
  <2>5. OnWidth(f, e, a)'
    BY <1>3, <2>4 DEF OnWidth, AlignFound
  <2> QED
    BY <2>4, <2>5 DEF WithinField
<1>5. CASE On(e, FromWidth(f)) /\ field = FoundField(f, 6, a)
  <2>1. Left(text, e, token.beg, FromWidth(f))
    BY <1>5 DEF On
  <2>2. ~IsSign
    BY <1>3, <2>1, WidthHead DEF IsSign, FirstChar
  <2>3. Skip("width", field)
    BY <2>2 DEF parse_opt_sign
  <2>4. pc' = "width" /\ field' = field /\ stage' = stage /\ On(e, FromWidth(f))'
    BY <1>5, <2>3, SkipOn
  <2>5. OnWidth(f, e, a)'
    BY <1>3, <1>5, <2>4 DEF OnWidth, AlignFound
  <2> QED
    BY <2>4, <2>5 DEF WithinField
<1>6. CASE On(e, FromSign(f)) /\ field = FoundField(f, 5, a) /\ f.spec.sign.text = <<>>
  <2>1. FromSign(f) = FromWidth(f)
    BY <1>6, HeadsOfParts, Zenon DEF FromHeads
  <2>2. field = FoundField(f, 6, a)
    BY <1>6, AbsentFound
  <2> QED
    BY <1>5, <1>6, <2>1, <2>2
<1> QED
  BY <1>2, <1>4, <1>5, <1>6 DEF OnSign

LEMMA WidthReads ==
  ASSUME NEW f, FieldOfParts(f), NEW e, Clean(text), WithinField(f, e), parse_opt_width
  PROVE  WithinField(f, e)'
<1> DEFINE d == f.spec.width.text
<1>1. pc = "width" /\ \E a : OnWidth(f, e, a)
  BY DEF parse_opt_width, WithinField
<1>2. PICK a : OnWidth(f, e, a)
  BY <1>1
<1>3. /\ LateStage(f, stage) /\ AlignFound(f, a) /\ On(e, FromWidth(f)) /\ field = FoundField(f, 6, a)
      /\ Left(text, e, token.beg, FromWidth(f)) /\ token = lex_next_token(text, token.beg, stage)
  BY <1>2 DEF OnWidth, On
<1>4. CASE d # <<>>
  <2> DEFINE p == token.beg
  <2>1. /\ lex_next_token(text, p, stage) = Accept("Digits", p, p + Len(d))
        /\ Holds(text, p, d)
        /\ Left(text, e, p + Len(d), FromFormat(f))
        /\ IsText(d) /\ IsNumber(f.spec.width, PlaceMaxWidth)
    BY <1>3, <1>4, WidthToken DEF IsDigits
  <2>2. p \in Nat /\ Len(d) \in Nat /\ p + Len(d) \in Nat
    BY <1>3, <2>1, TextLength DEF Left
  <2>3. token.type = "Digits" /\ current = p + Len(d) /\ token.len = (p + Len(d)) - p
    BY <1>3, <2>1, <2>2, TokenEnds
  <2>4. token.len = Len(d)
    BY <2>2, <2>3
  <2>5. TokenText = d
    BY <2>1, <2>4, TextHeld DEF TokenText
  <2>6. lex_atou(TokenText) = f.spec.width.means /\ f.spec.width.means \in 0..(PlaceMaxWidth - 1)
    <3>1. PlaceMaxWidth \in Nat /\ PlaceMaxWidth <= Word
      BY ParserAssumption, ReaderAssumption
    <3>2. lex_atou(f.spec.width.text) = f.spec.width.means /\ f.spec.width.means \in 0..(PlaceMaxWidth - 1)
      BY <2>1, <3>1, NumberTaken
    <3> QED
      BY <2>5, <3>2
  <2>7. parser_next_token(stage, "format", [field EXCEPT !.width = f.spec.width.means])
    BY <2>3, <2>6 DEF parse_opt_width
  <2>8. [field EXCEPT !.width = f.spec.width.means] = FoundField(f, 7, a)
    <3>1. [FoundField(f, 6, a) EXCEPT !.width = f.spec.width.means] = FoundField(f, 7, a)
      BY FoundSpec
    <3> QED
      BY <1>3, <3>1, Zenon
  <2> HIDE DEF p, d
  <2>9. Left(text, e, current, FromFormat(f)) /\ IsText(FromFormat(f)) /\ FromFormat(f) # <<>>
    BY <2>1, <2>3, LeftTexts DEF FieldOfParts
  <2>10. lex_next_token(text, current, stage).type \notin NoToken
    BY <1>3, <2>9, FormatHead
  <2>11. pc' = "format" /\ field' = FoundField(f, 7, a) /\ stage' = stage /\ On(e, FromFormat(f))'
    BY <2>7, <2>8, <2>9, <2>10, NextOn
  <2>12. OnFormat(f, e, a)'
    BY <1>3, <2>11 DEF OnFormat, AlignFound
  <2> QED
    BY <2>11, <2>12 DEF WithinField
<1>5. CASE d = <<>>
  <2>1. token.type # "Digits" /\ Left(text, e, token.beg, FromFormat(f))
    BY <1>3, <1>5, WidthHead
  <2>2. Skip("format", field)
    BY <2>1 DEF parse_opt_width
  <2>3. On(e, FromFormat(f))
    BY <1>3, <2>1 DEF On
  <2>4. pc' = "format" /\ field' = field /\ stage' = stage /\ On(e, FromFormat(f))'
    BY <2>2, <2>3, SkipOn
  <2>5. field' = FoundField(f, 7, a)
    BY <1>3, <1>5, <2>4, AbsentFound
  <2>6. OnFormat(f, e, a)'
    BY <1>3, <2>4, <2>5 DEF OnFormat, AlignFound
  <2> QED
    BY <2>4, <2>6 DEF WithinField
<1> QED
  BY <1>4, <1>5

\* The first item stands in front.
LEMMA FirstItemPlace ==
  ASSUME NEW p, UserItems(p), NEW q \in Nat
  PROVE  AtItem(q, p.means, 0) = q
<1>1. FlattenSeq(ItemTexts(p.means, 0)) = <<>> /\ Len(<<>>) = 0
  BY ItemsAreTexts, TextOf DEF UserItems
<1> QED
  BY <1>1 DEF AtItem

\* The items of a time begin.
LEMMA TimesBegin ==
  ASSUME NEW f, FieldOfParts(f), NEW e, Clean(text), LateStage(f, stage), NEW a, AlignFound(f, a),
         On(e, FromItems(f)), f.spec.items.text # <<>>, field = FoundField(f, 8, a)
  PROVE  OnItems(f, e, a)
<1> DEFINE i == f.spec.items
<1>1. field = WithItems(f, a, <<>>)
  <2>1. FoundField(f, 8, a) = WithItems(f, a, NoField.items)
    BY FoundTimes
  <2>2. NoField.items = <<>>
    BY NothingFound, Zenon
  <2> QED
    BY <2>1, <2>2, Zenon
<1>2. \/ i.text = <<"%", "g">> \/ i.text = <<"%", "f">>
      \/ UserItems(i)
  BY Zenon DEF FieldOfParts, ItemParts
<1>3. CASE i.text = <<"%", "g">> \/ i.text = <<"%", "f">>
  BY <1>1, <1>3, Zenon DEF OnItems
<1>4. CASE UserItems(i)
  <2> DEFINE q == token.beg
             m == i.means
  <2>1. /\ Left(text, e, q, FromItems(f)) /\ token = lex_next_token(text, q, stage)
        /\ current = q + token.len
    BY DEF On
  <2>2. AtItem(q, m, 0) = q
    <3>1. q \in Nat
      BY <2>1 DEF Left
    <3> QED
      BY <1>4, <3>1, FirstItemPlace
  <2>3. 0 \in 0..(Len(m) - 1)
    BY <1>4 DEF UserItems
  <2>4. Taken(m, 0) = <<>>
    BY DEF Taken
  <2>5. OnItem(f, e, a, q, 0)
    BY <1>1, <1>4, <2>1, <2>2, <2>3, <2>4 DEF OnItem
  <2> QED
    BY <2>5 DEF OnItems
<1> QED
  BY <1>2, <1>3, <1>4

LEMMA FormatReads ==
  ASSUME NEW f, FieldOfParts(f), NEW e, Clean(text), WithinField(f, e), parse_opt_format_chrono_spec
  PROVE  WithinField(f, e)'
<1>1. pc = "format" /\ \E a : OnFormat(f, e, a)
  BY DEF parse_opt_format_chrono_spec, WithinField
<1>2. PICK a : OnFormat(f, e, a)
  BY <1>1
<1>3. /\ LateStage(f, stage) /\ AlignFound(f, a) /\ On(e, FromFormat(f)) /\ field = FoundField(f, 7, a)
      /\ Left(text, e, token.beg, FromFormat(f)) /\ token = lex_next_token(text, token.beg, stage)
  BY <1>2 DEF OnFormat, On
<1>4. CASE f.spec.fmt.text # <<>>
  <2>1. token.type = "OtherChar"
    BY <1>3, <1>4, FormatHead
  <2>2. parse_format_spec
    BY <2>1, TimeTokensApart DEF parse_opt_format_chrono_spec
  <2> QED
    BY <1>3, <1>4, <2>2, FormatTaken
<1>5. CASE f.spec.fmt.text = <<>>
  <2>1. token.type # "OtherChar" /\ Left(text, e, token.beg, FromItems(f))
    BY <1>3, <1>5, FormatHead
  <2>2. On(e, FromItems(f)) /\ field = FoundField(f, 8, a)
    BY <1>3, <1>5, <2>1, AbsentFound DEF On
  <2>3. CASE f.spec.items.text # <<>>
    <3>1. token.type \in ChronoTokens
      BY <1>3, <2>1, <2>3, ItemsHead
    <3>2. Skip("chrono", field)
      BY <2>1, <3>1 DEF parse_opt_format_chrono_spec
    <3>3. OnItems(f, e, a)
      BY <1>3, <2>2, <2>3, TimesBegin
    <3>4. pc' = "chrono" /\ UNCHANGED <<text, current, token, stage, field>>
      BY <3>2 DEF Skip
    <3>5. OnItems(f, e, a)'
      BY <3>3, <3>4 DEF OnItems, OnItem, On, LateStage, StageOf, AlignFound
    <3> QED
      BY <3>4, <3>5 DEF WithinField
  <2>4. CASE f.spec.items.text = <<>>
    <3>1. token = Accept(CloseType(f), token.beg, e) /\ Left(text, e, token.beg, CloseText(f))
      BY <1>3, <2>1, <2>4, ItemsHead
    <3>2. token.type = CloseType(f)
      BY <3>1, AcceptedType
    <3>3. token.type \notin ChronoTokens
      BY <3>2, TimeTokensApart DEF CloseType
    <3>4. Skip("end", field)
      BY <2>1, <3>3 DEF parse_opt_format_chrono_spec
    <3>5. On(e, CloseText(f))
      BY <1>3, <3>1 DEF On
    <3>6. pc' = "end" /\ field' = field /\ stage' = stage /\ On(e, CloseText(f))'
      BY <3>4, <3>5, SkipOn
    <3>7. field' = FoundField(f, 9, a)
      BY <2>2, <2>4, <3>6, AbsentFound
    <3>8. OnClose(f, e, a)'
      BY <1>3, <3>6, <3>7 DEF OnClose, LateStage, AlignFound
    <3> QED
      BY <3>6, <3>8 DEF WithinField
  <2> QED
    BY <2>3, <2>4
<1> QED
  BY <1>4, <1>5

--------------------------------------------------------------------------------
(* What the items of a specification may begin with.                           *)

\* Behind a sign, the digits of a width or a format stands no alignment.
LEMMA PeekedToken ==
  ASSUME NEW f, FieldOfParts(f), NEW e, Clean(text), LateStage(f, stage), On(e, FromSign(f)),
         token.type \in {"Colon", "Digits", "LeftBrace", "OtherChar"}
  PROVE  parser_peek_token.type \notin AlignTokens \cup NoToken
<1> DEFINE p == token.beg
<1>1. /\ Left(text, e, p, FromSign(f)) /\ token = lex_next_token(text, p, stage)
      /\ current = p + token.len /\ p \in Nat
  BY DEF On, Left
<1>2. StageOf(f.class, stage)
  BY DEF LateStage
<1>3. CASE f.spec.sign.text # <<>>
  <2>1. lex_next_token(text, p, stage) = Accept("OtherChar", p, p + 1) /\ Left(text, e, p + 1, FromWidth(f))
    BY <1>1, <1>3, SignToken
  <2>2. current = p + 1
    BY <2>1, OneOn
  <2> QED
    BY <2>1, <2>2, WidthHead DEF parser_peek_token
<1>4. CASE f.spec.sign.text = <<>>
  <2>1. Left(text, e, p, FromWidth(f))
    BY <1>1, <1>4, SignHead
  <2>2. CASE f.spec.width.text # <<>>
    <3> DEFINE n == Len(f.spec.width.text)
    <3>1. /\ lex_next_token(text, p, stage) = Accept("Digits", p, p + n)
          /\ Left(text, e, p + n, FromFormat(f))
      BY <2>1, <2>2, WidthToken
    <3>2. token.len = (p + n) - p /\ n \in Nat
      BY <1>1, <3>1, AcceptedType, TextLength DEF FieldOfParts, PartsAreTexts
    <3> HIDE DEF n
    <3>3. current = p + n
      BY <1>1, <3>2
    <3> QED
      BY <3>1, <3>3, FormatHead DEF parser_peek_token
  <2>3. CASE f.spec.width.text = <<>>
    <3>1. Left(text, e, p, FromFormat(f))
      BY <2>1, <2>3, WidthHead
    <3>2. CASE f.spec.fmt.text # <<>>
      <4>1. lex_next_token(text, p, stage) = Accept("OtherChar", p, p + 1) /\ Left(text, e, p + 1, FromItems(f))
        BY <3>1, <3>2, FormatToken
      <4>2. current = p + 1
        BY <4>1, OneOn
      <4>3. f.spec.items.text = <<>>
        BY <3>2, Zenon DEF FieldOfParts, SpecParts
      <4>4. parser_peek_token = Accept(CloseType(f), current, e)
        BY <4>1, <4>2, <4>3, ItemsHead DEF parser_peek_token
      <4> QED
        BY <4>4, AcceptedType DEF CloseType, AlignTokens, NoToken
    <3>3. CASE f.spec.fmt.text = <<>>
      <4>1. Left(text, e, p, FromItems(f))
        BY <3>1, <3>3, FormatHead
      <4>2. token.type \in ChronoTokens \cup {"RightBrace", "RightBracketBrace"}
        BY <1>1, <4>1, ItemsHead, AcceptedType DEF CloseType
      <4> QED
        BY <4>2, TimeTokensApart
    <3> QED
      BY <3>2, <3>3
  <2> QED
    BY <2>2, <2>3
<1> QED
  BY <1>3, <1>4

\* What the parser takes the first item of a specification for.
LEMMA FirstItem ==
  ASSUME parse_opt_items
  PROVE  LET one  == token.type \in {"Colon", "Digits", "LeftBrace", "OtherChar"}
             fill == parser_peek_token.type \in AlignTokens \cup NoToken
         IN  /\ one /\ fill => parser_next_token(stage, "align", [field EXCEPT !.fill = FirstChar])
             /\ one /\ ~fill /\ IsSign => Sign("sign")
             /\ one /\ ~fill /\ ~IsSign /\ token.type = "OtherChar" => parse_format_spec
             /\ one /\ ~fill /\ ~IsSign /\ token.type # "OtherChar" => Skip("sign", field)
             /\ ~one => Skip("sign", [field EXCEPT !.fill = NoField.fill, !.align = "Left"])
<1> DEFINE one  == token.type \in {"Colon", "Digits", "LeftBrace", "OtherChar"}
           fill == parser_peek_token.type \in AlignTokens \cup NoToken
<1>1. one /\ fill => parser_next_token(stage, "align", [field EXCEPT !.fill = FirstChar])
  BY DEF parse_opt_items
<1>2. one /\ ~fill /\ IsSign => Sign("sign")
  BY DEF parse_opt_items
<1>3. one /\ ~fill /\ ~IsSign /\ token.type = "OtherChar" => parse_format_spec
  BY DEF parse_opt_items
<1>4. one /\ ~fill /\ ~IsSign /\ token.type # "OtherChar" => Skip("sign", field)
  <2>1. IsSign => token.type = "OtherChar"
    BY DEF IsSign
  <2> QED
    BY <2>1 DEF parse_opt_items
<1>5. ~one => Skip("sign", [field EXCEPT !.fill = " ", !.align = "Left"])
  BY DEF parse_opt_items
<1>6. ~one => Skip("sign", [field EXCEPT !.fill = NoField.fill, !.align = "Left"])
  BY <1>5, NothingFound, Zenon
<1> QED
  BY <1>1, <1>2, <1>3, <1>4, <1>6, Zenon

\* A specification without parts has no text.
LEMMA SpecPresent ==
  ASSUME NEW f, FieldOfParts(f), SpecText(f.spec) # <<>>,
         f.spec.fill.text = <<>>, f.spec.align.text = <<>>, f.spec.sign.text = <<>>,
         f.spec.width.text = <<>>, f.spec.fmt.text = <<>>
  PROVE  f.spec.items.text # <<>>
<1> SUFFICES ASSUME f.spec.items.text = <<>> PROVE FALSE
  OBVIOUS
<1>1. <<>> \o <<>> = <<>>
  OBVIOUS
<1>2. SpecText(f.spec) = <<>>
  BY <1>1, Zenon DEF SpecText
<1> QED
  BY <1>2

LEMMA ItemsReads ==
  ASSUME NEW f, FieldOfParts(f), NEW e, Clean(text), WithinField(f, e), parse_opt_items
  PROVE  WithinField(f, e)'
<1> DEFINE one == token.type \in {"Colon", "Digits", "LeftBrace", "OtherChar"}
<1>1. pc = "items" /\ token.type \notin AlignTokens
  BY DEF parse_opt_items
<1>2. /\ On(e, FromFill(f)) /\ LateStage(f, stage) /\ field = FoundField(f, 4, "Right")
      /\ SpecText(f.spec) # <<>>
      /\ Left(text, e, token.beg, FromFill(f)) /\ token = lex_next_token(text, token.beg, stage)
  BY <1>1 DEF WithinField, OnFill, On
<1>3. CASE f.spec.fill.text # <<>>
  <2>1. /\ one
        /\ token = Accept(token.type, token.beg, token.beg + 1)
        /\ f.spec.fill.means = FirstChar
        /\ Left(text, e, token.beg + 1, FromAlign(f))
    BY <1>2, <1>3, FillToken DEF FirstChar
  <2>2. current = token.beg + 1
    BY <1>2, <2>1, OneOn
  <2>3. f.spec.align.text # <<>>
    BY <1>3, Zenon DEF FieldOfParts, SpecParts
  <2>4. Left(text, e, current, FromAlign(f)) /\ IsText(FromAlign(f)) /\ FromAlign(f) # <<>>
    BY <2>1, <2>2, LeftTexts DEF FieldOfParts
  <2>5. parser_peek_token.type \in AlignTokens /\ lex_next_token(text, current, stage).type \notin NoToken
    BY <1>2, <2>3, <2>4, AlignHead DEF parser_peek_token
  <2>6. parser_next_token(stage, "align", [field EXCEPT !.fill = FirstChar])
    BY <2>1, <2>5, FirstItem
  <2>7. [field EXCEPT !.fill = FirstChar] = FoundField(f, 5, "Right")
    <3>1. [FoundField(f, 4, "Right") EXCEPT !.fill = f.spec.fill.means] = FoundField(f, 5, "Right")
      BY FoundSpec
    <3> QED
      BY <1>2, <2>1, <3>1, Zenon
  <2>8. pc' = "align" /\ field' = FoundField(f, 5, "Right") /\ stage' = stage /\ On(e, FromAlign(f))'
    BY <2>4, <2>5, <2>6, <2>7, NextOn
  <2>9. OnAlign(f, e)'
    BY <1>2, <2>3, <2>8 DEF OnAlign
  <2> QED
    BY <2>8, <2>9 DEF WithinField
<1>4. CASE f.spec.fill.text = <<>>
  <2>1. Left(text, e, token.beg, FromAlign(f))
    BY <1>2, <1>4, FillHead
  <2>2. f.spec.align.text = <<>> /\ Left(text, e, token.beg, FromSign(f))
    BY <1>1, <1>2, <2>1, AlignHead
  <2>3. On(e, FromSign(f)) /\ field = FoundField(f, 5, "Right")
    BY <1>2, <1>4, <2>2, AbsentFound DEF On
  <2>4. AlignFound(f, "Right")
    BY <2>2, AbsentMeans DEF AlignFound
  <2>5. one => parser_peek_token.type \notin AlignTokens \cup NoToken
    BY <1>2, <2>3, PeekedToken
  <2>6. CASE f.spec.sign.text # <<>>
    <3>1. IsSign /\ one
      BY <1>2, <2>2, <2>6, SignHead DEF IsSign, FirstChar
    <3>2. Sign("sign")
      BY <2>5, <3>1, FirstItem
    <3>3. pc' = "sign" /\ field' = FoundField(f, 6, "Right") /\ stage' = stage /\ On(e, FromWidth(f))'
      BY <1>2, <2>3, <2>6, <3>2, SignTaken
    <3>4. OnSign(f, e, "Right")'
      BY <1>2, <2>4, <3>3 DEF OnSign, AlignFound
    <3> QED
      BY <3>3, <3>4 DEF WithinField
  <2>7. CASE f.spec.sign.text = <<>>
    <3>1. Left(text, e, token.beg, FromWidth(f)) /\ ~IsSign
      BY <1>2, <2>2, <2>7, SignHead DEF IsSign, FirstChar
    <3>2. CASE f.spec.width.text # <<>>
      <4>1. token.type = "Digits"
        BY <1>2, <3>1, <3>2, WidthHead
      <4>2. Skip("sign", field)
        BY <2>5, <3>1, <4>1, FirstItem
      <4>3. pc' = "sign" /\ field' = field /\ stage' = stage /\ On(e, FromSign(f))'
        BY <2>3, <4>2, SkipOn
      <4>4. OnSign(f, e, "Right")'
        BY <1>2, <2>3, <2>4, <4>3 DEF OnSign, AlignFound
      <4> QED
        BY <4>3, <4>4 DEF WithinField
    <3>3. CASE f.spec.width.text = <<>>
      <4>1. Left(text, e, token.beg, FromFormat(f))
        BY <1>2, <3>1, <3>3, WidthHead
      <4>2. CASE f.spec.fmt.text # <<>>
        <5>1. token.type = "OtherChar"
          BY <1>2, <4>1, <4>2, FormatHead
        <5>2. parse_format_spec
          BY <2>5, <3>1, <5>1, FirstItem
        <5>3. field = FoundField(f, 7, "Right") /\ On(e, FromFormat(f))
          BY <1>2, <2>3, <2>7, <3>3, <4>1, AbsentFound DEF On
        <5> QED
          BY <1>2, <2>4, <4>2, <5>2, <5>3, FormatTaken
      <4>3. CASE f.spec.fmt.text = <<>>
        <5>1. f.spec.items.text # <<>> /\ Left(text, e, token.beg, FromItems(f))
          BY <1>2, <1>4, <2>2, <2>7, <3>3, <4>1, <4>3, SpecPresent, FormatHead
        <5>2. token.type \in ChronoTokens
          BY <1>2, <5>1, ItemsHead
        <5>3. ~one
          BY <5>2, TimeTokensApart
        <5>4. Skip("sign", [field EXCEPT !.fill = NoField.fill, !.align = "Left"])
          BY <5>3, FirstItem
        <5>5. [field EXCEPT !.fill = NoField.fill, !.align = "Left"] = FoundField(f, 5, "Left")
          <6>1. [FoundField(f, 4, "Right") EXCEPT !.fill = NoField.fill, !.align = "Left"] = FoundField(f, 4, "Left")
            BY FoundNoFill, Zenon
          <6>2. FoundField(f, 4, "Left") = FoundField(f, 5, "Left")
            BY <1>4, AbsentFound
          <6> QED
            BY <1>2, <6>1, <6>2, Zenon
        <5>6. pc' = "sign" /\ field' = FoundField(f, 5, "Left") /\ stage' = stage /\ On(e, FromSign(f))'
          BY <2>3, <5>4, <5>5, SkipOn
        <5>7. OnSign(f, e, "Left")'
          BY <1>2, <3>3, <5>6 DEF OnSign, AlignFound
        <5> QED
          BY <5>6, <5>7 DEF WithinField
      <4> QED
        BY <4>2, <4>3
    <3> QED
      BY <3>2, <3>3
  <2> QED
    BY <2>6, <2>7
<1> QED
  BY <1>3, <1>4

--------------------------------------------------------------------------------
(* The steps, over the items of a time.                                        *)

\* The characters behind an item, one token after the other.
LEMMA BehindWithin ==
  ASSUME NEW t, Clean(t), NEW r, NEW b, NEW chars, Separates(t, r, b, chars), NEW pairs, Paired(chars, pairs),
         NEW n \in 0..(Len(chars) - 1), n \notin pairs, NEW s, "MatchChronoToken" \in s
  PROVE  /\ lex_next_token(t, b + n, s).type \in InnerTypes
         /\ lex_next_token(t, b + n, s).len \in 1..(Len(chars) - n)
         /\ n + lex_next_token(t, b + n, s).len \notin pairs
<1> DEFINE k == lex_next_token(t, b + n, s)
<1>1. b \in Nat /\ n \in Nat
  <2>1. Len(chars) \in Nat
    BY TextLength, Zenon DEF Separates, Left
  <2>2. b \in Nat
    BY Zenon DEF Separates, Left
  <2>3. n \in Nat
    BY <2>1
  <2> QED
    BY <2>2, <2>3
<1>2. PICK d \in 1..(Len(chars) - n) : TokenOf(t, b + n, s, d) /\ n + d \notin pairs
  BY BehindToken
<1>3. PICK typ \in InnerTypes : k = Accept(typ, b + n, b + n + d)
  BY <1>2 DEF TokenOf
<1>4. k.type = typ /\ k.len = (b + n + d) - (b + n)
  BY <1>3, AcceptedType
<1> HIDE DEF k
<1>5. k.len = d
  BY <1>1, <1>2, <1>4
<1> QED
  BY <1>2, <1>3, <1>4, <1>5 DEF k

\* What is met behind the last of them: the next item, or the end of the field.
LEMMA BehindLast ==
  ASSUME NEW f, FieldOfParts(f), UserItems(f.spec.items), NEW t, Clean(t), NEW e, NEW q,
         Left(t, e, q, FromItems(f)), NEW k \in 1..Len(f.spec.items.means), NEW s, LateStage(f, s)
  PROVE  /\ k = Len(f.spec.items.means) =>
              /\ lex_next_token(t, AtItem(q, f.spec.items.means, k), s).type = CloseType(f)
              /\ Left(t, e, AtItem(q, f.spec.items.means, k), CloseText(f))
         /\ k < Len(f.spec.items.means) =>
              lex_next_token(t, AtItem(q, f.spec.items.means, k), s).type \in UserdefTokens
<1> DEFINE m == f.spec.items.means
<1>1. "MatchChronoToken" \in s /\ StageOf(f.class, s)
  BY DEF LateStage
<1>2. ASSUME k = Len(m)
      PROVE  /\ lex_next_token(t, AtItem(q, m, k), s).type = CloseType(f)
             /\ Left(t, e, AtItem(q, m, k), CloseText(f))
  <2>1. Left(t, e, AtItem(q, m, k), CloseText(f))
    BY <1>2, BehindItem, Zenon
  <2>2. lex_next_token(t, AtItem(q, m, k), s) = Accept(CloseType(f), AtItem(q, m, k), e)
    BY <1>1, <2>1, CloseToken DEF FieldOfParts, Clean
  <2> QED
    BY <2>1, <2>2, AcceptedType
<1>3. ASSUME k < Len(m)
      PROVE  lex_next_token(t, AtItem(q, m, k), s).type \in UserdefTokens
  <2>1. Len(m) \in Nat
    BY DEF UserItems
  <2>2. k + 1 \in 1..Len(m) /\ (k + 1) - 1 = k
    BY <1>3, <2>1
  <2>3. \A l \in 1..Len(m) : \E typ \in UserdefTokens, b \in Nat :
          lex_next_token(t, AtItem(q, m, l - 1), s) = Accept(typ, AtItem(q, m, l - 1), b)
    <3> TAKE l \in 1..Len(m)
    <3> QED
      BY <1>1, UserItemToken
  <2>4. PICK typ \in UserdefTokens, b \in Nat :
          lex_next_token(t, AtItem(q, m, (k + 1) - 1), s) = Accept(typ, AtItem(q, m, (k + 1) - 1), b)
    BY <2>2, <2>3
  <2> QED
    BY <2>2, <2>4, AcceptedType
<1> QED
  BY <1>2, <1>3

\* Wherever the parser stands behind an item, there is a token.
LEMMA BehindSome ==
  ASSUME NEW f, FieldOfParts(f), UserItems(f.spec.items), NEW t, Clean(t), NEW e, NEW q,
         Left(t, e, q, FromItems(f)), NEW k \in 1..Len(f.spec.items.means), NEW s, LateStage(f, s),
         NEW b, NEW pairs, NEW chars, Separates(t, AtItem(q, f.spec.items.means, k), b, chars), Paired(chars, pairs),
         NEW n \in 0..Len(chars), n \notin pairs
  PROVE  lex_next_token(t, b + n, s).type \notin NoToken
<1> DEFINE m == f.spec.items.means
<1>1. "MatchChronoToken" \in s /\ StageOf(f.class, s)
  BY DEF LateStage
<1>2. b + Len(chars) = AtItem(q, m, k) /\ Len(chars) \in Nat
  BY TextLength, Zenon DEF Separates, Left
<1>3. CASE n < Len(chars)
  <2>1. n \in 0..(Len(chars) - 1)
    BY <1>2, <1>3
  <2>2. lex_next_token(t, b + n, s).type \in InnerTypes
    BY <1>1, <2>1, BehindWithin
  <2> QED
    BY <2>2 DEF InnerTypes, NoToken
<1>4. CASE n = Len(chars)
  <2>1. k = Len(m) \/ k < Len(m)
    BY DEF UserItems
  <2>2. lex_next_token(t, AtItem(q, m, k), s).type \in UserdefTokens \cup {CloseType(f)}
    BY <2>1, BehindLast
  <2>3. lex_next_token(t, b + n, s).type \in ChronoTokens \cup {"RightBrace", "RightBracketBrace"}
    BY <1>2, <1>4, <2>2 DEF CloseType, ChronoTokens
  <2> QED
    BY <2>3, TimeTokensApart DEF NoToken
<1> QED
  BY <1>2, <1>3, <1>4

\* The items of %f and %g.
LEMMA PredefReads ==
  ASSUME NEW f, FieldOfParts(f), NEW e, Clean(text), WithinField(f, e), parse_chrono_spec
  PROVE  WithinField(f, e)'
<1> DEFINE i == f.spec.items
<1>1. pc = "chrono" /\ token.type \in PredefTokens /\ \E a : OnItems(f, e, a)
  BY DEF parse_chrono_spec, WithinField
<1>2. PICK a : OnItems(f, e, a)
  BY <1>1
<1>3. LateStage(f, stage) /\ AlignFound(f, a)
  BY <1>2 DEF OnItems
<1>4. ASSUME NEW q, NEW k, OnItem(f, e, a, q, k) PROVE FALSE
  <2> DEFINE m == i.means
  <2>1. /\ UserItems(i) /\ Left(text, e, q, FromItems(f)) /\ k \in 0..(Len(m) - 1)
        /\ token = lex_next_token(text, AtItem(q, m, k), stage)
    BY <1>4 DEF OnItem
  <2>2. k + 1 \in 1..Len(m) /\ (k + 1) - 1 = k
    BY <2>1 DEF UserItems
  <2>3. \A l \in 1..Len(m) : \E typ \in UserdefTokens, b \in Nat :
          lex_next_token(text, AtItem(q, m, l - 1), stage) = Accept(typ, AtItem(q, m, l - 1), b)
    <3> TAKE l \in 1..Len(m)
    <3> QED
      BY <1>3, <2>1, UserItemToken DEF LateStage
  <2>4. PICK typ \in UserdefTokens, b \in Nat : token = Accept(typ, AtItem(q, m, (k + 1) - 1), b)
    BY <2>1, <2>2, <2>3
  <2>5. token.type \in UserdefTokens
    BY <2>4, AcceptedType
  <2> QED
    BY <1>1, <2>5, TimeTokensApart
<1>5. /\ i.text = <<"%", "g">> \/ i.text = <<"%", "f">>
      /\ On(e, FromItems(f)) /\ field = WithItems(f, a, <<>>)
  BY <1>2, <1>4, Zenon DEF OnItems
<1>6. PICK c \in {"f", "g"} : i.text = <<"%", c>>
  BY <1>5, Zenon
<1>7. Left(text, e, token.beg, FromItems(f)) /\ token = lex_next_token(text, token.beg, stage)
      /\ current = token.beg + token.len /\ token.beg \in Nat
  BY <1>5 DEF On, Left
<1>8. /\ token = Accept(IF c = "g" THEN "ChronoPredef_g" ELSE "ChronoPredef_f", token.beg, token.beg + 2)
      /\ Left(text, e, token.beg + 2, CloseText(f))
  BY <1>3, <1>6, <1>7, PredefStands DEF LateStage
<1>9. token.type = (IF c = "g" THEN "ChronoPredef_g" ELSE "ChronoPredef_f") /\ token.len = (token.beg + 2) - token.beg
  BY <1>8, AcceptedType
<1>10. current = token.beg + 2
  BY <1>7, <1>9
<1>11. i.means = IF token.type = "ChronoPredef_g" THEN Predef_g ELSE Predef_f
  <2>1. ~UserItems(i)
    <3> SUFFICES ASSUME UserItems(i) PROVE FALSE
      OBVIOUS
    <3>1. 1 \in 1..Len(i.means) /\ Len(i.means) \in Nat
      BY DEF UserItems
    <3>2. \A l \in 1..Len(i.means) : \E typ \in UserdefTokens, b \in Nat :
            lex_next_token(text, AtItem(token.beg, i.means, l - 1), stage)
              = Accept(typ, AtItem(token.beg, i.means, l - 1), b)
      <4> TAKE l \in 1..Len(i.means)
      <4> QED
        BY <1>3, <1>7, UserItemToken DEF LateStage
    <3>3. AtItem(token.beg, i.means, 0) = token.beg
      BY <1>7, FirstItemPlace
    <3>4. PICK typ \in UserdefTokens, b \in Nat : token = Accept(typ, token.beg, b)
      BY <1>7, <3>1, <3>2, <3>3
    <3>5. token.type \in UserdefTokens
      BY <3>4, AcceptedType
    <3> QED
      BY <1>1, <3>5, TimeTokensApart
  <2>2. i.text # <<>> /\ i.text[2] = c
    BY <1>6
  <2>3. <<"%", "g">>[2] = "g" /\ <<"%", "f">>[2] = "f"
    OBVIOUS
  <2>4. \/ i.text[2] = "g" /\ i.means = Predef_g
        \/ i.text[2] = "f" /\ i.means = Predef_f
    <3>1. ItemParts(i)
      BY DEF FieldOfParts
    <3> QED
      BY <2>1, <2>2, <2>3, <3>1, Zenon DEF ItemParts
  <2>5. "f" # "g" /\ "ChronoPredef_g" # "ChronoPredef_f"
    OBVIOUS
  <2> QED
    BY <1>9, <2>2, <2>4, <2>5, Zenon
<1> DEFINE g == [field EXCEPT !.items = IF token.type = "ChronoPredef_g" THEN Predef_g ELSE Predef_f]
<1>12. g = FoundField(f, 9, a)
  <2>1. \A x, y : [WithItems(f, a, x) EXCEPT !.items = y] = WithItems(f, a, y)
    BY FoundTimes
  <2>2. g = WithItems(f, a, i.means)
    BY <1>5, <1>11, <2>1, Zenon
  <2> QED
    BY <2>2, FoundTimes
<1>13. parser_next_token(stage, "end", g)
  BY DEF parse_chrono_spec
<1> HIDE DEF g
<1>14. Left(text, e, current, CloseText(f)) /\ IsText(CloseText(f)) /\ CloseText(f) # <<>> /\ StageOf(f.class, stage)
  BY <1>3, <1>8, <1>10, ClosingTexts, Zenon DEF LateStage
<1>15. lex_next_token(text, current, stage).type \notin NoToken
  <2>1. lex_next_token(text, current, stage) = Accept(CloseType(f), current, e)
    BY <1>14, CloseToken DEF FieldOfParts, Clean
  <2> QED
    BY <2>1, AcceptedType DEF CloseType, NoToken
<1>16. pc' = "end" /\ field' = g /\ stage' = stage /\ On(e, CloseText(f))'
  BY <1>13, <1>14, <1>15, NextOn
<1>17. OnClose(f, e, a)'
  BY <1>3, <1>12, <1>14, <1>16 DEF OnClose, AlignFound
<1> QED
  BY <1>16, <1>17 DEF WithinField

\* The field ends where it is closed.
LEMMA EndReads ==
  ASSUME NEW f, FieldOfParts(f), NEW e, Clean(text), WithinField(f, e), parse_end_token
  PROVE  WithinField(f, e)'
<1>1. pc = "end" /\ \E a : OnClose(f, e, a)
  BY DEF parse_end_token, WithinField
<1>2. PICK a : OnClose(f, e, a)
  BY <1>1
<1>3. /\ StageOf(f.class, stage) /\ AlignFound(f, a) /\ field = FoundField(f, 9, a)
      /\ Left(text, e, token.beg, CloseText(f)) /\ token = lex_next_token(text, token.beg, stage)
      /\ current = token.beg + token.len
  BY <1>2 DEF OnClose, On
<1>4. token = Accept(CloseType(f), token.beg, e)
  BY <1>3, CloseToken DEF FieldOfParts, Clean
<1>5. token.type = CloseType(f) /\ token.len = e - token.beg
  BY <1>4, AcceptedType
<1>6. token.beg \in Nat /\ e \in Nat
  <2>1. token.beg \in Nat /\ Len(CloseText(f)) \in Nat /\ token.beg + Len(CloseText(f)) = e
    BY <1>3, ClosingTexts, TextLength, Zenon DEF Left
  <2> QED
    BY <2>1
<1>7. current = e
  BY <1>3, <1>5, <1>6
<1>8. field.class = f.class
  <2>1. field = WithItems(f, a, f.spec.items.means)
    BY <1>3, FoundTimes
  <2> QED
    BY <2>1, FoundTimes
<1>9. pc' = "done" /\ field' = field /\ current' = current
  BY <1>5, <1>8 DEF parse_end_token, CloseType
<1>10. FieldRead(f, e, a)'
  BY <1>3, <1>7, <1>9 DEF FieldRead, AlignFound
<1> QED
  BY <1>9, <1>10 DEF WithinField

\* A step onto the next token, wherever it stands.
LEMMA NextRead ==
  ASSUME Clean(text), NEW s, NEW to, NEW g, parser_next_token(s, to, g), current \in 1..(Len(text) + 2),
         lex_next_token(text, current, s).type \notin NoToken
  PROVE  /\ pc' = to /\ field' = g /\ stage' = s /\ text' = text
         /\ token' = lex_next_token(text', token'.beg, stage')
         /\ token'.beg = current
         /\ current' = token'.beg + token'.len
<1> DEFINE tok == lex_next_token(text, current, s)
<1>1. tok.beg = current
  <2>1. Lexed(text, current, tok)
    BY LexerLexed DEF Clean
  <2> QED
    BY <2>1 DEF Lexed
<1>2. pc' = to /\ field' = g /\ stage' = s /\ text' = text /\ token' = tok /\ current' = current + tok.len
  BY DEF parser_next_token, NoToken
<1> HIDE DEF tok
<1>3. token'.beg = current /\ current' = token'.beg + token'.len
  BY <1>1, <1>2
<1>4. token' = lex_next_token(text', token'.beg, stage')
  BY <1>2, <1>3 DEF tok
<1> QED
  BY <1>2, <1>3, <1>4

\* What stands behind an item stands in the text.
LEMMA BehindPlace ==
  ASSUME NEW t, Clean(t), NEW r, NEW b, NEW chars, Separates(t, r, b, chars), NEW n \in 0..Len(chars)
  PROVE  b + n \in 1..(Len(t) + 2) /\ b \in Nat /\ n \in Nat /\ Len(chars) \in Nat /\ b + Len(chars) = r
<1>1. Left(t, r, b, chars)
  BY Zenon DEF Separates
<1>2. b \in Nat /\ b >= 1 /\ IsText(chars) /\ b + Len(chars) = r /\ r <= Len(t) + 1
  BY <1>1 DEF Left
<1>3. Len(chars) \in Nat
  BY <1>2, TextLength
<1>4. Len(t) \in Nat
  BY DEF Clean
<1>5. n \in Nat /\ n <= Len(chars)
  BY <1>3
<1> QED
  BY <1>2, <1>3, <1>4, <1>5

\* The tokens of the items, one by one.
LEMMA ItemTokens ==
  ASSUME NEW f, FieldOfParts(f), UserItems(f.spec.items), NEW t, Clean(t), NEW e, NEW q,
         Left(t, e, q, FromItems(f)), NEW s, LateStage(f, s), NEW k \in 0..(Len(f.spec.items.means) - 1)
  PROVE  \E typ \in UserdefTokens, b \in Nat : \E pairs :
           /\ lex_next_token(t, AtItem(q, f.spec.items.means, k), s)
                = Accept(typ, AtItem(q, f.spec.items.means, k), b)
           /\ ChronoItemOf[typ] = f.spec.items.means[k + 1].item
           /\ IsText(f.spec.items.means[k + 1].split)
           /\ Separates(t, AtItem(q, f.spec.items.means, k + 1), b, f.spec.items.means[k + 1].split)
           /\ Paired(f.spec.items.means[k + 1].split, pairs)
<1> DEFINE m == f.spec.items.means
<1>1. "MatchChronoToken" \in s
  BY DEF LateStage
<1>2. k + 1 \in 1..Len(m) /\ (k + 1) - 1 = k
  BY DEF UserItems
<1>3. \A l \in 1..Len(m) : \E typ \in UserdefTokens, b \in Nat : \E pairs :
        /\ lex_next_token(t, AtItem(q, m, l - 1), s) = Accept(typ, AtItem(q, m, l - 1), b)
        /\ ChronoItemOf[typ] = m[l].item
        /\ IsText(m[l].split)
        /\ Separates(t, AtItem(q, m, l), b, m[l].split)
        /\ Paired(m[l].split, pairs)
  <2> TAKE l \in 1..Len(m)
  <2> QED
    BY <1>1, UserItemToken
<1>4. \E typ \in UserdefTokens, b \in Nat : \E pairs :
        /\ lex_next_token(t, AtItem(q, m, (k + 1) - 1), s) = Accept(typ, AtItem(q, m, (k + 1) - 1), b)
        /\ ChronoItemOf[typ] = m[k + 1].item
        /\ IsText(m[k + 1].split)
        /\ Separates(t, AtItem(q, m, k + 1), b, m[k + 1].split)
        /\ Paired(m[k + 1].split, pairs)
  BY <1>2, <1>3, Zenon
<1> QED
  BY <1>2, <1>4

\* The token of an item of the caller's is not one of the predefined items.
LEMMA PredefApart ==
  ASSUME NEW f, FieldOfParts(f), NEW e, Clean(text), LateStage(f, stage), On(e, FromItems(f)),
         f.spec.items.text = <<"%", "g">> \/ f.spec.items.text = <<"%", "f">>
  PROVE  token.type \notin UserdefTokens
<1>1. PICK c \in {"f", "g"} : f.spec.items.text = <<"%", c>>
  OBVIOUS
<1>2. Left(text, e, token.beg, FromItems(f)) /\ token = lex_next_token(text, token.beg, stage)
  BY DEF On
<1>3. token = Accept(IF c = "g" THEN "ChronoPredef_g" ELSE "ChronoPredef_f", token.beg, token.beg + 2)
  BY <1>1, <1>2, PredefStands DEF LateStage
<1>4. token.type \in PredefTokens
  BY <1>3, AcceptedType DEF PredefTokens
<1> QED
  BY <1>4, TimeTokensApart

\* The next item is read as what it means.
LEMMA ItemReads ==
  ASSUME NEW f, FieldOfParts(f), NEW e, Clean(text), WithinField(f, e), parse_chrono_spec_item
  PROVE  WithinField(f, e)'
<1> DEFINE i == f.spec.items
           m == f.spec.items.means
<1>1. pc = "chrono" /\ (token.type \in UserdefTokens \/ field.items # <<>>)
  BY DEF parse_chrono_spec_item
<1>2. PICK a : OnItems(f, e, a)
  BY <1>1 DEF WithinField
<1>3. LateStage(f, stage) /\ AlignFound(f, a)
  BY <1>2 DEF OnItems
<1>4. ASSUME i.text = <<"%", "g">> \/ i.text = <<"%", "f">>, On(e, FromItems(f)), field = WithItems(f, a, <<>>)
      PROVE FALSE
  <2>1. token.type \notin UserdefTokens
    BY <1>3, <1>4, PredefApart
  <2>2. field.items = <<>>
    BY <1>4, FoundTimes
  <2> QED
    BY <1>1, <2>1, <2>2
<1>5. PICK q, k : OnItem(f, e, a, q, k)
  BY <1>2, <1>4, Zenon DEF OnItems
<1>6. /\ UserItems(i) /\ Left(text, e, q, FromItems(f)) /\ k \in 0..(Len(m) - 1)
      /\ token.beg = AtItem(q, m, k)
      /\ token = lex_next_token(text, AtItem(q, m, k), stage)
      /\ current = token.beg + token.len
      /\ field = WithItems(f, a, Taken(m, k))
  BY <1>5 DEF OnItem
<1>7. PICK typ \in UserdefTokens, b \in Nat : \E pairs :
        /\ token = Accept(typ, AtItem(q, m, k), b)
        /\ ChronoItemOf[typ] = m[k + 1].item
        /\ IsText(m[k + 1].split)
        /\ Separates(text, AtItem(q, m, k + 1), b, m[k + 1].split)
        /\ Paired(m[k + 1].split, pairs)
  BY <1>3, <1>6, ItemTokens
<1>8. PICK pairs :
        /\ token = Accept(typ, AtItem(q, m, k), b)
        /\ ChronoItemOf[typ] = m[k + 1].item
        /\ IsText(m[k + 1].split)
        /\ Separates(text, AtItem(q, m, k + 1), b, m[k + 1].split)
        /\ Paired(m[k + 1].split, pairs)
  BY <1>7
<1>9. token.type = typ /\ token.len = b - token.beg
  BY <1>6, <1>8, AcceptedType
<1>10. k \in Nat /\ k + 1 \in 1..Len(m) /\ Len(m) \in Nat /\ k < Len(m) /\ Len(m) <= ChronoPlaceMax
  BY <1>6 DEF UserItems
<1>11. current = b
  <2>1. token.beg \in Nat
    <3>1. token.beg = q + Len(FlattenSeq(ItemTexts(m, k))) /\ q \in Nat
      BY <1>6 DEF AtItem, Left
    <3>2. IsText(FlattenSeq(ItemTexts(m, k)))
      <4>1. k \in 0..Len(m)
        BY <1>10
      <4> QED
        BY <1>6, <4>1, ItemsAreTexts DEF UserItems
    <3> QED
      BY <3>1, <3>2, TextLength
  <2> QED
    BY <1>6, <1>9, <2>1
<1>12. ~ItemsFull
  <2>1. field.items = Taken(m, k)
    BY <1>6, FoundTimes
  <2>2. Len(Taken(m, k)) = k
    BY <1>6, <1>10, ItemsAreText, TakenText
  <2>3. ChronoPlaceMax \in Nat
    BY ParserAssumption
  <2> QED
    BY <1>10, <2>1, <2>2, <2>3 DEF ItemsFull
<1> DEFINE g == [field EXCEPT !.items = Append(@, Split(ChronoItemOf[token.type], <<>>))]
<1>13. parser_next_token(stage, "chrono_split", g)
  BY <1>9, <1>12 DEF parse_chrono_spec_item
<1>14. g = WithItems(f, a, ItemsTaken(m, k + 1, 0))
  <2>1. \A x, y : [WithItems(f, a, x) EXCEPT !.items = Append(@, y)] = WithItems(f, a, Append(x, y))
    BY FoundTimes
  <2>2. \A F, x, y : F = WithItems(f, a, x) => [F EXCEPT !.items = Append(@, y)] = WithItems(f, a, Append(x, y))
    BY <2>1, Zenon
  <2>6. field = WithItems(f, a, Taken(m, k))
    BY <1>6
  <2>3. [field EXCEPT !.items = Append(@, Split(ChronoItemOf[token.type], <<>>))]
          = WithItems(f, a, Append(Taken(m, k), Split(ChronoItemOf[token.type], <<>>)))
    BY <2>2, <2>6, Zenon
  <2>4. ChronoItemOf[token.type] = m[k + 1].item
    BY <1>8, <1>9
  <2>5. Append(Taken(m, k), Split(m[k + 1].item, <<>>)) = ItemsTaken(m, k + 1, 0)
    BY <1>6, ItemTakenNext
  <2> QED
    BY <2>3, <2>4, <2>5, Zenon
<1> HIDE DEF g
<1>15. PICK h : h = k + 1
  OBVIOUS
<1>16. /\ h \in 1..Len(m) /\ Separates(text, AtItem(q, m, h), b, m[h].split) /\ Paired(m[h].split, pairs)
       /\ IsText(m[h].split)
  BY <1>8, <1>10, <1>15
<1>17. 0 \in 0..Len(m[h].split) /\ 0 \notin pairs
  <2>1. Len(m[h].split) \in Nat
    BY <1>16, TextLength
  <2> QED
    BY <1>16, <2>1 DEF Paired
<1>18. b + 0 \in 1..(Len(text) + 2) /\ b + 0 = b
  BY <1>7, <1>16, <1>17, BehindPlace
<1>19. lex_next_token(text, b + 0, stage).type \notin NoToken
  <2>1. \A n \in 0..Len(m[h].split) : n \notin pairs => lex_next_token(text, b + n, stage).type \notin NoToken
    <3>1. /\ UserItems(f.spec.items) /\ Left(text, e, q, FromItems(f)) /\ h \in 1..Len(f.spec.items.means)
          /\ LateStage(f, stage) /\ Clean(text) /\ FieldOfParts(f)
          /\ Separates(text, AtItem(q, f.spec.items.means, h), b, m[h].split) /\ Paired(m[h].split, pairs)
      BY <1>3, <1>6, <1>16
    <3> HIDE DEF i, m
    <3> TAKE n \in 0..Len(m[h].split)
    <3> HAVE n \notin pairs
    <3> QED
      BY <3>1, BehindSome, Zenon
  <2> QED
    BY <1>17, <2>1, Zenon
<1>20. /\ pc' = "chrono_split" /\ field' = g /\ stage' = stage /\ text' = text
       /\ token' = lex_next_token(text', token'.beg, stage')
       /\ token'.beg = current
       /\ current' = token'.beg + token'.len
  BY <1>11, <1>13, <1>18, <1>19, NextRead
<1>21. token'.beg = b + 0 /\ field' = WithItems(f, a, ItemsTaken(m, h, 0))
  BY <1>11, <1>14, <1>15, <1>18, <1>20
<1>22. BehindOne(f, e, a, q, h, b, 0, pairs)'
  BY <1>6, <1>16, <1>17, <1>20, <1>21, Zenon DEF BehindOne
<1>23. OnBehind(f, e, a)'
  BY <1>3, <1>20, <1>22 DEF OnBehind, LateStage, StageOf, AlignFound
<1> QED
  BY <1>20, <1>23 DEF WithinField

\* Behind the last of the characters, on to the next item or to the end of the field.
LEMMA BehindEnds ==
  ASSUME NEW f, FieldOfParts(f), NEW e, Clean(text), WithinField(f, e), ChronoSplit,
         LateStage(f, stage), NEW a, AlignFound(f, a),
         NEW q, NEW k, NEW b, NEW n, NEW pairs, BehindOne(f, e, a, q, k, b, n, pairs),
         n = Len(f.spec.items.means[k].split)
  PROVE  WithinField(f, e)'
<1> DEFINE i == f.spec.items
           m == f.spec.items.means
<1>1. /\ UserItems(i) /\ Left(text, e, q, FromItems(f)) /\ k \in 1..Len(m)
      /\ IsText(m[k].split)
      /\ Separates(text, AtItem(q, m, k), b, m[k].split)
      /\ n \in 0..Len(m[k].split)
      /\ token.beg = b + n
      /\ token = lex_next_token(text, token.beg, stage)
      /\ current = token.beg + token.len
      /\ field = WithItems(f, a, ItemsTaken(m, k, n))
  BY Zenon DEF BehindOne
<1>2. token.beg = AtItem(q, m, k)
  <2>1. b + Len(m[k].split) = AtItem(q, m, k)
    BY <1>1, Zenon DEF Separates, Left
  <2> QED
    BY <1>1, <2>1, Zenon
<1>3. field = WithItems(f, a, Taken(m, k))
  BY <1>1, ItemTakenAll, Zenon
<1>4. /\ k = Len(m) => token.type = CloseType(f) /\ Left(text, e, token.beg, CloseText(f))
      /\ k < Len(m) => token.type \in UserdefTokens
  <2>1. token = lex_next_token(text, AtItem(q, m, k), stage)
    BY <1>1, <1>2, Zenon
  <2>2. UserItems(i) /\ Left(text, e, q, FromItems(f)) /\ k \in 1..Len(m)
    BY <1>1, Zenon
  <2>3. /\ k = Len(m) => token.type = CloseType(f) /\ Left(text, e, AtItem(q, m, k), CloseText(f))
        /\ k < Len(m) => token.type \in UserdefTokens
    BY <2>1, <2>2, BehindLast
  <2> QED
    BY <1>2, <2>3
<1>5. Len(m) \in Nat /\ (k = Len(m) \/ k < Len(m))
  <2>1. Len(m) \in Nat /\ k \in 1..Len(m)
    BY <1>1, Zenon DEF UserItems
  <2> HIDE DEF m
  <2> QED
    BY <2>1
<1>6. pc = "chrono_split"
  BY DEF ChronoSplit
<1>7. CASE k < Len(m)
  <2>1. token.type \in ChronoTokens
    BY <1>4, <1>7 DEF ChronoTokens
  <2>2. Skip("chrono", field)
    BY <2>1, TimeTokensApart DEF ChronoSplit, SplitEnds
  <2>3. k \in 0..(Len(m) - 1)
    <3>1. k \in 1..Len(m)
      BY <1>1, Zenon
    <3> HIDE DEF m
    <3> QED
      BY <3>1, <1>5, <1>7
  <2>4. OnItem(f, e, a, q, k)
    BY <1>1, <1>2, <1>3, <2>3, Zenon DEF OnItem
  <2>5. pc' = "chrono" /\ UNCHANGED <<text, current, token, stage, field>>
    BY <2>2 DEF Skip
  <2>6. OnItems(f, e, a)
    BY <2>4 DEF OnItems
  <2>7. OnItems(f, e, a)'
    BY <2>5, <2>6 DEF OnItems, OnItem, On, LateStage, StageOf, AlignFound
  <2> QED
    BY <2>5, <2>7 DEF WithinField
<1>8. CASE k = Len(m)
  <2>1. token.type \in {"RightBrace", "RightBracketBrace"} /\ Left(text, e, token.beg, CloseText(f))
    BY <1>4, <1>8 DEF CloseType
  <2>2. token.type \notin ChronoTokens /\ token.type \in SplitEnds
    BY <2>1, TimeTokensApart DEF SplitEnds
  <2>3. Skip("end", field)
    BY <2>2 DEF ChronoSplit
  <2>4. On(e, CloseText(f))
    BY <1>1, <2>1, Zenon DEF On
  <2>5. pc' = "end" /\ field' = field /\ stage' = stage /\ On(e, CloseText(f))'
    BY <2>3, <2>4, SkipOn
  <2>6. Taken(m, k) = m
    BY <1>1, <1>8, ItemsAreText, TakenAll, Zenon
  <2>7. field' = FoundField(f, 9, a)
    BY <1>3, <2>5, <2>6, FoundTimes
  <2>8. OnClose(f, e, a)'
    BY <2>5, <2>7 DEF OnClose, LateStage, AlignFound
  <2> QED
    BY <2>5, <2>8 DEF WithinField
<1> QED
  BY <1>5, <1>7, <1>8

\* What the field F becomes by the characters y behind its last item.
SplitAdded(F, y) == [F EXCEPT !.items[Len(F.items)].split = @ \o y]

\* The characters of the next token are added to those of the last item.
LEMMA AddsSplit ==
  ASSUME NEW f, NEW a, NEW F, NEW items, NEW k \in Nat, k >= 1, NEW n, NEW l, NEW y,
         F = WithItems(f, a, ItemsTaken(items, k, n)),
         Taken(items[k].split, n) \o y = Taken(items[k].split, l)
  PROVE  SplitAdded(F, y) = WithItems(f, a, ItemsTaken(items, k, l))
<1> DEFINE X == ItemsTaken(items, k, n)
           Y == ItemsTaken(items, k, l)
<1>1. F.items = X
  BY FoundTimes
<1>2. Len(F.items) = k
  BY <1>1, ItemsTakenLength
<1>3. SplitLonger(X, k, y) = Y
  BY ItemTakenMore
<1>4. \A x : [WithItems(f, a, ItemsTaken(items, k, n)) EXCEPT !.items = x] = WithItems(f, a, x)
  BY FoundTimes
<1>5. [F EXCEPT !.items = Y] = WithItems(f, a, Y)
  BY <1>4, Zenon
<1> HIDE DEF X, Y
<1>6. [F EXCEPT !.items[k].split = @ \o y] = [F EXCEPT !.items = SplitLonger(X, k, y)]
  BY <1>1 DEF SplitLonger
<1>7. [F EXCEPT !.items[k].split = @ \o y] = WithItems(f, a, Y)
  BY <1>3, <1>5, <1>6, Zenon
<1>8. \A c : c = k => [F EXCEPT !.items[c].split = @ \o y] = WithItems(f, a, Y)
  BY <1>7, Zenon
<1> QED
  BY <1>2, <1>8, Zenon DEF SplitAdded, Y

\* Before that, on to the next character.
LEMMA BehindGoesOn ==
  ASSUME NEW f, FieldOfParts(f), NEW e, Clean(text), ChronoSplit,
         LateStage(f, stage), NEW a, AlignFound(f, a),
         NEW q, NEW k, NEW b, NEW n, NEW pairs, BehindOne(f, e, a, q, k, b, n, pairs),
         n # Len(f.spec.items.means[k].split)
  PROVE  WithinField(f, e)'
<1> DEFINE i == f.spec.items
           m == f.spec.items.means
           chars == f.spec.items.means[k].split
           l == token.len
<1>1. /\ UserItems(i) /\ Left(text, e, q, FromItems(f)) /\ k \in 1..Len(m)
      /\ IsText(chars)
      /\ Separates(text, AtItem(q, m, k), b, chars) /\ Paired(chars, pairs)
      /\ n \in 0..Len(chars) /\ n \notin pairs
      /\ token.beg = b + n
      /\ token = lex_next_token(text, b + n, stage)
      /\ current = token.beg + token.len
      /\ field = WithItems(f, a, ItemsTaken(m, k, n))
  BY DEF BehindOne
<1> HIDE DEF chars
<1>2. Len(chars) \in Nat /\ b \in Nat /\ n \in Nat /\ Left(text, AtItem(q, m, k), b, chars)
  <2>1. Left(text, AtItem(q, m, k), b, chars)
    BY <1>1, Zenon DEF Separates
  <2> QED
    BY <1>1, <2>1, BehindPlace
<1>3. n \in 0..(Len(chars) - 1)
  <2>1. n # Len(chars)
    BY DEF chars
  <2> QED
    BY <1>1, <1>2, <2>1
<1>4. token.type \in InnerTypes /\ l \in 1..(Len(chars) - n) /\ n + l \notin pairs
  <2>1. "MatchChronoToken" \in stage
    BY DEF LateStage
  <2> QED
    BY <1>1, <1>3, <2>1, BehindWithin
<1>5. token.type \notin ChronoTokens /\ token.type \notin SplitEnds
  BY <1>4, TimeTokensApart DEF InnerTypes, SplitEnds, AlignTokens
<1> HIDE DEF l
<1> DEFINE g == SplitAdded(field, TokenText)
<1>6. parser_next_token(stage, "chrono_split", g)
  BY <1>5 DEF ChronoSplit, SplitAdded
<1>7. TokenText = CharactersAt(text, b + n, l)
  BY <1>1 DEF TokenText, CharactersAt, l
<1>8. k \in Nat /\ k >= 1
  BY <1>1 DEF UserItems
<1>9. PICK h : h = n + l
  OBVIOUS
<1>10. h \in 0..Len(chars) /\ h \notin pairs /\ h \in Nat
  BY <1>2, <1>3, <1>4, <1>9
<1>11. g = WithItems(f, a, ItemsTaken(m, k, h))
  <2>1. Taken(chars, n) \o CharactersAt(text, b + n, l) = Taken(chars, n + l)
    <3>1. n \in 0..Len(chars) /\ l \in 1..(Len(chars) - n) /\ Left(text, AtItem(q, m, k), b, chars)
      BY <1>1, <1>2, <1>4
    <3> HIDE DEF m, i
    <3> QED
      BY <3>1, TokenTaken
  <2>2. Taken(m[k].split, n) \o TokenText = Taken(m[k].split, h)
    BY <1>7, <1>9, <2>1, Zenon DEF chars
  <2> QED
    <3>1. field = WithItems(f, a, ItemsTaken(m, k, n))
      BY <1>1
    <3> HIDE DEF m
    <3> QED
      BY <1>8, <2>2, <3>1, AddsSplit DEF g
<1>12. current = b + h
  BY <1>1, <1>2, <1>4, <1>9 DEF l
<1> HIDE DEF g
<1>13. current \in 1..(Len(text) + 2)
  BY <1>1, <1>10, <1>12, BehindPlace
<1>14. lex_next_token(text, current, stage).type \notin NoToken
  <2>1. \A z \in 0..Len(chars) : z \notin pairs => lex_next_token(text, b + z, stage).type \notin NoToken
    <3>1. /\ UserItems(f.spec.items) /\ Left(text, e, q, FromItems(f)) /\ k \in 1..Len(f.spec.items.means)
          /\ Separates(text, AtItem(q, f.spec.items.means, k), b, chars) /\ Paired(chars, pairs)
      BY <1>1
    <3> HIDE DEF chars, m, i
    <3> TAKE z \in 0..Len(chars)
    <3> HAVE z \notin pairs
    <3> QED
      BY <3>1, BehindSome, Zenon
  <2> QED
    BY <1>10, <1>12, <2>1, Zenon
<1>15. /\ pc' = "chrono_split" /\ field' = g /\ stage' = stage /\ text' = text
       /\ token' = lex_next_token(text', token'.beg, stage')
       /\ token'.beg = current
       /\ current' = token'.beg + token'.len
  BY <1>6, <1>13, <1>14, NextRead
<1>16. token'.beg = b + h /\ field' = WithItems(f, a, ItemsTaken(m, k, h))
  BY <1>11, <1>12, <1>15
<1>17. BehindOne(f, e, a, q, k, b, h, pairs)'
  BY <1>1, <1>10, <1>15, <1>16, Zenon DEF BehindOne, chars
<1>18. OnBehind(f, e, a)'
  BY <1>15, <1>17 DEF OnBehind, LateStage, StageOf, AlignFound
<1> QED
  BY <1>15, <1>18 DEF WithinField

\* The loop over the characters behind an item ends at the next item, or at the end of the field.
LEMMA BehindReads ==
  ASSUME NEW f, FieldOfParts(f), NEW e, Clean(text), WithinField(f, e), ChronoSplit
  PROVE  WithinField(f, e)'
<1>1. pc = "chrono_split"
  BY DEF ChronoSplit
<1>2. PICK a : OnBehind(f, e, a)
  BY <1>1 DEF WithinField
<1>3. PICK q, k, b, n, pairs : BehindOne(f, e, a, q, k, b, n, pairs)
  BY <1>2 DEF OnBehind
<1>4. LateStage(f, stage) /\ AlignFound(f, a)
  BY <1>2 DEF OnBehind
<1> QED
  BY <1>3, <1>4, BehindEnds, BehindGoesOn

--------------------------------------------------------------------------------
(* The theorem.                                                                *)

\* The text is what the caller wrote, and a field that it begins with is being read.
ReaderInv ==
  /\ Clean(text)
  /\ meant.len > 0 =>
       \E f \in Fields : /\ meant = Meant(FieldMeans(f), Len(FieldText(f)))
                         /\ WithinField(f, 1 + Len(FieldText(f)))

\* Every step of the parser stays within the field.
LEMMA FieldStep ==
  ASSUME NEW f, FieldOfParts(f), NEW e, Clean(text), WithinField(f, e), ParserNext
  PROVE  WithinField(f, e)'
BY GoalReads, EscapeReads, ReplacementReads, ArgIdReads, ArgTypeReads, SplitOpens, SplitReads, SpecReads,
   ItemsReads, AlignReads, SignReads, WidthReads, FormatReads, PredefReads, ItemReads, BehindReads, EndReads
   DEF ParserNext

\* Where nothing changes the parser stays where it is.
LEMMA FieldRests ==
  ASSUME NEW f, NEW e, WithinField(f, e), UNCHANGED reader_vars
  PROVE  WithinField(f, e)'
<1>1. UNCHANGED <<text, current, token, stage, pc, field>>
  BY DEF reader_vars, parser_vars
<1> QED
  BY <1>1 DEF WithinField, BeforeField, OnOpen, OnId, OnType, OnSplit, InSplit, OnSpec, OnFill, OnAlign, OnSign,
              OnWidth, OnFormat, OnItem, OnItems, BehindOne, OnBehind, OnClose, FieldRead, On, EarlyStage,
              LateStage, StageOf, AlignFound

\* The parser stands in front of a field that its text begins with.
LEMMA FieldStarts ==
  ASSUME NEW f \in Fields, NEW rest \in Rests, text = FieldText(f) \o rest, ParserStart(1)
  PROVE  Clean(text) /\ WithinField(f, 1 + Len(FieldText(f)))
<1> DEFINE s == FieldText(f)
           e == 1 + Len(s)
<1>1. /\ Grammatical(f, Word, PlaceMaxWidth, ChronoPlaceMax)
      /\ s \in Seq(STRING \ {NUL}) /\ rest \in Seq(STRING \ {NUL})
  BY ReaderAssumption
<1>2. FieldOfParts(f)
  BY <1>1, GrammarParts
<1>3. s = FromOpen(f) /\ IsText(FromOpen(f)) /\ FromOpen(f) # <<>>
  BY <1>2, FieldIsOpened, LeftTexts DEF FieldOfParts
<1> HIDE DEF s
<1>4. IsText(s) /\ IsText(rest)
  BY <1>1 DEF IsText
<1>5. text = s \o rest
  BY DEF s
<1>6. Clean(text)
  <2>1. s \o rest \in Seq(STRING \ {NUL})
    BY <1>1
  <2>2. text \in Seq(STRING \ {NUL})
    BY <1>5, <2>1
  <2>3. text \in Seq(STRING)
    BY <2>2
  <2>4. \A i \in 1..Len(text) : text[i] # NUL
    BY <2>2
  <2> QED
    BY <2>3, <2>4 DEF Clean
<1>7. Len(s) \in Nat /\ Len(rest) \in Nat /\ Len(text) = Len(s) + Len(rest) /\ \A i \in 1..Len(s) : text[i] = s[i]
  BY <1>4, <1>5, JoinedCharacters
<1>8. Holds(text, 1, s)
  <2> SUFFICES ASSUME NEW i \in 1..Len(s) PROVE At(text, 1 + i - 1) = s[i]
    BY DEF Holds
  <2>1. 1 + i - 1 = i /\ i <= Len(text)
    BY <1>7
  <2> QED
    BY <1>7, <2>1 DEF At
<1>9. current = 1 /\ stage = {} /\ pc = "goal" /\ field = NoField
  BY DEF ParserStart
<1>10. Left(text, e, current, FromOpen(f))
  BY <1>3, <1>7, <1>8, <1>9 DEF Left
<1>11. BeforeField(f, e)
  BY <1>9, <1>10, NothingFound, Zenon DEF BeforeField
<1>12. WithinField(f, e)
  BY <1>9, <1>11 DEF WithinField
<1> QED
  BY <1>6, <1>12 DEF s

\* The invariant holds at first, and after every step.
LEMMA ReaderStarts == ReaderInit => ReaderInv
<1> SUFFICES ASSUME ReaderInit PROVE ReaderInv
  OBVIOUS
<1>1. CASE text \in Texts /\ meant = Meant(NoField, 0)
  <2>1. Clean(text)
    BY <1>1, ParserAssumption DEF Clean
  <2>2. ~ (meant.len > 0)
    BY <1>1 DEF Meant
  <2> QED
    BY <2>1, <2>2 DEF ReaderInv
<1>2. CASE \E f \in Fields, rest \in Rests :
             text = FieldText(f) \o rest /\ meant = Meant(FieldMeans(f), Len(FieldText(f)))
  <2>1. PICK f \in Fields, rest \in Rests :
          text = FieldText(f) \o rest /\ meant = Meant(FieldMeans(f), Len(FieldText(f)))
    BY <1>2
  <2>2. Clean(text) /\ WithinField(f, 1 + Len(FieldText(f)))
    BY <2>1, FieldStarts DEF ReaderInit
  <2> QED
    BY <2>1, <2>2 DEF ReaderInv
<1> QED
  BY <1>1, <1>2 DEF ReaderInit

LEMMA ReaderStays == ReaderInv /\ [ParserNext /\ UNCHANGED meant]_reader_vars => ReaderInv'
<1> SUFFICES ASSUME ReaderInv, [ParserNext /\ UNCHANGED meant]_reader_vars PROVE ReaderInv'
  OBVIOUS
<1>1. text' = text /\ meant' = meant
  BY TextStays DEF reader_vars, parser_vars
<1>2. Clean(text) /\ Clean(text)'
  BY <1>1 DEF ReaderInv, Clean
<1>3. CASE meant.len > 0
  <2>1. PICK f \in Fields : /\ meant = Meant(FieldMeans(f), Len(FieldText(f)))
                            /\ WithinField(f, 1 + Len(FieldText(f)))
    BY <1>3 DEF ReaderInv
  <2>2. FieldOfParts(f)
    BY ReaderAssumption, GrammarParts
  <2>3. WithinField(f, 1 + Len(FieldText(f)))'
    <3>1. PICK e : e = 1 + Len(FieldText(f))
      OBVIOUS
    <3>2. WithinField(f, e)
      BY <2>1, <3>1
    <3>3. WithinField(f, e)'
      BY <1>2, <2>2, <3>2, FieldStep, FieldRests
    <3> QED
      BY <3>1, <3>3
  <2> QED
    BY <1>1, <1>2, <2>1, <2>3 DEF ReaderInv
<1>4. CASE ~ (meant.len > 0)
  BY <1>1, <1>2, <1>4 DEF ReaderInv
<1> QED
  BY <1>3, <1>4

\* What has been read of a field to its end is what it means.
LEMMA FieldIsRead ==
  ASSUME NEW f, FieldOfParts(f), NEW a, AlignFound(f, a), PlaceMaxWidth <= Word
  PROVE  LET g == FoundField(f, 9, a)
         IN  (IF g.width = -1 THEN [g EXCEPT !.align = "Right"] ELSE g) = FieldMeans(f)
<1> DEFINE g == FoundField(f, 9, a)
           w == f.spec.width
<1>1. g = FieldOf(f.class, f.id.means, f.type.means.type, f.type.means.prop, f.split.means, a,
                  f.spec.fill.means, f.spec.sign.means, f.spec.width.means, f.spec.fmt.means, f.spec.items.means)
  BY FoundParts
<1> HIDE DEF g
<1>2. w.text = <<>> <=> g.width = -1
  <2>1. g.width = w.means
    BY <1>1 DEF FieldOf
  <2>2. CASE w.text = <<>> /\ w.means = -1
    BY <2>1, <2>2
  <2>3. CASE IsDigits(w.text) /\ IsNumber(w, PlaceMaxWidth)
    <3>1. PlaceMaxWidth \in Nat
      BY ParserAssumption
    <3>2. w.means \in 0..(PlaceMaxWidth - 1) /\ w.text # <<>>
      BY <2>3, <3>1, NumberTaken DEF IsDigits
    <3> QED
      BY <2>1, <3>1, <3>2
  <2>4. (w.text = <<>> /\ w.means = -1) \/ (IsDigits(w.text) /\ IsNumber(w, PlaceMaxWidth))
    BY Zenon DEF FieldOfParts, SpecParts
  <2> QED
    BY <2>2, <2>3, <2>4
<1>3. CASE w.text = <<>>
  <2>1. [g EXCEPT !.align = "Right"] = FieldMeans(f)
    BY <1>1, <1>3 DEF FieldOf, FieldMeans
  <2> QED
    BY <1>2, <1>3, <2>1 DEF g
<1>4. CASE w.text # <<>>
  <2>1. a = f.spec.align.means
    BY <1>4 DEF AlignFound
  <2>2. g = FieldMeans(f)
    BY <1>1, <1>4, <2>1 DEF FieldOf, FieldMeans
  <2> QED
    BY <1>2, <1>4, <2>2 DEF g
<1> QED
  BY <1>3, <1>4

\* Whatever fields the grammar describes, and whatever stands behind them, the parser
\* accepts each one, stops at its end, and has read what it means: its id, its type, its
\* separators, its fill, alignment, sign, width and format, and every item of a time with
\* the characters behind it.
THEOREM ReaderReadsFields == ReaderSpec => []FieldsReadBack
<1>1. ReaderInv => FieldsReadBack
  <2> SUFFICES ASSUME ReaderInv, pc \in Ended, meant.len > 0
               PROVE  LET read == IF field.width = -1 THEN [field EXCEPT !.align = "Right"] ELSE field
                      IN  pc = "done" /\ current = meant.len + 1 /\ read = meant.means
    BY DEF FieldsReadBack
  <2>1. PICK f \in Fields : /\ meant = Meant(FieldMeans(f), Len(FieldText(f)))
                            /\ WithinField(f, 1 + Len(FieldText(f)))
    BY DEF ReaderInv
  <2>2. pc = "done"
    BY <2>1 DEF WithinField, Ended
  <2>3. PICK a : FieldRead(f, 1 + Len(FieldText(f)), a)
    BY <2>1, <2>2 DEF WithinField
  <2>4. FieldOfParts(f) /\ PlaceMaxWidth <= Word
    BY ReaderAssumption, GrammarParts
  <2>5. field = FoundField(f, 9, a) /\ AlignFound(f, a) /\ current = 1 + Len(FieldText(f))
    BY <2>3 DEF FieldRead
  <2>6. (IF field.width = -1 THEN [field EXCEPT !.align = "Right"] ELSE field) = FieldMeans(f)
    BY <2>4, <2>5, FieldIsRead
  <2>7. meant.len = Len(FieldText(f)) /\ meant.means = FieldMeans(f)
    BY <2>1 DEF Meant
  <2>8. current = meant.len + 1
    <3>1. FieldText(f) \in Seq(STRING \ {NUL})
      BY ReaderAssumption
    <3>2. Len(FieldText(f)) \in Nat
      BY <3>1
    <3> QED
      BY <2>5, <2>7, <3>2
  <2> QED
    BY <2>2, <2>6, <2>7, <2>8
<1> QED
  BY <1>1, ReaderStarts, ReaderStays, PTL DEF ReaderSpec
===============================================================================
