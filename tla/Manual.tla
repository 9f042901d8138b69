-------------------------------- MODULE Manual --------------------------------
(***************************************************************************)
(* What the manual of MtFmT (src/README.md) says that a format string      *)
(* prints.  It is the reference for module Format, and says what a number  *)
(* looks like without saying how its digits are found.                     *)
(***************************************************************************)
EXTENDS FieldGrammar, Integers, SequencesExt

CONSTANTS
  WordBits,    \* the bits of an integer
  MaxPlaces    \* how many arguments there may be at most

Characters(letters) ==
  <<"0", "1", "2", "3", "4", "5", "6", "7", "8", "9">> \o letters

LowerCase == Characters(<<"a", "b", "c", "d", "e", "f">>)

UpperCase == Characters(<<"A", "B", "C", "D", "E", "F">>)

\* How many digits a number has.
Places(v, base) == CHOOSE n \in 1..(WordBits + 1) : v < base^n /\ (n = 1 \/ v >= base^(n - 1))

Numeral(v, base, characters) ==
  LET n == Places(v, base)
  IN  [i \in 1..n |-> characters[((v \div base^(n - i)) % base) + 1]]

Decimal(v) == Numeral(v, 10, LowerCase)

Integer(v, fmt) ==
  CASE fmt = "Binary"                   -> Numeral(v, 2, LowerCase)
    [] fmt = "Oct"                      -> Numeral(v, 8, LowerCase)
    [] fmt = "Hex"                      -> Numeral(v, 16, LowerCase)
    [] fmt = "Hex_UpperCase"            -> Numeral(v, 16, UpperCase)
    [] fmt = "Hex_WithPrefix"           -> <<"0", "x">> \o Numeral(v, 16, LowerCase)
    [] fmt = "Hex_UpperCase_WithPrefix" -> <<"0", "X">> \o Numeral(v, 16, UpperCase)
    [] OTHER                            -> Decimal(v)

\* v / 2^q, with all its digits.
Quantized(v, q) ==
  LET expansion[r \in Nat] ==
        IF r = 0 THEN <<>> ELSE <<LowerCase[((r * 10) \div 2^q) + 1]>> \o expansion[(r * 10) % 2^q]
      part == v % 2^q
  IN  Decimal(v \div 2^q) \o IF part = 0 THEN <<>> ELSE <<".">> \o expansion[part]

\* The sign in front of v; Always says nothing of 0.
SignText(v, sign) ==
  CASE v < 0                     -> <<"-">>
    [] v > 0 /\ sign = "Always"  -> <<"+">>
    [] v >= 0 /\ sign = "Neg_Or_Space" -> <<" ">>
    [] OTHER                     -> <<>>

Magnitude(v) == IF v < 0 THEN -v ELSE v

Filled(n, fill) == [i \in 1..n |-> fill]

\* A number of at least, or of exactly, so many digits.
AtLeast(v, n) == Filled(n - Places(v, 10), "0") \o Decimal(v)

\* One item of a time whose digits are bcd, the lowest first.  Of the fraction of a
\* second the first digits show.
TimeItemText(bcd, item) ==
  LET v == bcd[1] + (10 * bcd[2]) + (100 * bcd[3]) + (1000 * bcd[4])
  IN  CASE item.value_type = "SubSecond" -> SubSeq(AtLeast(v, 4), 1, item.format_length)
        [] item.value_type = "Week"      -> Decimal(v)
        [] OTHER                         -> AtLeast(v, item.format_length)

TimeText(tm, items) ==
  FlattenSeq([i \in 1..Len(items) |->
    TimeItemText(tm[IF items[i].item.value_type = "Hour24" THEN "Hour" ELSE items[i].item.value_type],
             items[i].item)
      \o items[i].split])

\* Is there a text for values of the type of the field f, in its format?
Printable(f) ==
  CASE f.type \in {"CString", "Time"} -> f.fmt = "UnSpec"
    [] f.type \in {"QuantizedValue", "QuantizedUnsignedValue"} -> f.prop \in 1..(WordBits - 1)
    [] OTHER -> TRUE

ValueText(f, v) ==
  CASE f.type = "CString"                   -> v
    [] f.type = "Time"                      -> TimeText(v, f.items)
    [] f.type = "QuantizedValue"            -> SignText(v, f.sign) \o Quantized(Magnitude(v), f.prop)
    [] f.type = "QuantizedUnsignedValue"    -> Quantized(v, f.prop)
    [] f.type \in {"Int8", "Int16", "Int32"} -> SignText(v, f.sign) \o Integer(Magnitude(v), f.fmt)
    [] OTHER                                -> Integer(v, f.fmt)

\* At least width characters.
Aligned(text, f) ==
  LET missing == IF f.width > Len(text) THEN f.width - Len(text) ELSE 0
      left    == CASE f.align = "Left" -> 0 [] f.align = "Right" -> missing [] OTHER -> missing \div 2
  IN  Filled(left, f.fill) \o text \o Filled(missing - left, f.fill)

\* Arguments: what they are, and their value.
ArgKind(type, array) == [ele |-> type, array |-> array]

Arg(kind, value) == [kind |-> kind, value |-> value]

\* The arguments that a field uses, in their order: an array is followed by its length.
Uses(f) ==
  IF f.class = "Array"
  THEN <<[id |-> f.id, kind |-> ArgKind(f.type, TRUE)], [id |-> f.id + 1, kind |-> ArgKind("Uint32", FALSE)]>>
  ELSE <<[id |-> f.id, kind |-> ArgKind(f.type, FALSE)]>>

FieldPrints(f, args) ==
  LET arg == args[f.id + 1].value
      ele == [i \in 1..args[f.id + 2].value |->
               ValueText(f, arg[i]) \o IF i < args[f.id + 2].value THEN f.split ELSE <<>>]
  IN  Aligned(IF f.class = "Array" THEN FlattenSeq(ele) ELSE ValueText(f, arg), f)

\* A piece of a format string: characters that stand for themselves, for others (an
\* escaped brace), for nothing (they are not a field), or a field.
Piece(kind, text, prints, field) == [kind |-> kind, text |-> text, prints |-> prints, field |-> field]

\* What a text prints up to the piece that is at fault, if there is one; how many of the
\* arguments have been used by then; and whether they are of the kinds given.
Reading(prints, used, whole, honest) ==
  [prints |-> prints, used |-> used, whole |-> whole, honest |-> honest]

\* One use of an argument.  Identifiers increase without a gap, and an argument keeps
\* the kind of its first use.
Use(u, args, place, r) ==
  CASE ~r.whole \/ ~r.honest      -> r
    [] u.id >= place \/ u.id > r.used -> [r EXCEPT !.whole = FALSE]
    [] OTHER ->
         LET new == u.id = r.used
         IN  [r EXCEPT !.used = IF new THEN @ + 1 ELSE @,
                       !.honest = (new => u.kind = args[u.id + 1].kind),
                       !.whole = u.kind = args[u.id + 1].kind]

ReadPiece(p, args, place, r) ==
  LET uses == IF p.kind = "field" THEN Uses(p.field) ELSE <<>>
      once == IF p.kind = "field" THEN Use(uses[1], args, place, r) ELSE r
      all  == IF Len(uses) = 2 THEN Use(uses[2], args, place, once) ELSE once
  IN  CASE ~r.whole \/ ~r.honest -> r
        [] p.kind = "plain"      -> [r EXCEPT !.prints = @ \o p.prints]
        [] p.kind = "broken"     -> [r EXCEPT !.whole = FALSE]
        [] OTHER ->
             IF all.whole /\ all.honest /\ Printable(p.field)
             THEN [all EXCEPT !.prints = @ \o FieldPrints(p.field, args)]
             ELSE [all EXCEPT !.whole = FALSE]

Read(pieces, args, place) ==
  LET after[n \in 0..Len(pieces)] ==
        IF n = 0 THEN Reading(<<>>, 0, place <= MaxPlaces, TRUE)
                 ELSE ReadPiece(pieces[n], args, place, after[n - 1])
  IN  after[Len(pieces)]

PiecesText(pieces) == FlattenSeq([i \in 1..Len(pieces) |-> pieces[i].text])
===============================================================================
