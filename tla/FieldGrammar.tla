----------------------------- MODULE FieldGrammar -----------------------------
(***************************************************************************)
(* Replacement fields as the manual of MtFmT describes them                *)
(* (src/README.md): put together from parts, each with its text and what   *)
(* it means; which parts there are; and which go together.  FieldReader    *)
(* compares the parser with them.                                          *)
(***************************************************************************)
EXTENDS Integers, SequencesExt

Part(text, means) == [text |-> text, means |-> means]

\* The parts of a field; of an array also the separators.
Parts(class, id, type, split, spec) ==
  [class |-> class, id |-> id, type |-> type, split |-> split, spec |-> spec]

\* format_spec: [ [fill] align ] [sign] [width] [format_type | chrono_spec]; a part that is absent has
\* an empty text.
FieldSpec(fill, align, sign, width, fmt, items) ==
  [fill |-> fill, align |-> align, sign |-> sign, width |-> width, fmt |-> fmt, items |-> items]

SpecText(s) ==
  s.fill.text \o s.align.text \o s.sign.text \o s.width.text \o s.fmt.text \o s.items.text

FieldText(f) ==
  LET spec == IF SpecText(f.spec) = <<>> THEN <<>> ELSE <<":">> \o SpecText(f.spec)
      core == f.id.text \o <<":">> \o f.type.text \o f.split.text \o spec
  IN  IF f.class = "Value" THEN <<"{">> \o core \o <<"}">> ELSE <<"{", "[">> \o core \o <<"]", "}">>

FieldMeans(f) ==
  [class |-> f.class, id |-> f.id.means, type |-> f.type.means.type, prop |-> f.type.means.prop,
   split |-> f.split.means,
   align |-> IF f.spec.width.text = <<>> THEN "Right" ELSE f.spec.align.means,
   fill |-> f.spec.fill.means,
   sign |-> f.spec.sign.means, width |-> f.spec.width.means, fmt |-> f.spec.fmt.means,
   items |-> f.spec.items.means]

--------------------------------------------------------------------------------
(* The parts.                                                                  *)

Numerals == <<"0", "1", "2", "3", "4", "5", "6", "7", "8", "9">>

NumeralValue(c) == CHOOSE v \in 0..9 : c = Numerals[v + 1]

\* The number that a text of decimal digits stands for.
NumberRead(chars) ==
  LET value[n \in 0..Len(chars)] ==
        IF n = 0 THEN 0 ELSE (value[n - 1] * 10) + NumeralValue(chars[n])
  IN  value[Len(chars)]

IsNumber(p, limit) ==
  /\ p.text \in Seq(STRING) /\ p.text # <<>>
  /\ \A i \in 1..Len(p.text) : \E v \in 0..9 : p.text[i] = Numerals[v + 1]
  /\ p.means = NumberRead(p.text)
  /\ p.means < limit

TypeMeans(type, prop) == [type |-> type, prop |-> prop]

PlainTypes ==
  {Part(<<"i", "8">>, "Int8"), Part(<<"i", "1", "6">>, "Int16"), Part(<<"i", "3", "2">>, "Int32"),
   Part(<<"u", "8">>, "Uint8"), Part(<<"u", "1", "6">>, "Uint16"), Part(<<"u", "3", "2">>, "Uint32"),
   Part(<<"s">>, "CString"), Part(<<"t">>, "Time")}

QuantSigns == {Part(<<>>, "QuantizedValue"), Part(<<"u">>, "QuantizedUnsignedValue")}

\* A quantized type names the bits behind the point, in one or two digits.
TypeParts ==
  {Part(p.text, TypeMeans(p.means, 0)) : p \in PlainTypes}
  \cup {Part(<<"q", Numerals[a + 1]>> \o p.text, TypeMeans(p.means, a)) : a \in 0..9, p \in QuantSigns}
  \cup {Part(<<"q", Numerals[a + 1], Numerals[b + 1]>> \o p.text, TypeMeans(p.means, (10 * a) + b))
          : a \in 0..9, b \in 0..9, p \in QuantSigns}

\* The separators of an array are ", " if it names none.  They hold neither a colon nor
\* a closing brace, and do not end with a line, which would begin the next separators.
NoSeparators == Part(<<>>, <<",", " ">>)

IsSeparators(p) ==
  \/ p = NoSeparators
  \/ /\ p.means \in Seq(STRING \ {":", "}"})
     /\ p.text = <<"|", ":">> \o p.means
     /\ p.means # <<>> => p.means[Len(p.means)] # "|"

\* What ends a field does not fill, nor does what the source takes for a type or an
\* alignment.
NotFill == {"]", "|", "}"} \cup {"s", "t", "f", "<", ">", "="}

IsFill(p) == p = Part(<<>>, " ") \/ (p.means \in STRING \ NotFill /\ p.text = <<p.means>>)

AlignParts == {Part(<<>>, "Right"), Part(<<"<">>, "Left"), Part(<<"=">>, "Center"), Part(<<">">>, "Right")}

SignParts ==
  {Part(<<>>, "NegOnly"), Part(<<"+">>, "Always"), Part(<<"-">>, "NegOnly"), Part(<<" ">>, "Neg_Or_Space")}

IsWidth(p, limit) == p = Part(<<>>, -1) \/ IsNumber(p, limit)

FormatParts ==
  {Part(<<>>, "UnSpec"), Part(<<"b">>, "Binary"), Part(<<"d">>, "Deciaml"), Part(<<"o">>, "Oct"),
   Part(<<"h">>, "Hex"), Part(<<"H">>, "Hex_UpperCase"), Part(<<"x">>, "Hex_WithPrefix"),
   Part(<<"X">>, "Hex_UpperCase_WithPrefix")}

--------------------------------------------------------------------------------
(* The items of a time.                                                        *)

TimeLetters ==
  [y |-> "Year", M |-> "Month", d |-> "Day", h |-> "Hour", H |-> "Hour24", m |-> "Minute",
   s |-> "Second", x |-> "SubSecond", w |-> "Week"]

\* How often a letter may be repeated.
MostLetters(c) == CASE c \in {"y", "x"} -> 4 [] c = "w" -> 1 [] OTHER -> 2

\* Of the letters that are a number of digits an even number fixes it.
TimeMeans(c, n) ==
  [value_type |-> TimeLetters[c], fixed_length |-> c = "x" \/ (c # "w" /\ n % 2 = 0),
   format_length |-> IF c = "w" THEN 0 ELSE n]

\* What stands behind an item is not part of it, and a percent sign stands in a pair.  The
\* end of a field is not taken for a part of it.
IsBehindItem(chars, c, n) ==
  /\ chars \in Seq(STRING \ {":", "}"})
  /\ chars # <<>> => chars[Len(chars)] # "]" /\ (n < MostLetters(c) => chars[1] # c)
  /\ \E pairs \in SUBSET (1..(Len(chars) - 1)) :
       /\ \A p \in pairs : p + 1 \notin pairs
       /\ \A p \in 1..Len(chars) : chars[p] = "%" <=> p \in pairs \/ p - 1 \in pairs

IsTimeItem(i) ==
  \E c \in DOMAIN TimeLetters : \E n \in 1..MostLetters(c) :
    i.item = TimeMeans(c, n) /\ IsBehindItem(i.split, c, n)

LettersOf(item) ==
  LET c == CHOOSE c \in DOMAIN TimeLetters : TimeLetters[c] = item.value_type
  IN  [j \in 1..(IF c = "w" THEN 1 ELSE item.format_length) |-> c]

ItemText(i) == <<"%">> \o LettersOf(i.item) \o i.split

ItemsText(items) == FlattenSeq([k \in 1..Len(items) |-> ItemText(items[k])])

Behind(c, n, split) == [item |-> TimeMeans(c, n), split |-> split]

\* A date with its time, and the same with the day of the week.
DateAndTime(last) ==
  <<Behind("y", 4, <<"-">>), Behind("M", 2, <<"-">>), Behind("d", 2, <<" ">>), Behind("H", 2, <<":">>),
    Behind("m", 2, <<":">>), Behind("s", 2, <<".">>), Behind("x", 4, last)>>

PredefParts ==
  {Part(<<"%", "g">>, DateAndTime(<<>>)),
   Part(<<"%", "f">>, DateAndTime(<<" ">>) \o <<Behind("w", 1, <<>>)>>)}

\* As many items as there is room for.
IsTimes(p, limit) ==
  \/ p \in PredefParts
  \/ /\ p.means \in Seq([item : {TimeMeans(c, n) : c \in DOMAIN TimeLetters, n \in 1..4}, split : Seq(STRING)])
     /\ Len(p.means) <= limit
     /\ \A k \in 1..Len(p.means) : IsTimeItem(p.means[k])
     /\ p.text = ItemsText(p.means)

--------------------------------------------------------------------------------
\* A field of the grammar: ids, widths and items are below the limits of the source.  A fill
\* stands in front of an alignment, and items of a time stand in place of a format.
Grammatical(f, ids, widths, items) ==
  /\ f.class \in {"Value", "Array"}
  /\ IsNumber(f.id, ids)
  /\ f.type \in TypeParts
  /\ IF f.class = "Array" THEN IsSeparators(f.split) ELSE f.split = NoSeparators
  /\ IsFill(f.spec.fill)
  /\ f.spec.align \in AlignParts
  /\ f.spec.fill.text # <<>> => f.spec.align.text # <<>>
  /\ f.spec.sign \in SignParts
  /\ IsWidth(f.spec.width, widths)
  /\ f.spec.fmt \in FormatParts
  /\ IsTimes(f.spec.items, items)
  /\ f.spec.fmt.text # <<>> => f.spec.items.text = <<>>
===============================================================================
