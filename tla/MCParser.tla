------------------------------- MODULE MCParser -------------------------------
(* Fields put together from parts, alone and with braces behind them, and all   *)
(* short texts over the characters that the parser distinguishes.               *)
EXTENDS FieldReader

Ids == {Part(<<"0">>, 0), Part(<<"1", "5">>, 15)}

Type(type, prop) == [type |-> type, prop |-> prop]

Types ==
  {Part(<<"i", "8">>, Type("Int8", 0)), Part(<<"i", "1", "6">>, Type("Int16", 0)),
   Part(<<"i", "3", "2">>, Type("Int32", 0)), Part(<<"u", "8">>, Type("Uint8", 0)),
   Part(<<"u", "1", "6">>, Type("Uint16", 0)), Part(<<"u", "3", "2">>, Type("Uint32", 0)),
   Part(<<"s">>, Type("CString", 0)), Part(<<"t">>, Type("Time", 0)),
   Part(<<"q", "7">>, Type("QuantizedValue", 7)), Part(<<"q", "3", "1">>, Type("QuantizedValue", 31)),
   Part(<<"q", "7", "u">>, Type("QuantizedUnsignedValue", 7)),
   Part(<<"q", "1", "2", "u">>, Type("QuantizedUnsignedValue", 12))}

OneType == {Part(<<"u", "8">>, Type("Uint8", 0))}

NoSplit == Part(<<>>, <<",", " ">>)

Splits ==
  {NoSplit, Part(<<"|", ":", "-">>, <<"-">>), Part(<<"|", ":">>, <<>>),
   Part(<<"|", ":", "{", "%">>, <<"{", "%">>)}

Fill(c) == Part(<<c>>, c)

NoFill == Part(<<>>, " ")

\* Any character may fill, but for those that read as a type or an alignment.
Fills == {NoFill} \cup {Fill(c) : c \in {"*", "0", ":", " ", "d", "%", "{", "+"}}

NoAlign == Part(<<>>, "Right")

Aligns == {Part(<<"<">>, "Left"), Part(<<"=">>, "Center"), Part(<<">">>, "Right")}

NoSign == Part(<<>>, "NegOnly")

Signs == {NoSign, Part(<<"+">>, "Always"), Part(<<"-">>, "NegOnly"), Part(<<" ">>, "Neg_Or_Space")}

NoWidth == Part(<<>>, -1)

Widths == {NoWidth, Part(<<"7">>, 7), Part(<<"3", "1">>, 31)}

NoFormat == Part(<<>>, UnSpec)

Formats == {NoFormat} \cup {Part(<<c>>, FormatTypeOf[c]) : c \in DOMAIN FormatTypeOf}

NoItems == Part(<<>>, <<>>)

\* One item, two with a separator that holds a percent sign, all that there can be, and
\* the two that stand for many.
Times ==
  {Part(<<"%", "y", "y", "y", "y">>, <<Split(Item("Year", TRUE, 4), <<>>)>>),
   Part(<<"%", "d", "%", "%", "-", "%", "M", "M">>,
        <<Split(Item("Day", FALSE, 1), <<"%", "%", "-">>), Split(Item("Month", TRUE, 2), <<>>)>>),
   Part(<<"%", "h", "%", "H", "%", "m", "%", "s", "%", "x", "%", "x", "x", "%", "w", "%", "w", ".">>,
        <<Split(Item("Hour", FALSE, 1), <<>>), Split(Item("Hour24", FALSE, 1), <<>>),
          Split(Item("Minute", FALSE, 1), <<>>), Split(Item("Second", FALSE, 1), <<>>),
          Split(Item("SubSecond", TRUE, 1), <<>>), Split(Item("SubSecond", TRUE, 2), <<>>),
          Split(Item("Week", FALSE, 0), <<>>), Split(Item("Week", FALSE, 0), <<".">>)>>),
   Part(<<"%", "g">>, Predef_g), Part(<<"%", "f">>, Predef_f)}

Aligned == {<<NoFill, NoAlign>>} \cup (Fills \X Aligns)

Specs ==
  {FieldSpec(a[1], a[2], s, w, NoFormat, NoItems) : a \in Aligned, s \in Signs, w \in Widths}
  \cup {FieldSpec(NoFill, NoAlign, s, w, f, NoItems) : s \in Signs, w \in Widths, f \in Formats}
  \cup {FieldSpec(a[1], a[2], NoSign, w, NoFormat, i) : a \in Aligned, w \in Widths, i \in Times}

NoSpec == FieldSpec(NoFill, NoAlign, NoSign, NoWidth, NoFormat, NoItems)

FewSpecs == {NoSpec, FieldSpec(Fill("*"), Part(<<"=">>, "Center"), NoSign, Part(<<"7">>, 7), NoFormat, NoItems)}

SomeFields ==
  {Parts("Value", i, t, NoSplit, s) : i \in Ids, t \in OneType, s \in Specs}
  \cup {Parts(c, i, t, NoSplit, s) : c \in {"Value", "Array"}, i \in Ids, t \in Types, s \in FewSpecs}
  \cup {Parts("Array", i, t, p, s) : i \in Ids, t \in OneType, p \in Splits, s \in FewSpecs}

Over(chars, n) == UNION {[1..k -> chars] : k \in 0..n}

Brackets == {"{", "}", "[", "]"}

\* Beginnings that reach each part of the parser, to be followed by anything.
Beginnings ==
  {<<"{", "0", ":", "u", "8">>, <<"{", "[", "0", ":", "u", "8">>, <<"{", "0", ":", "t", ":">>,
   <<"{", "[", "0", ":", "t", "|", ":">>, <<"{", "0", ":", "t", ":", "%", "y">>}

SomeRests == {<<>>, <<"}">>, <<"}", "}">>, <<"]", "}">>, <<"{", "0">>}

SomeTexts ==
  Over(Brackets \cup {"0", ":", "u", "8"}, 4)
  \cup {b \o rest : b \in Beginnings, rest \in Over(Brackets \cup {":", "|", "%", "<", "0", "s", "y"}, 3)}
  \cup {<<"{", "0">> \o rest : rest \in Over({":", "F", "f", "q", "6", "4", ".", "}"}, 4)}
  \cup {<<"{", "0", ":", "t", ":", "%", "h", "%", "H", "%", "m", "%", "s", "%", "x", "%", "w", "%", "w", "%">>
          \o rest : rest \in Over({"w", "%", "f", "}"}, 4)}
===============================================================================
