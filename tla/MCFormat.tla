------------------------------- MODULE MCFormat -------------------------------
(* Calls with one field of every kind and every value of a word of eight bits, and  *)
(* calls with several fields that use their arguments in any order and type.        *)
EXTENDS Printing

Char(c) == <<c>>

DigitText(n) == Char(<<"0", "1", "2", "3", "4", "5", "6", "7", "8", "9">>[n + 1])

\* Parts of fields.
Id(n) == Part(DigitText(n), n)

Type(chars, type, prop) == Part(chars, [type |-> type, prop |-> prop])

U8 == Type(<<"u", "8">>, "Uint8", 0)
U32 == Type(<<"u", "3", "2">>, "Uint32", 0)
I16 == Type(<<"i", "1", "6">>, "Int16", 0)
Str == Type(<<"s">>, "CString", 0)
Tim == Type(<<"t">>, "Time", 0)
Quant(n) == Type(<<"q">> \o DigitText(n), "QuantizedValue", n)
UQuant(n) == Type(<<"q">> \o DigitText(n) \o <<"u">>, "QuantizedUnsignedValue", n)

NoSplit == Part(<<>>, <<",", " ">>)
Dash == Part(<<"|", ":", "-">>, <<"-">>)
NoFill == Part(<<>>, " ")
Star == Part(<<"*">>, "*")
NoAlign == Part(<<>>, "Right")
Aligns == {Part(<<"<">>, "Left"), Part(<<"=">>, "Center"), Part(<<">">>, "Right")}
NoSign == Part(<<>>, "NegOnly")
Signs == {NoSign, Part(<<"+">>, "Always"), Part(<<" ">>, "Neg_Or_Space")}
NoWidth == Part(<<>>, -1)
Width(n) == Part(DigitText(n), n)
NoFormat == Part(<<>>, UnSpec)
Formats == {NoFormat} \cup {Part(Char(c), FormatTypeOf[c]) : c \in DOMAIN FormatTypeOf}
NoItems == Part(<<>>, <<>>)

NoSpec == FieldSpec(NoFill, NoAlign, NoSign, NoWidth, NoFormat, NoItems)

OfSign(s) == [NoSpec EXCEPT !.sign = s]

OfFormat(f) == [NoSpec EXCEPT !.fmt = f]

Padded(fill, align, n) == [NoSpec EXCEPT !.fill = fill, !.align = align, !.width = Width(n)]

Paddings == {Padded(f, a, n) : f \in {NoFill, Star}, a \in Aligns, n \in {1, 4, 7}}

Field(parts) == Piece("field", FieldText(parts), <<>>, FieldMeans(parts))

Value(id, type, spec) == Field(Parts("Value", Id(id), type, NoSplit, spec))

Array(id, type, split, spec) == Field(Parts("Array", Id(id), type, split, spec))

Plain(chars, prints) == Piece("plain", chars, prints, NoField)

\* No field and no text: a field that ends too early, a brace that nothing opened, and a
\* byte that is not ASCII.
Broken == {Piece("broken", t, <<>>, NoField) : t \in {<<"{", "0">>, <<"}", "x">>, <<"\\xe4">>}}

At0 == Plain(<<"@">>, <<"@">>)

Call(pieces, given, n) == [pieces |-> pieces, args |-> given, place |-> n]

One(type, spec, v) ==
  Call(<<At0, Value(0, type, spec), At0>>, <<Arg(ArgKind(type.means.type, FALSE), v)>>, 1)

Words == 0..255
SignedWords == -128..127

Bcd(a, b, c, d) == <<a, b, c, d>>

Clock ==
  [Year |-> Bcd(3, 2, 0, 2), Month |-> Bcd(5, 0, 0, 0), Day |-> Bcd(0, 1, 0, 0),
   Hour |-> Bcd(6, 1, 0, 0), Minute |-> Bcd(0, 0, 0, 0), Second |-> Bcd(9, 5, 0, 0),
   Week |-> Bcd(7, 0, 0, 0), SubSecond |-> Bcd(4, 0, 2, 0)]

Early == [Clock EXCEPT !.Year = Bcd(4, 2, 2, 0), !.Month = Bcd(2, 1, 0, 0), !.Week = Bcd(1, 0, 0, 0)]

TimeItem(chars, k, split) == Part(chars, <<Split(ChronoItemOf[k], split)>>)

Times ==
  {TimeItem(<<"%", "y", "y", "y", "y", "-">>, "Chrono_Year_Fixed4", <<"-">>),
   TimeItem(<<"%", "y", "y", "y">>, "Chrono_Year_3", <<>>),
   TimeItem(<<"%", "M">>, "Chrono_Month_1", <<>>), TimeItem(<<"%", "M", "M">>, "Chrono_Month_Fixed2", <<>>),
   TimeItem(<<"%", "d">>, "Chrono_Day_1", <<>>), TimeItem(<<"%", "h", "h">>, "Chrono_Hour_Fixed2", <<>>),
   TimeItem(<<"%", "m">>, "Chrono_Minute_1", <<>>), TimeItem(<<"%", "s", "s">>, "Chrono_Second_Fixed2", <<>>),
   TimeItem(<<"%", "x">>, "Chrono_SubSecond_Fixed1", <<>>),
   TimeItem(<<"%", "x", "x", "x">>, "Chrono_SubSecond_Fixed3", <<>>),
   Part(<<"%", "g">>, Predef_g), Part(<<"%", "f">>, Predef_f)}

OfTime(i) == [NoSpec EXCEPT !.items = i]

\* The power of five of a fraction of up to three bits fits into a word.
OneField ==
  {One(U8, NoSpec, v) : v \in Words}
  \cup {One(I16, NoSpec, v) : v \in SignedWords}
  \cup {One(I16, OfSign(s), v) : s \in Signs, v \in {-128, -1, 0, 1, 99}}
  \cup {One(U32, OfFormat(f), v) : f \in Formats, v \in {0, 7, 8, 10, 16, 100, 171, 255}}
  \cup {One(I16, OfFormat(f), v) : f \in Formats, v \in {-128, -1, 0, 90}}
  \cup {One(Quant(3), NoSpec, v) : v \in SignedWords}
  \cup {One(Quant(1), OfSign(s), v) : s \in Signs, v \in {-128, -1, 0, 1, 99}}
  \cup {One(UQuant(2), NoSpec, v) : v \in Words}
  \cup {One(Quant(q), NoSpec, v) : q \in {0, 8}, v \in {0, 5}}
  \cup {One(U8, p, v) : p \in Paddings, v \in {0, 42, 200}}
  \cup {One(Str, p, v) : p \in Paddings, v \in {<<>>, <<"a">>, <<"a", "b", "{", "}", "c", "d">>}}
  \cup {One(t, OfFormat(f), <<"a">>) : t \in {Str}, f \in Formats}
  \cup {One(Tim, OfTime(i), v) : i \in Times, v \in {Clock, Early}}
  \cup {One(Tim, OfFormat(f), Clock) : f \in Formats}
  \cup {Call(<<Array(0, t, s, p)>>, <<Arg(ArgKind(t.means.type, TRUE), v), Arg(ArgKind("Uint32", FALSE), n)>>, 2)
          : t \in {U8, I16}, s \in {NoSplit, Dash}, p \in {NoSpec, Padded(Star, Part(<<"=">>, "Center"), 8)},
            v \in {<<10, 0, 5>>}, n \in 0..3}

\* Several fields.
SomeFields ==
  {Value(n, t, NoSpec) : n \in 0..2, t \in {U32, Str}} \cup {Array(n, U8, Dash, NoSpec) : n \in 0..1}

SomePieces ==
  SomeFields \cup Broken \cup {Plain(<<"{", "{">>, <<"{">>), Plain(<<"}", "}">>, <<"}">>)}

Number(v) == Arg(ArgKind("Uint32", FALSE), v)
Word0(v) == Arg(ArgKind("CString", FALSE), v)
Numbers(v) == Arg(ArgKind("Uint8", TRUE), v)

SomeArgs ==
  {<<Number(3), Word0(<<"a", "b">>), Number(1)>>, <<Numbers(<<1, 2>>), Number(2), Word0(<<"c">>)>>,
   <<Word0(<<>>), Numbers(<<4, 5>>), Number(1)>>}

\* Only calls whose arguments are of the types in which they are used first.
Honest(c) == Read(c.pieces, c.args, c.place).honest

SomeTexts ==
  UNION {[1..k -> SomePieces] : k \in 0..2} \cup {<<At0>> \o f : f \in [1..3 -> SomeFields]}

SomeCalls ==
  OneField
  \cup {c \in {Call(p, a, n) : p \in SomeTexts, a \in SomeArgs, n \in {3, 2}} : Honest(c)}
  \cup {Call(<<At0>>, [i \in 1..n |-> Number(i)], n) : n \in {0, 17}}

SomeFormats == {PiecesText(c.pieces) : c \in SomeCalls}

\* Quantized numbers of every number of bits that is taken.
FractionCalls == {One(UQuant(q), NoSpec, v) : q \in 1..7, v \in {1, 96}}

FractionFormats == {PiecesText(c.pieces) : c \in FractionCalls}

Bytes == {"\\xe4"}
===============================================================================
