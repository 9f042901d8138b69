----------------------------- MODULE FormatProofs -----------------------------
(***************************************************************************)
(* What is proved of a formatting call, for every format string, whatever  *)
(* its arguments and the sizes of the build, and whichever allocation      *)
(* fails: the arguments are read in order and converted as what they are,  *)
(* the call stays within its text, its arguments and its strings, prints   *)
(* from left to right up to its first error, adds for a field what it asks *)
(* for and nothing else, and gives its memory back.                        *)
(* And what is proved of the conversions, for every value: the divisions   *)
(* that digits come from are exact, the numeral printed for an integer is  *)
(* the integer's, and a quantized number is printed without loss up to the *)
(* number of bits from which the code's words no longer hold the fraction. *)
(*                                                                         *)
(* The loops that push digits are recursive functions on the numbers.      *)
(* Nothing says that such a function exists until it is proved, and what   *)
(* it yields is proved by taking the least number that it fails for.       *)
(***************************************************************************)
EXTENDS Printing, ParserProofs

\* The points of a call behind the type of an argument.
TypedPoints ==
  {"split", "split_chars", "spec", "items", "align", "sign", "width", "format", "chrono",
   "chrono_split", "end", "done", "value"}

\* A field that a call can have found when it has come to the point "at".
Fits(f, at) ==
  /\ FieldShape(f)
  /\ f.id \in Nat
  /\ at \in TypedPoints /\ f.class # "EscapeChar" => f.type # Unknown

FieldKnown == Fits(field, pc)

--------------------------------------------------------------------------------
(* The parser.                                                                 *)

LEMMA NoFieldFits == Fits(NoField, "goal") /\ Fits(NoField, "entry")
BY DEF Fits, FieldShape, NoField, TypedPoints

LEMMA FailKeeps ==
  ASSUME FieldKnown, NEW err, Fail(err)
  PROVE  FieldKnown'
BY DEF FieldKnown, Fits, Fail, TypedPoints

LEMMA SkipKeeps ==
  ASSUME NEW to, NEW f, Fits(f, to), Skip(to, f)
  PROVE  FieldKnown'
BY DEF FieldKnown, Skip

LEMMA NextTokenKeeps ==
  ASSUME FieldKnown, NEW s, NEW to, NEW f, Fits(f, to), parser_next_token(s, to, f)
  PROVE  FieldKnown'
<1> DEFINE t == lex_next_token(text, current, s)
<1>1. CASE t.type \notin NoToken /\ pc' = to /\ field' = f
  BY <1>1 DEF FieldKnown
<1>2. CASE pc' \in {"failed", "lost"} /\ field' = field
  BY <1>2 DEF FieldKnown, Fits, TypedPoints
<1> QED
  BY <1>1, <1>2 DEF parser_next_token

\* Every argument that the parser accepts has a type.
LEMMA ArgTypesKnown == \A k \in DOMAIN ArgTypeOf : ArgTypeOf[k] # Unknown
BY DEF ArgTypeOf, Unknown

\* The other parts of a field may be assigned at any time.
LEMMA OtherPartsFit ==
  ASSUME NEW f, NEW at, Fits(f, at), NEW v
  PROVE  /\ Fits([f EXCEPT !.prop = v], at)
         /\ Fits([f EXCEPT !.split = v], at)
         /\ Fits([f EXCEPT !.align = v], at)
         /\ Fits([f EXCEPT !.fill = v], at)
         /\ Fits([f EXCEPT !.sign = v], at)
         /\ Fits([f EXCEPT !.width = v], at)
         /\ Fits([f EXCEPT !.fmt = v], at)
         /\ Fits([f EXCEPT !.items = v], at)
BY DEF Fits, FieldShape

\* Behind the type, a field fits at every point.
LEMMA LaterPartsFit ==
  ASSUME FieldKnown, pc \in TypedPoints, NEW v, NEW to
  PROVE  /\ Fits(field, to)
         /\ Fits([field EXCEPT !.split = v], to)
         /\ Fits([field EXCEPT !.align = v], to)
         /\ Fits([field EXCEPT !.fill = v], to)
         /\ Fits([field EXCEPT !.sign = v], to)
         /\ Fits([field EXCEPT !.width = v], to)
         /\ Fits([field EXCEPT !.fmt = v], to)
         /\ Fits([field EXCEPT !.items = v], to)
<1>1. Fits(field, to)
  BY DEF FieldKnown, Fits
<1> QED
  BY <1>1, OtherPartsFit

\* Up to the type.
LEMMA BeginningKeeps ==
  ASSUME FieldKnown,
         \/ mstr_fmt_parse_goal \/ EscapeChar \/ parse_replacement_field
         \/ parse_arg_id \/ parse_arg_type
  PROVE  FieldKnown'
<1>1. CASE mstr_fmt_parse_goal
  <2>1. Fits(field, "replacement")
    BY DEF FieldKnown, Fits, TypedPoints
  <2> QED
    BY <1>1, <2>1, NextTokenKeeps DEF mstr_fmt_parse_goal
<1>2. CASE EscapeChar
  <2>1. Fits([field EXCEPT !.class = "EscapeChar"], "done")
    BY DEF FieldKnown, Fits, FieldShape
  <2> QED
    BY <1>2, <2>1, SkipKeeps DEF EscapeChar
<1>3. CASE parse_replacement_field
  <2>1. \A class : Fits([field EXCEPT !.class = class], "arg_id")
    BY DEF FieldKnown, Fits, FieldShape, TypedPoints
  <2> QED
    BY <1>3, <2>1, NextTokenKeeps, FailKeeps DEF parse_replacement_field
<1>4. CASE parse_arg_id
  <2>1. ASSUME NEW id \in Nat PROVE Fits([field EXCEPT !.id = id], "arg_type")
    BY DEF FieldKnown, Fits, FieldShape, TypedPoints
  <2> DEFINE id == lex_atou(TokenText)
  <2>2. CASE token.type = "Digits"
    <3>1. /\ id \in 0..(Word - 1)
          /\ parser_next_token(parse_simple_field, "arg_type", [field EXCEPT !.id = id])
      BY <1>4, <2>2 DEF parse_arg_id
    <3>2. id \in Nat
      BY <3>1, ParserAssumption
    <3> HIDE DEF id
    <3> QED
      BY <3>1, <3>2, <2>1, NextTokenKeeps
  <2>3. CASE token.type # "Digits"
    BY <1>4, <2>3, FailKeeps DEF parse_arg_id
  <2> QED
    BY <2>2, <2>3
<1>5. CASE parse_arg_type
  <2>1. CASE token.type \in DOMAIN ArgTypeOf
    <3> DEFINE type == ArgTypeOf[token.type]
               prop == IF token.type \in QuatTokens THEN parse_arg_get_fixed_props(TokenText) ELSE 0
    <3>1. type # Unknown
      BY <2>1, ArgTypesKnown
    <3>2. parser_next_token(stage, parse_array_field, [field EXCEPT !.type = type, !.prop = prop])
      BY <1>5, <2>1 DEF parse_arg_type
    <3> HIDE DEF type, prop
    <3>3. [field EXCEPT !.type = type, !.prop = prop]
            = [[field EXCEPT !.type = type] EXCEPT !.prop = prop]
      OBVIOUS
    <3>4. Fits([field EXCEPT !.type = type], parse_array_field)
      BY <3>1 DEF FieldKnown, Fits, FieldShape
    <3>5. Fits([[field EXCEPT !.type = type] EXCEPT !.prop = prop], parse_array_field)
      BY <3>4, OtherPartsFit
    <3> QED
      BY <3>2, <3>3, <3>5, NextTokenKeeps
  <2>2. CASE token.type \notin DOMAIN ArgTypeOf
    BY <1>5, <2>2, FailKeeps DEF parse_arg_type
  <2> QED
    BY <2>1, <2>2
<1> QED
  BY <1>1, <1>2, <1>3, <1>4, <1>5

\* The separators of an array and the format.
LEMMA SpecKeeps ==
  ASSUME FieldKnown,
         \/ parse_opt_split_chars \/ parse_split_chars \/ parse_opt_formatfield_spec
         \/ parse_opt_items \/ parse_align \/ parse_opt_sign \/ parse_opt_width
         \/ parse_opt_format_chrono_spec
  PROVE  FieldKnown'
<1>1. pc \in TypedPoints
  BY DEF TypedPoints, parse_opt_split_chars, parse_split_chars, parse_opt_formatfield_spec,
         parse_opt_items, parse_align, parse_opt_sign, parse_opt_width,
         parse_opt_format_chrono_spec
<1>2. ASSUME parse_format_spec PROVE FieldKnown'
  BY <1>1, <1>2, LaterPartsFit, NextTokenKeeps, FailKeeps DEF parse_format_spec
<1>3. ASSUME NEW to, Sign(to) PROVE FieldKnown'
  BY <1>1, <1>3, LaterPartsFit, NextTokenKeeps DEF Sign
<1>4. CASE parse_opt_split_chars
  BY <1>1, <1>4, LaterPartsFit, NextTokenKeeps, SkipKeeps DEF parse_opt_split_chars
<1>5. CASE parse_split_chars
  <2>1. parser_next_token(stage, "split_chars", [field EXCEPT !.split = field.split \o TokenText])
        \/ Skip("spec", field)
    BY <1>5 DEF parse_split_chars
  <2> QED
    BY <1>1, <2>1, LaterPartsFit, NextTokenKeeps, SkipKeeps
<1>6. CASE parse_opt_formatfield_spec
  BY <1>1, <1>6, LaterPartsFit, NextTokenKeeps, SkipKeeps DEF parse_opt_formatfield_spec
<1>7. CASE parse_opt_items
  <2>1. \/ parser_next_token(stage, "align", [field EXCEPT !.fill = FirstChar])
        \/ Sign("sign")
        \/ parse_format_spec
        \/ Skip("sign", field)
        \/ Skip("sign", [field EXCEPT !.fill = " ", !.align = "Left"])
    BY <1>7 DEF parse_opt_items
  <2>2. [field EXCEPT !.fill = " ", !.align = "Left"]
          = [[field EXCEPT !.fill = " "] EXCEPT !.align = "Left"]
    OBVIOUS
  <2>3. Fits([[field EXCEPT !.fill = " "] EXCEPT !.align = "Left"], "sign")
    BY <1>1, LaterPartsFit, OtherPartsFit
  <2> QED
    BY <1>1, <1>2, <1>3, <2>1, <2>2, <2>3, LaterPartsFit, NextTokenKeeps, SkipKeeps
<1>8. CASE parse_align
  BY <1>1, <1>8, LaterPartsFit, NextTokenKeeps DEF parse_align
<1>9. CASE parse_opt_sign
  BY <1>1, <1>3, <1>9, LaterPartsFit, SkipKeeps DEF parse_opt_sign
<1>10. CASE parse_opt_width
  <2>1. \/ Skip("format", field)
        \/ parser_next_token(stage, "format", [field EXCEPT !.width = lex_atou(TokenText)])
        \/ Fail("MStr_Err_WidthTooLarge")
    BY <1>10 DEF parse_opt_width
  <2> QED
    BY <1>1, <2>1, LaterPartsFit, NextTokenKeeps, SkipKeeps, FailKeeps
<1>11. CASE parse_opt_format_chrono_spec
  BY <1>1, <1>2, <1>11, LaterPartsFit, SkipKeeps DEF parse_opt_format_chrono_spec
<1> QED
  BY <1>4, <1>5, <1>6, <1>7, <1>8, <1>9, <1>10, <1>11

\* The items of a time, and the end.
LEMMA EndKeeps ==
  ASSUME FieldKnown, parse_chrono_spec \/ parse_chrono_spec_item \/ ChronoSplit \/ parse_end_token
  PROVE  FieldKnown'
<1>1. pc \in TypedPoints
  BY DEF TypedPoints, parse_chrono_spec, parse_chrono_spec_item, ChronoSplit, parse_end_token
<1>2. \A items, to : Fits([field EXCEPT !.items = items], to)
  BY <1>1, LaterPartsFit
<1>3. CASE parse_chrono_spec
  BY <1>2, <1>3, NextTokenKeeps DEF parse_chrono_spec
<1>4. CASE parse_chrono_spec_item
  <2>1. \/ \E items : parser_next_token(stage, "chrono_split", [field EXCEPT !.items = items])
        \/ \E err : Fail(err)
    BY <1>4 DEF parse_chrono_spec_item
  <2> QED
    BY <1>2, <2>1, NextTokenKeeps, FailKeeps
<1>5. CASE ChronoSplit
  <2>1. CASE token.type \in ChronoTokens \cup SplitEnds
    <3>1. \E to : Skip(to, field)
      BY <1>5, <2>1 DEF ChronoSplit
    <3> QED
      BY <1>1, <3>1, LaterPartsFit, SkipKeeps
  <2>2. CASE token.type \notin ChronoTokens \cup SplitEnds
    <3>1. \E items : parser_next_token(stage, "chrono_split", [field EXCEPT !.items = items])
      BY <1>5, <2>2 DEF ChronoSplit
    <3> QED
      BY <1>2, <3>1, NextTokenKeeps
  <2> QED
    BY <2>1, <2>2
<1>6. CASE parse_end_token
  <2>1. field' = field /\ pc' \in {"done", "failed"}
    BY <1>6 DEF parse_end_token
  <2> QED
    BY <1>1, <2>1 DEF FieldKnown, Fits
<1> QED
  BY <1>3, <1>4, <1>5, <1>6

LEMMA ParserKeeps ==
  ASSUME FieldKnown, ParserNext
  PROVE  FieldKnown'
BY BeginningKeeps, SpecKeeps, EndKeeps DEF ParserNext

--------------------------------------------------------------------------------
(* The arguments.                                                              *)

\* The points before and behind the loop, where the number of arguments may be too large.
Outside == {"entry", "returned", "written", "ended"}

\* The inductive invariant: ArgumentsReadInOrder, with what makes an argument that has
\* been taken recognisable in the cache (its kind), and what keeps the identifiers of
\* fields within it.
ArgumentsInv ==
  /\ FieldKnown
  /\ place \in Nat
  /\ pc \in Outside \/ place <= PlaceMaxNum
  /\ taken \in Nat
  /\ cache = [id \in 0..(PlaceMaxNum - 1) |-> cache[id]]
  /\ \A id \in DOMAIN cache : id < taken => cache[id].kind # Unused.kind
  /\ ArgumentsReadInOrder

\* The control moves, the field and the arguments stay.
LEMMA GotoKeepsArguments ==
  ASSUME ArgumentsInv, NEW to, NEW res, Goto(to, res),
         to \in Outside \/ (pc \notin Outside /\ (to = "value" => pc = "done"))
           \/ place <= PlaceMaxNum,
         to \notin TypedPoints \/ pc = "done",
         UNCHANGED <<place, taken, cache>>
  PROVE  ArgumentsInv'
<1>1. FieldKnown'
  BY DEF Goto, ArgumentsInv, FieldKnown, Fits, TypedPoints
<1>2. pc' \in Outside \/ place' <= PlaceMaxNum
  BY DEF Goto, ArgumentsInv
<1> QED
  BY <1>1, <1>2 DEF ArgumentsInv, ArgumentsReadInOrder

\* One argument is loaded: it is the next one, or one that has been, or the call fails.
LEMMA LoadKeepsArguments ==
  ASSUME ArgumentsInv, NEW id \in Nat, NEW kind, kind # Unused.kind, NEW to,
         pc \in {"value", "attach"}, to \in {"attach", "typed"},
         load_value(id, kind, to), UNCHANGED place
  PROVE  ArgumentsInv'
<1>1. pc \notin Outside /\ place <= PlaceMaxNum
  BY DEF Outside, ArgumentsInv
<1>2. CASE id >= place \/ Skipped(id)
  <2>1. \E res : Goto("scan", res) /\ UNCHANGED <<taken, cache>>
    BY <1>2 DEF load_value, ArgumentsInv
  <2> QED
    BY <1>1, <2>1, GotoKeepsArguments DEF TypedPoints
<1>3. CASE id < place /\ ~Skipped(id)
  <2>1. /\ Goto(to, ret)
        /\ IF cache[id].kind = Unused.kind
           THEN /\ taken' = taken + 1
                /\ cache' = [cache EXCEPT ![id] = [kind |-> kind, arg |-> taken + 1]]
           ELSE UNCHANGED <<taken, cache>>
    BY <1>3 DEF load_value, ArgumentsInv
  <2>2. CASE cache[id].kind # Unused.kind
    BY <1>1, <2>1, <2>2, GotoKeepsArguments DEF TypedPoints
  <2>3. CASE cache[id].kind = Unused.kind
    <3>1. DOMAIN cache = 0..(PlaceMaxNum - 1) /\ id \in DOMAIN cache
      BY <1>1, <1>3, FormatAssumption DEF ArgumentsInv
    <3>2. id = taken
      <4>1. id >= taken
        BY <2>3, <3>1 DEF ArgumentsInv
      <4>2. ASSUME id > 0 PROVE id - 1 < taken
        <5>1. id - 1 \in DOMAIN cache
          BY <3>1, <4>2, FormatAssumption
        <5>2. cache[id - 1] # Unused
          BY <1>3, <4>2 DEF Skipped
        <5> QED
          BY <5>1, <5>2 DEF ArgumentsInv, ArgumentsReadInOrder
      <4> QED
        BY <4>1, <4>2 DEF ArgumentsInv
    <3>3. /\ taken' = taken + 1
          /\ cache' = [i \in 0..(PlaceMaxNum - 1) |->
                         IF i = id THEN [kind |-> kind, arg |-> taken + 1] ELSE cache[i]]
      BY <2>1, <2>3, <3>1 DEF ArgumentsInv
    <3>4. \A i \in DOMAIN cache' :
            IF i < taken' THEN cache'[i].arg = i + 1 /\ cache'[i].kind # Unused.kind
                          ELSE cache'[i] = Unused
      <4> SUFFICES ASSUME NEW i \in 0..(PlaceMaxNum - 1)
                   PROVE  IF i < taken' THEN cache'[i].arg = i + 1 /\ cache'[i].kind # Unused.kind
                                        ELSE cache'[i] = Unused
        BY <3>3
      <4>1. CASE i = id
        BY <3>2, <3>3, <4>1 DEF ArgumentsInv
      <4>2. CASE i # id
        BY <3>1, <3>2, <3>3, <4>2, FormatAssumption DEF ArgumentsInv, ArgumentsReadInOrder
      <4> QED
        BY <4>1, <4>2
    <3>5. FieldKnown'
      BY <2>1 DEF Goto, ArgumentsInv, FieldKnown, Fits, TypedPoints
    <3>6. cache' = [i \in 0..(PlaceMaxNum - 1) |-> cache'[i]]
      BY <3>3
    <3>7. taken' \in Nat /\ taken' <= place'
      BY <1>3, <3>2, <3>3 DEF ArgumentsInv
    <3> QED
      BY <1>1, <3>4, <3>5, <3>6, <3>7 DEF ArgumentsInv, ArgumentsReadInOrder
  <2> QED
    BY <2>2, <2>3
<1> QED
  BY <1>2, <1>3 DEF ArgumentsInv

LEMMA KindsAreUsed ==
  /\ \A type, array : type # Unknown => KindOf(type, array) # Unused.kind
  /\ KindOf("Uint32", FALSE) # Unused.kind
BY DEF KindOf, Unused, Unknown

LEMMA ArgumentsInit == Init => ArgumentsInv
<1> SUFFICES ASSUME Init PROVE ArgumentsInv
  OBVIOUS
<1>1. FieldKnown
  BY DEF Init, FormatStart, FieldKnown, Fits, NoField, FieldShape, TypedPoints
<1>2. place \in Nat
  BY PrintingAssumption DEF Init
<1>3. \A id \in 0..(PlaceMaxNum - 1) : id \in Nat
  OBVIOUS
<1>4. /\ pc \in Outside
      /\ taken = 0
      /\ cache = [id \in 0..(PlaceMaxNum - 1) |-> Unused]
  BY DEF Init, FormatStart, Outside
<1>5. ArgumentsReadInOrder
  BY <1>2, <1>3, <1>4 DEF ArgumentsReadInOrder
<1> QED
  BY <1>1, <1>2, <1>3, <1>4, <1>5 DEF ArgumentsInv

\* The steps that neither parse nor load only move the control.
LEMMA ArgumentsNext == ArgumentsInv /\ [Next]_printing_vars => ArgumentsInv'
<1> SUFFICES ASSUME ArgumentsInv, [Next]_printing_vars PROVE ArgumentsInv'
  OBVIOUS
<1>1. CASE UNCHANGED printing_vars
  BY <1>1 DEF printing_vars, vars, parser_vars, format_vars, ArgumentsInv, FieldKnown, Fits,
              FieldShape, ArgumentsReadInOrder
<1>2. CASE StartField
  <2>1. UNCHANGED <<place, taken, cache>> /\ pc = "scan" /\ pc' = "goal" /\ field' = NoField
    BY <1>2 DEF StartField, format_vars
  <2>2. FieldKnown'
    BY <2>1, NoFieldFits DEF FieldKnown
  <2> QED
    BY <2>1, <2>2 DEF ArgumentsInv, ArgumentsReadInOrder, Outside
<1>3. CASE Parse
  <2>1. UNCHANGED <<place, taken, cache>> /\ FieldKnown'
    BY <1>3, ParserKeeps DEF Parse, format_vars, ArgumentsInv
  <2>2. pc \notin Outside
    BY <1>3 DEF Parse, Outside, ParserNext, mstr_fmt_parse_goal, EscapeChar, parse_replacement_field,
         parse_arg_id, parse_arg_type, parse_opt_split_chars, parse_split_chars,
         parse_opt_formatfield_spec, parse_opt_items, parse_align, parse_opt_sign, parse_opt_width,
         parse_opt_format_chrono_spec, parse_chrono_spec, parse_chrono_spec_item, ChronoSplit,
         parse_end_token
  <2> QED
    BY <2>1, <2>2 DEF ArgumentsInv, ArgumentsReadInOrder
<1>4. CASE LoadValue
  <2> DEFINE kind == KindOf(field.type, field.class = "Array")
             to   == IF field.class = "Array" THEN "attach" ELSE "typed"
  <2>1. pc = "value" /\ load_value(field.id, kind, to) /\ UNCHANGED place
    BY <1>4 DEF LoadValue
  <2>2. field.type # Unknown
    BY <1>4, <2>1 DEF LoadValue, ArgumentsInv, FieldKnown, Fits, TypedPoints
  <2>3. kind # Unused.kind /\ field.id \in Nat /\ to \in {"attach", "typed"}
    BY <2>2, KindsAreUsed DEF ArgumentsInv, FieldKnown, Fits
  <2> HIDE DEF kind, to
  <2> QED
    BY <2>1, <2>3, LoadKeepsArguments
<1>5. CASE LoadLength
  <2> DEFINE id   == field.id + 1
             kind == KindOf("Uint32", FALSE)
  <2>1. pc = "attach" /\ UNCHANGED place /\ load_value(id, kind, "typed")
    BY <1>5 DEF LoadLength
  <2>2. id \in Nat
    BY DEF ArgumentsInv, FieldKnown, Fits
  <2>3. kind # Unused.kind
    BY KindsAreUsed
  <2> HIDE DEF id, kind
  <2> QED
    BY <2>1, <2>2, <2>3, LoadKeepsArguments
<1>6. CASE mstr_vformat
  <2>1. UNCHANGED <<place, taken, cache>>
    BY <1>6 DEF mstr_vformat, format_vars
  <2>2. \/ Goto("returned", "MStr_Err_IndexTooLarge")
        \/ Goto("scan", ret) /\ place <= PlaceMaxNum
    BY <1>6, FormatAssumption DEF mstr_vformat, ArgumentsInv
  <2> QED
    BY <2>1, <2>2, GotoKeepsArguments DEF Outside, TypedPoints
<1>7. CASE process_replacement_field
  <2>1. /\ UNCHANGED <<place, taken, cache>> /\ pc \in {"done", "failed"}
        /\ \/ Goto("value", ret) /\ pc = "done"
           \/ Goto("scan", ret)
    BY <1>7 DEF process_replacement_field
  <2> QED
    BY <2>1, GotoKeepsArguments DEF Outside, TypedPoints
<1>8. CASE \/ CopyCharacter \/ CopyEscaped \/ CheckType \/ Convert \/ Separate
           \/ EndOfItems \/ FillLeft \/ CopyText \/ FillRight \/ FreeBuff
  <2>1. UNCHANGED <<place, taken, cache>> /\ pc \notin Outside
    BY <1>8 DEF CopyCharacter, CopyEscaped, CheckType, Convert, Separate, EndOfItems, FillLeft,
                CopyText, FillRight, FreeBuff, format_vars, Outside
  <2>2. PICK to \in {"scan", "convert", "separate", "left", "free", "copy", "right"} :
          \E res : Goto(to, res)
    BY <1>8 DEF CopyCharacter, CopyEscaped, CheckType, Convert, Separate, EndOfItems, FillLeft,
                CopyText, FillRight, FreeBuff, Output
  <2> QED
    BY <2>1, <2>2, GotoKeepsArguments DEF TypedPoints
<1>9. CASE EndOfText \/ mstr_format \/ io_write \/ mstr_iovformat
  <2>1. UNCHANGED <<place, taken, cache>>
    BY <1>9 DEF EndOfText, mstr_format, io_write, mstr_iovformat, format_vars
  <2>2. PICK to \in Outside : \E res : Goto(to, res)
    BY <1>9 DEF EndOfText, mstr_format, io_write, mstr_iovformat, Outside
  <2> QED
    BY <2>1, <2>2, GotoKeepsArguments DEF TypedPoints, Outside
<1> QED
  BY <1>1, <1>2, <1>3, <1>4, <1>5, <1>6, <1>7, <1>8, <1>9 DEF Next, FormatNext

\* Whatever order the fields of a text name their arguments in, and with which types,
\* va_arg is only called for the next argument.
THEOREM FormatReadsInOrder == Spec => []ArgumentsReadInOrder
<1>1. ArgumentsInv => ArgumentsReadInOrder
  BY DEF ArgumentsInv
<1> QED
  BY <1>1, ArgumentsInit, ArgumentsNext, PTL DEF Spec

--------------------------------------------------------------------------------
(* The memory.                                                                 *)

\* The points at which no value is being converted.
NoValue ==
  Running \cup Ended \cup
  {"entry", "scan", "value", "attach", "typed", "returned", "written", "ended"}

\* The inductive invariant: outside of a value, its string holds nothing.
BlocksInv ==
  /\ sink \in {"string", "io"}
  /\ blocks = Held(out) + Held(buff)
  /\ pc \in NoValue => Held(buff) = 0
  /\ pc = "ended" => sink = "string" \/ Held(out) = 0

LEMMA HeldIsNumber ==
  /\ \A s : Held(s) \in {0, 1}
  /\ Held(EmptyString) = 0
BY FormatAssumption DEF Held, EmptyString

\* The control moves and no string changes.
LEMMA GotoKeepsBlocks ==
  ASSUME BlocksInv, NEW to, pc' = to, to \in NoValue => pc \in NoValue,
         to # "ended" \/ sink = "string", UNCHANGED <<out, buff, blocks, sink>>
  PROVE  BlocksInv'
BY DEF BlocksInv, Held

LEMMA OutputKeepsBlocks ==
  ASSUME BlocksInv, NEW grown, NEW good, NEW bad, Output(grown, good, bad),
         UNCHANGED <<buff, sink>>, good # "ended", bad # "ended",
         pc \in NoValue \/ (good \notin NoValue /\ bad \notin NoValue)
  PROVE  BlocksInv'
<1>1. PICK r \in grown :
        IF r = NoMemory
        THEN Goto(bad, "MStr_Err_HeapTooSmall") /\ UNCHANGED <<out, blocks>>
        ELSE Goto(good, ret) /\ out' = r /\ blocks' = blocks + Held(r) - Held(out)
  BY DEF Output
<1>2. CASE r = NoMemory
  BY <1>1, <1>2, GotoKeepsBlocks DEF Goto
<1>3. CASE r # NoMemory
  <2>1. pc' = good /\ out' = r /\ blocks' = blocks + Held(r) - Held(out)
    BY <1>1, <1>3 DEF Goto
  <2>2. Held(out)' = Held(r) /\ Held(buff)' = Held(buff)
    BY <2>1 DEF Held
  <2>3. blocks' = Held(out)' + Held(buff)'
    BY <2>1, <2>2, HeldIsNumber DEF BlocksInv
  <2> QED
    BY <2>1, <2>2, <2>3 DEF BlocksInv
<1> QED
  BY <1>2, <1>3

\* The string of a value grows.
LEMMA ValueKeepsBlocks ==
  ASSUME BlocksInv, NEW to, to \notin NoValue, NEW r, Goto(to, ret), buff' = r,
         blocks' = blocks + Held(r) - Held(buff), UNCHANGED <<out, sink>>
  PROVE  BlocksInv'
<1>1. Held(out)' = Held(out) /\ Held(buff)' = Held(r)
  BY DEF Held
<1>2. blocks' = Held(out)' + Held(buff)'
  BY <1>1, HeldIsNumber DEF BlocksInv
<1> QED
  BY <1>1, <1>2 DEF BlocksInv, Goto, NoValue

LEMMA BlocksInit == Init => BlocksInv
BY HeldIsNumber DEF Init, FormatStart, BlocksInv

LEMMA ValuePoints == {"convert", "separate", "left", "copy", "right", "free"} \cap NoValue = {}
BY DEF NoValue, Running, Ended

\* The parser never leaves its own points.
LEMMA ParserStaysInside ==
  ASSUME ParserNext
  PROVE  pc' \in Running \cup Ended
<1>1. ASSUME NEW s, NEW to \in Running \cup Ended, NEW f, parser_next_token(s, to, f)
      PROVE  pc' \in Running \cup Ended
  BY <1>1 DEF parser_next_token, Ended
<1>2. ASSUME NEW to \in Running \cup Ended, NEW f, Skip(to, f) PROVE pc' \in Running \cup Ended
  BY <1>2 DEF Skip
<1>3. ASSUME NEW err, Fail(err) PROVE pc' \in Running \cup Ended
  BY <1>3 DEF Fail, Ended
<1>4. CASE \/ mstr_fmt_parse_goal \/ EscapeChar \/ parse_replacement_field
           \/ parse_arg_id \/ parse_arg_type
  BY <1>1, <1>2, <1>3, <1>4 DEF mstr_fmt_parse_goal, EscapeChar, parse_replacement_field,
       parse_arg_id, parse_arg_type, parse_array_field, Running, Ended
<1>5. ASSUME parse_format_spec PROVE pc' \in Running \cup Ended
  BY <1>1, <1>3, <1>5 DEF parse_format_spec, Running
<1>6. ASSUME NEW to \in Running, Sign(to) PROVE pc' \in Running \cup Ended
  BY <1>1, <1>6 DEF Sign
<1>7. CASE parse_opt_split_chars \/ parse_split_chars \/ parse_opt_formatfield_spec
  BY <1>1, <1>2, <1>7 DEF parse_opt_split_chars, parse_split_chars, parse_opt_formatfield_spec, Running
<1>8. CASE parse_opt_items
  <2>1. \/ \E s, f : parser_next_token(s, "align", f)
        \/ Sign("sign") \/ parse_format_spec
        \/ \E f : Skip("sign", f)
    BY <1>8 DEF parse_opt_items
  <2> QED
    BY <2>1, <1>1, <1>2, <1>5, <1>6 DEF Running
<1>9. CASE parse_align \/ parse_opt_sign
  BY <1>1, <1>2, <1>6, <1>9 DEF parse_align, parse_opt_sign, Running
<1>10. CASE parse_opt_width
  <2>1. \/ \E s, f : parser_next_token(s, "format", f)
        \/ \E f : Skip("format", f)
        \/ \E err : Fail(err)
    BY <1>10 DEF parse_opt_width
  <2> QED
    BY <2>1, <1>1, <1>2, <1>3 DEF Running
<1>11. CASE parse_opt_format_chrono_spec
  BY <1>2, <1>5, <1>11 DEF parse_opt_format_chrono_spec, Running
<1>12. CASE parse_chrono_spec \/ parse_chrono_spec_item \/ ChronoSplit
  <2>1. CASE parse_chrono_spec
    BY <1>1, <2>1 DEF parse_chrono_spec, Running
  <2>2. CASE parse_chrono_spec_item
    <3>1. \/ \E s, f : parser_next_token(s, "chrono_split", f)
          \/ \E err : Fail(err)
      BY <2>2 DEF parse_chrono_spec_item
    <3> QED
      BY <3>1, <1>1, <1>3 DEF Running
  <2>3. CASE ChronoSplit
    <3>1. \/ \E s, f : parser_next_token(s, "chrono_split", f)
          \/ \E f : Skip("chrono", f) \/ Skip("end", f)
      BY <2>3 DEF ChronoSplit
    <3> QED
      BY <3>1, <1>1, <1>2 DEF Running
  <2> QED
    BY <1>12, <2>1, <2>2, <2>3
<1>13. CASE parse_end_token
  BY <1>13 DEF parse_end_token, Ended
<1> QED
  BY <1>4, <1>7, <1>8, <1>9, <1>10, <1>11, <1>12, <1>13 DEF ParserNext

\* Its actions are the steps of a parser that is running.
LEMMA ParserIsRunning == ParserNext => pc \in Running
BY DEF Running, ParserNext, mstr_fmt_parse_goal, EscapeChar, parse_replacement_field,
       parse_arg_id, parse_arg_type, parse_opt_split_chars, parse_split_chars,
       parse_opt_formatfield_spec, parse_opt_items, parse_align, parse_opt_sign, parse_opt_width,
       parse_opt_format_chrono_spec, parse_chrono_spec, parse_chrono_spec_item, ChronoSplit,
       parse_end_token

\* The steps of the parser and of the loop outside of a value.
LEMMA ScanKeepsBlocks ==
  ASSUME BlocksInv,
         \/ mstr_vformat \/ StartField \/ Parse \/ process_replacement_field \/ LoadValue
         \/ LoadLength \/ EndOfText \/ mstr_format \/ io_write
  PROVE  BlocksInv'
<1>1. UNCHANGED <<out, buff, blocks, sink>>
  BY DEF mstr_vformat, StartField, Parse, process_replacement_field, LoadValue, LoadLength,
         EndOfText, mstr_format, io_write, format_vars
<1>2. pc \in NoValue
  BY DEF mstr_vformat, StartField, process_replacement_field, LoadValue, LoadLength,
         EndOfText, mstr_format, io_write, NoValue, Running, Ended, Parse, ParserNext,
         mstr_fmt_parse_goal, EscapeChar, parse_replacement_field,
         parse_arg_id, parse_arg_type, parse_opt_split_chars, parse_split_chars,
         parse_opt_formatfield_spec, parse_opt_items, parse_align, parse_opt_sign, parse_opt_width,
         parse_opt_format_chrono_spec, parse_chrono_spec, parse_chrono_spec_item, ChronoSplit,
         parse_end_token
<1>3. pc' # "ended" \/ sink = "string"
  <2>1. CASE Parse
    BY <2>1, ParserStaysInside DEF Parse, Running, Ended
  <2>2. CASE mstr_format
    BY <2>2 DEF mstr_format
  <2>3. CASE LoadValue \/ LoadLength
    <3>1. ASSUME NEW id, NEW kind, NEW to, to # "ended", load_value(id, kind, to)
          PROVE  pc' # "ended"
      <4>1. CASE id >= place
        BY <3>1, <4>1 DEF load_value, Goto
      <4>2. CASE id < place /\ Skipped(id)
        BY <3>1, <4>2 DEF load_value, Goto
      <4>3. CASE ~(id >= place) /\ ~(id < place /\ Skipped(id))
        BY <3>1, <4>3 DEF load_value, Goto
      <4> QED
        BY <4>1, <4>2, <4>3
    <3>2. CASE LoadValue
      BY <3>1, <3>2 DEF LoadValue
    <3>3. CASE LoadLength
      BY <3>1, <3>3 DEF LoadLength
    <3> QED
      BY <2>3, <3>2, <3>3
  <2>4. CASE mstr_vformat \/ StartField \/ process_replacement_field \/ EndOfText \/ io_write
    BY <2>4 DEF mstr_vformat, StartField, process_replacement_field, EndOfText, io_write, Goto
  <2> QED
    BY <2>1, <2>2, <2>3, <2>4
<1> QED
  BY <1>1, <1>2, <1>3, GotoKeepsBlocks

LEMMA BlocksNext == BlocksInv /\ [Next]_printing_vars => BlocksInv'
<1> SUFFICES ASSUME BlocksInv, [Next]_printing_vars PROVE BlocksInv'
  OBVIOUS
<1>1. CASE UNCHANGED printing_vars
  BY <1>1 DEF printing_vars, vars, parser_vars, format_vars, BlocksInv, Held
<1>2. CASE \/ mstr_vformat \/ StartField \/ Parse \/ process_replacement_field \/ LoadValue
           \/ LoadLength \/ EndOfText \/ mstr_format \/ io_write
  BY <1>2, ScanKeepsBlocks
<1>3. CASE CopyCharacter
  <2>1. pc \in NoValue /\ UNCHANGED <<buff, sink>>
    BY <1>3 DEF CopyCharacter, NoValue
  <2>2. CASE text[fmt] \in HighBytes
    BY <1>3, <2>1, <2>2, GotoKeepsBlocks DEF CopyCharacter, Goto
  <2>3. CASE text[fmt] \notin HighBytes
    BY <1>3, <2>1, <2>3, OutputKeepsBlocks DEF CopyCharacter
  <2> QED
    BY <2>2, <2>3
<1>4. CASE CopyEscaped
  BY <1>4, OutputKeepsBlocks DEF CopyEscaped, NoValue
<1>5. CASE CheckType
  <2>1. pc = "typed" /\ Held(buff) = 0 /\ UNCHANGED <<out, blocks, sink>>
    BY <1>5 DEF CheckType, BlocksInv, NoValue
  <2>2. \/ pc' = "convert" /\ buff' = EmptyString
        \/ pc' = "scan" /\ UNCHANGED buff
    BY <1>5 DEF CheckType, Goto
  <2>3. Held(buff)' = 0 /\ Held(out)' = Held(out)
    BY <2>1, <2>2, HeldIsNumber DEF Held
  <2> QED
    BY <2>1, <2>2, <2>3 DEF BlocksInv
<1>6. CASE Convert
  <2>1. UNCHANGED <<out, sink>>
    BY <1>6 DEF Convert
  <2>2. \/ \E res : Goto("free", res) /\ UNCHANGED <<buff, blocks>>
        \/ \E to \in {"separate", "convert"} : \E r :
             Goto(to, ret) /\ buff' = r /\ blocks' = blocks + Held(r) - Held(buff)
    BY <1>6 DEF Convert
  <2> QED
    BY <2>1, <2>2, ValuePoints, GotoKeepsBlocks, ValueKeepsBlocks DEF Goto
<1>7. CASE Separate
  <2>1. UNCHANGED <<out, sink>>
    BY <1>7 DEF Separate
  <2>2. \/ \E res : Goto("free", res) /\ UNCHANGED <<buff, blocks>>
        \/ \E r : Goto("convert", ret) /\ buff' = r /\ blocks' = blocks + Held(r) - Held(buff)
    BY <1>7 DEF Separate
  <2> QED
    BY <2>1, <2>2, ValuePoints, GotoKeepsBlocks, ValueKeepsBlocks DEF Goto
<1>8. CASE EndOfItems
  BY <1>8, ValuePoints, GotoKeepsBlocks DEF EndOfItems, Goto, format_vars
<1>9. CASE FillLeft \/ CopyText \/ FillRight
  BY <1>9, ValuePoints, OutputKeepsBlocks DEF FillLeft, CopyText, FillRight
<1>10. CASE FreeBuff
  <2>1. /\ pc' = "scan" /\ buff' = EmptyString /\ blocks' = blocks - Held(buff)
        /\ UNCHANGED <<out, sink>>
    BY <1>10 DEF FreeBuff, Goto
  <2>2. Held(buff)' = 0 /\ Held(out)' = Held(out)
    BY <2>1, HeldIsNumber DEF Held
  <2>3. blocks' = Held(out)' + Held(buff)'
    BY <2>1, <2>2, HeldIsNumber DEF BlocksInv
  <2> QED
    BY <2>1, <2>2, <2>3 DEF BlocksInv
<1>11. CASE mstr_iovformat
  <2>1. /\ pc' = "ended" /\ out' = EmptyString /\ blocks' = blocks - Held(out)
        /\ UNCHANGED <<buff, sink>> /\ pc \in NoValue
    BY <1>11 DEF mstr_iovformat, Goto, NoValue
  <2>2. Held(out)' = 0 /\ Held(buff)' = Held(buff) /\ Held(buff) = 0
    BY <2>1, HeldIsNumber DEF Held, BlocksInv
  <2>3. blocks' = Held(out)' + Held(buff)'
    BY <2>1, <2>2, HeldIsNumber DEF BlocksInv
  <2> QED
    BY <2>1, <2>2, <2>3 DEF BlocksInv
<1> QED
  BY <1>1, <1>2, <1>3, <1>4, <1>5, <1>6, <1>7, <1>8, <1>9, <1>10, <1>11 DEF Next, FormatNext

\* Every string of a call gives its block back, whichever step fails, and what is left at
\* the end is the block of the caller's own string.
THEOREM FormatGivesBlocksBack == Spec => []BlocksGivenBack
<1>1. BlocksInv => BlocksGivenBack
  BY HeldIsNumber DEF BlocksInv, BlocksGivenBack, NoValue
<1> QED
  BY <1>1, BlocksInit, BlocksNext, PTL DEF Spec

--------------------------------------------------------------------------------
(* The types of the arguments.                                                 *)

\* The points of a value, by what its field has loaded.
ValueLoaded == {"attach", "typed", "convert", "separate"}

LengthLoaded == {"typed", "convert", "separate"}

\* What CheckType compares.
TypesAgree ==
  /\ cache[field.id].kind = KindOf(field.type, field.class = "Array")
  /\ field.class = "Array" => cache[field.id + 1].kind = KindOf("Uint32", FALSE)

\* Every argument has been taken as what it is.
KindsKnown == \A id \in DOMAIN cache : id < taken => cache[id].kind = args[id + 1].kind

\* A length has been taken for an array that its field names wrongly; no value is
\* converted any more.
Mistaken ==
  \/ pc = "typed" /\ ~ TypesAgree
  \/ pc \in {"scan", "returned", "ended"} /\ ret # "MStr_Ok"

\* The inductive invariant of the types.
KindsInv ==
  /\ ArgumentsInv
  /\ pc \in ValueLoaded => field.id < taken
  /\ pc = "attach" => field.class = "Array"
  /\ pc \in LengthLoaded /\ field.class = "Array" => field.id + 1 < taken
  /\ pc \in {"convert", "separate"} => TypesAgree
  /\ KindsKnown \/ Mistaken

\* A step that takes no argument and after which no value is being converted.
LEMMA GotoKeepsKinds ==
  ASSUME KindsInv, ArgumentsInv', NEW to, pc' = to, to \notin ValueLoaded,
         UNCHANGED <<args, taken, cache>>,
         Mistaken => to \in {"scan", "returned", "ended"} /\ ret' # "MStr_Ok"
  PROVE  KindsInv'
<1>1. KindsKnown => KindsKnown'
  BY DEF KindsKnown
<1>2. Mistaken => Mistaken'
  BY DEF Mistaken
<1> QED
  BY <1>1, <1>2 DEF KindsInv, ValueLoaded, LengthLoaded

\* A step within a value.
LEMMA ValueKeepsKinds ==
  ASSUME KindsInv, ArgumentsInv', pc \in LengthLoaded, TypesAgree,
         pc' \in {"convert", "separate"},
         UNCHANGED <<field, args, taken, cache>>
  PROVE  KindsInv'
<1>1. TypesAgree' /\ (KindsKnown => KindsKnown')
  BY DEF TypesAgree, KindsKnown
<1>2. ~ Mistaken
  BY DEF Mistaken, LengthLoaded
<1> QED
  BY <1>1, <1>2 DEF KindsInv, ValueLoaded, LengthLoaded

\* An argument that is used has been taken, or is the next one.
LEMMA LoadedArgument ==
  ASSUME ArgumentsInv, NEW id \in Nat, id < place, place <= PlaceMaxNum, ~ Skipped(id)
  PROVE  /\ id \in DOMAIN cache
         /\ IF cache[id].kind = Unused.kind THEN id = taken ELSE id < taken
<1>1. DOMAIN cache = 0..(PlaceMaxNum - 1) /\ id \in DOMAIN cache
  BY FormatAssumption DEF ArgumentsInv
<1>2. CASE cache[id].kind # Unused.kind
  <2>1. cache[id] # Unused
    BY <1>2
  <2> QED
    BY <1>1, <1>2, <2>1 DEF ArgumentsInv, ArgumentsReadInOrder
<1>3. CASE cache[id].kind = Unused.kind
  <2>1. id >= taken
    BY <1>1, <1>3 DEF ArgumentsInv
  <2>2. ASSUME id > 0 PROVE id - 1 < taken
    <3>1. id - 1 \in DOMAIN cache
      BY <1>1, <2>2, FormatAssumption
    <3>2. cache[id - 1] # Unused
      BY <2>2 DEF Skipped
    <3> QED
      BY <3>1, <3>2 DEF ArgumentsInv, ArgumentsReadInOrder
  <2> QED
    BY <1>1, <1>3, <2>1, <2>2 DEF ArgumentsInv
<1> QED
  BY <1>2, <1>3

\* What loading does: it fails, or the argument is there afterwards, those before stay as
\* they are, and if it is new, it is taken as the kind given.
LEMMA LoadTakes ==
  ASSUME ArgumentsInv, NEW id \in Nat, NEW kind, NEW to, place <= PlaceMaxNum,
         load_value(id, kind, to)
  PROVE  \/ pc' = "scan" /\ ret' # "MStr_Ok" /\ UNCHANGED <<taken, cache>>
         \/ /\ pc' = to
            /\ id < taken'
            /\ UNCHANGED <<taken, cache>>
         \/ /\ pc' = to
            /\ id = taken /\ taken < place /\ taken' = taken + 1
            /\ DOMAIN cache' = DOMAIN cache
            /\ \A i \in DOMAIN cache : cache'[i].kind = IF i = id THEN kind ELSE cache[i].kind
<1>1. CASE id >= place \/ Skipped(id)
  BY <1>1 DEF load_value, Goto, ArgumentsInv
<1>2. CASE id < place /\ ~ Skipped(id)
  <2>1. /\ pc' = to
        /\ IF cache[id].kind = Unused.kind
           THEN /\ taken' = taken + 1
                /\ cache' = [cache EXCEPT ![id] = [kind |-> kind, arg |-> taken + 1]]
           ELSE UNCHANGED <<taken, cache>>
    BY <1>2 DEF load_value, Goto, ArgumentsInv
  <2>2. /\ id \in DOMAIN cache
        /\ IF cache[id].kind = Unused.kind THEN id = taken ELSE id < taken
    BY <1>2, LoadedArgument
  <2>3. CASE cache[id].kind # Unused.kind
    BY <2>1, <2>2, <2>3
  <2>4. CASE cache[id].kind = Unused.kind
    <3>1. \A i \in DOMAIN cache : cache'[i].kind = IF i = id THEN kind ELSE cache[i].kind
      BY <2>1, <2>2, <2>4
    <3> QED
      BY <1>2, <2>1, <2>2, <2>4, <3>1
  <2> QED
    BY <2>3, <2>4
<1> QED
  BY <1>1, <1>2 DEF ArgumentsInv

\* The value of a field is loaded as what it is.
LEMMA LoadValueKeepsKinds ==
  ASSUME KindsInv, ArgumentsAsNamed, ArgumentsInv', LoadValue
  PROVE  KindsInv'
<1> DEFINE kind == KindOf(field.type, field.class = "Array")
           to   == IF field.class = "Array" THEN "attach" ELSE "typed"
<1>1. /\ pc = "value" /\ field.class # "EscapeChar"
      /\ load_value(field.id, kind, to) /\ UNCHANGED <<args, place>>
  BY DEF LoadValue
<1>2. field' = field
  BY <1>1 DEF load_value, Goto
<1>3. /\ ArgumentsInv /\ field.id \in Nat /\ taken \in Nat /\ place <= PlaceMaxNum
      /\ KindsKnown
  BY <1>1 DEF KindsInv, ArgumentsInv, FieldKnown, Fits, Outside, Mistaken
<1>4. field.id = taken /\ taken < place => args[taken + 1].kind = kind
  BY <1>1 DEF ArgumentsAsNamed
<1> HIDE DEF kind
<1>5. \/ pc' = "scan" /\ ret' # "MStr_Ok" /\ UNCHANGED <<taken, cache>>
      \/ pc' = to /\ field.id < taken' /\ UNCHANGED <<taken, cache>>
      \/ /\ pc' = to
         /\ field.id = taken /\ taken < place /\ taken' = taken + 1
         /\ DOMAIN cache' = DOMAIN cache
         /\ \A i \in DOMAIN cache : cache'[i].kind = IF i = field.id THEN kind ELSE cache[i].kind
  <2> HIDE DEF to
  <2> QED
    BY <1>1, <1>3, LoadTakes
<1>6. KindsKnown'
  <2>1. \A i \in DOMAIN cache : i \in Nat
    BY <1>3 DEF ArgumentsInv
  <2> QED
    BY <1>1, <1>3, <1>4, <1>5, <2>1 DEF KindsKnown
<1>7. pc' \in {"scan", "attach", "typed"} /\ (pc' # "scan" => field.id < taken')
      /\ (pc' = "typed" => field.class # "Array") /\ (pc' = "attach" => field.class = "Array")
  BY <1>3, <1>5
<1> QED
  BY <1>2, <1>6, <1>7 DEF KindsInv, ValueLoaded, LengthLoaded

\* So is the length of an array, unless the array has been something else before.
LEMMA LoadLengthKeepsKinds ==
  ASSUME KindsInv, ArgumentsAsNamed, ArgumentsInv', LoadLength
  PROVE  KindsInv'
<1> DEFINE kind == KindOf("Uint32", FALSE)
           id   == field.id + 1
<1>1. pc = "attach" /\ load_value(id, kind, "typed") /\ UNCHANGED <<args, place>>
  BY DEF LoadLength
<1>2. field' = field
  BY <1>1 DEF load_value, Goto
<1>3. /\ ArgumentsInv /\ field.id \in Nat /\ id \in Nat /\ taken \in Nat /\ place <= PlaceMaxNum
      /\ KindsKnown /\ field.id < taken /\ field.class = "Array"
  BY <1>1 DEF KindsInv, ArgumentsInv, FieldKnown, Fits, Outside, Mistaken, ValueLoaded
<1>4. cache[field.id].kind = KindOf(field.type, TRUE) /\ id = taken /\ taken < place =>
        args[taken + 1].kind = kind
  BY <1>1 DEF ArgumentsAsNamed
<1> HIDE DEF kind
<1>5. \/ pc' = "scan" /\ ret' # "MStr_Ok" /\ UNCHANGED <<taken, cache>>
      \/ pc' = "typed" /\ id < taken' /\ UNCHANGED <<taken, cache>>
      \/ /\ pc' = "typed"
         /\ id = taken /\ taken < place /\ taken' = taken + 1
         /\ DOMAIN cache' = DOMAIN cache
         /\ \A i \in DOMAIN cache : cache'[i].kind = IF i = id THEN kind ELSE cache[i].kind
  <2> HIDE DEF id
  <2> QED
    BY <1>1, <1>3, LoadTakes
<1>6. \A i \in DOMAIN cache : i \in Nat
  BY <1>3 DEF ArgumentsInv
<1>7. KindsKnown' \/ Mistaken'
  <2>1. CASE UNCHANGED <<taken, cache>>
    BY <1>1, <1>3, <2>1 DEF KindsKnown
  <2>2. CASE /\ pc' = "typed"
             /\ id = taken /\ taken < place /\ taken' = taken + 1
             /\ DOMAIN cache' = DOMAIN cache
             /\ \A i \in DOMAIN cache : cache'[i].kind = IF i = id THEN kind ELSE cache[i].kind
    <3>1. CASE cache[field.id].kind = KindOf(field.type, TRUE)
      BY <1>1, <1>3, <1>4, <1>6, <2>2, <3>1 DEF KindsKnown
    <3>2. CASE cache[field.id].kind # KindOf(field.type, TRUE)
      <4>1. field.id \in DOMAIN cache
        <5>1. DOMAIN cache = 0..(PlaceMaxNum - 1)
          BY <1>3 DEF ArgumentsInv
        <5> QED
          BY <1>3, <2>2, <5>1, FormatAssumption DEF ArgumentsInv
      <4>2. cache'[field.id].kind # KindOf(field.type, TRUE)
        <5>1. field.id # id
          BY <1>3
        <5>2. cache'[field.id].kind = IF field.id = id THEN kind ELSE cache[field.id].kind
          BY <2>2, <4>1
        <5> HIDE DEF id
        <5> QED
          BY <3>2, <5>1, <5>2
      <4>3. (field.class = "Array") = TRUE
        BY <1>3
      <4> QED
        BY <1>2, <2>2, <4>2, <4>3 DEF Mistaken, TypesAgree
    <3> QED
      BY <3>1, <3>2
  <2> QED
    BY <1>5, <2>1, <2>2
<1>8. pc' \in {"scan", "typed"} /\ (pc' # "scan" => field.id < taken' /\ field.id + 1 < taken')
  BY <1>3, <1>5
<1> QED
  BY <1>2, <1>7, <1>8 DEF KindsInv, ValueLoaded, LengthLoaded

LEMMA KindsInit == Init => KindsInv
<1> SUFFICES ASSUME Init PROVE KindsInv
  OBVIOUS
<1>1. ArgumentsInv
  BY ArgumentsInit
<1>2. pc = "entry" /\ taken = 0 /\ DOMAIN cache = 0..(PlaceMaxNum - 1)
  BY DEF Init, FormatStart
<1>3. KindsKnown
  BY <1>2 DEF KindsKnown
<1> QED
  BY <1>1, <1>2, <1>3 DEF KindsInv, ValueLoaded, LengthLoaded

LEMMA KindsNext == KindsInv /\ ArgumentsAsNamed /\ [Next]_printing_vars => KindsInv'
<1> SUFFICES ASSUME KindsInv, ArgumentsAsNamed, [Next]_printing_vars PROVE KindsInv'
  OBVIOUS
<1>1. ArgumentsInv'
  BY ArgumentsNext DEF KindsInv
<1>2. CASE UNCHANGED printing_vars
  <2>1. UNCHANGED <<pc, ret, field, args, taken, cache>>
    BY <1>2 DEF printing_vars, vars, parser_vars, format_vars
  <2>2. TypesAgree' = TypesAgree /\ KindsKnown' = KindsKnown
    BY <2>1 DEF TypesAgree, KindsKnown
  <2>3. Mistaken' = Mistaken
    BY <2>1, <2>2 DEF Mistaken
  <2> QED
    BY <1>1, <2>1, <2>2, <2>3 DEF KindsInv
<1>3. CASE LoadValue
  BY <1>1, <1>3, LoadValueKeepsKinds
<1>4. CASE LoadLength
  BY <1>1, <1>4, LoadLengthKeepsKinds
<1>5. CASE CheckType
  <2>1. pc = "typed" /\ UNCHANGED <<args, taken, cache>>
    BY <1>5 DEF CheckType
  <2>2. CASE TypesAgree
    <3>1. pc' = "convert" /\ field' = field
      BY <1>5, <2>2 DEF CheckType, Goto, TypesAgree
    <3> QED
      BY <1>1, <2>1, <2>2, <3>1, ValueKeepsKinds DEF LengthLoaded
  <2>3. CASE ~ TypesAgree
    <3>1. pc' = "scan" /\ ret' = "MStr_Err_InvaildArgumentType"
      BY <1>5, <2>3 DEF CheckType, Goto, TypesAgree
    <3> QED
      BY <1>1, <2>1, <3>1, GotoKeepsKinds DEF ValueLoaded
  <2> QED
    BY <2>2, <2>3
<1>6. CASE Convert \/ Separate
  <2>1. pc \in {"convert", "separate"} /\ UNCHANGED <<args, taken, cache>>
    BY <1>6 DEF Convert, Separate
  <2>2. pc' \in {"free", "separate", "convert"} /\ field' = field
    BY <1>6 DEF Convert, Separate, Goto
  <2>3. ~ Mistaken /\ TypesAgree
    BY <2>1 DEF Mistaken, KindsInv
  <2>4. CASE pc' = "free"
    BY <1>1, <2>1, <2>3, <2>4, GotoKeepsKinds DEF ValueLoaded
  <2> QED
    BY <1>1, <2>1, <2>2, <2>3, <2>4, ValueKeepsKinds DEF LengthLoaded
<1>7. CASE \/ EndOfItems \/ FillLeft \/ CopyText \/ FillRight \/ FreeBuff \/ CopyEscaped
           \/ process_replacement_field \/ mstr_vformat \/ CopyCharacter \/ io_write
  <2>1. UNCHANGED <<args, taken, cache>>
    BY <1>7 DEF EndOfItems, FillLeft, CopyText, FillRight, FreeBuff, CopyEscaped,
                process_replacement_field, mstr_vformat, CopyCharacter, io_write, format_vars
  <2>2. ~ Mistaken
    BY <1>7 DEF EndOfItems, FillLeft, CopyText, FillRight, FreeBuff, CopyEscaped,
                process_replacement_field, mstr_vformat, CopyCharacter, GoesOn, io_write, Mistaken
  <2>3. pc' \in {"left", "copy", "right", "free", "scan", "value", "returned", "written"}
    BY <1>7 DEF EndOfItems, FillLeft, CopyText, FillRight, FreeBuff, CopyEscaped,
                process_replacement_field, mstr_vformat, CopyCharacter, io_write, Output, Goto
  <2> QED
    BY <1>1, <2>1, <2>2, <2>3, GotoKeepsKinds DEF ValueLoaded
<1>8. CASE StartField
  <2>1. UNCHANGED <<args, taken, cache>> /\ pc = "scan" /\ ret = "MStr_Ok" /\ pc' = "goal"
    BY <1>8 DEF StartField, GoesOn, format_vars
  <2> QED
    BY <1>1, <2>1, GotoKeepsKinds DEF ValueLoaded, Mistaken
<1>9. CASE Parse
  <2>1. UNCHANGED <<args, taken, cache>> /\ pc' \in Running \cup Ended
    BY <1>9, ParserStaysInside DEF Parse, format_vars
  <2>2. pc \in Running
    BY <1>9, ParserIsRunning DEF Parse
  <2> QED
    BY <1>1, <2>1, <2>2, GotoKeepsKinds DEF ValueLoaded, Mistaken, Running, Ended
<1>10. CASE EndOfText \/ mstr_format \/ mstr_iovformat
  <2>1. UNCHANGED <<args, taken, cache>> /\ ret' = ret
    BY <1>10 DEF EndOfText, mstr_format, mstr_iovformat, Goto, format_vars
  <2>2. pc # "typed" /\ pc' \in {"returned", "ended"}
    BY <1>10 DEF EndOfText, mstr_format, mstr_iovformat, Goto
  <2>3. Mistaken => ret' # "MStr_Ok"
    BY <2>1, <2>2 DEF Mistaken
  <2> QED
    BY <1>1, <2>1, <2>2, <2>3, GotoKeepsKinds DEF ValueLoaded
<1> QED
  BY <1>2, <1>3, <1>4, <1>5, <1>6, <1>7, <1>8, <1>9, <1>10 DEF Next, FormatNext

\* However often the fields of a text name an argument, and as whatever: if its first use
\* names its type, it is never converted as another.
THEOREM FormatConvertsAsPassed == Spec /\ []ArgumentsAsNamed => []ConvertsAsPassed
<1>1. KindsInv => ConvertsAsPassed
  <2> SUFFICES ASSUME KindsInv, pc = "convert"
               PROVE  /\ args[cache[field.id].arg].kind = KindOf(field.type, field.class = "Array")
                      /\ field.class = "Array" =>
                           args[cache[field.id + 1].arg].kind = KindOf("Uint32", FALSE)
    BY DEF ConvertsAsPassed
  <2>1. /\ field.id \in Nat /\ field.id < taken
        /\ field.class = "Array" => field.id + 1 < taken
        /\ TypesAgree /\ KindsKnown
    BY DEF KindsInv, ArgumentsInv, FieldKnown, Fits, ValueLoaded, LengthLoaded, Mistaken
  <2>2. ASSUME NEW id \in Nat, id < taken
        PROVE  args[cache[id].arg].kind = cache[id].kind
    <3>1. id \in DOMAIN cache
      <4>1. DOMAIN cache = 0..(PlaceMaxNum - 1) /\ taken <= place /\ place <= PlaceMaxNum
        BY DEF KindsInv, ArgumentsInv, ArgumentsReadInOrder, Outside
      <4> QED
        BY <2>2, <4>1, FormatAssumption DEF KindsInv, ArgumentsInv
    <3>2. cache[id].arg = id + 1
      BY <2>2, <3>1 DEF KindsInv, ArgumentsInv, ArgumentsReadInOrder
    <3> QED
      BY <2>1, <2>2, <3>1, <3>2 DEF KindsKnown
  <2>3. args[cache[field.id].arg].kind = KindOf(field.type, field.class = "Array")
    BY <2>1, <2>2 DEF TypesAgree
  <2>4. ASSUME field.class = "Array"
        PROVE  args[cache[field.id + 1].arg].kind = KindOf("Uint32", FALSE)
    <3>1. field.id + 1 \in Nat /\ field.id + 1 < taken
      BY <2>1, <2>4
    <3>2. args[cache[field.id + 1].arg].kind = cache[field.id + 1].kind
      BY <2>2, <3>1
    <3> QED
      BY <2>1, <2>4, <3>2 DEF TypesAgree
  <2> QED
    BY <2>3, <2>4
<1> QED
  BY <1>1, KindsInit, KindsNext, PTL DEF Spec

--------------------------------------------------------------------------------
(* The division by ten.  The digits of every number that is printed come from  *)
(* it; without a division instruction it is shifts and a correction.           *)

\* A quotient that is right, or too small by one, becomes the right one: this is the
\* correction at the end of div_mod_10 and of div_mod_10_u64.
LEMMA CorrectedIsExact ==
  ASSUME NEW x \in Nat, NEW q \in Nat, q * 10 <= x, x < (q * 10) + 20
  PROVE  Corrected(x, q) = Division(x \div 10, x % 10)
<1> DEFINE r == x - (q * 10)
<1>1. CASE r > 9
  <2>1. x \div 10 = q + 1 /\ x % 10 = r - 10
    BY <1>1, SMTT(30)
  <2>2. Corrected(x, q) = Division(q + 1, r - 10)
    BY <1>1 DEF Corrected
  <2> QED BY <2>1, <2>2
<1>2. CASE ~(r > 9)
  <2>1. x \div 10 = q /\ x % 10 = r
    BY <1>2, SMTT(30)
  <2>2. Corrected(x, q) = Division(q, r)
    BY <1>2 DEF Corrected
  <2> QED BY <2>1, <2>2
<1> QED BY <1>1, <1>2

\* An eighth of the shifts' sum is a tenth of a word, or one less.
LEMMA EstimateOfWord ==
  ASSUME NEW x \in Nat, x < 4294967296
  PROVE  LET q == FourFifths(x) \div 8
         IN  q \in Nat /\ q * 10 <= x /\ x < (q * 10) + 20
BY SMTT(60) DEF FourFifths

\* The same for two words, where the sum is shifted by 32 once more.
LEMMA EstimateOfTwoWords ==
  ASSUME NEW x \in Nat, x < 18446744073709551616
  PROVE  LET s == FourFifths(x)
             q == (s + ((s \div 65536) \div 65536)) \div 8
         IN  q \in Nat /\ q * 10 <= x /\ x < (q * 10) + 20
BY SMTT(120) DEF FourFifths

\* div_mod_10 is the quotient and the remainder by ten of every uint32_t, whether the
\* build divides in hardware or not.
THEOREM DivMod10Exact ==
  ASSUME NEW x \in Nat, x < 4294967296
  PROVE  div_mod_10(x) = Division(x \div 10, x % 10)
<1> DEFINE q == FourFifths(x) \div 8
<1>1. q \in Nat /\ q * 10 <= x /\ x < (q * 10) + 20
  BY EstimateOfWord
<1>2. Corrected(x, q) = Division(x \div 10, x % 10)
  <2> HIDE DEF q
  <2> QED BY <1>1, CorrectedIsExact
<1> QED BY <1>2 DEF div_mod_10

\* div_mod_10_u64 is exact for every uint64_t.
THEOREM DivMod10U64Exact ==
  ASSUME NEW x \in Nat, x < 18446744073709551616
  PROVE  div_mod_10_u64(x) = Division(x \div 10, x % 10)
<1> DEFINE s == FourFifths(x)
           q == (s + ((s \div 65536) \div 65536)) \div 8
<1>1. q \in Nat /\ q * 10 <= x /\ x < (q * 10) + 20
  BY EstimateOfTwoWords
<1>2. Corrected(x, q) = Division(x \div 10, x % 10)
  <2> HIDE DEF q
  <2> QED BY <1>1, CorrectedIsExact
<1> QED BY <1>2 DEF div_mod_10_u64

\* The sums of div_mod_10 stay below the word, so the build's wrapped sums are the sums
\* that the model takes.
THEOREM DivMod10NeverWraps ==
  ASSUME NEW x \in Nat, x < 4294967296
  PROVE  FourFifths(x) < 4294967296 /\ (FourFifths(x) \div 8) * 10 < 4294967296
BY SMTT(60) DEF FourFifths

--------------------------------------------------------------------------------
(* The loops that push digits.                                                 *)

\* The loop that pushes C[v] and goes on with Q[v], up to 0.
Step(f, Q, C, v) == IF v = 0 THEN <<>> ELSE Append(f[Q[v]], C[v])

Falls(Q) == Q \in [Nat -> Nat] /\ \A v \in Nat \ {0} : Q[v] < v

\* f is right below m.
RightBelow(f, Q, C, m) == \A v \in Nat : v < m => f[v] = Step(f, Q, C, v)

LEMMA RightOnesAgree ==
  ASSUME NEW Q, Falls(Q), NEW C, NEW f, NEW g, NEW m \in Nat,
         RightBelow(f, Q, C, m), RightBelow(g, Q, C, m), NEW v \in Nat, v < m
  PROVE  f[v] = g[v]
<1> DEFINE D == {u \in Nat : u < m /\ f[u] # g[u]}
<1>1. SUFFICES ASSUME D # {} PROVE FALSE
  OBVIOUS
<1>2. PICK u \in D : \A w \in D : u <= w
  BY <1>1, LeastPlace
<1>3. Step(f, Q, C, u) # Step(g, Q, C, u)
  BY <1>2 DEF RightBelow
<1>4. u # 0 /\ f[Q[u]] # g[Q[u]]
  BY <1>3 DEF Step
<1>5. Q[u] \in Nat /\ Q[u] < u /\ Q[u] < m
  BY <1>2, <1>4 DEF Falls
<1>6. Q[u] \in D
  BY <1>4, <1>5
<1> QED
  BY <1>2, <1>5, <1>6

LEMMA LoopExists ==
  ASSUME NEW Q, Falls(Q), NEW C
  PROVE  \E f : f = [v \in Nat |-> Step(f, Q, C, v)]
<1> DEFINE Right(f, m) == DOMAIN f = Nat /\ RightBelow(f, Q, C, m)
           H == {m \in Nat : \E f : Right(f, m)}
<1>1. 0 \in H
  <2>1. Right([v \in Nat |-> <<>>], 0)
    BY DEF RightBelow
  <2> HIDE DEF Right
  <2> QED
    BY <2>1
<1>2. ASSUME NEW m \in Nat, m \in H PROVE m + 1 \in H
  <2>1. PICK f : Right(f, m)
    BY <1>2
  <2> DEFINE g == [v \in Nat |-> IF v = m THEN Step(f, Q, C, m) ELSE f[v]]
  <2>2. DOMAIN g = Nat /\ g[m] = Step(f, Q, C, m) /\ \A v \in Nat : v # m => g[v] = f[v]
    OBVIOUS
  <2> HIDE DEF g
  <2>3. ASSUME NEW v \in Nat, v < m + 1 PROVE g[v] = Step(g, Q, C, v)
    <3>1. Step(g, Q, C, v) = Step(f, Q, C, v)
      <4>1. CASE v = 0
        BY <4>1 DEF Step
      <4>2. CASE v # 0
        <5>1. Q[v] \in Nat /\ Q[v] # m
          BY <2>3, <4>2 DEF Falls
        <5> QED
          BY <2>2, <5>1 DEF Step
      <4> QED
        BY <4>1, <4>2
    <3>2. CASE v = m
      BY <2>2, <3>1, <3>2
    <3>3. CASE v # m
      <4>1. v < m
        BY <2>3, <3>3
      <4>2. f[v] = Step(f, Q, C, v)
        BY <2>1, <4>1 DEF RightBelow
      <4> QED
        BY <2>2, <3>1, <3>3, <4>2
    <3> QED
      BY <3>2, <3>3
  <2>4. Right(g, m + 1)
    BY <2>2, <2>3 DEF RightBelow
  <2> HIDE DEF Right
  <2> QED
    BY <2>4
<1> HIDE DEF H
<1>3. Nat \subseteq H
  BY <1>1, <1>2, NumberInduction
<1> DEFINE A == [m \in Nat |-> CHOOSE f : Right(f, m)]
<1>4. \A m \in Nat : Right(A[m], m)
  <2> SUFFICES ASSUME NEW m \in Nat PROVE Right(A[m], m)
    OBVIOUS
  <2> HIDE DEF Right
  <2>1. \E f : Right(f, m)
    BY <1>3 DEF H
  <2> QED
    BY <2>1
<1> HIDE DEF A
<1> DEFINE F == [v \in Nat |-> A[v + 1][v]]
<1>5. ASSUME NEW v \in Nat PROVE F[v] = Step(F, Q, C, v)
  <2>1. RightBelow(A[v + 1], Q, C, v + 1) /\ v < v + 1
    BY <1>4
  <2>2. F[v] = Step(A[v + 1], Q, C, v)
    BY <2>1 DEF RightBelow
  <2>3. CASE v = 0
    BY <2>2, <2>3 DEF Step
  <2>4. CASE v # 0
    <3> DEFINE u == Q[v]
    <3>1. u \in Nat /\ u + 1 \in Nat /\ u < u + 1 /\ u < v
      BY <2>4 DEF Falls
    <3>2. RightBelow(A[u + 1], Q, C, u + 1)
      BY <1>4, <3>1
    <3>3. RightBelow(A[v + 1], Q, C, u + 1)
      BY <2>1, <3>1 DEF RightBelow
    <3>4. A[u + 1][u] = A[v + 1][u]
      BY <3>1, <3>2, <3>3, RightOnesAgree
    <3>5. F[u] = A[v + 1][u]
      BY <3>1, <3>4
    <3> HIDE DEF F
    <3> QED
      BY <2>2, <2>4, <3>5 DEF Step
  <2> QED
    BY <2>3, <2>4
<1>6. DOMAIN F = Nat
  OBVIOUS
<1>7. F = [v \in Nat |-> F[v]]
  OBVIOUS
<1> HIDE DEF F
<1>8. F = [v \in Nat |-> Step(F, Q, C, v)]
  BY <1>5, <1>7
<1> QED
  BY <1>8

--------------------------------------------------------------------------------
(* The divisions get smaller, whatever they divide.                            *)

LEMMA CorrectedFalls ==
  ASSUME NEW x \in Nat \ {0}, NEW q \in Nat, q * 8 <= x
  PROVE  Corrected(x, q).div \in Nat /\ Corrected(x, q).div < x
BY DEF Corrected, Division

LEMMA DivisionFalls ==
  ASSUME NEW x \in Nat \ {0}
  PROVE  /\ div_mod_10(x).div \in Nat /\ div_mod_10(x).div < x
         /\ div_mod_10_u64(x).div \in Nat /\ div_mod_10_u64(x).div < x
<1> DEFINE s  == FourFifths(x)
           q  == s \div 8
           s2 == s + ((s \div 65536) \div 65536)
           q2 == s2 \div 8
<1>1. s \in Nat /\ s <= x
  BY SMTT(60) DEF FourFifths
<1>2. s2 \in Nat /\ s2 <= x
  BY SMTT(60) DEF FourFifths
<1> HIDE DEF s, s2
<1>3. q \in Nat /\ q * 8 <= x
  BY <1>1
<1>4. q2 \in Nat /\ q2 * 8 <= x
  BY <1>2
<1> HIDE DEF q, q2
<1>5. Corrected(x, q).div \in Nat /\ Corrected(x, q).div < x
  BY <1>3, CorrectedFalls
<1>6. Corrected(x, q2).div \in Nat /\ Corrected(x, q2).div < x
  BY <1>4, CorrectedFalls
<1>7. x \div 10 \in Nat /\ x \div 10 < x
  OBVIOUS
<1> QED
  BY <1>5, <1>6, <1>7 DEF div_mod_10, div_mod_10_u64, Division, q, q2, s, s2

\* Also of 0, of which no digit is pushed.
Quotients(words) ==
  [v \in Nat |-> IF v = 0 THEN 0
                 ELSE IF words = 1 THEN div_mod_10(v).div ELSE div_mod_10_u64(v).div]

Remainders(words) ==
  [v \in Nat |-> IF words = 1 THEN DigitChars("a")[div_mod_10(v).rem + 1]
                 ELSE DigitChars("a")[div_mod_10_u64(v).rem + 1]]

LEMMA QuotientsFall ==
  ASSUME NEW words
  PROVE  Falls(Quotients(words))
<1>1. ASSUME NEW v \in Nat \ {0} PROVE Quotients(words)[v] \in Nat /\ Quotients(words)[v] < v
  <2>1. Quotients(words)[v] = IF words = 1 THEN div_mod_10(v).div ELSE div_mod_10_u64(v).div
    BY DEF Quotients
  <2> QED
    BY <2>1, DivisionFalls
<1>2. Quotients(words)[0] = 0
  BY DEF Quotients
<1>3. Quotients(words) = [v \in Nat |-> Quotients(words)[v]]
  BY DEF Quotients
<1> QED
  BY <1>1, <1>2, <1>3 DEF Falls

\* The digits of a number in base 10, as an equation.
LEMMA PushedLoop ==
  ASSUME NEW words
  PROVE  \E f : /\ f = [v \in Nat |-> Step(f, Quotients(words), Remainders(words), v)]
                /\ \A v \in Nat : Pushed(v, words) = f[v]
<1> DEFINE Div(v) == IF words = 1 THEN div_mod_10(v) ELSE div_mod_10_u64(v)
           Q == Quotients(words)
           C == Remainders(words)
           Body(f, v) == IF v = 0 THEN <<>> ELSE Append(f[Div(v).div], DigitChars("a")[Div(v).rem + 1])
           digits[v \in Nat] ==
             IF v = 0 THEN <<>> ELSE Append(digits[Div(v).div], DigitChars("a")[Div(v).rem + 1])
<1>1. ASSUME NEW f, NEW v \in Nat PROVE Step(f, Q, C, v) = Body(f, v)
  BY DEF Step, Quotients, Remainders
<1>2. PICK f : f = [v \in Nat |-> Step(f, Q, C, v)]
  BY QuotientsFall, LoopExists
<1> HIDE DEF Q, C
<1>3. f = [v \in Nat |-> Body(f, v)]
  BY <1>1, <1>2
<1> HIDE DEF Body
<1>4. digits = [v \in Nat |-> Body(digits, v)]
  <2> HIDE DEF Div
  <2> QED
    BY <1>3 DEF digits, Body
<1>5. digits = [v \in Nat |-> Step(digits, Q, C, v)]
  BY <1>1, <1>4
<1>6. \A v \in Nat : Pushed(v, words) = digits[v]
  BY DEF Pushed, digits, Div
<1> HIDE DEF digits
<1> QED
  BY <1>5, <1>6 DEF Q, C

--------------------------------------------------------------------------------
(* What the digits mean.                                                       *)

\* Read from left to right, the characters are digits of the base whose number is v; the
\* first is not a zero.
Reads(chars, base, hex_base, v, digit, value) ==
  /\ Len(chars) \in Nat
  /\ digit \in [1..Len(chars) -> 0..(base - 1)]
  /\ value \in [0..Len(chars) -> Nat]
  /\ chars = [i \in 1..Len(chars) |-> DigitChars(hex_base)[digit[i] + 1]]
  /\ \A i \in 1..Len(chars) : value[i] = (value[i - 1] * base) + digit[i]
  /\ value[0] = 0
  /\ value[Len(chars)] = v
  /\ Len(chars) > 0 => digit[1] # 0

Spells(chars, base, hex_base, v) ==
  \E digit, value : Reads(chars, base, hex_base, v, digit, value)

\* The numeral of v: 0 has a digit too.
Numbers(chars, base, hex_base, v) ==
  IF v = 0 THEN chars = <<"0">> ELSE Len(chars) > 0 /\ Spells(chars, base, hex_base, v)

LEMMA NothingSpells ==
  ASSUME NEW base \in Nat \ {0}, NEW hex_base
  PROVE  Spells(<<>>, base, hex_base, 0)
<1> DEFINE digit == [i \in 1..0 |-> 0]
           value == [i \in 0..0 |-> 0]
<1>1. Len(<<>>) = 0
  OBVIOUS
<1>2. digit \in [1..0 -> 0..(base - 1)] /\ value \in [0..0 -> Nat] /\ value[0] = 0
  OBVIOUS
<1> HIDE DEF digit, value
<1>4. <<>> = [i \in 1..0 |-> DigitChars(hex_base)[digit[i] + 1]]
  OBVIOUS
<1>3. Reads(<<>>, base, hex_base, 0, digit, value)
  BY <1>1, <1>2, <1>4 DEF Reads
<1> QED
  BY <1>3 DEF Spells

LEMMA DivisionFacts ==
  ASSUME NEW v \in Nat, NEW base \in Nat, base > 1
  PROVE  /\ v \div base \in Nat
         /\ v % base \in 0..(base - 1)
         /\ v = ((v \div base) * base) + (v % base)
OBVIOUS

LEMMA QuotientLess ==
  ASSUME NEW v \in Nat \ {0}, NEW base \in Nat, base > 1, NEW q \in Nat, NEW d \in 0..(base - 1),
         v = (q * base) + d
  PROVE  q < v /\ (q = 0 => d > 0)
<1>1. q * base >= q * 2
  OBVIOUS
<1> QED
  BY <1>1

LEMMA OneMoreDigit ==
  ASSUME NEW T, NEW chars \in Seq(T), NEW base \in Nat \ {0}, NEW hex_base,
         NEW v \in Nat, NEW d \in 0..(base - 1),
         Spells(chars, base, hex_base, v), v > 0 \/ (chars = <<>> /\ d > 0),
         NEW c, c = DigitChars(hex_base)[d + 1]
  PROVE  Spells(Append(chars, c), base, hex_base, (v * base) + d)
<1> DEFINE n == Len(chars)
           more == Append(chars, c)
<1>1. /\ n \in Nat /\ more \in Seq(T \cup {c}) /\ Len(more) = n + 1 /\ more[n + 1] = c
      /\ \A i \in 1..n : more[i] = chars[i]
  OBVIOUS
<1>a. PICK digit, value : Reads(chars, base, hex_base, v, digit, value)
  BY DEF Spells
<1>2. /\ digit \in [1..n -> 0..(base - 1)]
      /\ value \in [0..n -> Nat]
      /\ \A i \in 1..n : /\ chars[i] = DigitChars(hex_base)[digit[i] + 1]
                         /\ value[i] = (value[i - 1] * base) + digit[i]
      /\ value[0] = 0
      /\ value[n] = v
      /\ n > 0 => digit[1] # 0
  BY <1>a DEF Reads
<1>0. n = 0 => chars = <<>>
  OBVIOUS
<1>3. n = 0 => d > 0
  BY <1>2
<1> HIDE DEF n, more
<1> DEFINE w == (v * base) + d
           digit2 == [i \in 1..(n + 1) |-> IF i = n + 1 THEN d ELSE digit[i]]
           value2 == [i \in 0..(n + 1) |-> IF i = n + 1 THEN w ELSE value[i]]
<1>4. w \in Nat
  OBVIOUS
<1>5. /\ digit2 \in [1..(n + 1) -> 0..(base - 1)] /\ digit2[n + 1] = d
      /\ \A i \in 1..n : digit2[i] = digit[i]
  <2> DEFINE D == 0..(base - 1)
  <2>1. n \in Nat /\ digit \in [1..n -> D] /\ d \in D
    BY <1>1, <1>2
  <2> HIDE DEF D, w, value2
  <2>2. /\ digit2 \in [1..(n + 1) -> D] /\ digit2[n + 1] = d
        /\ \A i \in 1..n : digit2[i] = digit[i]
    BY <2>1
  <2> QED
    BY <2>2 DEF D
<1>6. /\ value2 \in [0..(n + 1) -> Nat] /\ value2[n + 1] = w
      /\ \A i \in 0..n : value2[i] = value[i]
  BY <1>1, <1>2, <1>4
<1> HIDE DEF digit2, value2
<1>7. value2[n + 1] = (value2[n] * base) + digit2[n + 1]
  <2>1. value2[n] = v
    BY <1>1, <1>2, <1>6
  <2>2. value2[n + 1] = w /\ digit2[n + 1] = d
    BY <1>5, <1>6
  <2> QED
    BY <2>1, <2>2
<1> HIDE DEF w
<1>8. ASSUME NEW i \in 1..(n + 1)
      PROVE  /\ more[i] = DigitChars(hex_base)[digit2[i] + 1]
             /\ value2[i] = (value2[i - 1] * base) + digit2[i]
  <2>1. CASE i = n + 1
    <3>1. i - 1 = n
      BY <1>1, <2>1
    <3>2. more[i] = c /\ digit2[i] = d
      BY <1>1, <1>5, <2>1
    <3> QED
      BY <1>7, <2>1, <3>1, <3>2
  <2>2. CASE i # n + 1
    <3>1. i \in 1..n /\ i \in 0..n /\ i - 1 \in 0..n
      BY <1>1, <2>2
    <3>2. /\ more[i] = chars[i] /\ digit2[i] = digit[i]
          /\ value2[i] = value[i] /\ value2[i - 1] = value[i - 1]
      BY <1>1, <1>5, <1>6, <3>1
    <3> QED
      BY <1>2, <3>1, <3>2
  <2> QED
    BY <2>1, <2>2
<1>9. value2[0] = 0
  BY <1>1, <1>2, <1>6
<1>10. digit2[1] # 0
  BY <1>1, <1>2, <1>3, <1>5
<1>b. more = [i \in 1..(n + 1) |-> DigitChars(hex_base)[digit2[i] + 1]]
  <2>1. more = [i \in 1..(n + 1) |-> more[i]]
    BY <1>1
  <2>2. \A i \in 1..(n + 1) : more[i] = DigitChars(hex_base)[digit2[i] + 1]
    BY <1>8
  <2> QED
    BY <2>1, <2>2
<1>c. \A i \in 1..(n + 1) : value2[i] = (value2[i - 1] * base) + digit2[i]
  BY <1>8
<1>11. Reads(more, base, hex_base, w, digit2, value2)
  <2> DEFINE k == n + 1
  <2>1. Len(more) = k /\ k \in Nat
    BY <1>1
  <2>2. /\ digit2 \in [1..k -> 0..(base - 1)] /\ value2 \in [0..k -> Nat]
        /\ more = [i \in 1..k |-> DigitChars(hex_base)[digit2[i] + 1]]
        /\ \A i \in 1..k : value2[i] = (value2[i - 1] * base) + digit2[i]
        /\ value2[k] = w
    BY <1>b, <1>5, <1>6, <1>c
  <2> HIDE DEF k, more
  <2> QED
    BY <2>1, <2>2, <1>9, <1>10 DEF Reads
<1>12. Spells(more, base, hex_base, w)
  BY <1>11 DEF Spells
<1> QED
  BY <1>12 DEF more, w

LEMMA AppendedText ==
  ASSUME NEW T, NEW s \in Seq(T), NEW c \in T
  PROVE  Append(s, c) \in Seq(T) /\ Append(s, c) # <<>>
<1>1. Append(s, c) \in Seq(T) /\ Len(Append(s, c)) = Len(s) + 1 /\ Len(s) \in Nat
  OBVIOUS
<1>2. Len(<<>>) = 0
  OBVIOUS
<1> QED
  BY <1>1, <1>2

\* A loop that divides by the base spells the number that it starts with.
Loops(f, Q, C) == f = [v \in Nat |-> Step(f, Q, C, v)]

DividesBy(base, hex_base, limit, Q, C) ==
  \A v \in Nat \ {0} :
    v < limit => Q[v] = v \div base /\ C[v] = DigitChars(hex_base)[(v % base) + 1]

LEMMA LoopSpells ==
  ASSUME NEW base \in Nat, base > 1, NEW hex_base, NEW Q, Falls(Q), NEW C, NEW limit \in Nat,
         NEW f, Loops(f, Q, C), DividesBy(base, hex_base, limit, Q, C),
         NEW x \in Nat, x < limit
  PROVE  /\ f[x] = <<>> <=> x = 0
         /\ Spells(f[x], base, hex_base, x)
<1> DEFINE T == {DigitChars(hex_base)[k + 1] : k \in 0..(base - 1)}
           Fine(v) == /\ f[v] \in Seq(T)
                      /\ Spells(f[v], base, hex_base, v)
                      /\ f[v] = <<>> <=> v = 0
           D == {v \in Nat : v < limit /\ ~ Fine(v)}
<1>0. base \in Nat \ {0}
  OBVIOUS
<1>1. SUFFICES ASSUME D # {} PROVE FALSE
  <2>1. D = {}
    BY <1>1
  <2> HIDE DEF Fine
  <2>2. Fine(x)
    BY <2>1
  <2> QED
    BY <2>2 DEF Fine
<1>2. PICK v \in D : \A w \in D : v <= w
  <2> HIDE DEF Fine
  <2> QED
    BY <1>1, LeastPlace
<1>3. f[v] = Step(f, Q, C, v)
  BY <1>2 DEF Loops
<1>4. CASE v = 0
  <2>1. f[v] = <<>>
    BY <1>3, <1>4 DEF Step
  <2>2. <<>> \in Seq(T)
    OBVIOUS
  <2>3. Spells(<<>>, base, hex_base, 0)
    BY <1>0, NothingSpells
  <2>4. Fine(v)
    BY <1>4, <2>1, <2>2, <2>3
  <2> QED
    BY <1>2, <2>4
<1>5. CASE v # 0
  <2> DEFINE q == v \div base
             d == v % base
  <2>1. v \in Nat /\ v < limit /\ ~ Fine(v)
    BY <1>2
  <2>3. q \in Nat /\ d \in 0..(base - 1) /\ v = (q * base) + d
    BY <2>1, DivisionFacts
  <2>4. f[v] = Append(f[q], C[v]) /\ C[v] = DigitChars(hex_base)[d + 1]
    BY <1>3, <1>5, <2>1 DEF Step, DividesBy
  <2>14. C[v] \in T
    BY <2>3, <2>4
  <2> HIDE DEF q, d
  <2>2. q < v /\ (q = 0 => d > 0)
    BY <1>5, <2>1, <2>3, QuotientLess
  <2>5. Fine(q)
    <3> HIDE DEF Fine
    <3> QED
      BY <1>2, <2>1, <2>2, <2>3
  <2>6. q > 0 \/ (f[q] = <<>> /\ d > 0)
    BY <2>2, <2>3, <2>5
  <2> DEFINE s == f[q]
             c == C[v]
  <2>7. s \in Seq(T) /\ Spells(s, base, hex_base, q) /\ c \in T
    BY <2>5, <2>14
  <2>8. q > 0 \/ (s = <<>> /\ d > 0)
    BY <2>6
  <2>10. c = DigitChars(hex_base)[d + 1]
    BY <2>4
  <2>11. f[v] = Append(s, c)
    BY <2>4
  <2> HIDE DEF s, c, Fine, T
  <2>12. Spells(Append(s, c), base, hex_base, (q * base) + d)
    BY <1>0, <2>3, <2>7, <2>8, <2>10, OneMoreDigit
  <2>13. Append(s, c) \in Seq(T) /\ Append(s, c) # <<>>
    BY <2>7, AppendedText
  <2>9. Fine(v)
    BY <1>5, <2>3, <2>11, <2>12, <2>13 DEF Fine
  <2> QED
    BY <2>1, <2>9
<1> QED
  BY <1>4, <1>5

--------------------------------------------------------------------------------
(* Integers.                                                                   *)

\* What uint32_t and uint64_t go up to.
WordLimit == 4294967296

LongLimit == 18446744073709551616

\* A build whose word has the width that the digits are made for.
LEMMA WordOfThirtyTwo ==
  ASSUME Bits = 32
  PROVE  Modulus = WordLimit
BY SMT DEF Modulus, WordLimit

\* The values of int32_t.
SignedWord == {x \in Int : -2147483648 <= x /\ x <= 2147483647}

\* The smallest of them has a magnitude that is none of them.
LEMMA Magnitudes ==
  ASSUME Bits = 32, NEW x \in SignedWord
  PROVE  LET m == IF x < 0 THEN -x ELSE x
         IN  m \in Nat /\ m < WordLimit /\ abs_u32(x) = m
<1> DEFINE m == IF x < 0 THEN -x ELSE x
<1>1. x \in Int /\ x >= -2147483648 /\ x <= 2147483647
  BY SMT DEF SignedWord
<1>2. m \in Nat /\ m < WordLimit
  BY <1>1, SMT DEF WordLimit
<1>3. (-x) % 4294967296 = -x \/ x > 0
  BY <1>1, SMT
<1>4. abs_u32(x) = IF x > 0 THEN x ELSE (-x) % 4294967296
  BY WordOfThirtyTwo, SMT DEF abs_u32, WordLimit
<1>5. abs_u32(x) = m
  BY <1>1, <1>3, <1>4, SMT
<1> QED
  BY <1>2, <1>5, SMT

\* The digits are the same, and right, whether the build divides in hardware or not.
LEMMA DecimalSpells ==
  ASSUME NEW words \in {1, 2}, NEW x \in Nat,
         x < (IF words = 1 THEN WordLimit ELSE LongLimit)
  PROVE  /\ Pushed(x, words) = <<>> <=> x = 0
         /\ Spells(Pushed(x, words), 10, "a", x)
<1> DEFINE limit == IF words = 1 THEN WordLimit ELSE LongLimit
           Q == Quotients(words)
           C == Remainders(words)
<1>1. PICK f : /\ f = [v \in Nat |-> Step(f, Q, C, v)]
               /\ \A v \in Nat : Pushed(v, words) = f[v]
  BY PushedLoop
<1>2. ASSUME NEW v \in Nat \ {0}, v < limit
      PROVE  /\ Q[v] = v \div 10
             /\ C[v] = DigitChars("a")[(v % 10) + 1]
  <2>3. CASE words = 1
    <3>1. v < WordLimit
      BY <1>2, <2>3
    <3>2. div_mod_10(v) = Division(v \div 10, v % 10)
      BY <3>1, DivMod10Exact, SMT DEF WordLimit
    <3>3. Q[v] = div_mod_10(v).div /\ C[v] = DigitChars("a")[div_mod_10(v).rem + 1]
      BY <2>3 DEF Quotients, Remainders
    <3> QED
      BY <3>2, <3>3 DEF Division
  <2>4. CASE words # 1
    <3>1. v < LongLimit
      BY <1>2, <2>4
    <3>2. div_mod_10_u64(v) = Division(v \div 10, v % 10)
      BY <3>1, DivMod10U64Exact, SMT DEF LongLimit
    <3>3. Q[v] = div_mod_10_u64(v).div /\ C[v] = DigitChars("a")[div_mod_10_u64(v).rem + 1]
      BY <2>4 DEF Quotients, Remainders
    <3> QED
      BY <3>2, <3>3 DEF Division
  <2> QED
    BY <2>3, <2>4
<1>3. Falls(Q)
  BY QuotientsFall
<1>4. limit \in Nat /\ x < limit
  BY SMT DEF WordLimit, LongLimit
<1> HIDE DEF limit, Q, C
<1>6. DividesBy(10, "a", limit, Q, C)
  BY <1>2 DEF DividesBy
<1>7. Loops(f, Q, C)
  BY <1>1 DEF Loops
<1>8. 10 \in Nat /\ 10 > 1
  OBVIOUS
<1>5. /\ f[x] = <<>> <=> x = 0
      /\ Spells(f[x], 10, "a", x)
  BY <1>3, <1>4, <1>6, <1>7, <1>8, LoopSpells
<1> QED
  BY <1>1, <1>5

LEMMA DecimalNumbers ==
  ASSUME NEW x \in Nat, x < WordLimit
  PROVE  Numbers(utoa_impl_10base(x), 10, "a", x)
<1> DEFINE s == Pushed(x, 1)
<1>1. Spells(s, 10, "a", x) /\ (s = <<>> <=> x = 0)
  BY DecimalSpells
<1>2. utoa_impl_10base(x) = IF x = 0 THEN <<"0">> ELSE s
  BY DEF utoa_impl_10base
<1> HIDE DEF s
<1>3. CASE x = 0
  BY <1>2, <1>3 DEF Numbers
<1>4. CASE x # 0
  <2>1. Len(s) > 0
    BY <1>1, <1>4
  <2> QED
    BY <1>1, <1>2, <1>4, <2>1 DEF Numbers
<1> QED
  BY <1>3, <1>4

\* In a base that is a power of two there is no limit.
LEMMA GroupsNumber ==
  ASSUME NEW base \in 2..16, NEW hex_base, NEW x \in Nat
  PROVE  Numbers(utoa_impl_2base(base, hex_base, x), base, hex_base, x)
<1> DEFINE Q == [v \in Nat |-> v \div base]
           C == [v \in Nat |-> DigitChars(hex_base)[(v % base) + 1]]
           Body(f, v) == IF v = 0 THEN <<>> ELSE Append(f[v \div base], DigitChars(hex_base)[(v % base) + 1])
           digits[v \in Nat] ==
             IF v = 0 THEN <<>> ELSE Append(digits[v \div base], DigitChars(hex_base)[(v % base) + 1])
<1>0. base \in Nat /\ base > 1
  OBVIOUS
<1>1. ASSUME NEW v \in Nat \ {0}
      PROVE  /\ Q[v] = v \div base /\ Q[v] \in Nat /\ Q[v] < v
             /\ C[v] = DigitChars(hex_base)[(v % base) + 1]
  <2> DEFINE q == v \div base
             d == v % base
  <2>1. q \in Nat /\ d \in 0..(base - 1) /\ v = (q * base) + d
    BY <1>0, DivisionFacts
  <2>2. Q[v] = q /\ C[v] = DigitChars(hex_base)[d + 1]
    OBVIOUS
  <2> HIDE DEF q, d, Q, C
  <2>4. q < v
    BY <1>0, <2>1, QuotientLess
  <2> QED
    BY <2>1, <2>2, <2>4 DEF q, d
<1>2. Falls(Q)
  <2>1. Q[0] = 0
    BY <1>0
  <2>2. Q = [v \in Nat |-> Q[v]]
    OBVIOUS
  <2> HIDE DEF Q
  <2> QED
    BY <1>1, <2>1, <2>2 DEF Falls
<1>3. ASSUME NEW f, NEW v \in Nat PROVE Step(f, Q, C, v) = Body(f, v)
  BY DEF Step
<1>4. PICK f : f = [v \in Nat |-> Step(f, Q, C, v)]
  BY <1>2, LoopExists
<1> HIDE DEF Q, C
<1>5. f = [v \in Nat |-> Body(f, v)]
  BY <1>3, <1>4
<1> HIDE DEF Body
<1>6. digits = [v \in Nat |-> Body(digits, v)]
  BY <1>5 DEF digits, Body
<1>7. Loops(digits, Q, C)
  BY <1>3, <1>6 DEF Loops
<1>8. utoa_impl_2base(base, hex_base, x) = IF x = 0 THEN <<"0">> ELSE digits[x]
  BY DEF utoa_impl_2base, digits
<1> HIDE DEF digits
<1> DEFINE s == digits[x]
           limit == x + 1
<1>9. limit \in Nat /\ x < limit
  OBVIOUS
<1> HIDE DEF limit
<1>10. DividesBy(base, hex_base, limit, Q, C)
  BY <1>1 DEF DividesBy
<1>11. Spells(s, base, hex_base, x) /\ (s = <<>> <=> x = 0)
  BY <1>0, <1>2, <1>7, <1>9, <1>10, LoopSpells
<1> HIDE DEF s
<1>12. CASE x = 0
  BY <1>8, <1>12 DEF Numbers
<1>13. CASE x # 0
  <2>1. Len(s) > 0
    BY <1>11, <1>13
  <2> QED
    BY <1>8, <1>11, <1>13, <2>1 DEF Numbers, s
<1> QED
  BY <1>12, <1>13

\* What is printed for an unsigned integer, in every format of the manual, is the
\* format's prefix and the numeral of the integer in the format's base.
THEOREM UnsignedNumeral ==
  ASSUME NEW x \in Nat, x < WordLimit, NEW f \in DOMAIN fmt_type_as_integer_index
  PROVE  LET index == fmt_type_as_integer_index[f]
         IN  \E d :
               /\ mstr_fmt_utoa(x, index) = index.prefix \o d
               /\ Numbers(d, index.base, index.hex_base, x)
<1> DEFINE index == fmt_type_as_integer_index[f]
           d == IF index.base = 10 THEN utoa_impl_10base(x)
                ELSE utoa_impl_2base(index.base, index.hex_base, x)
<1>1. index.base \in 2..16 /\ (index.base = 10 => index.hex_base = "a")
  BY DEF fmt_type_as_integer_index, IntIndex
<1>2. mstr_fmt_utoa(x, index) = index.prefix \o d
  BY DEF mstr_fmt_utoa
<1> HIDE DEF index
<1>3. Numbers(d, index.base, index.hex_base, x)
  <2>1. CASE index.base = 10
    BY <1>1, <2>1, DecimalNumbers
  <2>2. CASE index.base # 10
    BY <1>1, <2>2, GroupsNumber
  <2> QED
    BY <2>1, <2>2
<1> HIDE DEF d
<1>4. \E e : /\ mstr_fmt_utoa(x, index) = index.prefix \o e
            /\ Numbers(e, index.base, index.hex_base, x)
  BY <1>2, <1>3
<1> QED
  BY <1>4 DEF index

\* For a signed integer it is the sign, the prefix and the numeral of the magnitude, also
\* for the smallest integer, whose magnitude int32_t has not.
THEOREM SignedNumeral ==
  ASSUME Bits = 32, NEW x \in SignedWord, NEW sign, NEW f \in DOMAIN fmt_type_as_integer_index
  PROVE  LET index == fmt_type_as_integer_index[f]
         IN  \E d :
               /\ mstr_fmt_itoa(x, index, sign) = convert_sign_helper(x, sign) \o (index.prefix \o d)
               /\ Numbers(d, index.base, index.hex_base, IF x < 0 THEN -x ELSE x)
<1> DEFINE index == fmt_type_as_integer_index[f]
           m == IF x < 0 THEN -x ELSE x
<1>1. m \in Nat /\ m < WordLimit /\ abs_u32(x) = m
  BY Magnitudes
<1> HIDE DEF m
<1>3. PICK d : /\ mstr_fmt_utoa(m, index) = index.prefix \o d
               /\ Numbers(d, index.base, index.hex_base, m)
  BY <1>1, UnsignedNumeral
<1>4. mstr_fmt_itoa(x, index, sign) = convert_sign_helper(x, sign) \o mstr_fmt_utoa(m, index)
  BY <1>1 DEF mstr_fmt_itoa
<1> HIDE DEF index
<1>5. mstr_fmt_itoa(x, index, sign) = convert_sign_helper(x, sign) \o (index.prefix \o d)
  BY <1>3, <1>4
<1> QED
  BY <1>3, <1>5 DEF index, m

--------------------------------------------------------------------------------
(* Quantized numbers.                                                          *)

\* The bits behind the point up to which the powers of five fit a word.
ExactBits == 13

\* Powers, as the tables that the provers can look them up in.
Power(b) == [k \in Nat |-> b^k]

LEMMA TableOfTwo ==
  LET p == Power(2)
  IN  /\ p[0] = 1 /\ p[1] = 2 /\ p[2] = 4 /\ p[3] = 8 /\ p[4] = 16 /\ p[5] = 32 /\ p[6] = 64
      /\ p[7] = 128 /\ p[8] = 256 /\ p[9] = 512 /\ p[10] = 1024 /\ p[11] = 2048 /\ p[12] = 4096
      /\ p[13] = 8192
BY SMT DEF Power

LEMMA TableOfFive ==
  LET p == Power(5)
  IN  /\ p[0] = 1 /\ p[1] = 5 /\ p[2] = 25 /\ p[3] = 125 /\ p[4] = 625 /\ p[5] = 3125 /\ p[6] = 15625
      /\ p[7] = 78125 /\ p[8] = 390625 /\ p[9] = 1953125 /\ p[10] = 9765625 /\ p[11] = 48828125
      /\ p[12] = 244140625 /\ p[13] = 1220703125
BY SMT DEF Power

LEMMA PowersGrow ==
  ASSUME NEW k \in 0..(ExactBits - 1)
  PROVE  2^(k + 1) = 2 * 2^k /\ 5^(k + 1) = 5 * 5^k
<1>1. \/ k = 0 \/ k = 1 \/ k = 2 \/ k = 3 \/ k = 4 \/ k = 5 \/ k = 6 \/ k = 7 \/ k = 8
      \/ k = 9 \/ k = 10 \/ k = 11 \/ k = 12
  BY SMT DEF ExactBits
<1>2. Power(2)[k + 1] = 2 * Power(2)[k]
  BY <1>1, TableOfTwo, SMTT(30)
<1>3. Power(5)[k + 1] = 5 * Power(5)[k]
  BY <1>1, TableOfFive, SMTT(30)
<1>5. k \in Nat /\ k + 1 \in Nat
  BY <1>1, SMT
<1> QED
  BY <1>2, <1>3, <1>5, Zenon DEF Power

LEMMA PowersBound ==
  ASSUME NEW k \in 0..ExactBits
  PROVE  /\ 2^k \in Nat /\ 2^k > 0 /\ 2^k <= 8192
         /\ 5^k \in Nat /\ 5^k > 0 /\ 5^k <= 1220703125
<1>1. \/ k = 0 \/ k = 1 \/ k = 2 \/ k = 3 \/ k = 4 \/ k = 5 \/ k = 6 \/ k = 7 \/ k = 8
      \/ k = 9 \/ k = 10 \/ k = 11 \/ k = 12 \/ k = 13
  BY SMT DEF ExactBits
<1>2. Power(2)[k] \in Nat /\ Power(2)[k] > 0 /\ Power(2)[k] <= 8192
  BY <1>1, TableOfTwo, SMTT(30)
<1>3. Power(5)[k] \in Nat /\ Power(5)[k] > 0 /\ Power(5)[k] <= 1220703125
  BY <1>1, TableOfFive, SMTT(30)
<1>6. k \in Nat
  BY <1>1, SMT
<1>7. Power(2)[k] = 2^k /\ Power(5)[k] = 5^k
  BY <1>6, SMT DEF Power
<1> QED
  BY <1>2, <1>3, <1>7, SMT

\* What stands left of a bit, from what stands left of the next higher one.
LEMMA NextBit ==
  ASSUME NEW v \in Nat, NEW k \in 0..(ExactBits - 1)
  PROVE  v \div 2^k = (2 * (v \div 2^(k + 1))) + ((v \div 2^k) % 2)
<1>1. \/ k = 0 \/ k = 1 \/ k = 2 \/ k = 3 \/ k = 4 \/ k = 5 \/ k = 6 \/ k = 7 \/ k = 8
      \/ k = 9 \/ k = 10 \/ k = 11 \/ k = 12
  BY SMT DEF ExactBits
<1> DEFINE b == 2^k
<1>2. 2^(k + 1) = 2 * b
  BY PowersGrow
<1>3. \/ b = 1 \/ b = 2 \/ b = 4 \/ b = 8 \/ b = 16 \/ b = 32 \/ b = 64 \/ b = 128 \/ b = 256
      \/ b = 512 \/ b = 1024 \/ b = 2048 \/ b = 4096
  <2>1. k \in Nat
    BY <1>1, SMT
  <2>2. Power(2)[k] = b
    BY <2>1, SMT DEF Power
  <2> HIDE DEF b
  <2> QED
    BY <1>1, <2>2, TableOfTwo, SMTT(30)
<1> HIDE DEF b
<1>4. v \div b = (2 * (v \div (2 * b))) + ((v \div b) % 2)
  BY <1>3, SMTT(60)
<1> QED
  BY <1>2, <1>4, Zenon DEF b

LEMMA SquareBound ==
  ASSUME NEW m \in Nat, m >= 10000
  PROVE  m * m \in Nat /\ m * m >= 10000 * m
BY SMT

\* One bit more: ten times the sum, and the bit's power of five.
LEMMA OneMoreBit ==
  ASSUME Modulus = WordLimit, NEW a \in Nat, a * 5 <= 1220703125, NEW n \in Nat, NEW e \in {0, 1},
         (2 * n) + e < 8192
  PROVE  /\ (a * 5) % Modulus = a * 5
         /\ (((n * a) * 10) + (e * (a * 5))) % (Modulus * Modulus) = ((2 * n) + e) * (a * 5)
<1> DEFINE p == a * 5
           m == (2 * n) + e
<1>1. p \in Nat /\ m \in Nat /\ p <= 1220703125 /\ m < 8192
  BY SMT
<1>2. p % 4294967296 = p
  BY <1>1, SMT
<1>3. ((n * a) * 10) + (e * p) = m * p
  BY SMT
<1>4. m * p \in Nat /\ m * p <= 8192 * p
  <2> HIDE DEF m, p
  <2> QED
    BY <1>1, SMT
<1> HIDE DEF m, p
<1>5. Modulus \in Nat /\ Modulus = 4294967296
  BY SMT DEF WordLimit
<1>9. Modulus \in Nat /\ Modulus >= 10000
  BY SMT DEF WordLimit
<1>6. (m * p) % (Modulus * Modulus) = m * p
  <2> DEFINE x == m * p
             w == Modulus * Modulus
  <2>1. x \in Nat /\ x <= 8192 * 1220703125
    BY <1>1, <1>4, SMT
  <2>2. w \in Nat /\ w >= 10000 * Modulus
    BY <1>9, SquareBound
  <2> HIDE DEF x, w
  <2>3. x < w
    BY <1>5, <2>1, <2>2, SMT
  <2>4. x % w = x
    BY <2>1, <2>2, <2>3, SMT
  <2> QED
    BY <2>4, SMT DEF x, w
<1>7. p % Modulus = p
  BY <1>2, <1>5, SMT
<1>8. (((n * a) * 10) + (e * p)) % (Modulus * Modulus) = m * p
  BY <1>3, <1>6, SMT
<1> QED
  BY <1>7, <1>8, SMT DEF m, p

\* The sum is the fraction's bits times the power of five, up to ExactBits.
LEMMA FractionScaled ==
  ASSUME Modulus = WordLimit, NEW q \in 1..ExactBits, NEW v \in Nat, v < 2^q
  PROVE  Accumulated(v, q) = v * 5^q
<1> DEFINE Body(r, j) ==
             IF j = 0 THEN [p5 |-> 1, acc |-> 0]
             ELSE LET before == r[j - 1]
                      p5     == (before.p5 * 5) % Modulus
                      bit    == (v \div 2^(q - j)) % 2
                  IN  [p5 |-> p5, acc |-> ((before.acc * 10) + (bit * p5)) % (Modulus * Modulus)]
           after[j \in 0..q] ==
             IF j = 0 THEN [p5 |-> 1, acc |-> 0]
             ELSE LET before == after[j - 1]
                      p5     == (before.p5 * 5) % Modulus
                      bit    == (v \div 2^(q - j)) % 2
                  IN  [p5 |-> p5, acc |-> ((before.acc * 10) + (bit * p5)) % (Modulus * Modulus)]
           Left(j) == v \div 2^(q - j)
           g == [j \in 0..q |-> [p5 |-> 5^j, acc |-> Left(j) * 5^j]]
<1>0. q \in Nat /\ q >= 1 /\ q <= 13 /\ q \in 0..ExactBits
  BY SMT DEF ExactBits
<1>1. ASSUME NEW j \in 0..q PROVE g[j] = Body(g, j)
  <2>1. CASE j = 0
    <3>1. 5^0 = 1
      BY SMT
    <3>2. Left(0) = 0
      <4>1. 2^q \in Nat /\ q - 0 = q
        BY <1>0, PowersBound
      <4> DEFINE b == 2^q
      <4>2. b \in Nat /\ v < b
        BY <4>1
      <4> HIDE DEF b
      <4>3. v \div b = 0
        BY <4>2, SMT
      <4> QED
        BY <4>1, <4>3 DEF b
    <3>3. g[0] = [p5 |-> 1, acc |-> 0]
      BY <1>0, <3>1, <3>2, SMT
    <3> QED
      BY <2>1, <3>3
  <2>2. CASE j # 0
    <3>1. /\ j \in 1..q /\ j - 1 \in 0..q /\ j \in 0..ExactBits
          /\ j - 1 \in 0..(ExactBits - 1) /\ q - j \in 0..(ExactBits - 1)
          /\ (j - 1) + 1 = j /\ (q - j) + 1 = q - (j - 1)
      BY <1>0, <2>2, SMT DEF ExactBits
    <3> DEFINE a == 5^(j - 1)
               n == Left(j - 1)
               l == Left(j)
               e == l % 2
    <3>2. 5^j = a * 5
      <4>1. 5^((j - 1) + 1) = 5 * 5^(j - 1)
        BY <3>1, PowersGrow
      <4>3. j - 1 \in 0..ExactBits
        BY <3>1, SMT DEF ExactBits
      <4>2. 5^(j - 1) \in Nat
        BY <4>3, PowersBound
      <4> QED
        BY <3>1, <4>1, <4>2, SMT
    <3>3. a \in Nat /\ a * 5 <= 1220703125
      <4>1. 5^j <= 1220703125
        BY <3>1, PowersBound
      <4>2. j - 1 \in 0..ExactBits
        BY <3>1, SMT DEF ExactBits
      <4>3. a \in Nat
        BY <4>2, PowersBound
      <4> HIDE DEF a
      <4> QED
        BY <3>2, <4>1, <4>3
    <3>4. l = (2 * n) + e
      BY <3>1, NextBit
    <3>5. n \in Nat /\ l \in Nat /\ l <= v
      <4>1. 2^(q - j) \in Nat /\ 2^(q - j) > 0 /\ 2^(q - (j - 1)) \in Nat /\ 2^(q - (j - 1)) > 0
        <5>1. q - j \in 0..ExactBits /\ q - (j - 1) \in 0..ExactBits
          BY <1>0, <3>1, SMT DEF ExactBits
        <5> QED
          BY <5>1, PowersBound
      <4> DEFINE b == 2^(q - j)
                 c == 2^(q - (j - 1))
      <4>2. b \in Nat /\ b > 0 /\ c \in Nat /\ c > 0
        BY <4>1
      <4> HIDE DEF b, c
      <4>3. v \div b \in Nat /\ v \div b <= v /\ v \div c \in Nat
        BY <4>2, SMT
      <4> QED
        BY <4>3 DEF b, c
    <3>6. l < 8192
      <4>1. 2^q <= 8192 /\ 2^q \in Nat
        BY <1>0, PowersBound
      <4> QED
        BY <3>5, <4>1, SMT
    <3>7. g[j] = [p5 |-> a * 5, acc |-> l * (a * 5)] /\ g[j - 1] = [p5 |-> a, acc |-> n * a]
      BY <3>1, <3>2
    <3>8. Body(g, j) = [p5 |-> (g[j - 1].p5 * 5) % Modulus,
                        acc |-> ((g[j - 1].acc * 10) + (e * ((g[j - 1].p5 * 5) % Modulus))) % (Modulus * Modulus)]
      BY <2>2
    <3> HIDE DEF a, n, l, g, Body
    <3>9. e \in {0, 1}
      BY <3>5, SMT
    <3> HIDE DEF e
    <3>10. /\ (a * 5) % Modulus = a * 5
           /\ (((n * a) * 10) + (e * (a * 5))) % (Modulus * Modulus) = ((2 * n) + e) * (a * 5)
      BY <3>3, <3>4, <3>5, <3>6, <3>9, OneMoreBit
    <3>11. Body(g, j) = [p5 |-> (a * 5) % Modulus,
                         acc |-> (((n * a) * 10) + (e * ((a * 5) % Modulus))) % (Modulus * Modulus)]
      BY <3>7, <3>8
    <3> QED
      BY <3>4, <3>7, <3>10, <3>11
  <2> QED
    BY <2>1, <2>2
<1>2. g = [j \in 0..q |-> Body(g, j)]
  <2>1. g = [j \in 0..q |-> g[j]]
    OBVIOUS
  <2> HIDE DEF g, Body
  <2> QED
    BY <1>1, <2>1
<1> HIDE DEF g
<1>3. after = [j \in 0..q |-> Body(after, j)]
  <2> HIDE DEF Left
  <2> QED
    BY <1>2 DEF after, Body
<1>4. Accumulated(v, q) = after[q].acc
  BY DEF Accumulated, after
<1> HIDE DEF after
<1> DEFINE G == {j \in Nat : j <= q => after[j] = g[j]}
<1>5. 0 \in G
  BY <1>0, <1>2, <1>3
<1>6. ASSUME NEW j \in Nat, j \in G PROVE j + 1 \in G
  <2> SUFFICES ASSUME j + 1 <= q PROVE after[j + 1] = g[j + 1]
    OBVIOUS
  <2>1. j + 1 \in 0..q /\ (j + 1) - 1 = j /\ after[j] = g[j]
    BY <1>0, <1>6
  <2>2. Body(after, j + 1) = Body(g, j + 1)
    BY <2>1
  <2> HIDE DEF Body
  <2> QED
    BY <1>2, <1>3, <2>1, <2>2
<1> HIDE DEF G, Body
<1>7. Nat \subseteq G
  BY <1>5, <1>6, NumberInduction
<1>8. after[q] = g[q]
  BY <1>0, <1>7 DEF G
<1>9. g[q].acc = Left(q) * 5^q
  BY <1>0 DEF g
<1>10. Left(q) = v
  <2>1. q - q = 0 /\ 2^0 = 1
    BY <1>0, SMT
  <2>2. v \div 1 = v
    BY SMT
  <2> QED
    BY <2>1, <2>2
<1> QED
  BY <1>4, <1>8, <1>9, <1>10

LEMMA DigitZero ==
  ASSUME NEW d \in 0..9
  PROVE  DigitChars("a")[d + 1] = "0" <=> d = 0
<1> DEFINE ten == <<"0", "1", "2", "3", "4", "5", "6", "7", "8", "9">>
           six == <<"a", "b", "c", "d", "e", "f">>
           S == {"0", "1", "2", "3", "4", "5", "6", "7", "8", "9", "a", "b", "c", "d", "e", "f"}
<1>1. ten \in Seq(S) /\ Len(ten) = 10
  OBVIOUS
<1>2. six \in Seq(S) /\ Len(six) = 6
  OBVIOUS
<1>3. ten[d + 1] = "0" <=> d = 0
  OBVIOUS
<1>4. DigitChars("a") = ten \o six
  BY DEF DigitChars
<1> HIDE DEF ten, six, S
<1>5. d + 1 \in 1..(Len(ten) + Len(six)) /\ d + 1 <= Len(ten)
  BY <1>1, <1>2
<1>6. (ten \o six)[d + 1] = ten[d + 1]
  BY <1>1, <1>2, <1>5, ConcatProperties
<1> QED
  BY <1>3, <1>4, <1>6

LEMMA LastOf ==
  ASSUME NEW n \in Nat, NEW S \in SUBSET (1..n), S # {}
  PROVE  \E m \in S : \A k \in S : k <= m
<1> DEFINE D == {n - k : k \in S}
<1>1. D \subseteq Nat /\ D # {}
  <2>1. ASSUME NEW k \in S PROVE n - k \in Nat
    OBVIOUS
  <2> QED
    BY <2>1
<1>2. PICK x \in D : \A y \in D : x <= y
  <2> HIDE DEF D
  <2> QED
    BY <1>1, LeastPlace
<1>3. PICK m \in S : x = n - m
  BY <1>2
<1>4. ASSUME NEW k \in S PROVE k <= m
  <2>1. n - k \in D
    OBVIOUS
  <2>2. x <= n - k
    BY <1>2, <2>1
  <2>3. k \in Int /\ m \in Int
    OBVIOUS
  <2> QED
    BY <1>3, <2>2, <2>3
<1> QED
  BY <1>4

\* Ten to the k.
Scale(k) == 2^k * 5^k

LEMMA ScaleGrows ==
  /\ Scale(0) = 1
  /\ \A k \in 0..ExactBits : Scale(k) \in Nat
  /\ \A k \in 0..(ExactBits - 1) : Scale(k + 1) = 10 * Scale(k)
<1>1. Scale(0) = 1
  <2>1. 2^0 = 1 /\ 5^0 = 1
    BY SMT
  <2> QED
    BY <2>1 DEF Scale
<1>2. ASSUME NEW k \in 0..ExactBits PROVE Scale(k) \in Nat
  <2> DEFINE a == 2^k
             b == 5^k
  <2>1. a \in Nat /\ b \in Nat
    BY PowersBound
  <2> HIDE DEF a, b
  <2>2. a * b \in Nat
    BY <2>1
  <2> QED
    BY <2>2 DEF Scale, a, b
<1>3. ASSUME NEW k \in 0..(ExactBits - 1) PROVE Scale(k + 1) = 10 * Scale(k)
  <2> DEFINE a == 2^k
             b == 5^k
  <2>1. k \in 0..ExactBits
    BY DEF ExactBits
  <2>2. a \in Nat /\ b \in Nat
    BY <2>1, PowersBound
  <2>3. 2^(k + 1) = 2 * a /\ 5^(k + 1) = 5 * b
    BY PowersGrow
  <2> HIDE DEF a, b
  <2>4. (2 * a) * (5 * b) = 10 * (a * b)
    BY <2>2
  <2> QED
    BY <2>3, <2>4 DEF Scale, a, b
<1> QED
  BY <1>1, <1>2, <1>3

LEMMA OneMoreGrows ==
  ASSUME NEW a \in Nat, NEW b, NEW e \in 0..9, b = (a * 10) + e, NEW s \in Nat, a >= s
  PROVE  b >= 10 * s /\ b >= s
OBVIOUS

\* A number below ten to the q has at most q digits.
LEMMA FewDigits ==
  ASSUME NEW q \in 1..ExactBits, NEW chars, NEW x \in Nat, x < Scale(q), NEW d, NEW w,
         Reads(chars, 10, "a", x, d, w), Len(chars) > 0
  PROVE  Len(chars) <= q
<1> DEFINE n == Len(chars)
<1>1. /\ n \in Nat /\ n > 0
      /\ d \in [1..n -> 0..9] /\ w \in [0..n -> Nat]
      /\ \A i \in 1..n : w[i] = (w[i - 1] * 10) + d[i]
      /\ w[0] = 0 /\ w[n] = x /\ d[1] # 0
  BY DEF Reads
<1> HIDE DEF n
<1>2. q \in Nat /\ q >= 1 /\ q <= ExactBits /\ ExactBits \in Nat
  BY DEF ExactBits
<1> DEFINE G == {k \in Nat : k <= q /\ k + 1 <= n => w[k + 1] >= Scale(k)}
<1>3. 0 \in G
  <2>0. 1 \in 1..n /\ 0 + 1 = 1 /\ 1 - 1 = 0
    BY <1>1
  <2>1. w[1] = (0 * 10) + d[1] /\ d[1] \in 0..9 /\ d[1] # 0
    BY <1>1, <2>0
  <2>2. w[1] >= 1
    BY <2>1
  <2>3. w[0 + 1] >= Scale(0)
    BY <2>0, <2>2, ScaleGrows
  <2> QED
    BY <2>3
<1>4. ASSUME NEW k \in Nat, k \in G PROVE k + 1 \in G
  <2> SUFFICES ASSUME k + 1 <= q, k + 2 <= n PROVE w[k + 2] >= Scale(k + 1)
    OBVIOUS
  <2>0. k <= q /\ k + 1 <= n
    BY <1>1, <1>2
  <2>1. w[k + 1] >= Scale(k)
    BY <1>4, <2>0
  <2>2. k + 2 \in 1..n /\ (k + 2) - 1 = k + 1 /\ k + 1 \in 0..n
    BY <1>1
  <2>3. w[k + 2] = (w[k + 1] * 10) + d[k + 2] /\ d[k + 2] \in 0..9 /\ w[k + 1] \in Nat
    BY <1>1, <2>2
  <2>4. k \in 0..(ExactBits - 1) /\ k \in 0..ExactBits
    BY <1>2
  <2>5. Scale(k + 1) = 10 * Scale(k) /\ Scale(k) \in Nat
    BY <2>4, ScaleGrows
  <2> QED
    BY <2>1, <2>3, <2>5, OneMoreGrows
<1> HIDE DEF G
<1>5. Nat \subseteq G
  BY <1>3, <1>4, NumberInduction
<1>6. ASSUME n > q PROVE FALSE
  <2>1. w[q + 1] >= Scale(q)
    BY <1>1, <1>2, <1>5, <1>6 DEF G
  <2> DEFINE H == {k \in Nat : q + 1 + k <= n => w[q + 1 + k] >= w[q + 1]}
  <2>2. 0 \in H
    <3>1. q + 1 + 0 = q + 1 /\ q + 1 \in 0..n
      BY <1>1, <1>2, <1>6
    <3>2. w[q + 1] \in Nat
      BY <1>1, <3>1
    <3> QED
      BY <3>1, <3>2
  <2>3. ASSUME NEW k \in Nat, k \in H PROVE k + 1 \in H
    <3> SUFFICES ASSUME q + 1 + (k + 1) <= n PROVE w[q + 1 + (k + 1)] >= w[q + 1]
      OBVIOUS
    <3>1. /\ q + 1 + (k + 1) \in 1..n /\ (q + 1 + (k + 1)) - 1 = q + 1 + k
          /\ q + 1 + k \in 0..n /\ q + 1 \in 0..n
      BY <1>1, <1>2
    <3>2. w[q + 1 + k] >= w[q + 1]
      BY <1>1, <1>2, <2>3
    <3>3. /\ w[q + 1 + (k + 1)] = (w[q + 1 + k] * 10) + d[q + 1 + (k + 1)]
          /\ d[q + 1 + (k + 1)] \in 0..9 /\ w[q + 1 + k] \in Nat /\ w[q + 1] \in Nat
      BY <1>1, <3>1
    <3> QED
      BY <3>2, <3>3, OneMoreGrows
  <2> HIDE DEF H
  <2>4. Nat \subseteq H
    BY <2>2, <2>3, NumberInduction
  <2> DEFINE r == n - (q + 1)
  <2>5. r \in Nat /\ q + 1 + r = n /\ n <= n
    BY <1>1, <1>2, <1>6
  <2> HIDE DEF r
  <2>6. w[q + 1 + r] >= w[q + 1]
    BY <2>4, <2>5 DEF H
  <2>7. w[q + 1] \in Nat /\ Scale(q) \in Nat
    <3>1. q + 1 \in 0..n /\ q \in 0..ExactBits
      BY <1>1, <1>2, <1>6
    <3> QED
      BY <1>1, <3>1, ScaleGrows
  <2>8. w[q + 1 + r] = x
    BY <1>1, <2>5
  <2> QED
    BY <2>1, <2>6, <2>7, <2>8
<1> QED
  BY <1>1, <1>2, <1>6 DEF n

\* Behind a point, read from left to right, the characters are the digits of num / den; the
\* last is not a zero.
FractionReads(chars, num, den, digit, value, scale) ==
  /\ Len(chars) \in Nat \ {0}
  /\ digit \in [1..Len(chars) -> 0..9]
  /\ value \in [0..Len(chars) -> Nat]
  /\ scale \in [0..Len(chars) -> Nat]
  /\ chars = [i \in 1..Len(chars) |-> DigitChars("a")[digit[i] + 1]]
  /\ value[0] = 0 /\ scale[0] = 1
  /\ \A i \in 1..Len(chars) : /\ value[i] = (value[i - 1] * 10) + digit[i]
                              /\ scale[i] = scale[i - 1] * 10
  /\ value[Len(chars)] * den = num * scale[Len(chars)]
  /\ digit[Len(chars)] # 0

Fraction(chars, num, den) ==
  \E digit, value, scale : FractionReads(chars, num, den, digit, value, scale)

\* d are n digits in base ten, and w the numbers that they read as from left to right.
Digits(n, d, w) ==
  /\ n \in Nat
  /\ d \in [1..n -> 0..9]
  /\ w \in [0..n -> Nat]
  /\ w[0] = 0
  /\ \A i \in 1..n : w[i] = (w[i - 1] * 10) + d[i]

ZerosBehind(m, n, d) == \A k \in (m + 1)..n : d[k] = 0

\* chars are z zeros and the first m of the digits d.
Padded(chars, z, m, d) ==
  /\ Len(chars) = z + m
  /\ chars = [i \in 1..(z + m) |-> DigitChars("a")[(IF i <= z THEN 0 ELSE d[i - z]) + 1]]

\* Where the zeros at the end of a number begin.
LEMMA TrimmedZeros ==
  ASSUME NEW chars, NEW x, NEW d, NEW w, Reads(chars, 10, "a", x, d, w), Len(chars) > 0
  PROVE  \E m \in 1..Len(chars) : /\ Trimmed(chars) = SubSeq(chars, 1, m)
                                  /\ d[m] # 0
                                  /\ ZerosBehind(m, Len(chars), d)
<1> DEFINE n == Len(chars)
           S == {k \in 1..n : chars[k] # "0"}
<1>1. /\ n \in Nat /\ n > 0
      /\ d \in [1..n -> 0..9]
      /\ chars = [i \in 1..n |-> DigitChars("a")[d[i] + 1]]
      /\ d[1] # 0
  BY DEF Reads
<1>2. Trimmed(chars) = SubSeq(chars, 1, IF S = {} THEN 0 ELSE CHOOSE k \in S : \A l \in S : l <= k)
  BY DEF Trimmed
<1> HIDE DEF n
<1>3. ASSUME NEW k \in 1..n PROVE chars[k] = "0" <=> d[k] = 0
  <2>1. chars[k] = DigitChars("a")[d[k] + 1] /\ d[k] \in 0..9
    BY <1>1
  <2> QED
    BY <2>1, DigitZero
<1>4. 1 \in S
  <2>1. 1 \in 1..n
    BY <1>1
  <2> QED
    BY <1>1, <1>3, <2>1
<1>5. \E k \in S : \A l \in S : l <= k
  <2>1. S \in SUBSET (1..n) /\ S # {}
    BY <1>4
  <2> HIDE DEF S
  <2> QED
    BY <1>1, <2>1, LastOf
<1> DEFINE m == CHOOSE k \in S : \A l \in S : l <= k
<1>6. m \in S /\ \A l \in S : l <= m
  <2> HIDE DEF S
  <2> QED
    BY <1>5
<1>7. Trimmed(chars) = SubSeq(chars, 1, m)
  BY <1>2, <1>4
<1> HIDE DEF m
<1>8. m \in 1..n /\ d[m] # 0
  BY <1>3, <1>6
<1>9. ASSUME NEW k \in (m + 1)..n PROVE d[k] = 0
  <2>1. k \in 1..n /\ ~(k <= m)
    BY <1>1, <1>8
  <2>2. k \notin S
    BY <1>6, <2>1
  <2> QED
    BY <1>3, <2>1, <2>2
<1> QED
  BY <1>7, <1>8, <1>9 DEF n, ZerosBehind

LEMMA Cancelled ==
  ASSUME NEW a \in Nat, NEW s \in Nat, NEW v \in Nat, NEW den \in Nat,
         (((a * 10) + 0) * den) = v * (10 * s)
  PROVE  a * den = v * s
<1> DEFINE x == a * den
           y == v * s
<1>1. x \in Nat /\ y \in Nat
  OBVIOUS
<1>2. ((a * 10) + 0) * den = 10 * x
  OBVIOUS
<1>3. v * (10 * s) = 10 * y
  OBVIOUS
<1>4. 10 * x = 10 * y
  BY <1>2, <1>3
<1> HIDE DEF x, y
<1>5. x = y
  BY <1>1, <1>4
<1> QED
  BY <1>5 DEF x, y

\* What is left of the sum when its zeros are dropped is still the fraction.
LEMMA TrimmedValue ==
  ASSUME NEW q \in 1..ExactBits, NEW v \in Nat, NEW n, NEW d, NEW w, Digits(n, d, w),
         n <= q, NEW m \in 1..n, ZerosBehind(m, n, d),
         NEW den \in Nat, NEW f \in Nat, Scale(q) = den * f, w[n] = v * f
  PROVE  w[m] * den = v * Scale((q - n) + m)
<1> DEFINE G == {r \in Nat : r <= n - m => w[n - r] * den = v * Scale(q - r)}
<1>0. q \in 0..ExactBits /\ q \in Nat /\ q <= ExactBits /\ ExactBits \in Nat
  BY SMT DEF ExactBits
<1>b. /\ n \in Nat
      /\ d \in [1..n -> 0..9]
      /\ w \in [0..n -> Nat]
      /\ \A i \in 1..n : w[i] = (w[i - 1] * 10) + d[i]
      /\ \A k \in (m + 1)..n : d[k] = 0
  BY DEF Digits, ZerosBehind
<1>1. 0 \in G
  <2>1. (v * f) * den = v * (den * f)
    OBVIOUS
  <2>2. n - 0 = n /\ q - 0 = q
    BY <1>0, <1>b
  <2>3. w[n - 0] * den = v * Scale(q - 0)
    BY <2>1, <2>2
  <2> QED
    BY <2>3
<1>2. ASSUME NEW r \in Nat, r \in G PROVE r + 1 \in G
  <2> SUFFICES ASSUME r + 1 <= n - m PROVE w[n - (r + 1)] * den = v * Scale(q - (r + 1))
    OBVIOUS
  <2> DEFINE i == n - r
             k == q - (r + 1)
  <2>1. i \in 1..n /\ i \in (m + 1)..n /\ i - 1 = n - (r + 1) /\ i - 1 \in 0..n
    BY <1>b
  <2>2. k \in 0..(ExactBits - 1) /\ k \in 0..ExactBits /\ k + 1 = q - r
    BY <1>0, <1>b
  <2>3. w[i] * den = v * Scale(q - r)
    BY <1>2, <1>b
  <2>4. w[i] = (w[i - 1] * 10) + 0
    BY <1>b, <2>1
  <2>5. Scale(q - r) = 10 * Scale(k) /\ Scale(k) \in Nat
    BY <2>2, ScaleGrows
  <2>6. w[i - 1] \in Nat
    BY <1>b, <2>1
  <2> HIDE DEF i, k
  <2>7. ((w[i - 1] * 10) + 0) * den = v * (10 * Scale(k))
    BY <2>3, <2>4, <2>5
  <2>8. w[i - 1] * den = v * Scale(k)
    <3> DEFINE a == w[i - 1]
               s == Scale(k)
    <3>1. a \in Nat /\ s \in Nat /\ den \in Nat /\ v \in Nat /\ ((a * 10) + 0) * den = v * (10 * s)
      BY <2>5, <2>6, <2>7
    <3> HIDE DEF a, s
    <3>2. a * den = v * s
      BY <3>1, Cancelled
    <3> QED
      BY <3>2 DEF a, s
  <2> QED
    BY <2>1, <2>8 DEF k
<1> HIDE DEF G
<1>3. Nat \subseteq G
  BY <1>1, <1>2, NumberInduction
<1> DEFINE r == n - m
<1>4. r \in Nat /\ r <= n - m /\ n - r = m /\ q - r = (q - n) + m
  BY <1>0, <1>b
<1>5. r \in G
  BY <1>3, <1>4
<1> HIDE DEF r
<1>6. w[n - r] * den = v * Scale(q - r)
  BY <1>4, <1>5 DEF G
<1> QED
  BY <1>4, <1>6
\* The characters: zeros in front of the first digits of a number.
LEMMA PaddedCharacters ==
  ASSUME NEW z \in Nat, NEW n \in Nat, NEW m \in 1..n, NEW d \in [1..n -> 0..9],
         NEW chars, chars = [i \in 1..n |-> DigitChars("a")[d[i] + 1]]
  PROVE  Padded(Zeros(z) \o SubSeq(chars, 1, m), z, m, d)
<1> DEFINE S == {DigitChars("a")[k + 1] : k \in 0..9}
           zeros == Zeros(z)
           first == SubSeq(chars, 1, m)
           padded == zeros \o first
<1>1. DigitChars("a")[0 + 1] = "0" /\ "0" \in S
  <2>1. 0 \in 0..9
    OBVIOUS
  <2>2. DigitChars("a")[0 + 1] = "0"
    BY <2>1, DigitZero
  <2> QED
    BY <2>1, <2>2
<1>2. zeros \in Seq(S) /\ Len(zeros) = z /\ \A i \in 1..z : zeros[i] = "0"
  <2>1. zeros = [i \in 1..z |-> "0"]
    BY DEF Zeros
  <2> HIDE DEF zeros, S
  <2> QED
    BY <1>1, <2>1
<1>3. chars \in Seq(S) /\ Len(chars) = n
  <2>1. \A i \in 1..n : DigitChars("a")[d[i] + 1] \in S
    OBVIOUS
  <2> HIDE DEF S
  <2> QED
    BY <2>1
<1>4. first \in Seq(S) /\ Len(first) = m /\ \A i \in 1..m : first[i] = chars[i]
  <2> HIDE DEF S
  <2>1. 1 \in 1..(Len(chars) + 1) /\ m \in 0..Len(chars)
    BY <1>3
  <2> QED
    BY <1>3, <2>1, SubSeqProperties
<1> HIDE DEF S, zeros, first
<1>5. /\ padded \in Seq(S)
      /\ Len(padded) = z + m
      /\ \A i \in 1..(z + m) : padded[i] = IF i <= z THEN zeros[i] ELSE first[i - z]
  <2>1. /\ padded \in Seq(S)
        /\ Len(padded) = Len(zeros) + Len(first)
        /\ \A i \in 1..(Len(zeros) + Len(first)) :
             padded[i] = IF i <= Len(zeros) THEN zeros[i] ELSE first[i - Len(zeros)]
    BY <1>2, <1>4, ConcatProperties
  <2> QED
    BY <1>2, <1>4, <2>1
<1>6. ASSUME NEW i \in 1..(z + m)
      PROVE  padded[i] = DigitChars("a")[(IF i <= z THEN 0 ELSE d[i - z]) + 1]
  <2>1. CASE i <= z
    <3>1. zeros[i] = "0"
      BY <1>2, <2>1
    <3> QED
      BY <1>1, <1>5, <2>1, <3>1
  <2>2. CASE ~(i <= z)
    <3>1. i - z \in 1..m /\ i - z \in 1..n
      BY <2>2
    <3>2. first[i - z] = DigitChars("a")[d[i - z] + 1]
      BY <1>4, <3>1
    <3> QED
      BY <1>5, <2>2, <3>2
  <2> QED
    BY <2>1, <2>2
<1> HIDE DEF padded
<1>7. padded = [i \in 1..(z + m) |-> padded[i]]
  BY <1>5
<1>8. padded = [i \in 1..(z + m) |-> DigitChars("a")[(IF i <= z THEN 0 ELSE d[i - z]) + 1]]
  BY <1>6, <1>7
<1> QED
  BY <1>5, <1>8 DEF Padded, padded, zeros, first

\* Reading begins behind the zeros.
LEMMA PaddedReads ==
  ASSUME NEW q \in 1..ExactBits, NEW v \in Nat, NEW n, NEW d, NEW w, Digits(n, d, w),
         NEW z \in Nat, NEW m \in 1..n, z + m <= q, d[m] # 0, w[m] * 2^q = v * Scale(z + m),
         NEW padded, Padded(padded, z, m, d)
  PROVE  Fraction(padded, v, 2^q)
<1> DEFINE l == z + m
           digit == [i \in 1..l |-> IF i <= z THEN 0 ELSE d[i - z]]
           value == [i \in 0..l |-> IF i <= z THEN 0 ELSE w[i - z]]
           scale == [i \in 0..l |-> Scale(i)]
<1>a. /\ n \in Nat /\ d \in [1..n -> 0..9] /\ w \in [0..n -> Nat] /\ w[0] = 0
      /\ \A i \in 1..n : w[i] = (w[i - 1] * 10) + d[i]
  BY DEF Digits
<1>0. /\ l \in Nat \ {0} /\ m \in Nat /\ z \in Nat /\ l = z + m /\ l - z = m /\ ~(l <= z)
      /\ q \in Nat /\ l <= ExactBits
  BY <1>a, SMT DEF ExactBits
<1> HIDE DEF l
<1>1. digit \in [1..l -> 0..9]
  <2>1. ASSUME NEW i \in 1..l, ~(i <= z) PROVE d[i - z] \in 0..9
    <3>1. i - z \in 1..n
      BY <1>0, <1>a, <2>1
    <3> QED
      BY <1>a, <3>1
  <2> QED
    BY <2>1
<1>2. value \in [0..l -> Nat]
  <2>1. ASSUME NEW i \in 0..l, ~(i <= z) PROVE w[i - z] \in Nat
    <3>1. i - z \in 0..n
      BY <1>0, <1>a, <2>1
    <3> QED
      BY <1>a, <3>1
  <2>2. \A i \in 0..l : (IF i <= z THEN 0 ELSE w[i - z]) \in Nat
    BY <2>1
  <2> QED
    BY <2>2, Zenon
<1>3. scale \in [0..l -> Nat]
  <2>1. \A i \in 0..l : i \in 0..ExactBits
    BY <1>0, SMT DEF ExactBits
  <2>2. \A i \in 0..l : Scale(i) \in Nat
    BY <2>1, ScaleGrows
  <2> QED
    BY <2>2, Zenon
<1>4. padded = [i \in 1..l |-> DigitChars("a")[digit[i] + 1]] /\ Len(padded) = l
  BY <1>0 DEF Padded
<1>5. value[0] = 0 /\ scale[0] = 1
  <2>1. 0 \in 0..l /\ 0 <= z
    BY <1>0
  <2> QED
    BY <2>1, ScaleGrows
<1>6. ASSUME NEW i \in 1..l
      PROVE  value[i] = (value[i - 1] * 10) + digit[i] /\ scale[i] = scale[i - 1] * 10
  <2>1. /\ i \in 0..l /\ i - 1 \in 0..l /\ (i - 1) + 1 = i
        /\ i - 1 \in 0..(ExactBits - 1) /\ i - 1 \in 0..ExactBits
    BY <1>0, SMT DEF ExactBits
  <2>2. scale[i] = scale[i - 1] * 10
    <3>1. Scale(i) = 10 * Scale(i - 1) /\ Scale(i - 1) \in Nat
      BY <2>1, ScaleGrows
    <3>2. scale[i] = Scale(i) /\ scale[i - 1] = Scale(i - 1)
      BY <2>1
    <3> HIDE DEF scale
    <3> QED
      BY <3>1, <3>2
  <2>3. value[i] = (value[i - 1] * 10) + digit[i]
    <3>1. CASE i <= z
      <4>1. value[i] = 0 /\ value[i - 1] = 0 /\ digit[i] = 0
        BY <2>1, <3>1
      <4> HIDE DEF value, digit
      <4> QED
        BY <4>1
    <3>2. CASE ~(i <= z)
      <4>1. i - z \in 1..n /\ (i - z) - 1 = (i - 1) - z
        BY <1>0, <1>a, <3>2
      <4>2. value[i] = w[i - z] /\ digit[i] = d[i - z]
        BY <2>1, <3>2
      <4>3. w[i - z] = (w[(i - z) - 1] * 10) + d[i - z]
        BY <1>a, <4>1
      <4>4. value[i - 1] = w[(i - z) - 1]
        <5>1. CASE i - 1 <= z
          <6>1. (i - z) - 1 = 0
            BY <1>0, <3>2, <5>1
          <6> QED
            BY <1>a, <2>1, <5>1, <6>1
        <5>2. CASE ~(i - 1 <= z)
          BY <2>1, <4>1, <5>2
        <5> QED
          BY <5>1, <5>2
      <4> HIDE DEF value, digit
      <4> QED
        BY <4>2, <4>3, <4>4
    <3> QED
      BY <3>1, <3>2
  <2> HIDE DEF value, digit, scale
  <2> QED
    BY <2>2, <2>3
<1>7. value[l] = w[m] /\ scale[l] = Scale(l) /\ digit[l] = d[m]
  BY <1>0
<1>8. value[l] * 2^q = v * scale[l] /\ digit[l] # 0
  BY <1>0, <1>7
<1> HIDE DEF value, digit, scale
<1>9. FractionReads(padded, v, 2^q, digit, value, scale)
  BY <1>0, <1>1, <1>2, <1>3, <1>4, <1>5, <1>6, <1>8 DEF FractionReads
<1> QED
  BY <1>9 DEF Fraction

LEMMA NumbersIsSequence ==
  ASSUME NEW chars, NEW base, NEW hex_base, NEW v, Numbers(chars, base, hex_base, v)
  PROVE  \E S : chars \in Seq(S)
<1>1. CASE v = 0
  <2>1. chars = <<"0">>
    BY <1>1 DEF Numbers
  <2>2. chars \in Seq({"0"})
    BY <2>1
  <2> QED
    BY <2>2
<1>2. CASE v # 0
  <2>1. PICK digit, value : Reads(chars, base, hex_base, v, digit, value)
    BY <1>2 DEF Numbers, Spells
  <2> DEFINE n == Len(chars)
             S == {DigitChars(hex_base)[digit[i] + 1] : i \in 1..n}
  <2>2. n \in Nat /\ chars = [i \in 1..n |-> DigitChars(hex_base)[digit[i] + 1]]
    BY <2>1 DEF Reads
  <2> HIDE DEF n
  <2>3. \A i \in 1..n : DigitChars(hex_base)[digit[i] + 1] \in S
    OBVIOUS
  <2> HIDE DEF S
  <2>4. chars \in Seq(S)
    BY <2>2, <2>3
  <2> QED
    BY <2>4
<1> QED
  BY <1>1, <1>2

LEMMA FractionDigits ==
  ASSUME Modulus = WordLimit, NEW q \in 1..ExactBits, NEW v \in Nat \ {0}, v < 2^q
  PROVE  Fraction(uqtoa_helper_dpart(v, q), v, 2^q)
<1> DEFINE a == 2^q
           f == 5^q
           x == v * f
           chars == Pushed(x, 2)
           n == Len(chars)
           z == q - n
<1>0. q \in 0..ExactBits /\ q \in Nat
  BY SMT DEF ExactBits
<1>1. a \in Nat /\ a <= 8192 /\ f \in Nat /\ f > 0 /\ f <= 1220703125
  BY <1>0, PowersBound
<1>2. x \in Nat /\ x # 0 /\ x < Scale(q) /\ x < LongLimit
  <2>1. v \in Nat /\ v > 0 /\ v < a
    OBVIOUS
  <2> HIDE DEF a, f
  <2>2. v * f \in Nat /\ v * f > 0 /\ v * f < a * f
    BY <1>1, <2>1, SMT
  <2>3. a * f <= 8192 * f
    BY <1>1, SMT
  <2>4. v * f < LongLimit
    BY <1>1, <2>2, <2>3, SMT DEF LongLimit
  <2>5. Scale(q) = a * f
    BY DEF Scale, a, f
  <2> QED
    BY <2>2, <2>4, <2>5
<1>3. Accumulated(v, q) = x
  <2>1. v \in Nat
    OBVIOUS
  <2> QED
    BY <2>1, FractionScaled
<1> HIDE DEF x
<1>4. Spells(chars, 10, "a", x) /\ chars # <<>>
  <2>1. 2 \in {1, 2} /\ x < (IF 2 = 1 THEN WordLimit ELSE LongLimit)
    BY <1>2
  <2> QED
    BY <1>2, <2>1, DecimalSpells
<1>5. uqtoa_helper_dpart(v, q) = Zeros(q - Len(chars)) \o Trimmed(chars)
  BY <1>3 DEF uqtoa_helper_dpart
<1> HIDE DEF chars
<1>6. PICK d, w : Reads(chars, 10, "a", x, d, w)
  BY <1>4 DEF Spells
<1>7. /\ n \in Nat /\ Digits(n, d, w)
      /\ chars = [i \in 1..n |-> DigitChars("a")[d[i] + 1]]
      /\ w[n] = x
  BY <1>6 DEF Reads, Digits
<1>8. n > 0
  <2> SUFFICES ASSUME n = 0 PROVE FALSE
    BY <1>7
  <2>1. chars = [i \in 1..0 |-> DigitChars("a")[d[i] + 1]]
    BY <1>7
  <2>2. chars = <<>>
    BY <2>1
  <2> QED
    BY <1>4, <2>2
<1>9. n <= q
  BY <1>2, <1>6, <1>8, FewDigits
<1>10. PICK m \in 1..n : /\ Trimmed(chars) = SubSeq(chars, 1, m)
                         /\ d[m] # 0
                         /\ ZerosBehind(m, n, d)
  BY <1>6, <1>8, TrimmedZeros
<1> HIDE DEF n
<1>11. w[m] * 2^q = v * Scale((q - n) + m)
  <2>1. w[n] = v * f
    BY <1>7 DEF x
  <2>2. v \in Nat
    OBVIOUS
  <2>3. Scale(q) = a * f
    BY DEF Scale
  <2>4. q \in 1..ExactBits /\ n <= q /\ m \in 1..n
    BY <1>9
  <2>6. a \in Nat /\ f \in Nat
    BY <1>1
  <2> HIDE DEF f, a, z
  <2>7. Digits(n, d, w)
    BY <1>7
  <2>8. ZerosBehind(m, n, d)
    BY <1>10
  <2>5. w[m] * a = v * Scale((q - n) + m)
    BY <2>1, <2>2, <2>3, <2>4, <2>6, <2>7, <2>8, TrimmedValue
  <2> QED
    BY <2>5 DEF a
<1>12. z \in Nat /\ z = q - n /\ z + m <= q
  BY <1>0, <1>7, <1>9, <1>10
<1> HIDE DEF z
<1> DEFINE padded == Zeros(z) \o SubSeq(chars, 1, m)
<1>13. Padded(padded, z, m, d)
  <2>1. d \in [1..n -> 0..9]
    BY <1>7 DEF Digits
  <2> QED
    BY <1>7, <1>10, <1>12, <2>1, PaddedCharacters
<1>14. uqtoa_helper_dpart(v, q) = padded
  BY <1>5, <1>10, <1>12 DEF n
<1> HIDE DEF padded, a, f
<1>15. w[m] * 2^q = v * Scale(z + m)
  BY <1>11, <1>12
<1>16. v \in Nat
  OBVIOUS
<1>17. Fraction(padded, v, 2^q)
  BY <1>7, <1>10, <1>12, <1>13, <1>15, <1>16, PaddedReads
<1> QED
  BY <1>14, <1>17

\* The numeral of the integer in x / den and, behind a point, all the digits of its fraction
\* and no zero at their end.
Quotient(chars, x, den) ==
  \E whole :
    /\ Numbers(whole, 10, "a", x \div den)
    /\ IF x % den = 0 THEN chars = whole
       ELSE \E part : chars = whole \o (<<".">> \o part) /\ Fraction(part, x % den, den)

\* Up to thirteen bits behind the point, an unsigned quantized number is printed as what it
\* is.  From fourteen bits on the power of five leaves its word.
THEOREM UnsignedQuantizedExact ==
  ASSUME Bits = 32, NEW x \in Nat, x < WordLimit, NEW quat \in 1..ExactBits
  PROVE  /\ mstr_fmt_uqtoa(x, quat).err = "MStr_Ok"
         /\ Quotient(mstr_fmt_uqtoa(x, quat).chars, x, 2^quat)
<1> DEFINE b == 2^quat
           i == x \div b
           p == x % b
           whole == utoa_impl_10base(i)
           part == uqtoa_helper_dpart(p, quat)
<1>1. Modulus = WordLimit
  BY WordOfThirtyTwo
<1>2. quat \in Nat /\ quat <= 13 /\ quat >= 1 /\ quat \in 0..ExactBits
  BY SMT DEF ExactBits
<1>3. b \in Nat /\ b > 0
  BY <1>2, PowersBound
<1>4. i \in Nat /\ i <= x /\ p \in 0..(b - 1)
  <2> HIDE DEF b
  <2> QED
    BY <1>3, SMT
<1>5. mstr_fmt_uqtoa(x, quat) = Converted(uqtoa_impl(x, quat))
  <2>1. ~(quat > Bits - 1 \/ quat = 0)
    BY <1>2
  <2> QED
    BY <2>1 DEF mstr_fmt_uqtoa
<1>6. Numbers(whole, 10, "a", i)
  <2>1. i < WordLimit
    BY <1>4, SMT DEF WordLimit
  <2> HIDE DEF i
  <2> QED
    BY <1>4, <2>1, DecimalNumbers
<1>7. uqtoa_impl(x, quat) = IF x = 0 THEN <<"0">> ELSE whole \o IF p > 0 THEN <<".">> \o part ELSE <<>>
  BY DEF uqtoa_impl
<1>8. CASE p = 0
  <2>1. uqtoa_impl(x, quat) = whole
    <3>1. CASE x = 0
      <4>1. i = 0
        <5> HIDE DEF b
        <5> QED
          BY <1>3, <3>1, SMT
      <4>2. whole = <<"0">>
        BY <4>1 DEF utoa_impl_10base
      <4> QED
        BY <1>7, <3>1, <4>2
    <3>2. CASE x # 0
      <4>1. uqtoa_impl(x, quat) = whole \o <<>>
        <5>1. ~(p > 0)
          BY <1>8
        <5> HIDE DEF whole, part, p
        <5> QED
          BY <1>7, <3>2, <5>1
      <4>2. \E S : whole \in Seq(S)
        <5> HIDE DEF whole, i
        <5> QED
          BY <1>6, NumbersIsSequence
      <4> HIDE DEF whole
      <4> QED
        BY <4>1, <4>2
    <3> QED
      BY <3>1, <3>2
  <2> HIDE DEF whole, b
  <2>2. Quotient(whole, x, b)
    BY <1>6, <1>8 DEF Quotient
  <2> QED
    BY <1>5, <2>1, <2>2 DEF Converted, b
<1>9. CASE p # 0
  <2>1. p > 0 /\ p \in Nat \ {0} /\ p < b
    BY <1>3, <1>4, <1>9
  <2>2. x # 0
    <3> HIDE DEF b
    <3> QED
      BY <1>3, <2>1, SMT
  <2>3. uqtoa_impl(x, quat) = whole \o (<<".">> \o part)
    BY <1>7, <2>1, <2>2
  <2>4. Fraction(part, p, 2^quat)
    <3> HIDE DEF p
    <3> QED
      BY <1>1, <2>1, FractionDigits
  <2> DEFINE c == whole \o (<<".">> \o part)
  <2>5. c = whole \o (<<".">> \o part)
    OBVIOUS
  <2>6. mstr_fmt_uqtoa(x, quat) = Converted(c)
    BY <1>5, <2>3
  <2> HIDE DEF whole, part, b, c
  <2>7. Quotient(c, x, b)
    BY <1>6, <1>9, <2>4, <2>5 DEF Quotient, b
  <2> QED
    BY <2>6, <2>7 DEF Converted, b
<1> QED
  BY <1>8, <1>9

\* A signed one is printed as its sign and its magnitude, the smallest number included.
THEOREM SignedQuantizedExact ==
  ASSUME Bits = 32, NEW x \in SignedWord, NEW sign, NEW quat \in 1..ExactBits
  PROVE  /\ mstr_fmt_iqtoa(x, quat, sign).err = "MStr_Ok"
         /\ \E chars : /\ mstr_fmt_iqtoa(x, quat, sign).chars = convert_sign_helper(x, sign) \o chars
                       /\ Quotient(chars, IF x < 0 THEN -x ELSE x, 2^quat)
<1> DEFINE m == IF x < 0 THEN -x ELSE x
           r == mstr_fmt_uqtoa(m, quat)
<1>1. m \in Nat /\ m < WordLimit /\ abs_u32(x) = m
  BY Magnitudes
<1>2. mstr_fmt_iqtoa(x, quat, sign) = [r EXCEPT !.chars = convert_sign_helper(x, sign) \o @]
  BY <1>1 DEF mstr_fmt_iqtoa
<1> HIDE DEF m
<1>3. r.err = "MStr_Ok" /\ Quotient(r.chars, m, 2^quat)
  BY <1>1, UnsignedQuantizedExact
<1>4. r = [err |-> r.err, chars |-> r.chars]
  BY DEF mstr_fmt_uqtoa, Converted, Refused
<1> HIDE DEF r
<1>5. /\ mstr_fmt_iqtoa(x, quat, sign).err = r.err
      /\ mstr_fmt_iqtoa(x, quat, sign).chars = convert_sign_helper(x, sign) \o r.chars
  BY <1>2, <1>4
<1> QED
  BY <1>3, <1>5 DEF m

--------------------------------------------------------------------------------
(* What the conversions write are texts.                                       *)

LEMMA LoopText ==
  ASSUME NEW Q, Falls(Q), NEW C, NEW f, Loops(f, Q, C), NEW v \in Nat
  PROVE  IsText(f[v])
<1> DEFINE D == {u \in Nat : ~ IsText(f[u])}
<1>1. SUFFICES ASSUME D # {} PROVE FALSE
  OBVIOUS
<1>2. PICK u \in D : \A w \in D : u <= w
  <2> HIDE DEF D
  <2>1. D \in SUBSET Nat
    BY DEF D
  <2> QED
    BY <1>1, <2>1, LeastPlace
<1>3. f[u] = Step(f, Q, C, u)
  BY <1>2 DEF Loops
<1>4. CASE u = 0
  BY <1>2, <1>3, <1>4, TextOf DEF Step
<1>5. CASE u # 0
  <2>1. Q[u] \in Nat /\ Q[u] < u
    BY <1>2, <1>5 DEF Falls
  <2>2. IsText(f[Q[u]])
    BY <1>2, <2>1
  <2>3. PICK S : f[Q[u]] \in Seq(S)
    BY <2>2 DEF IsText
  <2> DEFINE s == f[Q[u]]
             c == C[u]
  <2>4. f[u] = Append(s, c)
    BY <1>3, <1>5 DEF Step
  <2>5. s \in Seq(S \cup {c}) /\ c \in S \cup {c}
    BY <2>3
  <2> HIDE DEF s, c
  <2>6. Append(s, c) \in Seq(S \cup {c})
    BY <2>5, AppendedText
  <2> QED
    BY <1>2, <2>4, <2>6 DEF IsText
<1> QED
  BY <1>4, <1>5

LEMMA PushedText ==
  ASSUME NEW words, NEW v \in Nat
  PROVE  IsText(Pushed(v, words))
<1>1. PICK f : /\ f = [u \in Nat |-> Step(f, Quotients(words), Remainders(words), u)]
               /\ \A u \in Nat : Pushed(u, words) = f[u]
  BY PushedLoop
<1>2. Loops(f, Quotients(words), Remainders(words))
  BY <1>1 DEF Loops
<1> QED
  BY <1>1, <1>2, QuotientsFall, LoopText

LEMMA DecimalText ==
  ASSUME NEW x \in Nat
  PROVE  IsText(utoa_impl_10base(x))
BY PushedText, TextOf DEF utoa_impl_10base

LEMMA UnsignedText ==
  ASSUME NEW x \in Nat, NEW f \in DOMAIN fmt_type_as_integer_index
  PROVE  IsText(mstr_fmt_utoa(x, fmt_type_as_integer_index[f]))
<1> DEFINE index == fmt_type_as_integer_index[f]
           d == IF index.base = 10 THEN utoa_impl_10base(x)
                ELSE utoa_impl_2base(index.base, index.hex_base, x)
<1>1. index.base \in 2..16 /\ index.prefix \in {<<>>, <<"0", "x">>, <<"0", "X">>}
  BY DEF fmt_type_as_integer_index, IntIndex
<1>2. mstr_fmt_utoa(x, index) = index.prefix \o d
  BY DEF mstr_fmt_utoa
<1>3. IsText(index.prefix)
  BY <1>1, TextOf
<1> HIDE DEF index
<1>4. IsText(d)
  <2>1. CASE index.base = 10
    BY <2>1, DecimalText
  <2>2. CASE index.base # 10
    <3>1. Numbers(d, index.base, index.hex_base, x)
      BY <1>1, <2>2, GroupsNumber
    <3> QED
      BY <3>1, NumbersIsSequence DEF IsText
  <2> QED
    BY <2>1, <2>2
<1> HIDE DEF d
<1> QED
  BY <1>2, <1>3, <1>4, TextsJoined DEF index

\* A word is a number, whatever its width.
LEMMA ModulusIsNumber == Modulus \in Nat \ {0}
BY ParserAssumption, FormatAssumption

LEMMA AsWords ==
  ASSUME NEW v \in Int
  PROVE  AsUnsigned(v) \in Nat /\ AsSigned(v) \in Int /\ abs_u32(v) \in Nat
<1> DEFINE m == Modulus
<1>1. m \in Nat \ {0}
  BY ModulusIsNumber
<1>2. /\ AsUnsigned(v) = v % m
      /\ AsSigned(v) = IF v % m >= m \div 2 THEN (v % m) - m ELSE v % m
      /\ abs_u32(v) = IF v > 0 THEN v ELSE (-v) % m
  BY DEF AsUnsigned, AsSigned, abs_u32
<1> HIDE DEF m
<1>3. v % m \in Nat /\ (-v) % m \in Nat
  BY <1>1
<1> QED
  BY <1>1, <1>2, <1>3

LEMMA SignCharacters ==
  ASSUME NEW v \in Int, NEW sign
  PROVE  convert_sign_helper(v, sign) \in {<<"-">>, <<"+">>, <<" ">>, <<>>}
<1>1. CASE v < 0
  BY <1>1, Zenon DEF convert_sign_helper
<1>2. CASE ~(v < 0) /\ v > 0 /\ sign = "Always"
  BY <1>2, Zenon DEF convert_sign_helper
<1>3. CASE ~(v < 0) /\ ~(v > 0 /\ sign = "Always")
  BY <1>3, Zenon DEF convert_sign_helper
<1> QED
  BY <1>1, <1>2, <1>3

LEMMA SignIsTexts == \A c \in {<<"-">>, <<"+">>, <<" ">>, <<>>} : IsText(c)
<1>1. \A c : IsText(<<c>>)
  BY TextOf, Zenon
<1>2. IsText(<<>>)
  BY TextOf, Zenon
<1> QED
  BY <1>1, <1>2, Zenon

LEMMA SignIsText ==
  ASSUME NEW v \in Int, NEW sign
  PROVE  IsText(convert_sign_helper(v, sign))
BY SignCharacters, SignIsTexts, Zenon

LEMMA SignedText ==
  ASSUME NEW v \in Int, NEW f \in DOMAIN fmt_type_as_integer_index, NEW sign
  PROVE  IsText(mstr_fmt_itoa(v, fmt_type_as_integer_index[f], sign))
<1> DEFINE d == mstr_fmt_utoa(abs_u32(v), fmt_type_as_integer_index[f])
<1>1. IsText(d)
  BY AsWords, UnsignedText
<1>2. mstr_fmt_itoa(v, fmt_type_as_integer_index[f], sign) = convert_sign_helper(v, sign) \o d
  BY DEF mstr_fmt_itoa
<1> DEFINE c == convert_sign_helper(v, sign)
<1>3. IsText(c)
  BY SignIsText
<1> HIDE DEF c, d
<1>4. IsText(c \o d)
  BY <1>1, <1>3, TextsJoined
<1> QED
  BY <1>2, <1>4 DEF c

LEMMA ZerosText ==
  ASSUME NEW n \in Int
  PROVE  IsText(Zeros(n))
<1>1. CASE n >= 0
  <2>1. n \in Nat
    BY <1>1
  <2> DEFINE c == "0"
  <2> HIDE DEF c
  <2>2. IsText([i \in 1..n |-> c])
    BY <2>1, TextRepeated
  <2> QED
    BY <2>2 DEF Zeros, c
<1>2. CASE n < 0
  <2>1. 1..n = {}
    BY <1>2
  <2>2. Zeros(n) \in Seq({})
    BY <2>1 DEF Zeros
  <2> QED
    BY <2>2 DEF IsText
<1> QED
  BY <1>1, <1>2

LEMMA TrimmedText ==
  ASSUME NEW digits, IsText(digits)
  PROVE  IsText(Trimmed(digits))
<1> DEFINE n == Len(digits)
           S == {k \in 1..n : digits[k] # "0"}
           m == CHOOSE k \in S : \A l \in S : l <= k
           e == IF S = {} THEN 0 ELSE m
           T == {digits[k] : k \in 1..n}
<1>1. n \in Nat
  BY TextLength
<1>2. Trimmed(digits) = SubSeq(digits, 1, e)
  BY DEF Trimmed
<1> HIDE DEF n
<1>3. S \in SUBSET (1..n)
  OBVIOUS
<1>4. e \in 0..n
  <2>1. CASE S = {}
    BY <1>1, <2>1
  <2>2. CASE S # {}
    <3> HIDE DEF S
    <3>1. \E k \in S : \A l \in S : l <= k
      BY <1>1, <1>3, <2>2, LastOf
    <3>2. m \in S
      BY <3>1
    <3> HIDE DEF m
    <3> QED
      BY <1>1, <1>3, <2>2, <3>2
  <2> QED
    BY <2>1, <2>2
<1> HIDE DEF e
<1>5. \A k \in 1..e : digits[k] \in T
  <2>1. \A k \in 1..e : k \in 1..n
    BY <1>1, <1>4
  <2> QED
    BY <2>1
<1>6. e \in Int /\ 1 \in Int
  BY <1>1, <1>4
<1> HIDE DEF T
<1>7. SubSeq(digits, 1, e) \in Seq(T)
  BY <1>5, <1>6, SubSeqProperties
<1> QED
  BY <1>2, <1>7 DEF IsText

\* The powers by which a word is divided.
LEMMA TableOfWords ==
  LET p == Power(2)
  IN  /\ p[0] = 1 /\ p[1] = 2 /\ p[2] = 4 /\ p[3] = 8 /\ p[4] = 16 /\ p[5] = 32 /\ p[6] = 64
      /\ p[7] = 128 /\ p[8] = 256 /\ p[9] = 512 /\ p[10] = 1024 /\ p[11] = 2048 /\ p[12] = 4096
      /\ p[13] = 8192 /\ p[14] = 16384 /\ p[15] = 32768 /\ p[16] = 65536 /\ p[17] = 131072
      /\ p[18] = 262144 /\ p[19] = 524288 /\ p[20] = 1048576 /\ p[21] = 2097152
      /\ p[22] = 4194304 /\ p[23] = 8388608 /\ p[24] = 16777216 /\ p[25] = 33554432
      /\ p[26] = 67108864 /\ p[27] = 134217728 /\ p[28] = 268435456 /\ p[29] = 536870912
      /\ p[30] = 1073741824 /\ p[31] = 2147483648
BY SMT DEF Power

LEMMA PowersPositive ==
  ASSUME NEW k \in Nat, k <= 31
  PROVE  2^k \in Nat /\ 2^k > 0
<1>1. \/ k = 0 \/ k = 1 \/ k = 2 \/ k = 3 \/ k = 4 \/ k = 5 \/ k = 6 \/ k = 7 \/ k = 8 \/ k = 9
      \/ k = 10 \/ k = 11 \/ k = 12 \/ k = 13 \/ k = 14 \/ k = 15 \/ k = 16 \/ k = 17 \/ k = 18
      \/ k = 19 \/ k = 20 \/ k = 21 \/ k = 22 \/ k = 23 \/ k = 24 \/ k = 25 \/ k = 26 \/ k = 27
      \/ k = 28 \/ k = 29 \/ k = 30 \/ k = 31
  BY SMT
<1>2. Power(2)[k] \in Nat /\ Power(2)[k] > 0
  BY <1>1, TableOfWords, SMTT(30)
<1>3. Power(2)[k] = 2^k
  BY SMT DEF Power
<1> QED
  BY <1>2, <1>3, SMT

\* The sum of the fraction is a number, whatever it loses.
LEMMA AccumulatedIsNumber ==
  ASSUME NEW v \in Nat, NEW q \in Nat, q <= 31
  PROVE  Accumulated(v, q) \in Nat
<1> DEFINE X == [p5 : Nat, acc : Nat]
           W == Modulus
           L == Modulus * Modulus
           Next5(b) == (b.p5 * 5) % W
           Bit(j) == (v \div 2^(q - j)) % 2
           One(b, j) == [p5 |-> Next5(b), acc |-> ((b.acc * 10) + (Bit(j) * Next5(b))) % L]
           G == [j \in 1..q |-> [b \in X |-> One(b, j)]]
           start == [p5 |-> 1, acc |-> 0]
           Body(r, j) ==
             IF j = 0 THEN [p5 |-> 1, acc |-> 0]
             ELSE LET before == r[j - 1]
                      p5     == (before.p5 * 5) % Modulus
                      bit    == (v \div 2^(q - j)) % 2
                  IN  [p5 |-> p5, acc |-> ((before.acc * 10) + (bit * p5)) % (Modulus * Modulus)]
           after[j \in 0..q] ==
             IF j = 0 THEN [p5 |-> 1, acc |-> 0]
             ELSE LET before == after[j - 1]
                      p5     == (before.p5 * 5) % Modulus
                      bit    == (v \div 2^(q - j)) % 2
                  IN  [p5 |-> p5, acc |-> ((before.acc * 10) + (bit * p5)) % (Modulus * Modulus)]
<1>1. W \in Nat \ {0} /\ L \in Nat \ {0}
  <2>1. W \in Nat \ {0}
    BY ModulusIsNumber
  <2>2. L = W * W
    OBVIOUS
  <2> HIDE DEF W, L
  <2> QED
    BY <2>1, <2>2
<1>2. \A r, j : j # 0 => Body(r, j) = One(r[j - 1], j)
  OBVIOUS
<1>3. \A r : Body(r, 0) = start
  OBVIOUS
<1>4. start \in X
  OBVIOUS
<1>5. ASSUME NEW j \in 1..q, NEW b \in X PROVE One(b, j) \in X
  <2> DEFINE d == 2^(q - j)
  <2>1. d \in Nat /\ d > 0
    <3> DEFINE k == q - j
    <3>1. k \in Nat /\ k <= 31
      OBVIOUS
    <3> HIDE DEF k
    <3>2. 2^k \in Nat /\ 2^k > 0
      BY <3>1, PowersPositive
    <3> QED
      BY <3>2 DEF k
  <2>2. Bit(j) \in Nat
    <3> HIDE DEF d
    <3>1. (v \div d) % 2 \in Nat
      BY <2>1
    <3> QED
      BY <3>1 DEF d
  <2>3. b.p5 \in Nat /\ b.acc \in Nat
    OBVIOUS
  <2> DEFINE t == Bit(j)
             f == Next5(b)
  <2>4. f \in Nat
    <3> HIDE DEF W
    <3> QED
      BY <1>1, <2>3
  <2>5. t \in Nat
    BY <2>2
  <2> HIDE DEF t, f
  <2>6. (b.acc * 10) + (t * f) \in Nat
    <3>1. t * f \in Nat
      BY <2>4, <2>5
    <3> QED
      BY <2>3, <3>1
  <2>7. ((b.acc * 10) + (t * f)) % L \in Nat
    <3> HIDE DEF L
    <3> QED
      BY <1>1, <2>6
  <2>8. One(b, j) = [p5 |-> f, acc |-> ((b.acc * 10) + (t * f)) % L]
    BY DEF t, f
  <2> HIDE DEF L
  <2> QED
    BY <2>4, <2>7, <2>8
<1> HIDE DEF One
<1>6. Takes(G, 0, q, X) /\ \A j \in 1..q : \A b \in X : G[j][b] = One(b, j)
  <2>1. \A j \in 1..q : G[j] \in [X -> X] /\ \A b \in X : G[j][b] = One(b, j)
    <3> SUFFICES ASSUME NEW j \in 1..q
                 PROVE  G[j] \in [X -> X] /\ \A b \in X : G[j][b] = One(b, j)
      OBVIOUS
    <3>1. G[j] = [b \in X |-> One(b, j)] /\ \A b \in X : One(b, j) \in X
      BY <1>5
    <3> HIDE DEF G, X
    <3> QED
      BY <3>1
  <2> HIDE DEF G, X
  <2> QED
    BY <2>1 DEF Takes
<1> HIDE DEF G, X, start
<1>7. PICK f \in [0..q -> X] : f[0] = start /\ Upward(f, 0, q, X, G)
  <2>1. \E f \in [0..q -> X] : (0 <= q => f[0] = start) /\ Upward(f, 0, q, X, G)
    BY <1>4, <1>6, UpwardExists
  <2> QED
    BY <2>1
<1> HIDE DEF Body
<1>8. f = [j \in 0..q |-> Body(f, j)]
  <2>1. ASSUME NEW j \in 0..q PROVE f[j] = Body(f, j)
    <3>1. CASE j = 0
      BY <1>3, <1>7, <3>1
    <3>2. CASE j # 0
      <4>1. j \in 1..q /\ j \in (0 + 1)..q /\ j - 1 \in 0..q
        BY <3>2
      <4>2. f[j - 1] \in X
        BY <4>1
      <4>3. f[j] = G[j][f[j - 1]]
        BY <1>7, <4>1, <4>2 DEF Upward
      <4> QED
        BY <1>2, <1>6, <3>2, <4>1, <4>2, <4>3
    <3> QED
      BY <3>1, <3>2
  <2> QED
    BY <2>1
<1>9. after = [j \in 0..q |-> Body(after, j)]
  BY <1>8 DEF after, Body
<1>10. Accumulated(v, q) = after[q].acc
  BY DEF Accumulated, after
<1> HIDE DEF after
<1>11. after[0] \in X /\ Upward(after, 0, q, X, G)
  <2>1. after[0] = start
    BY <1>3, <1>9
  <2>2. ASSUME NEW j \in (0 + 1)..q, after[j - 1] \in X PROVE after[j] = G[j][after[j - 1]]
    <3>1. j \in 1..q /\ j # 0 /\ j \in 0..q
      OBVIOUS
    <3>2. after[j] = One(after[j - 1], j)
      BY <1>2, <1>9, <3>1
    <3> QED
      BY <1>6, <2>2, <3>1, <3>2
  <2> QED
    BY <1>4, <2>1, <2>2 DEF Upward
<1>12. after[q] \in X
  <2>1. 0 \in Nat /\ 0 <= q
    OBVIOUS
  <2> QED
    BY <1>6, <1>11, <2>1, UpwardStays
<1> QED
  BY <1>10, <1>12 DEF X

\* The fraction of a number, and its numeral.
LEMMA FractionText ==
  ASSUME NEW v \in Nat, NEW q \in Nat, q <= 31
  PROVE  IsText(uqtoa_helper_dpart(v, q))
<1> DEFINE a == Accumulated(v, q)
           d == Pushed(a, 2)
           z == Zeros(q - Len(d))
           t == Trimmed(d)
<1>1. uqtoa_helper_dpart(v, q) = IF v = 0 THEN <<"0">> ELSE z \o t
  BY DEF uqtoa_helper_dpart
<1>2. a \in Nat
  BY AccumulatedIsNumber
<1> HIDE DEF a
<1>3. IsText(d)
  BY <1>2, PushedText
<1> HIDE DEF d
<1>4. IsText(t)
  BY <1>3, TrimmedText
<1>5. IsText(z)
  <2> DEFINE n == q - Len(d)
  <2>1. n \in Int
    BY <1>3, TextLength
  <2> HIDE DEF n
  <2>2. IsText(Zeros(n))
    BY <2>1, ZerosText
  <2> QED
    BY <2>2 DEF n
<1> HIDE DEF z, t
<1>6. IsText(z \o t) /\ IsText(<<"0">>)
  BY <1>4, <1>5, TextsJoined, TextOf
<1> QED
  BY <1>1, <1>6

LEMMA QuantizedText ==
  ASSUME NEW v \in Nat, NEW q \in Nat, q <= 31
  PROVE  IsText(uqtoa_impl(v, q))
<1> DEFINE b == 2^q
           i == v \div b
           p == v % b
           whole == utoa_impl_10base(i)
           part == uqtoa_helper_dpart(p, q)
           point == <<".">>
<1>1. uqtoa_impl(v, q) = IF v = 0 THEN <<"0">> ELSE whole \o IF p > 0 THEN point \o part ELSE <<>>
  BY DEF uqtoa_impl
<1>2. b \in Nat /\ b > 0
  BY PowersPositive
<1> HIDE DEF b
<1>3. i \in Nat /\ p \in Nat
  BY <1>2
<1> HIDE DEF i, p
<1>4. IsText(whole) /\ IsText(part)
  BY <1>3, DecimalText, FractionText
<1>5. IsText(point) /\ IsText(<<>>) /\ IsText(<<"0">>)
  BY TextOf
<1> HIDE DEF whole, part, point
<1>6. IsText(point \o part)
  BY <1>4, <1>5, TextsJoined
<1>7. IsText(whole \o (point \o part)) /\ IsText(whole \o <<>>)
  BY <1>4, <1>5, <1>6, TextsJoined
<1> QED
  BY <1>1, <1>5, <1>7

\* What a conversion yields: a result and a text.
Result(r) == r = [err |-> r.err, chars |-> r.chars] /\ r.err \in FormatResults /\ IsText(r.chars)

LEMMA ResultOf ==
  /\ \A s : IsText(s) => Result(Converted(s))
  /\ \A e \in FormatResults : Result(Refused(e))
<1>1. IsText(<<>>) /\ "MStr_Ok" \in FormatResults
  BY TextOf DEF FormatResults, ParserResults
<1> HIDE DEF IsText, FormatResults
<1> QED
  BY <1>1 DEF Result, Converted, Refused

LEMMA UnsignedQuantizedText ==
  ASSUME Bits <= 32, NEW v \in Nat, NEW q \in Nat
  PROVE  Result(mstr_fmt_uqtoa(v, q))
<1>1. CASE q > Bits - 1 \/ q = 0
  <2>1. "MStr_Err_UnsupportQuantBits" \in FormatResults
    BY DEF FormatResults
  <2> QED
    BY <1>1, <2>1, ResultOf DEF mstr_fmt_uqtoa
<1>2. CASE ~(q > Bits - 1 \/ q = 0)
  <2>1. q <= 31
    BY <1>2, IntoAssumption
  <2>2. IsText(uqtoa_impl(v, q))
    BY <2>1, QuantizedText
  <2> QED
    BY <1>2, <2>2, ResultOf DEF mstr_fmt_uqtoa
<1> QED
  BY <1>1, <1>2

LEMMA SignedQuantizedText ==
  ASSUME Bits <= 32, NEW v \in Int, NEW q \in Nat, NEW sign
  PROVE  Result(mstr_fmt_iqtoa(v, q, sign))
<1> DEFINE m == abs_u32(v)
           r == mstr_fmt_uqtoa(m, q)
           c == convert_sign_helper(v, sign)
<1>1. m \in Nat
  BY AsWords
<1>2. mstr_fmt_iqtoa(v, q, sign) = [r EXCEPT !.chars = c \o @]
  BY DEF mstr_fmt_iqtoa
<1> HIDE DEF m
<1>3. Result(r)
  BY <1>1, UnsignedQuantizedText
<1>4. IsText(c)
  BY SignIsText
<1> HIDE DEF r, c
<1>5. r = [err |-> r.err, chars |-> r.chars] /\ r.err \in FormatResults /\ IsText(r.chars)
  BY <1>3 DEF Result
<1>6. IsText(c \o r.chars)
  BY <1>4, <1>5, TextsJoined
<1>7. [r EXCEPT !.chars = c \o @] = [err |-> r.err, chars |-> c \o r.chars]
  <2> DEFINE e == r.err
             w == r.chars
             x == c \o w
  <2>1. r = [err |-> e, chars |-> w]
    BY <1>5
  <2> HIDE DEF e, w, x
  <2>2. [r EXCEPT !.chars = x] = [err |-> e, chars |-> x]
    BY <2>1
  <2> QED
    BY <2>2 DEF e, w, x
<1> HIDE DEF FormatResults
<1> QED
  BY <1>2, <1>5, <1>6, <1>7 DEF Result

\* The digits of a number of a time.
LEMMA DigitsText ==
  ASSUME NEW bcd, NEW len, NEW n \in Nat, NEW fixed
  PROVE  IsText(bcdtoa(bcd, len, n, fixed))
<1> DEFINE last == IF fixed THEN n - len + 1 ELSE 1
           Shown(p) == bcd[p] > 0 \/ fixed \/ len >= p
           Lead(p) == IF Shown(p) THEN <<DigitChars("a")[bcd[p] + 1]>> ELSE <<>>
           Stops(p) == p = 0 \/ p < last
           T == {DigitChars("a")[bcd[p] + 1] : p \in 0..n}
           X == Seq(T)
           One(s, p) == IF Stops(p) THEN <<>> ELSE Lead(p) \o s
           G == [p \in 1..n |-> [s \in X |-> One(s, p)]]
           Body(r, p) ==
             IF p = 0 \/ p < last THEN <<>>
             ELSE (IF Shown(p) THEN <<DigitChars("a")[bcd[p] + 1]>> ELSE <<>>) \o r[p - 1]
           down[p \in 0..n] ==
             IF p = 0 \/ p < last THEN <<>>
             ELSE (IF Shown(p) THEN <<DigitChars("a")[bcd[p] + 1]>> ELSE <<>>) \o down[p - 1]
<1>1. bcdtoa(bcd, len, n, fixed) = down[n]
  BY DEF bcdtoa
<1>2. \A r, p : Body(r, p) = One(r[p - 1], p)
  OBVIOUS
<1>3. \A r : Body(r, 0) = <<>>
  OBVIOUS
<1>4. <<>> \in X
  OBVIOUS
<1>5. ASSUME NEW p \in 1..n, NEW s \in X PROVE One(s, p) \in X
  <2> DEFINE d == DigitChars("a")[bcd[p] + 1]
  <2>1. d \in T
    <3>1. p \in 0..n
      OBVIOUS
    <3> QED
      BY <3>1
  <2>2. Lead(p) = <<d>> \/ Lead(p) = <<>>
    <3> HIDE DEF Shown
    <3> QED
      OBVIOUS
  <2> HIDE DEF d, T, Lead, Stops
  <2>5. <<d>> \in X
    BY <2>1
  <2>3. Lead(p) \in X
    BY <1>4, <2>2, <2>5
  <2>4. Lead(p) \o s \in X
    BY <2>3, ConcatProperties
  <2> HIDE DEF X
  <2> QED
    BY <1>4, <2>4
<1> HIDE DEF One, T
<1>6. Takes(G, 0, n, X) /\ \A p \in 1..n : \A s \in X : G[p][s] = One(s, p)
  <2>1. \A p \in 1..n : G[p] \in [X -> X] /\ \A s \in X : G[p][s] = One(s, p)
    <3> SUFFICES ASSUME NEW p \in 1..n
                 PROVE  G[p] \in [X -> X] /\ \A s \in X : G[p][s] = One(s, p)
      OBVIOUS
    <3>1. G[p] = [s \in X |-> One(s, p)] /\ \A s \in X : One(s, p) \in X
      BY <1>5
    <3> HIDE DEF G, X
    <3> QED
      BY <3>1
  <2> HIDE DEF G, X
  <2> QED
    BY <2>1 DEF Takes
<1> HIDE DEF G, X
<1> DEFINE start == <<>>
<1> HIDE DEF start
<1>0. start \in X /\ \A r : Body(r, 0) = start
  BY <1>3, <1>4 DEF start
<1>7. PICK f \in [0..n -> X] : f[0] = start /\ Upward(f, 0, n, X, G)
  <2>1. \E f \in [0..n -> X] : (0 <= n => f[0] = start) /\ Upward(f, 0, n, X, G)
    BY <1>0, <1>6, UpwardExists
  <2> QED
    BY <2>1
<1> HIDE DEF Body
<1>8. f = [p \in 0..n |-> Body(f, p)]
  <2>1. ASSUME NEW p \in 0..n PROVE f[p] = Body(f, p)
    <3>1. CASE p = 0
      BY <1>0, <1>7, <3>1
    <3>2. CASE p # 0
      <4>1. p \in 1..n /\ p \in (0 + 1)..n /\ p - 1 \in 0..n
        BY <3>2
      <4>2. f[p - 1] \in X
        BY <4>1
      <4>3. f[p] = G[p][f[p - 1]]
        BY <1>7, <4>1, <4>2 DEF Upward
      <4> QED
        BY <1>2, <1>6, <4>1, <4>2, <4>3
    <3> QED
      BY <3>1, <3>2
  <2> QED
    BY <2>1
<1>9. down = [p \in 0..n |-> Body(down, p)]
  BY <1>8 DEF down, Body
<1> HIDE DEF down
<1>10. down[0] \in X /\ Upward(down, 0, n, X, G)
  <2>1. down[0] = start
    BY <1>0, <1>9
  <2>2. ASSUME NEW p \in (0 + 1)..n, down[p - 1] \in X PROVE down[p] = G[p][down[p - 1]]
    <3>1. p \in 1..n /\ p \in 0..n
      OBVIOUS
    <3>2. down[p] = One(down[p - 1], p)
      BY <1>2, <1>9, <3>1
    <3> QED
      BY <1>6, <2>2, <3>1, <3>2
  <2> QED
    BY <1>0, <2>1, <2>2 DEF Upward
<1>11. down[n] \in X
  <2>1. 0 \in Nat /\ 0 <= n
    OBVIOUS
  <2> QED
    BY <1>6, <1>10, <2>1, UpwardStays
<1> QED
  BY <1>1, <1>11 DEF X, IsText

LEMMA TimesText ==
  ASSUME NEW tm, NEW items, NEW I, items \in Seq(I), \A i \in I : IsText(i.split)
  PROVE  IsText(mstr_fmt_ttoa(tm, items))
<1> DEFINE n == Len(items)
           Shows(i) == bcdtoa(TimeValue(tm, items[i].item.value_type), items[i].item.format_length,
                              MaxLen(items[i].item.value_type), items[i].item.fixed_length)
           seqs == [i \in 1..n |-> Shows(i) \o items[i].split]
<1>1. mstr_fmt_ttoa(tm, items) = FlattenSeq(seqs)
  BY DEF mstr_fmt_ttoa
<1>2. n \in Nat /\ \A i \in 1..n : IsText(items[i].split)
  <2> HIDE DEF IsText
  <2> QED
    OBVIOUS
<1>3. ASSUME NEW i \in 1..n PROVE IsText(Shows(i) \o items[i].split)
  <2>1. MaxLen(items[i].item.value_type) \in Nat
    BY DEF MaxLen
  <2>2. IsText(Shows(i))
    BY <2>1, DigitsText
  <2> HIDE DEF Shows
  <2> QED
    BY <1>2, <2>2, TextsJoined
<1> HIDE DEF n, Shows
<1>4. AllTexts(seqs, n)
  <2> HIDE DEF IsText
  <2> QED
    BY <1>3 DEF AllTexts
<1> HIDE DEF seqs
<1> QED
  BY <1>1, <1>2, <1>4, FlattenedText

LEMMA ArgTypes ==
  ArgType = {"Int8", "Int16", "Int32", "Uint8", "Uint16", "Uint32", "CString", "Time",
             "QuantizedValue", "QuantizedUnsignedValue"}
<1>1. DOMAIN ArgTypeOf = {"Type_Int8", "Type_Int16", "Type_Int32", "Type_Uint8", "Type_Uint16",
        "Type_Uint32", "Type_CString", "Type_SysTime", "Type_IQuant", "Type_UQuant"}
  BY DEF ArgTypeOf
<1> QED
  BY <1>1 DEF ArgType, ArgTypeOf

LEMMA FormatIndexed == FormatType \subseteq DOMAIN fmt_type_as_integer_index
<1>1. DOMAIN FormatTypeOf = {"b", "d", "o", "h", "H", "x", "X"}
  BY DEF FormatTypeOf
<1>2. FormatType = {"Binary", "Deciaml", "Oct", "Hex", "Hex_UpperCase", "Hex_WithPrefix",
                    "Hex_UpperCase_WithPrefix", "UnSpec"}
  BY <1>1 DEF FormatType, FormatTypeOf, UnSpec
<1> QED
  BY <1>2 DEF fmt_type_as_integer_index

\* Whatever a field asks for of a value of its type is an error or a text.
LEMMA ConvertYields ==
  ASSUME Bits <= 32, FieldOK(field), field.type # Unknown, NEW v, IsValue(field.type, v)
  PROVE  Result(convert(v))
<1> DEFINE ty == field.type
           index == fmt_type_as_integer_index[field.fmt]
           Alone(chars) ==
             IF field.fmt = UnSpec THEN Converted(chars) ELSE Refused("MStr_Err_UnsupportFormatType")
           u == Converted(mstr_fmt_utoa(AsUnsigned(v), index))
           s == Converted(mstr_fmt_itoa(AsSigned(v), index, field.sign))
           c == Alone(v)
           t == Alone(mstr_fmt_ttoa(v, field.items))
           iq == mstr_fmt_iqtoa(AsSigned(v), field.prop, field.sign)
           uq == mstr_fmt_uqtoa(AsUnsigned(v), field.prop)
<1>1. convert(v) =
        CASE ty \in {"Uint8", "Uint16", "Uint32"} -> u
          [] ty \in {"Int8", "Int16", "Int32"} -> s
          [] ty = "CString" -> c
          [] ty = "Time" -> t
          [] ty = "QuantizedValue" -> iq
          [] ty = "QuantizedUnsignedValue" -> uq
  BY DEF convert
<1>2. ty \in ArgType /\ field.fmt \in DOMAIN fmt_type_as_integer_index
  BY FormatIndexed DEF FieldOK
<1>3. field.prop \in Nat
  <2>1. \A p \in Props : p \in Nat
    BY DEF Props
  <2>2. field.prop \in Props
    BY DEF FieldOK
  <2> QED
    BY <2>1, <2>2
<1>4. IsValue(ty, v)
  OBVIOUS
<1> HIDE DEF ty
<1>5. ASSUME NEW w, IsText(w) PROVE Result(Alone(w))
  <2>1. "MStr_Err_UnsupportFormatType" \in FormatResults
    BY DEF FormatResults, ParserResults
  <2>2. Result(Converted(w)) /\ Result(Refused("MStr_Err_UnsupportFormatType"))
    BY <1>5, <2>1, ResultOf
  <2> HIDE DEF Result
  <2> QED
    BY <2>2
<1>6. ty \in {"Uint8", "Uint16", "Uint32"} => v \in Int
  BY <1>4 DEF IsValue
<1>7. ty \in {"Int8", "Int16", "Int32", "QuantizedValue", "QuantizedUnsignedValue"} => v \in Int
  BY <1>4 DEF IsValue
<1>8. ty = "CString" => IsText(v)
  BY <1>4 DEF IsValue, IsText
<1>9. ASSUME v \in Int PROVE Result(u) /\ Result(s) /\ Result(iq) /\ Result(uq)
  <2>1. AsUnsigned(v) \in Nat /\ AsSigned(v) \in Int
    BY <1>9, AsWords
  <2>2. IsText(mstr_fmt_utoa(AsUnsigned(v), index)) /\ IsText(mstr_fmt_itoa(AsSigned(v), index, field.sign))
    BY <1>2, <2>1, UnsignedText, SignedText
  <2>3. Result(u) /\ Result(s)
    BY <2>2, ResultOf
  <2> QED
    BY <1>3, <2>1, <2>3, SignedQuantizedText, UnsignedQuantizedText
<1>10. Result(t)
  <2>1. field.items \in Seq(ItemRecords)
    BY DEF FieldOK
  <2>2. \A i \in ItemRecords : IsText(i.split)
    <3> SUFFICES ASSUME NEW i \in ItemRecords PROVE IsText(i.split)
      OBVIOUS
    <3>1. i.split \in Seq(SplitChars)
      BY DEF ItemRecords
    <3> QED
      BY <3>1 DEF IsText
  <2>3. IsText(mstr_fmt_ttoa(v, field.items))
    <3> HIDE DEF IsText
    <3> QED
      BY <2>1, <2>2, TimesText
  <2> QED
    BY <1>5, <2>3
<1>11. ty = "CString" => Result(c)
  BY <1>5, <1>8
<1> HIDE DEF u, s, c, t, iq, uq, Alone, Result
<1> QED
  BY <1>1, <1>2, <1>6, <1>7, <1>9, <1>10, <1>11, ArgTypes

--------------------------------------------------------------------------------
(* Strings with room for a terminator.                                         *)

HasRoom(s) ==
  /\ s = [chars |-> s.chars, cap |-> s.cap]
  /\ IsText(s.chars)
  /\ s.cap \in Nat
  /\ Len(s.chars) < s.cap

LEMMA EmptyHasRoom == HasRoom(EmptyString)
<1>1. EmptyString.chars = <<>> /\ EmptyString.cap = StackRegion
      /\ EmptyString = [chars |-> EmptyString.chars, cap |-> EmptyString.cap]
  BY DEF EmptyString
<1>2. IsText(<<>>) /\ Len(<<>>) = 0
  BY TextOf
<1>3. StackRegion \in Nat /\ 0 < StackRegion
  BY FormatAssumption
<1> QED
  BY <1>1, <1>2, <1>3 DEF HasRoom

\* A string that has grown has room, or there is no memory.
LEMMA AddedHasRoom ==
  ASSUME NEW s, HasRoom(s), NEW c, IsText(c), NEW spare \in {0, 1},
         NEW r \in Added(s, c, spare), r # NoMemory
  PROVE  HasRoom(r)
<1> DEFINE t == s.chars
           k == s.cap
           n == Len(t)
           m == Len(c)
           j == t \o c
           big == Resized(k, m)
           longer == [s EXCEPT !.chars = @ \o c]
<1>1. IsText(j) /\ Len(j) = n + m
  BY TextsJoined DEF HasRoom
<1>2. n \in Nat /\ m \in Nat /\ k \in Nat /\ n < k
  BY TextLength DEF HasRoom
<1>3. longer = [chars |-> j, cap |-> k] /\ [longer EXCEPT !.cap = big] = [chars |-> j, cap |-> big]
  <2>1. s = [chars |-> t, cap |-> k]
    BY DEF HasRoom
  <2>2. longer = [s EXCEPT !.chars = j]
    OBVIOUS
  <2> HIDE DEF t, k, j, big, longer
  <2>3. longer = [chars |-> j, cap |-> k]
    BY <2>1, <2>2
  <2> QED
    BY <2>3
<1>4. big \in Nat /\ n + m < big
  <2>1. big = IF 2 * k > k + m + 1 THEN 2 * k ELSE k + m + 1
    BY DEF Resized
  <2> HIDE DEF big, n, m, k
  <2> QED
    BY <1>2, <2>1
<1>5. (r = longer /\ Len(longer.chars) + spare < k) \/ r = [longer EXCEPT !.cap = big]
  <2>1. Added(s, c, spare) = IF Len(longer.chars) + spare < k THEN {longer}
                             ELSE {[longer EXCEPT !.cap = big], NoMemory}
    BY DEF Added
  <2> HIDE DEF longer, big, k
  <2> QED
    BY <2>1
<1> HIDE DEF longer, big, n, m, k, j, t
<1>6. CASE r = longer /\ Len(longer.chars) + spare < k
  <2>1. r = [chars |-> j, cap |-> k] /\ Len(j) + spare < k
    BY <1>3, <1>6
  <2>2. Len(j) < k
    BY <1>1, <1>2, <2>1
  <2> QED
    BY <1>1, <1>2, <2>1, <2>2 DEF HasRoom
<1>7. CASE r = [longer EXCEPT !.cap = big]
  <2>1. r = [chars |-> j, cap |-> big]
    BY <1>3, <1>7
  <2>2. Len(j) < big
    BY <1>1, <1>4
  <2> QED
    BY <1>1, <1>4, <2>1, <2>2 DEF HasRoom
<1> QED
  BY <1>5, <1>6, <1>7

\* What an output may have become.
Grown(rs) == \A r \in rs : r = NoMemory \/ HasRoom(r)

LEMMA AppendedGrown ==
  ASSUME NEW s, HasRoom(s), NEW c, IsText(c)
  PROVE  Grown(Appended(s, c)) /\ Grown(Concatenated(s, c))
<1>1. Grown(Added(s, c, 1)) /\ Grown(Added(s, c, 0))
  BY AddedHasRoom DEF Grown
<1>2. Grown({s})
  BY DEF Grown
<1> QED
  BY <1>1, <1>2 DEF Appended, Concatenated

LEMMA OutputGrown ==
  ASSUME HasRoom(out), NEW grown, Grown(grown), NEW good, NEW bad, Output(grown, good, bad)
  PROVE  /\ Goto(good, ret) \/ Goto(bad, "MStr_Err_HeapTooSmall")
         /\ HasRoom(out')
<1>1. PICK r \in grown :
        IF r = NoMemory
        THEN Goto(bad, "MStr_Err_HeapTooSmall") /\ UNCHANGED <<out, blocks>>
        ELSE Goto(good, ret) /\ out' = r /\ blocks' = blocks + Held(r) - Held(out)
  BY DEF Output
<1>2. r = NoMemory \/ HasRoom(r)
  BY DEF Grown
<1> HIDE DEF Goto
<1>3. CASE r = NoMemory
  <2>1. Goto(bad, "MStr_Err_HeapTooSmall") /\ out' = out
    BY <1>1, <1>3
  <2> QED
    BY <2>1
<1>4. CASE r # NoMemory
  <2>1. Goto(good, ret) /\ out' = r /\ HasRoom(r)
    BY <1>1, <1>2, <1>4
  <2> QED
    BY <2>1
<1> QED
  BY <1>3, <1>4

--------------------------------------------------------------------------------
(* The types of a call.                                                        *)

WrittenOK == written # <<>> => sink = "io" /\ pc \in {"written", "ended"}

\* The inductive invariant: with FormatTypeOK, what the parser keeps while it runs, what the
\* caller passes, and that a value has a type.
TypesInv ==
  /\ KindsInv
  /\ text \in Seq(STRING)
  /\ FieldOK(field)
  /\ pc \in Running \cup Ended => ParserInv
  /\ pc \in ValueLoaded => field.type # Unknown
  /\ fmt \in 1..(Len(text) + 1)
  /\ pc \in Running \cup Ended \cup FormatPoints
  /\ ret \in FormatResults
  /\ Len(args) \in Nat
  /\ place <= Len(args)
  /\ \A i \in 1..Len(args) : IsArgument(args[i])
  /\ item \in Nat
  /\ HasRoom(out)
  /\ HasRoom(buff)
  /\ sink \in {"string", "io"}
  /\ WrittenOK

LEMMA PointsApart == FormatPoints \cap (Running \cup Ended) = {}
BY DEF FormatPoints, Running, Ended

\* The control moves on to a point outside of the parser.
LEMMA GotoKeepsTypes ==
  ASSUME TypesInv, KindsInv', NEW to \in FormatPoints, NEW res \in FormatResults, Goto(to, res),
         UNCHANGED <<place, args, sink>>, fmt' \in 1..(Len(text) + 1), item' \in Nat,
         HasRoom(out'), HasRoom(buff'), WrittenOK',
         to \in ValueLoaded => field.type # Unknown
  PROVE  TypesInv'
<1>1. pc' = to /\ ret' = res /\ text' = text /\ field' = field
  BY DEF Goto
<1>2. FieldOK(field)'
  BY <1>1 DEF TypesInv, FieldOK, ItemRecords, ListChars, SplitChars, FieldShape
<1>3. (pc \in Running \cup Ended => ParserInv)'
  <2>1. pc' \notin Running \cup Ended
    BY <1>1, PointsApart
  <2> QED
    BY <2>1
<1>4. /\ text \in Seq(STRING) /\ Len(args) \in Nat /\ place <= Len(args)
      /\ \A i \in 1..Len(args) : IsArgument(args[i])
      /\ sink \in {"string", "io"}
  BY DEF TypesInv
<1> HIDE DEF IsArgument, HasRoom, KindsInv, WrittenOK, FieldOK, ParserInv, FormatPoints, FormatResults
<1> QED
  BY <1>1, <1>2, <1>3, <1>4 DEF TypesInv

LEMMA TypesStart == Init => TypesInv
<1> SUFFICES ASSUME Init PROVE TypesInv
  OBVIOUS
<1>1. PICK c \in Calls : /\ text = PiecesText(c.pieces) /\ args = c.args /\ place = c.place
  BY DEF Init
<1>2. /\ PiecesText(c.pieces) \in Texts /\ Len(c.args) \in Nat /\ c.place \in 0..Len(c.args)
      /\ \A i \in 1..Len(c.args) : IsArgument(c.args[i])
  BY PrintingAssumption
<1>3. text \in Seq(STRING)
  BY <1>1, <1>2, ParserAssumption
<1>4. /\ pc = "entry" /\ field = NoField /\ ret = "MStr_Ok" /\ fmt = 1 /\ item = 0
      /\ out = EmptyString /\ buff = EmptyString /\ written = <<>> /\ sink \in {"string", "io"}
  BY DEF Init, FormatStart
<1>5. FieldOK(field)
  BY <1>4, NoFieldOK
<1>6. Len(text) \in Nat
  BY <1>3
<1>7. Len(args) \in Nat /\ place <= Len(args) /\ \A i \in 1..Len(args) : IsArgument(args[i])
  <2> HIDE DEF IsArgument
  <2> QED
    BY <1>1, <1>2
<1>8. pc \in FormatPoints /\ ret \in FormatResults /\ pc \notin ValueLoaded
  BY <1>4 DEF FormatPoints, FormatResults, ParserResults, ValueLoaded
<1>9. KindsInv /\ HasRoom(out) /\ HasRoom(buff) /\ WrittenOK
  BY <1>4, KindsInit, EmptyHasRoom DEF WrittenOK
<1>10. fmt \in 1..(Len(text) + 1) /\ item \in Nat
  BY <1>4, <1>6
<1> HIDE DEF IsArgument, HasRoom, KindsInv, WrittenOK, FieldOK, ParserInv, FormatPoints, FormatResults
<1> QED
  BY <1>3, <1>4, <1>5, <1>7, <1>8, <1>9, <1>10, PointsApart DEF TypesInv

\* An argument that has been taken is the caller's, of the kind that it was taken as.
LEMMA TakenArgument ==
  ASSUME TypesInv, KindsKnown, pc = "convert", NEW id \in Nat, id < taken
  PROVE  /\ id + 1 \in 1..Len(args)
         /\ cache[id].arg = id + 1
         /\ args[id + 1].kind = cache[id].kind
         /\ IsArgument(args[id + 1])
<1>1. ArgumentsInv
  BY DEF TypesInv, KindsInv
<1>8. pc \notin Outside
  BY DEF Outside
<1>2. taken \in Nat /\ place \in Nat /\ taken <= place /\ place <= Len(args) /\ Len(args) \in Nat
  BY <1>1 DEF ArgumentsInv, ArgumentsReadInOrder, TypesInv
<1>3. id \in DOMAIN cache
  <2>1. DOMAIN cache = 0..(PlaceMaxNum - 1)
    BY <1>1 DEF ArgumentsInv
  <2>2. place <= PlaceMaxNum
    BY <1>1, <1>8 DEF ArgumentsInv
  <2> QED
    BY <1>2, <2>1, <2>2, FormatAssumption
<1>4. cache[id].arg = id + 1
  BY <1>1, <1>3 DEF ArgumentsInv, ArgumentsReadInOrder
<1>5. args[id + 1].kind = cache[id].kind
  BY <1>3 DEF KindsKnown
<1>6. id + 1 \in 1..Len(args)
  BY <1>2
<1>7. IsArgument(args[id + 1])
  <2>1. \A i \in 1..Len(args) : IsArgument(args[i])
    BY DEF TypesInv
  <2> HIDE DEF IsArgument
  <2> QED
    BY <1>6, <2>1
<1> QED
  BY <1>4, <1>5, <1>6, <1>7

\* What is converted is a value of the field's type.
LEMMA ValueFound ==
  ASSUME TypesInv, ArgumentsAsNamed, pc = "convert"
  PROVE  /\ Count \in Nat
         /\ item < Count => IsValue(field.type, Element)
<1> DEFINE array == field.class = "Array"
           k == KindOf(field.type, array)
           a == args[field.id + 1]
           b == args[field.id + 2]
<1>1. KindsKnown /\ TypesAgree /\ field.id < taken /\ (array => field.id + 1 < taken)
  BY DEF TypesInv, KindsInv, Mistaken, ValueLoaded, LengthLoaded
<1>2. field.id \in Nat /\ field.id + 1 \in Nat /\ (field.id + 1) + 1 = field.id + 2
  BY DEF TypesInv, KindsInv, ArgumentsInv, FieldKnown, Fits
<1>3. cache[field.id].arg = field.id + 1 /\ a.kind = cache[field.id].kind /\ IsArgument(a)
  BY <1>1, <1>2, TakenArgument
<1>4. a.kind = k
  BY <1>1, <1>3 DEF TypesAgree
<1>5. a.kind.ele = field.type /\ a.kind.array = array
  BY <1>4 DEF KindOf
<1>6. Argument(field.id) = a.value
  BY <1>3 DEF Argument
<1>7. CASE array
  <2>1. cache[field.id + 1].arg = field.id + 2 /\ b.kind = cache[field.id + 1].kind /\ IsArgument(b)
    BY <1>1, <1>2, <1>7, TakenArgument
  <2>2. b.kind = KindOf("Uint32", FALSE)
    BY <1>1, <1>7, <2>1 DEF TypesAgree
  <2>3. Count = b.value
    BY <1>7, <2>1 DEF Count, Argument
  <2>4. b.kind.ele = "Uint32" /\ b.kind.array = FALSE
    BY <2>2 DEF KindOf
  <2>5. Count \in Nat
    BY <2>1, <2>3, <2>4 DEF IsArgument, IsValue
  <2>6. Count <= Len(a.value)
    BY <1>6, <1>7 DEF ArgumentsAsNamed
  <2>7. Len(a.value) \in Nat /\ \A i \in 1..Len(a.value) : IsValue(field.type, a.value[i])
    <3> HIDE DEF a, IsValue
    <3> QED
      BY <1>3, <1>5, <1>7 DEF IsArgument
  <2>8. Element = a.value[item + 1]
    BY <1>6, <1>7 DEF Element
  <2>9. item \in Nat
    BY DEF TypesInv
  <2>10. ASSUME item < Count PROVE IsValue(field.type, Element)
    <3>1. item + 1 \in 1..Len(a.value)
      BY <2>5, <2>6, <2>7, <2>9, <2>10
    <3> HIDE DEF a, IsValue
    <3> QED
      BY <2>7, <2>8, <3>1
  <2> QED
    BY <2>5, <2>10
<1>8. CASE ~ array
  <2>1. Count = 1 /\ Element = a.value
    BY <1>6, <1>8 DEF Count, Element
  <2>2. IsValue(field.type, a.value)
    <3> HIDE DEF a, IsValue
    <3> QED
      BY <1>3, <1>5, <1>8 DEF IsArgument
  <2> QED
    BY <2>1, <2>2
<1> QED
  BY <1>7, <1>8

\* The steps that only move the control.
LEMMA MovesKeepTypes ==
  ASSUME TypesInv, KindsInv', mstr_vformat \/ EndOfText \/ EndOfItems \/ mstr_format
  PROVE  TypesInv'
<1>1. PICK to \in {"returned", "scan", "left", "ended"}, res \in {ret, "MStr_Err_IndexTooLarge"} :
        Goto(to, res) /\ (to = "ended" => sink = "string")
  BY DEF mstr_vformat, EndOfText, EndOfItems, mstr_format
<1>2. UNCHANGED format_vars /\ pc \in {"entry", "scan", "convert", "returned"}
  BY DEF mstr_vformat, EndOfText, EndOfItems, mstr_format
<1>3. UNCHANGED <<place, args, sink, fmt, item, out, buff, written>>
  BY <1>2 DEF format_vars
<1>4. to \in FormatPoints /\ to \notin ValueLoaded /\ res \in FormatResults
  BY <1>1 DEF FormatPoints, ValueLoaded, FormatResults, TypesInv
<1>5. written = <<>>
  BY <1>2 DEF TypesInv, WrittenOK
<1>6. WrittenOK' /\ fmt' \in 1..(Len(text) + 1) /\ item' \in Nat /\ HasRoom(out') /\ HasRoom(buff')
  BY <1>3, <1>5 DEF TypesInv, WrittenOK
<1> QED
  BY <1>1, <1>3, <1>4, <1>6, GotoKeepsTypes

LEMMA ResultNames ==
  /\ {"MStr_Ok", "MStr_Err_IndexTooLarge", "MStr_Err_InvaildArgumentID", "MStr_Err_UnusedArgumentID",
      "MStr_Err_InvaildArgumentType", "MStr_Err_HeapTooSmall", "MStr_Err_UnicodeEncodingError",
      "MStr_Err_NoImplemention"} \subseteq FormatResults
  /\ ParserResults \subseteq FormatResults
BY DEF FormatResults, ParserResults

\* What every step but the ones of the parser keeps, if it keeps the strings as well.
LEMMA KeptParts ==
  ASSUME TypesInv
  PROVE  /\ ret \in FormatResults /\ Len(text) \in Nat
         /\ fmt \in 1..(Len(text) + 1) /\ item \in Nat
         /\ HasRoom(out) /\ HasRoom(buff)
         /\ pc \notin {"written", "ended"} => written = <<>>
  BY DEF TypesInv, WrittenOK

\* One more step of the output, at a point at which nothing has been written.
LEMMA OutputKeepsTypes ==
  ASSUME TypesInv, KindsInv', pc \notin {"written", "ended"},
         NEW grown, Grown(grown), NEW good \in FormatPoints, NEW bad \in FormatPoints,
         good \notin ValueLoaded, bad \notin ValueLoaded, Output(grown, good, bad),
         UNCHANGED <<place, args, sink, item, buff, written>>, fmt' \in 1..(Len(text) + 1)
  PROVE  TypesInv'
<1>1. /\ Goto(good, ret) \/ Goto(bad, "MStr_Err_HeapTooSmall")
      /\ HasRoom(out')
  BY OutputGrown DEF TypesInv
<1>2. ret \in FormatResults /\ "MStr_Err_HeapTooSmall" \in FormatResults
  BY KeptParts, ResultNames
<1>3. WrittenOK' /\ item' \in Nat /\ HasRoom(buff')
  BY KeptParts DEF WrittenOK
<1> QED
  BY <1>1, <1>2, <1>3, GotoKeepsTypes

LEMMA CharacterKeepsTypes ==
  ASSUME TypesInv, KindsInv', CopyCharacter \/ CopyEscaped
  PROVE  TypesInv'
<1>1. IsText(<<text[fmt]>>) /\ IsText(<<FirstChar>>)
  BY TextOf
<1>2. Grown(Appended(out, <<text[fmt]>>)) /\ Grown(Appended(out, <<FirstChar>>))
  BY <1>1, KeptParts, AppendedGrown
<1>3. pc \in {"scan", "value"} /\ UNCHANGED <<place, args, sink, item, buff, written>>
  BY DEF CopyCharacter, CopyEscaped
<1>4. "scan" \in FormatPoints /\ "scan" \notin ValueLoaded
  BY DEF FormatPoints, ValueLoaded
<1>5. CASE CopyEscaped
  <2>1. Output(Appended(out, <<FirstChar>>), "scan", "scan") /\ fmt' = fmt
    BY <1>5 DEF CopyEscaped
  <2> QED
    BY <1>2, <1>3, <1>4, <2>1, KeptParts, OutputKeepsTypes
<1>6. CASE CopyCharacter
  <2>1. fmt' \in 1..(Len(text) + 1)
    BY <1>6, KeptParts DEF CopyCharacter, GoesOn
  <2>2. CASE Output(Appended(out, <<text[fmt]>>), "scan", "scan")
    BY <1>2, <1>3, <1>4, <2>1, <2>2, OutputKeepsTypes
  <2>3. CASE Goto("scan", "MStr_Err_UnicodeEncodingError") /\ UNCHANGED <<out, blocks>>
    <3>1. "MStr_Err_UnicodeEncodingError" \in FormatResults
      BY ResultNames
    <3>2. WrittenOK' /\ item' \in Nat /\ HasRoom(buff') /\ HasRoom(out')
      BY <1>3, <2>3, KeptParts DEF WrittenOK
    <3> QED
      BY <1>3, <1>4, <2>1, <2>3, <3>1, <3>2, GotoKeepsTypes
  <2> QED
    BY <1>6, <2>2, <2>3 DEF CopyCharacter
<1> QED
  BY <1>5, <1>6

LEMMA StartKeepsTypes ==
  ASSUME TypesInv, KindsInv', StartField
  PROVE  TypesInv'
<1>1. /\ pc = "scan" /\ fmt <= Len(text) /\ ret = "MStr_Ok"
      /\ current' = fmt /\ token' = Accept("EOF", fmt, fmt) /\ stage' = {} /\ pc' = "goal"
      /\ field' = NoField /\ text' = text /\ ret' = ret /\ UNCHANGED format_vars
  BY DEF StartField, GoesOn
<1>2. token'.type = "EOF" /\ token'.beg = fmt /\ token'.len = 0
  BY <1>1, KeptParts DEF Accept
<1>3. Len(text) \in Nat /\ fmt \in 1..(Len(text) + 1)
  BY KeptParts
<1>4. FieldOK(field)'
  <2>1. FieldOK(NoField)'
    BY <1>1, NoFieldOK DEF FieldOK, ItemRecords, ListChars, SplitChars, FieldShape
  <2> QED
    BY <1>1, <2>1
<1>5. "EOF" \in TokenType
  BY DEF TokenType
<1>6. NamesBits(text, token)'
  BY <1>2 DEF NamesBits, QuatTokens
<1>7. current' \in Nat /\ current' <= Len(text)
  BY <1>1, <1>3
<1>8. /\ text' \in Seq(STRING) /\ token'.type \in TokenType /\ token'.beg \in 1..(Len(text') + 1)
      /\ token'.len \in Nat /\ current' = token'.beg + token'.len /\ current' <= Len(text') + 1
      /\ current' <= Len(text') + 2 /\ current' # Len(text') + 2
      /\ stage' \subseteq ParserStage /\ pc' = "goal" /\ ret' \in ParserResults
  BY <1>1, <1>2, <1>3, <1>5, <1>7 DEF TypesInv, ParserResults
<1>9. ParserInv'
  <2>1. pc' \in Running \cup Ended /\ pc' # "done"
    BY <1>8 DEF Running
  <2> HIDE DEF FieldOK, NamesBits, MayTakeNUL, ParserResults, Running, Ended
  <2> QED
    BY <1>4, <1>6, <1>8, <2>1 DEF ParserInv
<1>10. UNCHANGED <<fmt, args, place, item, out, buff, sink, written>>
  BY <1>1 DEF format_vars
<1>11. pc' \in Running /\ pc' \notin ValueLoaded /\ ret' \in FormatResults
  BY <1>1, KeptParts DEF Running, ValueLoaded
<1>12. WrittenOK'
  BY <1>1, <1>10, KeptParts DEF WrittenOK
<1> HIDE DEF IsArgument, HasRoom, KindsInv, WrittenOK, FieldOK, ParserInv, FormatPoints, FormatResults
<1> QED
  BY <1>1, <1>4, <1>9, <1>10, <1>11, <1>12 DEF TypesInv

LEMMA ParseKeepsTypes ==
  ASSUME TypesInv, KindsInv', Parse
  PROVE  TypesInv'
<1>1. ParserNext /\ UNCHANGED <<fmt, args, place, item, out, buff, sink, written>>
  BY DEF Parse, format_vars
<1>2. pc \in Running
  BY <1>1, ParserIsRunning
<1>3. ParserInv
  BY <1>2 DEF TypesInv
<1>4. ParserInv'
  BY <1>1, <1>3, EachStep DEF Good
<1>5. text' = text
  BY <1>1, TextStays
<1>6. FieldOK(field)' /\ text' \in Seq(STRING) /\ pc' \in Running \cup Ended /\ ret' \in ParserResults
  <2> HIDE DEF FieldOK
  <2> QED
    BY <1>4 DEF ParserInv
<1>7. ret' \in FormatResults
  BY <1>6, ResultNames
<1>8. pc' \notin ValueLoaded
  BY <1>6 DEF Running, Ended, ValueLoaded
<1>9. WrittenOK'
  <2>1. written = <<>>
    BY <1>2, KeptParts DEF Running
  <2> QED
    BY <1>1, <2>1 DEF WrittenOK
<1> HIDE DEF IsArgument, HasRoom, KindsInv, WrittenOK, FieldOK, ParserInv, FormatPoints, FormatResults
<1> QED
  BY <1>1, <1>4, <1>5, <1>6, <1>7, <1>8, <1>9 DEF TypesInv

LEMMA BracesEndInside ==
  ASSUME ParserInv, pc = "done"
  PROVE  current \in 1..(Len(text) + 1)
<1>1. token.type \in BraceTypes /\ "EOF" \notin BraceTypes
  BY DEF ParserInv, BraceTypes, Closers
<1>2. ~ MayTakeNUL(text, token.type)
  BY <1>1 DEF MayTakeNUL
<1> QED
  BY <1>2 DEF ParserInv

LEMMA FoundKeepsTypes ==
  ASSUME TypesInv, KindsInv', process_replacement_field
  PROVE  TypesInv'
<1>1. PICK to \in {"value", "scan"} : Goto(to, ret)
  BY DEF process_replacement_field
<1>2. UNCHANGED <<place, args, item, out, buff, sink, written>> /\ pc \in {"done", "failed"}
  BY DEF process_replacement_field
<1>3. fmt' \in 1..(Len(text) + 1)
  <2>1. CASE pc = "done"
    <3>1. ParserInv /\ fmt' = current
      BY <2>1 DEF TypesInv, Ended, process_replacement_field
    <3> QED
      BY <2>1, <3>1, BracesEndInside
  <2>2. CASE pc = "failed"
    BY <2>2, KeptParts DEF process_replacement_field
  <2> QED
    BY <1>2, <2>1, <2>2
<1>4. to \in FormatPoints /\ to \notin ValueLoaded
  BY <1>1 DEF FormatPoints, ValueLoaded
<1>5. WrittenOK' /\ item' \in Nat /\ HasRoom(out') /\ HasRoom(buff') /\ ret \in FormatResults
  BY <1>2, KeptParts DEF WrittenOK
<1> QED
  BY <1>1, <1>2, <1>3, <1>4, <1>5, GotoKeepsTypes

\* A load fails, or goes on to its point.
LEMMA LoadGoes ==
  ASSUME NEW id, NEW kind, NEW to, load_value(id, kind, to)
  PROVE  \/ \E res \in {"MStr_Err_InvaildArgumentID", "MStr_Err_UnusedArgumentID"} : Goto("scan", res)
         \/ Goto(to, ret)
<1>1. CASE id >= place
  <2>1. Goto("scan", "MStr_Err_InvaildArgumentID") \/ (id < place /\ Skipped(id))
    BY <1>1 DEF load_value
  <2>2. CASE id < place /\ Skipped(id)
    BY <1>1, <2>2 DEF load_value
  <2> QED
    BY <2>1, <2>2
<1>2. CASE ~(id >= place) /\ id < place /\ Skipped(id)
  BY <1>2 DEF load_value
<1>3. CASE ~(id >= place) /\ ~(id < place /\ Skipped(id))
  BY <1>3 DEF load_value
<1> QED
  BY <1>1, <1>2, <1>3

LEMMA LoadKeepsTypes ==
  ASSUME TypesInv, KindsInv', LoadValue \/ LoadLength
  PROVE  TypesInv'
<1>1. UNCHANGED <<fmt, place, args, item, out, buff, sink, written>> /\ pc \in {"value", "attach"}
  BY DEF LoadValue, LoadLength
<1>2. field.type # Unknown
  BY <1>1 DEF LoadValue, LoadLength, TypesInv, KindsInv, ArgumentsInv, FieldKnown, Fits, TypedPoints,
              ValueLoaded
<1>3. \E id, kind, to : to \in {"attach", "typed"} /\ load_value(id, kind, to)
  BY DEF LoadValue, LoadLength
<1>4. PICK to \in {"attach", "typed", "scan"},
           res \in {ret, "MStr_Err_InvaildArgumentID", "MStr_Err_UnusedArgumentID"} : Goto(to, res)
  BY <1>3, LoadGoes
<1>5. to \in FormatPoints /\ res \in FormatResults
  BY <1>4, KeptParts, ResultNames DEF FormatPoints
<1>6. WrittenOK' /\ fmt' \in 1..(Len(text) + 1) /\ item' \in Nat /\ HasRoom(out') /\ HasRoom(buff')
  BY <1>1, KeptParts DEF WrittenOK
<1> QED
  BY <1>1, <1>2, <1>4, <1>5, <1>6, GotoKeepsTypes

LEMMA CheckKeepsTypes ==
  ASSUME TypesInv, KindsInv', CheckType
  PROVE  TypesInv'
<1>1. UNCHANGED <<fmt, place, args, out, sink, written>> /\ pc = "typed"
  BY DEF CheckType
<1>2. field.type # Unknown
  BY <1>1 DEF TypesInv, ValueLoaded
<1>3. PICK to \in {"convert", "scan"}, res \in {ret, "MStr_Err_InvaildArgumentType"} : Goto(to, res)
  BY DEF CheckType
<1>4. to \in FormatPoints /\ res \in FormatResults
  BY <1>3, KeptParts, ResultNames DEF FormatPoints
<1>5. item' \in Nat /\ HasRoom(buff')
  <2>1. (buff' = EmptyString /\ item' = 0) \/ (buff' = buff /\ item' = item)
    BY DEF CheckType
  <2>2. HasRoom(EmptyString) /\ HasRoom(buff) /\ item \in Nat
    BY KeptParts, EmptyHasRoom
  <2> HIDE DEF HasRoom
  <2> QED
    BY <2>1, <2>2
<1>6. WrittenOK' /\ fmt' \in 1..(Len(text) + 1) /\ HasRoom(out')
  BY <1>1, KeptParts DEF WrittenOK
<1> QED
  BY <1>1, <1>2, <1>3, <1>4, <1>5, <1>6, GotoKeepsTypes

LEMMA ValueKeepsTypes ==
  ASSUME Bits <= 32, TypesInv, ArgumentsAsNamed, KindsInv', Convert \/ Separate
  PROVE  TypesInv'
<1>1. UNCHANGED <<fmt, place, args, out, sink, written>> /\ pc \in {"convert", "separate"}
  BY DEF Convert, Separate
<1>2. field.type # Unknown
  BY <1>1 DEF TypesInv, ValueLoaded
<1>3. WrittenOK' /\ fmt' \in 1..(Len(text) + 1) /\ HasRoom(out')
  BY <1>1, KeptParts DEF WrittenOK
<1>4. {"free", "separate", "convert"} \subseteq FormatPoints
  BY DEF FormatPoints
<1>5. CASE Convert
  <2> DEFINE c == convert(Element)
             next == IF item + 1 < Count THEN "separate" ELSE "convert"
  <2>1. /\ pc = "convert" /\ item < Count
        /\ IF c.err # "MStr_Ok"
           THEN Goto("free", c.err) /\ UNCHANGED <<buff, blocks, item>>
           ELSE \E r \in Appended(buff, c.chars) :
                  IF r = NoMemory
                  THEN Goto("free", "MStr_Err_HeapTooSmall") /\ UNCHANGED <<buff, blocks, item>>
                  ELSE /\ Goto(next, ret)
                       /\ buff' = r
                       /\ blocks' = blocks + Held(r) - Held(buff)
                       /\ item' = item + 1
    BY <1>5 DEF Convert
  <2>2. Result(c)
    <3>1. FieldOK(field)
      BY DEF TypesInv
    <3>2. IsValue(field.type, Element)
      BY <2>1, ValueFound
    <3> QED
      BY <1>2, <3>1, <3>2, ConvertYields
  <2> HIDE DEF c
  <2>3. c.err \in FormatResults /\ IsText(c.chars)
    BY <2>2 DEF Result
  <2>4. Grown(Appended(buff, c.chars))
    BY <2>3, KeptParts, AppendedGrown
  <2>5. next \in {"separate", "convert"}
    OBVIOUS
  <2> HIDE DEF next, Goto
  <2>6. /\ \/ Goto("free", c.err) \/ Goto("free", "MStr_Err_HeapTooSmall") \/ Goto(next, ret)
        /\ item' \in {item, item + 1} /\ HasRoom(buff')
    <3>1. CASE c.err # "MStr_Ok"
      BY <2>1, <3>1, KeptParts
    <3>2. CASE c.err = "MStr_Ok"
      <4>1. PICK r \in Appended(buff, c.chars) :
              IF r = NoMemory
              THEN Goto("free", "MStr_Err_HeapTooSmall") /\ UNCHANGED <<buff, blocks, item>>
              ELSE Goto(next, ret) /\ buff' = r /\ item' = item + 1
        BY <2>1, <3>2
      <4>2. r = NoMemory \/ HasRoom(r)
        BY <2>4 DEF Grown
      <4>3. CASE r = NoMemory
        BY <4>1, <4>3, KeptParts
      <4>4. CASE r # NoMemory
        <5>1. Goto(next, ret) /\ buff' = r /\ item' = item + 1 /\ HasRoom(r)
          BY <4>1, <4>2, <4>4
        <5> QED
          BY <5>1
      <4> QED
        BY <4>3, <4>4
    <3> QED
      BY <3>1, <3>2
  <2>7. item' \in Nat
    BY <2>6, KeptParts
  <2>8. ret \in FormatResults /\ "MStr_Err_HeapTooSmall" \in FormatResults
    BY KeptParts, ResultNames
  <2>9. \E to \in {"free", "separate", "convert"} : \E res \in FormatResults : Goto(to, res)
    <3> HIDE DEF FormatResults
    <3> QED
      BY <2>3, <2>5, <2>6, <2>8
  <2> QED
    BY <1>1, <1>2, <1>3, <1>4, <2>6, <2>7, <2>9, GotoKeepsTypes
<1>6. CASE Separate
  <2> HIDE DEF Goto
  <2>1. PICK r \in Concatenated(buff, field.split) :
          IF r = NoMemory
          THEN Goto("free", "MStr_Err_HeapTooSmall") /\ UNCHANGED <<buff, blocks>>
          ELSE Goto("convert", ret) /\ buff' = r
    BY <1>6 DEF Separate
  <2>2. IsText(field.split)
    BY DEF TypesInv, FieldOK, IsText
  <2>3. Grown(Concatenated(buff, field.split))
    BY <2>2, KeptParts, AppendedGrown
  <2>4. r = NoMemory \/ HasRoom(r)
    BY <2>3 DEF Grown
  <2>5. /\ Goto("free", "MStr_Err_HeapTooSmall") \/ Goto("convert", ret)
        /\ HasRoom(buff')
    <3>1. CASE r = NoMemory
      BY <2>1, <3>1, KeptParts
    <3>2. CASE r # NoMemory
      <4>1. Goto("convert", ret) /\ buff' = r /\ HasRoom(r)
        BY <2>1, <2>4, <3>2
      <4> QED
        BY <4>1
    <3> QED
      BY <3>1, <3>2
  <2>6. item' \in Nat
    BY <1>6, KeptParts DEF Separate
  <2>7. ret \in FormatResults /\ "MStr_Err_HeapTooSmall" \in FormatResults
    BY KeptParts, ResultNames
  <2> QED
    BY <1>1, <1>2, <1>3, <1>4, <2>5, <2>6, <2>7, GotoKeepsTypes
<1> QED
  BY <1>5, <1>6

\* The characters that are missing are a number on either side.
LEMMA MissingAreNumbers ==
  ASSUME TypesInv
  PROVE  MissingLeft \in Nat /\ Missing - MissingLeft \in Nat
<1> DEFINE n == Len(buff.chars)
           w == field.width
           m == Missing
           half == m \div 2
<1>1. n \in Nat
  BY TextLength DEF TypesInv, HasRoom
<1>2. w \in Int
  <2>1. PlaceMaxWidth \in Nat /\ w \in -1..(PlaceMaxWidth - 1)
    BY ParserAssumption DEF TypesInv, FieldOK
  <2> HIDE DEF w
  <2> QED
    BY <2>1
<1>3. m \in Nat
  <2>1. m = IF w > n THEN w - n ELSE 0
    BY DEF Missing
  <2> HIDE DEF w, n, m
  <2> QED
    BY <1>1, <1>2, <2>1
<1>4. field.align \in {"Left", "Right", "Center"}
  BY DEF TypesInv, FieldOK, Align, AlignOf, AlignTokens
<1>5. MissingLeft \in {0, m, half}
  <2>1. CASE field.align = "Left"
    BY <2>1 DEF MissingLeft
  <2>2. CASE field.align = "Right"
    BY <2>2 DEF MissingLeft
  <2>3. CASE field.align = "Center"
    BY <2>3 DEF MissingLeft
  <2> QED
    BY <1>4, <2>1, <2>2, <2>3
<1> DEFINE l == MissingLeft
<1>6. l \in {0, m, m \div 2}
  BY <1>5
<1> HIDE DEF m, l
<1>7. l \in Nat /\ m - l \in Nat
  BY <1>3, <1>6
<1> QED
  BY <1>7 DEF l, m

LEMMA CopyKeepsTypes ==
  ASSUME TypesInv, KindsInv', FillLeft \/ CopyText \/ FillRight
  PROVE  TypesInv'
<1> DEFINE c == field.fill
           l == MissingLeft
           r == Missing - MissingLeft
           left == Appended(out, [i \in 1..l |-> c])
           right == Appended(out, [i \in 1..r |-> c])
           copied == Concatenated(out, buff.chars)
<1>1. l \in Nat /\ r \in Nat
  BY MissingAreNumbers
<1>2. UNCHANGED <<fmt, place, args, item, buff, sink, written>> /\ pc \in {"left", "copy", "right"}
  BY DEF FillLeft, CopyText, FillRight
<1>3. \/ Output(left, "copy", "free")
      \/ Output(copied, "right", "free")
      \/ Output(right, "free", "free")
  BY DEF FillLeft, CopyText, FillRight
<1>4. IsText(buff.chars)
  BY DEF TypesInv, HasRoom
<1> HIDE DEF c, l, r
<1>5. IsText([i \in 1..l |-> c]) /\ IsText([i \in 1..r |-> c])
  BY <1>1, TextRepeated
<1>6. Grown(left) /\ Grown(right) /\ Grown(copied)
  BY <1>4, <1>5, KeptParts, AppendedGrown
<1> HIDE DEF left, right, copied
<1>7. {"copy", "right", "free"} \subseteq FormatPoints /\ {"copy", "right", "free"} \cap ValueLoaded = {}
  BY DEF FormatPoints, ValueLoaded
<1>8. fmt' \in 1..(Len(text) + 1) /\ pc \notin {"written", "ended"}
  BY <1>2, KeptParts
<1> QED
  BY <1>2, <1>3, <1>6, <1>7, <1>8, OutputKeepsTypes

LEMMA EndKeepsTypes ==
  ASSUME TypesInv, KindsInv', FreeBuff \/ io_write \/ mstr_iovformat
  PROVE  TypesInv'
<1>1. UNCHANGED <<fmt, place, args, item, sink>>
  BY DEF FreeBuff, io_write, mstr_iovformat
<1>2. PICK to \in {"scan", "written", "ended"}, res \in {ret, "MStr_Ok", "MStr_Err_NoImplemention"} :
        Goto(to, res)
  BY DEF FreeBuff, io_write, mstr_iovformat
<1>3. to \in FormatPoints /\ to \notin ValueLoaded /\ res \in FormatResults
  BY <1>2, KeptParts, ResultNames DEF FormatPoints, ValueLoaded
<1>4. out' \in {out, EmptyString} /\ buff' \in {buff, EmptyString}
  BY DEF FreeBuff, io_write, mstr_iovformat
<1>5. HasRoom(out') /\ HasRoom(buff')
  <2>1. HasRoom(out) /\ HasRoom(buff) /\ HasRoom(EmptyString)
    BY KeptParts, EmptyHasRoom
  <2> HIDE DEF HasRoom
  <2> QED
    BY <1>4, <2>1
<1>6. fmt' \in 1..(Len(text) + 1) /\ item' \in Nat
  BY <1>1, KeptParts
<1>7. WrittenOK'
  <2>1. CASE FreeBuff
    BY <2>1, KeptParts DEF FreeBuff, WrittenOK
  <2>2. CASE io_write
    BY <2>2 DEF io_write, WrittenOK, Goto
  <2>3. CASE mstr_iovformat
    BY <2>3 DEF mstr_iovformat, WrittenOK, Goto, TypesInv
  <2> QED
    BY <2>1, <2>2, <2>3
<1> QED
  BY <1>1, <1>2, <1>3, <1>5, <1>6, <1>7, GotoKeepsTypes

LEMMA TypesNext ==
  ASSUME Bits <= 32
  PROVE  TypesInv /\ ArgumentsAsNamed /\ [Next]_printing_vars => TypesInv'
<1> SUFFICES ASSUME TypesInv, ArgumentsAsNamed, [Next]_printing_vars PROVE TypesInv'
  OBVIOUS
<1>1. KindsInv'
  BY KindsNext DEF TypesInv
<1>2. CASE UNCHANGED printing_vars
  <2>1. UNCHANGED <<text, current, token, stage, pc, field, ret, fmt, place, args, item, out, buff,
                    sink, written>>
    BY <1>2 DEF printing_vars, vars, parser_vars, format_vars
  <2>2. FieldOK(field)'
    BY <2>1 DEF TypesInv, FieldOK, ItemRecords, ListChars, SplitChars, FieldShape
  <2>3. ParserInv => ParserInv'
    BY <2>1, <2>2 DEF ParserInv, MayTakeNUL, NamesPointType, NamesBits, At
  <2>4. WrittenOK'
    BY <2>1 DEF TypesInv, WrittenOK
  <2> HIDE DEF IsArgument, HasRoom, KindsInv, WrittenOK, FieldOK, ParserInv, FormatPoints, FormatResults
  <2> QED
    BY <1>1, <2>1, <2>2, <2>3, <2>4 DEF TypesInv
<1>3. CASE Next
  <2>1. CASE mstr_vformat \/ EndOfText \/ EndOfItems \/ mstr_format
    BY <1>1, <2>1, MovesKeepTypes
  <2>2. CASE CopyCharacter \/ CopyEscaped
    BY <1>1, <2>2, CharacterKeepsTypes
  <2>3. CASE StartField
    BY <1>1, <2>3, StartKeepsTypes
  <2>4. CASE Parse
    BY <1>1, <2>4, ParseKeepsTypes
  <2>5. CASE process_replacement_field
    BY <1>1, <2>5, FoundKeepsTypes
  <2>6. CASE LoadValue \/ LoadLength
    BY <1>1, <2>6, LoadKeepsTypes
  <2>7. CASE CheckType
    BY <1>1, <2>7, CheckKeepsTypes
  <2>8. CASE Convert \/ Separate
    BY <1>1, <2>8, ValueKeepsTypes
  <2>9. CASE FillLeft \/ CopyText \/ FillRight
    BY <1>1, <2>9, CopyKeepsTypes
  <2>10. CASE FreeBuff \/ io_write \/ mstr_iovformat
    BY <1>1, <2>10, EndKeepsTypes
  <2> QED
    BY <1>3, <2>1, <2>2, <2>3, <2>4, <2>5, <2>6, <2>7, <2>8, <2>9, <2>10 DEF Next, FormatNext
<1> QED
  BY <1>2, <1>3

LEMMA TypesImplied == TypesInv => FormatTypeOK
<1> SUFFICES ASSUME TypesInv PROVE FormatTypeOK
  OBVIOUS
<1>1. taken \in 0..Len(args)
  BY DEF TypesInv, KindsInv, ArgumentsInv, ArgumentsReadInOrder
<1>2. Len(out.chars) < out.cap /\ Len(buff.chars) < buff.cap
  BY DEF TypesInv, HasRoom
<1>3. written # <<>> => sink = "io" /\ pc \in {"written", "ended"}
  BY DEF TypesInv, WrittenOK
<1> HIDE DEF FormatPoints, FormatResults, Running, Ended
<1> QED
  BY <1>1, <1>2, <1>3 DEF FormatTypeOK, TypesInv

\* With the words of the code, and a caller who passes what the text names: the loop stays
\* within its text, the arguments that it takes within those that were passed, each string
\* keeps room for its terminator, whatever is converted into it and whichever allocation
\* fails, and the callback is given nothing before the end.
THEOREM FormatKeepsTypes ==
  ASSUME Bits <= 32
  PROVE  Spec /\ []ArgumentsAsNamed => []FormatTypeOK
<1>1. TypesInv /\ ArgumentsAsNamed /\ [Next]_printing_vars => TypesInv'
  BY TypesNext
<1> QED
  BY <1>1, TypesStart, TypesImplied, PTL DEF Spec

--------------------------------------------------------------------------------
(* The outcome of a call.                                                      *)

\* The points to which an error leads, and those behind the loop.
Failing == {"failed", "scan", "free", "returned", "written", "ended"}

AfterLoop == {"returned", "written", "ended"}

\* The inductive invariant: an error leads out of the loop, and without one the loop ends
\* at the end of the text.
OutcomeInv ==
  /\ ret # "MStr_Ok" => pc \in Failing
  /\ pc \in AfterLoop => ~GoesOn
  /\ pc = "written" => sink = "io"

\* A step that prints nothing, and whose error, if it has one, is the first.
Silent ==
  /\ UNCHANGED <<text, fmt, out, sink, written>>
  /\ pc' \notin AfterLoop
  /\ \/ ret = "MStr_Ok" /\ (ret' = ret \/ pc' \in Failing)
     \/ ret' = ret /\ pc' \in Failing

LEMMA SilentKeepsOutcome ==
  ASSUME OutcomeInv, Silent
  PROVE  OutcomeInv' /\ (ret # "MStr_Ok" => ret' = ret)
BY DEF OutcomeInv, Silent, Failing, AfterLoop, GoesOn

\* The parser sets an error when it fails, and only then.
LEMMA ParserFails == ParserNext => ret' = ret \/ pc' = "failed"
<1>1. \A s, to, f : parser_next_token(s, to, f) => ret' = ret \/ pc' = "failed"
  BY DEF parser_next_token
<1>2. \A to, f : Skip(to, f) => ret' = ret
  BY DEF Skip
<1>3. \A err : Fail(err) => pc' = "failed"
  BY DEF Fail
<1>4. parse_format_spec \/ (\E to : Sign(to)) => ret' = ret \/ pc' = "failed"
  BY <1>1, <1>3 DEF parse_format_spec, Sign
<1>5. mstr_fmt_parse_goal \/ EscapeChar \/ parse_replacement_field \/ parse_arg_id \/ parse_arg_type =>
        ret' = ret \/ pc' = "failed"
  BY <1>1, <1>2, <1>3 DEF mstr_fmt_parse_goal, EscapeChar, parse_replacement_field, parse_arg_id,
       parse_arg_type
<1>6. parse_opt_split_chars \/ parse_split_chars \/ parse_opt_formatfield_spec =>
        ret' = ret \/ pc' = "failed"
  BY <1>1, <1>2, <1>3 DEF parse_opt_split_chars, parse_split_chars, parse_opt_formatfield_spec
<1>7. parse_opt_items \/ parse_align \/ parse_opt_sign => ret' = ret \/ pc' = "failed"
  BY <1>1, <1>2, <1>4 DEF parse_opt_items, parse_align, parse_opt_sign
<1>8. parse_opt_width \/ parse_opt_format_chrono_spec => ret' = ret \/ pc' = "failed"
  BY <1>1, <1>2, <1>3, <1>4 DEF parse_opt_width, parse_opt_format_chrono_spec
<1>9. parse_chrono_spec \/ parse_chrono_spec_item \/ ChronoSplit \/ parse_end_token =>
        ret' = ret \/ pc' = "failed"
  BY <1>1, <1>2, <1>3 DEF parse_chrono_spec, parse_chrono_spec_item, ChronoSplit, parse_end_token
<1> QED
  BY <1>5, <1>6, <1>7, <1>8, <1>9 DEF ParserNext

\* Steps within a field that print nothing.
LEMMA SilentSteps ==
  ASSUME OutcomeInv,
         \/ Parse \/ StartField \/ LoadValue \/ LoadLength \/ CheckType
         \/ Convert \/ Separate \/ EndOfItems \/ FreeBuff
  PROVE  Silent
<1>1. CASE Parse
  <2>1. ParserNext /\ UNCHANGED <<fmt, out, sink, written>>
    BY <1>1 DEF Parse, format_vars
  <2>2. text' = text /\ pc \in Running /\ pc' \in Running \cup Ended /\ (ret' = ret \/ pc' = "failed")
    BY <2>1, TextStays, ParserIsRunning, ParserStaysInside, ParserFails
  <2>3. pc \notin Failing /\ pc' \notin AfterLoop
    BY <2>2 DEF Running, Ended, Failing, AfterLoop
  <2>4. ret = "MStr_Ok"
    BY <2>3 DEF OutcomeInv
  <2>5. "failed" \in Failing
    BY DEF Failing
  <2> QED
    BY <2>1, <2>2, <2>3, <2>4, <2>5 DEF Silent
<1>2. CASE StartField
  BY <1>2 DEF StartField, GoesOn, Silent, format_vars, Failing, AfterLoop
<1>3. CASE LoadValue \/ LoadLength
  <2>1. UNCHANGED <<fmt, out, sink, written>> /\ pc \in {"value", "attach"}
    BY <1>3 DEF LoadValue, LoadLength
  <2>2. \E id, kind, to : to \in {"attach", "typed"} /\ load_value(id, kind, to)
    BY <1>3 DEF LoadValue, LoadLength
  <2>3. \/ \E res : Goto("scan", res)
        \/ \E to \in {"attach", "typed"} : Goto(to, ret)
    BY <2>2, LoadGoes
  <2>4. ret = "MStr_Ok" /\ pc \notin Failing
    BY <2>1 DEF OutcomeInv, Failing
  <2> QED
    BY <2>1, <2>3, <2>4 DEF Silent, Goto, Failing, AfterLoop
<1>4. CASE CheckType
  BY <1>4 DEF CheckType, Goto, Silent, OutcomeInv, Failing, AfterLoop
<1>5. CASE Convert
  <2>1. UNCHANGED <<fmt, out, sink, written>> /\ pc = "convert"
    BY <1>5 DEF Convert
  <2>2. \/ \E res : Goto("free", res)
        \/ \E to \in {"separate", "convert"} : Goto(to, ret)
    BY <1>5 DEF Convert
  <2>3. ret = "MStr_Ok" /\ pc \notin Failing
    BY <2>1 DEF OutcomeInv, Failing
  <2> QED
    BY <2>1, <2>2, <2>3 DEF Silent, Goto, Failing, AfterLoop
<1>6. CASE Separate
  BY <1>6 DEF Separate, Goto, Silent, OutcomeInv, Failing, AfterLoop
<1>7. CASE EndOfItems
  BY <1>7 DEF EndOfItems, OutcomeInv, Goto, Silent, format_vars, Failing, AfterLoop
<1>8. CASE FreeBuff
  BY <1>8 DEF FreeBuff, Goto, Silent, Failing, AfterLoop
<1> QED
  BY <1>1, <1>2, <1>3, <1>4, <1>5, <1>6, <1>7, <1>8

\* A step that only moves on.
MovesOn ==
  \/ mstr_vformat \/ process_replacement_field \/ EndOfText \/ mstr_format

LEMMA MovesKeepOutcome ==
  ASSUME OutcomeInv, MovesOn
  PROVE  /\ OutcomeInv'
         /\ ret # "MStr_Ok" => ret' = ret
         /\ UNCHANGED <<out, sink, written>>
<1>1. CASE mstr_vformat
  BY <1>1 DEF mstr_vformat, Goto, OutcomeInv, Failing, AfterLoop, GoesOn, format_vars
<1>2. CASE process_replacement_field
  BY <1>2 DEF process_replacement_field, Goto, OutcomeInv, Failing, AfterLoop, GoesOn
<1>3. CASE EndOfText
  BY <1>3 DEF EndOfText, Goto, OutcomeInv, Failing, AfterLoop, GoesOn, format_vars
<1>4. CASE mstr_format
  BY <1>4 DEF mstr_format, Goto, OutcomeInv, Failing, AfterLoop, GoesOn, format_vars
<1> QED
  BY <1>1, <1>2, <1>3, <1>4 DEF MovesOn

\* A step that prints into the string of the call, if nothing has failed.
Prints ==
  \E grown, good, bad :
    /\ Output(grown, good, bad)
    /\ good \in {"scan", "copy", "right", "free"}
    /\ bad \in {"scan", "free"}
    /\ \/ grown = Appended(out, <<text[fmt]>>)
       \/ grown = Appended(out, <<FirstChar>>)
       \/ grown = Appended(out, [i \in 1..MissingLeft |-> field.fill])
       \/ grown = Appended(out, [i \in 1..(Missing - MissingLeft) |-> field.fill])
       \/ grown = Concatenated(out, buff.chars)

LEMMA PrintingSteps ==
  ASSUME OutcomeInv, CopyCharacter \/ CopyEscaped \/ FillLeft \/ CopyText \/ FillRight
  PROVE  /\ Prints \/ (Goto("scan", "MStr_Err_UnicodeEncodingError") /\ UNCHANGED <<out, blocks>>)
         /\ ret = "MStr_Ok"
         /\ UNCHANGED <<sink, written>>
<1>1. CASE CopyCharacter
  BY <1>1 DEF CopyCharacter, GoesOn, Prints
<1>2. CASE CopyEscaped
  BY <1>2 DEF CopyEscaped, OutcomeInv, Failing, Prints
<1>3. CASE FillLeft
  BY <1>3 DEF FillLeft, OutcomeInv, Failing, Prints
<1>4. CASE CopyText
  BY <1>4 DEF CopyText, OutcomeInv, Failing, Prints
<1>5. CASE FillRight
  BY <1>5 DEF FillRight, OutcomeInv, Failing, Prints
<1> QED
  BY <1>1, <1>2, <1>3, <1>4, <1>5

LEMMA OutputGoes ==
  ASSUME NEW grown, NEW good, NEW bad, Output(grown, good, bad)
  PROVE  \/ Goto(good, ret) /\ out' \in grown
         \/ Goto(bad, "MStr_Err_HeapTooSmall") /\ out' = out
BY DEF Output

LEMMA PrintingKeepsOutcome ==
  ASSUME OutcomeInv, CopyCharacter \/ CopyEscaped \/ FillLeft \/ CopyText \/ FillRight
  PROVE  OutcomeInv'
<1>1. \/ \E good \in {"scan", "copy", "right", "free"} : Goto(good, ret)
      \/ \E bad \in {"scan", "free"} : \E res : Goto(bad, res)
  BY PrintingSteps, OutputGoes DEF Prints
<1>2. ret = "MStr_Ok" /\ UNCHANGED sink
  BY PrintingSteps
<1> QED
  BY <1>1, <1>2 DEF Goto, OutcomeInv, Failing, AfterLoop

\* The end of mstr_ioformat.
LEMMA CallbackKeepsOutcome ==
  ASSUME OutcomeInv, io_write \/ mstr_iovformat
  PROVE  /\ OutcomeInv'
         /\ sink = "io"
         /\ ret # "MStr_Ok" => ret' = ret /\ written' = written
<1>1. CASE io_write
  BY <1>1 DEF io_write, Goto, OutcomeInv, Failing, AfterLoop, GoesOn
<1>2. CASE mstr_iovformat
  BY <1>2 DEF mstr_iovformat, Goto, OutcomeInv, Failing, AfterLoop, GoesOn
<1> QED
  BY <1>1, <1>2

LEMMA OutcomeInit == Init => OutcomeInv
BY DEF Init, FormatStart, OutcomeInv, AfterLoop

\* The actions of a call.
LEMMA CallSteps ==
  ASSUME Next
  PROVE  \/ Parse \/ StartField \/ LoadValue \/ LoadLength \/ CheckType
         \/ Convert \/ Separate \/ EndOfItems \/ FreeBuff
         \/ MovesOn
         \/ CopyCharacter \/ CopyEscaped \/ FillLeft \/ CopyText \/ FillRight
         \/ io_write \/ mstr_iovformat
BY DEF Next, FormatNext, MovesOn

LEMMA OutcomeNext == OutcomeInv /\ [Next]_printing_vars => OutcomeInv'
<1> SUFFICES ASSUME OutcomeInv, [Next]_printing_vars PROVE OutcomeInv'
  OBVIOUS
<1>1. CASE UNCHANGED printing_vars
  BY <1>1 DEF printing_vars, vars, parser_vars, format_vars, OutcomeInv, GoesOn
<1>2. CASE Next
  BY <1>2, CallSteps, SilentSteps, SilentKeepsOutcome, MovesKeepOutcome, PrintingKeepsOutcome,
     CallbackKeepsOutcome
<1> QED
  BY <1>1, <1>2

LEMMA ErrorStays ==
  ASSUME OutcomeInv, [Next]_printing_vars, ret # "MStr_Ok"
  PROVE  ret' = ret /\ Printed' = Printed
<1>1. CASE UNCHANGED printing_vars
  BY <1>1 DEF printing_vars, vars, parser_vars, format_vars, Printed
<1>2. CASE \/ Parse \/ StartField \/ LoadValue \/ LoadLength \/ CheckType
           \/ Convert \/ Separate \/ EndOfItems \/ FreeBuff
  BY <1>2, SilentSteps, SilentKeepsOutcome DEF Silent, Printed
<1>3. CASE MovesOn
  BY <1>3, MovesKeepOutcome DEF Printed
<1>4. CASE CopyCharacter \/ CopyEscaped \/ FillLeft \/ CopyText \/ FillRight
  BY <1>4, PrintingSteps
<1>5. CASE io_write \/ mstr_iovformat
  <2>1. sink = "io" /\ sink' = sink
    BY <1>5, CallbackKeepsOutcome DEF io_write, mstr_iovformat
  <2> QED
    BY <1>5, <2>1, CallbackKeepsOutcome DEF Printed
<1> QED
  BY <1>1, <1>2, <1>3, <1>4, <1>5, CallSteps

\* Whatever a format string says and whichever step of its call fails: the first error is
\* the one that is reported, and behind it nothing is printed.
THEOREM FormatReportsFirstError == Spec => FirstErrorReported
<1>1. OutcomeInv /\ [Next]_printing_vars =>
        [ret # "MStr_Ok" => ret' = ret /\ Printed' = Printed]_printing_vars
  BY ErrorStays
<1> QED
  BY <1>1, OutcomeInit, OutcomeNext, PTL DEF Spec, FirstErrorReported

--------------------------------------------------------------------------------
(* What a call prints.                                                         *)

LEMMA PrefixOfJoined ==
  ASSUME NEW s, NEW t, IsText(s), IsText(t)
  PROVE  IsPrefix(s, s \o t)
<1>1. PICK S : s \in Seq(S)
  BY DEF IsText
<1>2. PICK T : t \in Seq(T)
  BY DEF IsText
<1> DEFINE U == S \cup T
<1>3. s \in Seq(U) /\ t \in Seq(U)
  BY <1>1, <1>2
<1> HIDE DEF U
<1> DEFINE j == s \o t
           n == Len(s)
<1>4. j \in Seq(U) /\ n \in Nat /\ n <= Len(j) /\ \A i \in 1..n : j[i] = s[i]
  BY <1>3, ConcatProperties, LenProperties
<1> HIDE DEF j
<1>5. SubSeq(s, 1, n) = SubSeq(j, 1, n)
  BY <1>3, <1>4
<1> QED
  BY <1>4, <1>5 DEF IsPrefix, j

LEMMA PrefixOfText ==
  ASSUME NEW s, IsText(s)
  PROVE  IsPrefix(s, s) /\ IsPrefix(<<>>, s)
<1>1. Len(s) \in Nat
  BY TextLength
<1>2. Len(s) <= Len(s) /\ 0 <= Len(s) /\ Len(<<>>) = 0
  BY <1>1
<1>3. SubSeq(<<>>, 1, 0) = SubSeq(s, 1, 0)
  OBVIOUS
<1> QED
  BY <1>2, <1>3 DEF IsPrefix

\* A string that has grown has the characters that were added behind its own.
Extended(rs, s, c) == \A r \in rs : r = NoMemory \/ r.chars = s.chars \o c

LEMMA AddedExtended ==
  ASSUME NEW s, HasRoom(s), NEW c, NEW spare
  PROVE  Extended(Added(s, c, spare), s, c)
<1> DEFINE t == s.chars
           k == s.cap
           j == t \o c
           longer == [s EXCEPT !.chars = @ \o c]
           big == Resized(k, Len(c))
<1>1. longer = [chars |-> j, cap |-> k] /\ [longer EXCEPT !.cap = big] = [chars |-> j, cap |-> big]
  <2>1. s = [chars |-> t, cap |-> k]
    BY DEF HasRoom
  <2>2. longer = [s EXCEPT !.chars = j]
    OBVIOUS
  <2> HIDE DEF t, k, j, big, longer
  <2>3. longer = [chars |-> j, cap |-> k]
    BY <2>1, <2>2
  <2> QED
    BY <2>3
<1>2. Added(s, c, spare) \subseteq {longer, [longer EXCEPT !.cap = big], NoMemory}
  BY DEF Added
<1> HIDE DEF longer, big, j, t, k
<1>3. \A r \in Added(s, c, spare) : r = NoMemory \/ r.chars = j
  BY <1>1, <1>2
<1> QED
  BY <1>3 DEF Extended, j, t

LEMMA JoinedNothing ==
  ASSUME NEW s, IsText(s)
  PROVE  s \o <<>> = s /\ <<>> \o s = s
<1>1. PICK S : s \in Seq(S)
  BY DEF IsText
<1> QED
  BY <1>1, ConcatEmptySeq

LEMMA AppendedExtended ==
  ASSUME NEW s, HasRoom(s), NEW c
  PROVE  Extended(Appended(s, c), s, c) /\ Extended(Concatenated(s, c), s, c)
<1>1. Extended(Added(s, c, 1), s, c) /\ Extended(Added(s, c, 0), s, c)
  BY AddedExtended
<1>2. ASSUME c = <<>> PROVE Extended({s}, s, c)
  BY <1>2, JoinedNothing DEF Extended, HasRoom
<1> QED
  BY <1>1, <1>2 DEF Appended, Concatenated

\* It begins with what it was.
Longer(rs, s) == \A r \in rs : r = NoMemory \/ IsPrefix(s.chars, r.chars)

LEMMA AppendedLonger ==
  ASSUME NEW s, HasRoom(s), NEW c, IsText(c)
  PROVE  Longer(Appended(s, c), s) /\ Longer(Concatenated(s, c), s)
<1>1. Extended(Appended(s, c), s, c) /\ Extended(Concatenated(s, c), s, c)
  BY AppendedExtended
<1>2. IsPrefix(s.chars, s.chars \o c)
  BY PrefixOfJoined DEF HasRoom
<1> QED
  BY <1>1, <1>2 DEF Extended, Longer

LEMMA PrintsLonger ==
  ASSUME TypesInv, Prints
  PROVE  IsPrefix(out.chars, out'.chars)
<1>1. HasRoom(out) /\ HasRoom(buff)
  BY DEF TypesInv
<1>2. IsText(out.chars) /\ IsText(buff.chars)
  BY <1>1 DEF HasRoom
<1> DEFINE c == field.fill
           l == MissingLeft
           r == Missing - MissingLeft
<1>3. l \in Nat /\ r \in Nat
  BY MissingAreNumbers
<1> HIDE DEF c, l, r
<1>4. /\ IsText(<<text[fmt]>>) /\ IsText(<<FirstChar>>)
      /\ IsText([i \in 1..l |-> c]) /\ IsText([i \in 1..r |-> c])
  BY <1>3, TextOf, TextRepeated
<1>5. /\ Longer(Appended(out, <<text[fmt]>>), out) /\ Longer(Appended(out, <<FirstChar>>), out)
      /\ Longer(Appended(out, [i \in 1..l |-> c]), out)
      /\ Longer(Appended(out, [i \in 1..r |-> c]), out)
      /\ Longer(Concatenated(out, buff.chars), out)
  BY <1>1, <1>2, <1>4, AppendedLonger
<1>6. PICK grown, good, bad :
        /\ Output(grown, good, bad)
        /\ \/ grown = Appended(out, <<text[fmt]>>)
           \/ grown = Appended(out, <<FirstChar>>)
           \/ grown = Appended(out, [i \in 1..l |-> c])
           \/ grown = Appended(out, [i \in 1..r |-> c])
           \/ grown = Concatenated(out, buff.chars)
  BY DEF Prints, l, r, c
<1>7. Longer(grown, out)
  BY <1>5, <1>6
<1>8. PICK g \in grown :
        IF g = NoMemory THEN UNCHANGED out ELSE out' = g
  BY <1>6 DEF Output
<1>9. CASE g = NoMemory
  BY <1>2, <1>8, <1>9, PrefixOfText
<1>10. CASE g # NoMemory
  BY <1>7, <1>8, <1>10 DEF Longer
<1> QED
  BY <1>9, <1>10

\* One step.
Forward ==
  Printed' # Printed =>
    /\ IsPrefix(Printed, Printed')
    /\ sink = "io" => Printed = <<>> /\ fmt > Len(text) /\ ret = "MStr_Ok"

LEMMA EachPrintsForward ==
  ASSUME TypesInv, OutcomeInv, [Next]_printing_vars
  PROVE  Forward
<1>1. CASE UNCHANGED printing_vars
  BY <1>1 DEF printing_vars, vars, parser_vars, format_vars, Printed, Forward
<1>2. CASE \/ Parse \/ StartField \/ LoadValue \/ LoadLength \/ CheckType
           \/ Convert \/ Separate \/ EndOfItems \/ FreeBuff
  BY <1>2, SilentSteps DEF Silent, Printed, Forward
<1>3. CASE MovesOn
  BY <1>3, MovesKeepOutcome DEF Printed, Forward
<1>4. CASE CopyCharacter \/ CopyEscaped \/ FillLeft \/ CopyText \/ FillRight
  <2>1. UNCHANGED <<sink, written>> /\ (Prints \/ UNCHANGED out)
    BY <1>4, PrintingSteps
  <2>2. Prints => IsPrefix(out.chars, out'.chars)
    BY PrintsLonger
  <2> QED
    BY <2>1, <2>2 DEF Printed, Forward
<1>5. CASE mstr_iovformat
  <2>1. sink = "io" /\ UNCHANGED <<sink, written>>
    BY <1>5, CallbackKeepsOutcome DEF mstr_iovformat
  <2> QED
    BY <2>1 DEF Printed, Forward
<1>6. CASE io_write
  <2>1. /\ pc = "returned" /\ sink = "io" /\ sink' = sink /\ ret = "MStr_Ok" /\ written' = out.chars
    BY <1>6 DEF io_write
  <2>2. written = <<>> /\ IsText(out.chars)
    BY <2>1 DEF TypesInv, WrittenOK, HasRoom
  <2>3. fmt > Len(text)
    <3>1. ~(fmt <= Len(text))
      BY <2>1 DEF OutcomeInv, AfterLoop, GoesOn
    <3>2. fmt \in 1..(Len(text) + 1) /\ text \in Seq(STRING)
      BY DEF TypesInv
    <3> QED
      BY <3>1, <3>2
  <2>4. IsPrefix(<<>>, out.chars)
    BY <2>2, PrefixOfText
  <2> QED
    BY <2>1, <2>2, <2>3, <2>4 DEF Printed, Forward
<1> QED
  BY <1>1, <1>2, <1>3, <1>4, <1>5, <1>6, CallSteps

\* Whatever a caller passes that is as the text names it: what a call has printed stays and
\* is only printed behind, and a callback gets all of it, once, when the whole text has
\* been read.
THEOREM FormatPrintsForward ==
  ASSUME Bits <= 32
  PROVE  Spec /\ []ArgumentsAsNamed => PrintsForward
<1>1. TypesInv /\ ArgumentsAsNamed /\ [Next]_printing_vars => TypesInv'
  BY TypesNext
<1>2. TypesInv /\ OutcomeInv /\ [Next]_printing_vars => [Forward]_printing_vars
  BY EachPrintsForward
<1> QED
  BY <1>1, <1>2, TypesStart, OutcomeInit, OutcomeNext, PTL DEF Spec, PrintsForward, Forward

\* A call that succeeds has gone through the whole of its text.
THEOREM FormatReadsToTheEnd ==
  ASSUME Bits <= 32
  PROVE  Spec /\ []ArgumentsAsNamed => []ReadsToTheEnd
<1>1. TypesInv /\ ArgumentsAsNamed /\ [Next]_printing_vars => TypesInv'
  BY TypesNext
<1>2. TypesInv /\ OutcomeInv => ReadsToTheEnd
  <2> SUFFICES ASSUME TypesInv, OutcomeInv, pc = "ended", ret = "MStr_Ok" PROVE fmt = Len(text) + 1
    BY DEF ReadsToTheEnd
  <2>1. ~(fmt <= Len(text))
    BY DEF OutcomeInv, AfterLoop, GoesOn
  <2>2. fmt \in 1..(Len(text) + 1) /\ text \in Seq(STRING)
    BY DEF TypesInv
  <2> QED
    BY <2>1, <2>2
<1> QED
  BY <1>1, <1>2, TypesStart, OutcomeInit, OutcomeNext, PTL DEF Spec

--------------------------------------------------------------------------------
(* Texts one behind the other.                                                 *)

LEMMA FirstTextsGrow ==
  ASSUME NEW n \in Nat, \A i \in 1..(n + 1) : IsText(ElementText(i))
  PROVE  FirstTexts(n + 1) = FirstTexts(n) \o ElementText(n + 1)
<1> DEFINE s == [i \in 1..n |-> ElementText(i)]
           t == [i \in 1..(n + 1) |-> ElementText(i)]
<1>1. \A i \in 1..n : i \in 1..(n + 1)
  OBVIOUS
<1>2. AllTexts(s, n) /\ AllTexts(t, n + 1)
  <2> HIDE DEF ElementText
  <2> QED
    BY <1>1 DEF AllTexts
<1>3. (\A i \in 1..n : s[i] = t[i]) /\ t[n + 1] = ElementText(n + 1)
  <2> HIDE DEF ElementText
  <2> QED
    BY <1>1
<1> HIDE DEF s, t
<1>4. FlattenSeq(t) = FlattenSeq(s) \o t[n + 1]
  BY <1>2, <1>3, FlattenedGrows
<1>5. FirstTexts(n + 1) = FlattenSeq(t) /\ FirstTexts(n) = FlattenSeq(s)
  BY DEF FirstTexts, s, t
<1> QED
  BY <1>3, <1>4, <1>5

LEMMA NoTexts == FirstTexts(0) = <<>>
<1> DEFINE s == [i \in 1..0 |-> ElementText(i)]
<1>1. s = <<>>
  <2>1. 1..0 = {}
    OBVIOUS
  <2> QED
    BY <2>1
<1>2. Len(<<>>) = 0
  OBVIOUS
<1> HIDE DEF s
<1>3. FlattenSeq(s) = s
  BY <1>1, <1>2 DEF FlattenSeq
<1> QED
  BY <1>1, <1>3 DEF FirstTexts, s

--------------------------------------------------------------------------------
(* What a field prints.                                                        *)

\* Each value of a field is of its type, not only the next one.
LEMMA ValuesFound ==
  ASSUME TypesInv, ArgumentsAsNamed, pc = "convert"
  PROVE  /\ Count \in Nat
         /\ \A i \in 1..Count :
              IsValue(field.type, IF field.class = "Array" THEN Argument(field.id)[i] ELSE Argument(field.id))
<1> DEFINE array == field.class = "Array"
           k == KindOf(field.type, array)
           a == args[field.id + 1]
           b == args[field.id + 2]
<1>1. KindsKnown /\ TypesAgree /\ field.id < taken /\ (array => field.id + 1 < taken)
  BY DEF TypesInv, KindsInv, Mistaken, ValueLoaded, LengthLoaded
<1>2. field.id \in Nat /\ field.id + 1 \in Nat /\ (field.id + 1) + 1 = field.id + 2
  BY DEF TypesInv, KindsInv, ArgumentsInv, FieldKnown, Fits
<1>3. cache[field.id].arg = field.id + 1 /\ a.kind = cache[field.id].kind /\ IsArgument(a)
  BY <1>1, <1>2, TakenArgument
<1>4. a.kind = k
  BY <1>1, <1>3 DEF TypesAgree
<1>5. a.kind.ele = field.type /\ a.kind.array = array
  BY <1>4 DEF KindOf
<1>6. Argument(field.id) = a.value
  BY <1>3 DEF Argument
<1>7. CASE array
  <2>1. Count \in Nat
    BY ValueFound
  <2>2. Count <= Len(a.value)
    BY <1>6, <1>7 DEF ArgumentsAsNamed
  <2>3. Len(a.value) \in Nat /\ \A i \in 1..Len(a.value) : IsValue(field.type, a.value[i])
    <3> HIDE DEF a, IsValue
    <3> QED
      BY <1>3, <1>5, <1>7 DEF IsArgument
  <2>4. \A i \in 1..Count : i \in 1..Len(a.value)
    <3> DEFINE n == Count
               m == Len(a.value)
    <3>1. n \in Nat /\ m \in Nat /\ n <= m
      BY <2>1, <2>2, <2>3
    <3> HIDE DEF n, m
    <3>2. \A i \in 1..n : i \in 1..m
      BY <3>1
    <3> QED
      BY <3>2 DEF n, m
  <2> HIDE DEF a, IsValue
  <2> QED
    BY <1>6, <1>7, <2>1, <2>3, <2>4
<1>8. CASE ~ array
  <2>1. IsValue(field.type, a.value)
    <3> HIDE DEF a, IsValue
    <3> QED
      BY <1>3, <1>5, <1>8 DEF IsArgument
  <2> HIDE DEF a, IsValue
  <2> QED
    BY <1>6, <1>8, <2>1, ValueFound
<1> QED
  BY <1>7, <1>8

\* All texts of a field are texts, whether they have been converted yet or not.
LEMMA ElementsAreTexts ==
  ASSUME Bits <= 32, TypesInv, ArgumentsAsNamed, pc = "convert"
  PROVE  \A i \in 1..Count : IsText(ElementText(i))
<1> SUFFICES ASSUME NEW i \in 1..Count PROVE IsText(ElementText(i))
  OBVIOUS
<1> DEFINE v == IF field.class = "Array" THEN Argument(field.id)[i] ELSE Argument(field.id)
           c == convert(v)
           d == IF i < Count THEN field.split ELSE <<>>
<1>1. IsValue(field.type, v)
  BY ValuesFound
<1>2. FieldOK(field) /\ field.type # Unknown
  BY DEF TypesInv, ValueLoaded
<1> HIDE DEF v
<1>3. Result(c)
  BY <1>1, <1>2, ConvertYields
<1> HIDE DEF c
<1>4. IsText(c.chars)
  BY <1>3 DEF Result
<1>5. IsText(field.split)
  BY <1>2 DEF FieldOK, IsText
<1>6. IsText(d)
  BY <1>5, TextOf
<1> HIDE DEF d
<1>7. IsText(c.chars \o d)
  BY <1>4, <1>6, TextsJoined
<1>8. ElementText(i) = c.chars \o d
  BY DEF ElementText, c, d, v
<1> QED
  BY <1>7, <1>8

\* What the texts and the padding of a field are made of.
FieldParts == <<field, args, cache>>

LEMMA TextsStay ==
  ASSUME UNCHANGED FieldParts
  PROVE  /\ Count' = Count
         /\ \A n : FirstTexts(n)' = FirstTexts(n)
<1>1. field' = field /\ args' = args /\ cache' = cache
  BY DEF FieldParts
<1>2. Count' = Count
  BY <1>1 DEF Count, Argument
<1>3. \A i : ElementText(i)' = ElementText(i)
  BY <1>1, <1>2 DEF ElementText, Argument, convert
<1>4. \A n : FirstTexts(n)' = FirstTexts(n)
  BY <1>3 DEF FirstTexts
<1> QED
  BY <1>2, <1>4

LEMMA PaddingStays ==
  ASSUME UNCHANGED <<field, buff>>
  PROVE  MissingLeft' = MissingLeft /\ Missing' = Missing
BY DEF MissingLeft, Missing

\* The manual's alignment is that of the code.
LEMMA AlignedParts ==
  ASSUME TypesInv
  PROVE  Aligned(buff.chars, field) =
           ([i \in 1..MissingLeft |-> field.fill] \o buff.chars)
             \o [i \in 1..(Missing - MissingLeft) |-> field.fill]
<1>1. field.align \in {"Left", "Right", "Center"}
  BY DEF TypesInv, FieldOK, Align, AlignOf, AlignTokens
<1> DEFINE left == CASE field.align = "Left" -> 0
                     [] field.align = "Right" -> Missing
                     [] OTHER -> Missing \div 2
<1>2. MissingLeft = left
  <2>1. CASE field.align = "Left"
    BY <2>1 DEF MissingLeft
  <2>2. CASE field.align = "Right"
    BY <2>2 DEF MissingLeft
  <2>3. CASE field.align = "Center"
    BY <2>3 DEF MissingLeft
  <2> QED
    BY <1>1, <2>1, <2>2, <2>3
<1>3. Aligned(buff.chars, field) =
        Filled(left, field.fill) \o buff.chars \o Filled(Missing - left, field.fill)
  BY DEF Aligned, Missing
<1> HIDE DEF left
<1> QED
  BY <1>2, <1>3 DEF Filled

\* What has been printed, and what has been put together of the values, at each point of
\* a field.
FieldInv ==
  /\ IsText(earlier)
  /\ pc \in {"attach", "typed", "convert", "separate", "left"} => out.chars = earlier
  /\ pc = "convert" => (item = 0 \/ item <= Count) /\ buff.chars = FirstTexts(item)
  /\ pc = "separate" => item <= Count /\ buff.chars \o field.split = FirstTexts(item)
  /\ pc \in {"left", "copy", "right"} => buff.chars = FirstTexts(Count)
  /\ pc = "copy" => out.chars = earlier \o [i \in 1..MissingLeft |-> field.fill]
  /\ pc = "right" =>
       out.chars = (earlier \o [i \in 1..MissingLeft |-> field.fill]) \o buff.chars
  /\ FieldPrinted

FieldPoints == {"attach", "typed", "convert", "separate", "left", "copy", "right", "free"}

\* Outside of a field there is nothing to keep.
LEMMA OutsideKeepsField ==
  ASSUME FieldInv, TypesInv, earlier' \in {earlier, out.chars}, pc' \notin FieldPoints
  PROVE  FieldInv'
<1>1. IsText(earlier)'
  BY DEF FieldInv, TypesInv, HasRoom
<1> QED
  BY <1>1 DEF FieldInv, FieldPoints, FieldPrinted

\* A step that fails leads to the end of the field.
LEMMA FailureKeepsField ==
  ASSUME FieldInv, TypesInv, earlier' \in {earlier, out.chars}, pc' = "free", ret' # "MStr_Ok"
  PROVE  FieldInv'
<1>1. IsText(earlier)'
  BY DEF FieldInv, TypesInv, HasRoom
<1> QED
  BY <1>1 DEF FieldInv, FieldPrinted

LEMMA LoadKeepsField ==
  ASSUME FieldInv, TypesInv, LoadValue \/ LoadLength,
         earlier' = IF pc = "value" THEN out.chars ELSE earlier
  PROVE  FieldInv'
<1>1. UNCHANGED out /\ pc \in {"value", "attach"}
  BY DEF LoadValue, LoadLength
<1>2. \E id, kind, to : to \in {"attach", "typed"} /\ load_value(id, kind, to)
  BY DEF LoadValue, LoadLength
<1>3. pc' \in {"scan", "attach", "typed"}
  BY <1>2, LoadGoes DEF Goto
<1>4. out.chars = earlier'
  BY <1>1 DEF FieldInv
<1>5. IsText(earlier)'
  BY <1>4 DEF TypesInv, HasRoom
<1> QED
  BY <1>1, <1>3, <1>4, <1>5 DEF FieldInv, FieldPrinted

LEMMA CheckKeepsField ==
  ASSUME FieldInv, TypesInv, CheckType, UNCHANGED earlier
  PROVE  FieldInv'
<1>1. pc = "typed" /\ UNCHANGED out
  BY DEF CheckType
<1>2. CASE Goto("scan", "MStr_Err_InvaildArgumentType")
  BY <1>2, OutsideKeepsField DEF Goto, FieldPoints
<1>3. CASE Goto("convert", ret) /\ buff' = EmptyString /\ item' = 0
  <2>1. UNCHANGED FieldParts
    BY <1>3 DEF CheckType, Goto, FieldParts
  <2>2. FirstTexts(0)' = <<>>
    BY <2>1, TextsStay, NoTexts
  <2>3. buff'.chars = FirstTexts(item)'
    BY <1>3, <2>2 DEF EmptyString, FirstTexts
  <2>4. pc' = "convert" /\ out'.chars = earlier'
    BY <1>1, <1>3 DEF Goto, FieldInv
  <2> QED
    BY <1>3, <2>3, <2>4 DEF FieldInv, FieldPrinted
<1> QED
  BY <1>2, <1>3 DEF CheckType

LEMMA ConvertKeepsField ==
  ASSUME Bits <= 32, FieldInv, TypesInv, ArgumentsAsNamed, Convert, UNCHANGED earlier
  PROVE  FieldInv'
<1> DEFINE c == convert(Element)
           last == item + 1
           rest == IF last < Count THEN field.split ELSE <<>>
           next == IF last < Count THEN "separate" ELSE "convert"
<1>1. pc = "convert" /\ item < Count /\ UNCHANGED out /\ field' = field
  BY DEF Convert, Goto
<1>2. \/ Goto("free", c.err) /\ c.err # "MStr_Ok"
      \/ Goto("free", "MStr_Err_HeapTooSmall")
      \/ \E r \in Appended(buff, c.chars) :
           r # NoMemory /\ Goto(next, ret) /\ buff' = r /\ item' = item + 1
  BY DEF Convert
<1>3. CASE \/ Goto("free", c.err) /\ c.err # "MStr_Ok"
           \/ Goto("free", "MStr_Err_HeapTooSmall")
  BY <1>3, FailureKeepsField DEF Goto
<1>4. CASE \E r \in Appended(buff, c.chars) :
             r # NoMemory /\ Goto(next, ret) /\ buff' = r /\ item' = item + 1
  <2>1. ElementText(last) = c.chars \o rest
    BY DEF ElementText, Element
  <2>2. Count \in Nat /\ item \in Nat /\ HasRoom(buff)
    BY <1>1, ValueFound DEF TypesInv
  <2>3. \A i \in 1..last : i \in 1..Count
    <3> DEFINE n == Count
               m == item
    <3>1. n \in Nat /\ m \in Nat /\ m < n
      BY <1>1, <2>2
    <3> HIDE DEF n, m
    <3>2. \A i \in 1..(m + 1) : i \in 1..n
      BY <3>1
    <3> QED
      BY <3>2 DEF n, m
  <2>4. \A i \in 1..last : IsText(ElementText(i))
    BY <1>1, <2>3, ElementsAreTexts
  <2>5. FirstTexts(last) = FirstTexts(item) \o ElementText(last)
    BY <2>2, <2>4, FirstTextsGrow
  <2>6. buff.chars = FirstTexts(item) /\ out.chars = earlier
    BY <1>1 DEF FieldInv
  <2>7. IsText(c.chars) /\ IsText(buff.chars) /\ IsText(field.split)
    <3>1. Result(c)
      <4>1. FieldOK(field) /\ field.type # Unknown
        BY <1>1 DEF TypesInv, ValueLoaded
      <4>2. IsValue(field.type, Element)
        BY <1>1, ValueFound
      <4> QED
        BY <4>1, <4>2, ConvertYields
    <3>2. IsText(field.split)
      BY DEF TypesInv, FieldOK, IsText
    <3> HIDE DEF c
    <3> QED
      BY <2>2, <3>1, <3>2 DEF Result, HasRoom
  <2>8. buff'.chars = buff.chars \o c.chars /\ pc' = next /\ item' = last
    BY <1>4, <2>2, AppendedExtended DEF Extended, Goto
  <2>9. UNCHANGED FieldParts
    BY <1>1 DEF Convert, FieldParts
  <2>10. Count' = Count /\ FirstTexts(item)' = FirstTexts(last)
    <3>1. Count' = Count
      BY <2>9, TextsStay
    <3>2. FirstTexts(item)' = FirstTexts(last)
      BY <1>4, <2>9, TextsStay DEF FirstTexts
    <3> QED
      BY <3>1, <3>2
  <2> HIDE DEF c
  <2>11. CASE last < Count
    <3>1. rest = field.split /\ next = "separate"
      BY <2>11
    <3>2. buff'.chars \o field.split = FirstTexts(last)
      <4>1. (buff.chars \o c.chars) \o field.split = buff.chars \o (c.chars \o field.split)
        <5> DEFINE x == buff.chars
                   y == c.chars
                   z == field.split
        <5>1. IsText(x) /\ IsText(y) /\ IsText(z)
          BY <2>7
        <5> HIDE DEF x, y, z
        <5>2. (x \o y) \o z = x \o (y \o z)
          BY <5>1, JoinedThrice
        <5> QED
          BY <5>2 DEF x, y, z
      <4> HIDE DEF last, rest, next
      <4> QED
        BY <2>1, <2>5, <2>6, <2>8, <3>1, <4>1
    <3>3. /\ pc' = "separate" /\ item' <= Count' /\ out'.chars = earlier'
          /\ (buff.chars \o field.split)' = FirstTexts(item)'
      BY <1>1, <2>2, <2>6, <2>8, <2>10, <2>11, <3>1, <3>2
    <3> QED
      BY <3>3 DEF FieldInv, FieldPrinted
  <2>12. CASE ~ (last < Count)
    <3>1. rest = <<>> /\ next = "convert"
      BY <2>12
    <3>2. buff'.chars = FirstTexts(last)
      BY <2>1, <2>5, <2>6, <2>7, <2>8, <3>1, JoinedNothing
    <3>3. item' <= Count'
      BY <1>1, <2>2, <2>8, <2>10
    <3>4. pc' = "convert" /\ out'.chars = earlier' /\ buff'.chars = FirstTexts(item)'
      BY <1>1, <2>6, <2>8, <2>10, <3>1, <3>2
    <3> QED
      BY <3>3, <3>4 DEF FieldInv, FieldPrinted
  <2> QED
    BY <2>11, <2>12
<1> QED
  BY <1>2, <1>3, <1>4

LEMMA SeparateKeepsField ==
  ASSUME FieldInv, TypesInv, Separate, UNCHANGED earlier
  PROVE  FieldInv'
<1>1. pc = "separate" /\ UNCHANGED <<out, item, field>>
  BY DEF Separate, Goto
<1>2. \/ Goto("free", "MStr_Err_HeapTooSmall")
      \/ \E r \in Concatenated(buff, field.split) : r # NoMemory /\ Goto("convert", ret) /\ buff' = r
  BY DEF Separate
<1>3. CASE Goto("free", "MStr_Err_HeapTooSmall")
  BY <1>3, FailureKeepsField DEF Goto
<1>4. CASE \E r \in Concatenated(buff, field.split) : r # NoMemory /\ Goto("convert", ret) /\ buff' = r
  <2>1. HasRoom(buff)
    BY DEF TypesInv
  <2>2. buff'.chars = buff.chars \o field.split /\ pc' = "convert"
    BY <1>4, <2>1, AppendedExtended DEF Extended, Goto
  <2>3. UNCHANGED FieldParts
    BY <1>1 DEF Separate, FieldParts
  <2>4. Count' = Count /\ FirstTexts(item)' = FirstTexts(item)
    BY <1>1, <2>3, TextsStay DEF FirstTexts
  <2>5. item <= Count /\ out.chars = earlier /\ buff.chars \o field.split = FirstTexts(item)
    BY <1>1 DEF FieldInv
  <2>6. item' <= Count' /\ out'.chars = earlier' /\ buff'.chars = FirstTexts(item)'
    BY <1>1, <2>2, <2>4, <2>5
  <2> QED
    BY <2>2, <2>6 DEF FieldInv, FieldPrinted
<1> QED
  BY <1>2, <1>3, <1>4

LEMMA EndKeepsField ==
  ASSUME FieldInv, TypesInv, ArgumentsAsNamed, EndOfItems, UNCHANGED earlier
  PROVE  FieldInv'
<1>1. /\ pc = "convert" /\ item >= Count /\ pc' = "left" /\ field' = field
      /\ UNCHANGED <<out, buff, args, cache>>
  BY DEF EndOfItems, Goto, format_vars
<1>2. item = Count
  <2>1. Count \in Nat /\ item \in Nat /\ (item = 0 \/ item <= Count)
    BY <1>1, ValueFound DEF TypesInv, FieldInv
  <2> DEFINE n == Count
  <2>2. n \in Nat /\ item \in Nat /\ (item = 0 \/ item <= n) /\ item >= n
    BY <1>1, <2>1
  <2> HIDE DEF n
  <2>3. item = n
    BY <2>2
  <2> QED
    BY <2>3 DEF n
<1>3. buff.chars = FirstTexts(Count) /\ out.chars = earlier
  BY <1>1, <1>2 DEF FieldInv
<1>4. FirstTexts(Count)' = FirstTexts(Count)
  BY <1>1, TextsStay DEF FieldParts, FirstTexts
<1>5. buff'.chars = FirstTexts(Count)' /\ out'.chars = earlier'
  BY <1>1, <1>3, <1>4
<1> QED
  BY <1>1, <1>5 DEF FieldInv, FieldPrinted

LEMMA OutputExtended ==
  ASSUME NEW grown, NEW c, Extended(grown, out, c), NEW good, NEW bad, Output(grown, good, bad)
  PROVE  \/ Goto(good, ret) /\ out'.chars = out.chars \o c
         \/ Goto(bad, "MStr_Err_HeapTooSmall")
<1>1. PICK r \in grown :
        IF r = NoMemory THEN Goto(bad, "MStr_Err_HeapTooSmall") ELSE Goto(good, ret) /\ out' = r
  BY DEF Output
<1> HIDE DEF Goto
<1>2. r = NoMemory \/ r.chars = out.chars \o c
  BY DEF Extended
<1> QED
  BY <1>1, <1>2

LEMMA CopyKeepsField ==
  ASSUME FieldInv, TypesInv, FillLeft \/ CopyText \/ FillRight, UNCHANGED earlier
  PROVE  FieldInv'
<1> DEFINE l == [i \in 1..MissingLeft |-> field.fill]
           r == [i \in 1..(Missing - MissingLeft) |-> field.fill]
           b == buff.chars
           e == earlier
<1>1. HasRoom(out) /\ UNCHANGED <<buff, args, cache>>
  BY DEF TypesInv, FillLeft, CopyText, FillRight
<1>2. \/ pc = "left" /\ Output(Appended(out, l), "copy", "free")
      \/ pc = "copy" /\ Output(Concatenated(out, b), "right", "free")
      \/ pc = "right" /\ Output(Appended(out, r), "free", "free")
  BY DEF FillLeft, CopyText, FillRight
<1>3. b = FirstTexts(Count)
  BY <1>2 DEF FieldInv
<1> HIDE DEF l, r, b
<1>4. \/ Goto("free", "MStr_Err_HeapTooSmall")
      \/ pc = "left" /\ Goto("copy", ret) /\ out'.chars = out.chars \o l
      \/ pc = "copy" /\ Goto("right", ret) /\ out'.chars = out.chars \o b
      \/ pc = "right" /\ Goto("free", ret) /\ out'.chars = out.chars \o r
  BY <1>1, <1>2, AppendedExtended, OutputExtended
<1>5. CASE Goto("free", "MStr_Err_HeapTooSmall")
  BY <1>5, FailureKeepsField DEF Goto
<1>6. CASE \/ pc = "left" /\ Goto("copy", ret) /\ out'.chars = out.chars \o l
           \/ pc = "copy" /\ Goto("right", ret) /\ out'.chars = out.chars \o b
           \/ pc = "right" /\ Goto("free", ret) /\ out'.chars = out.chars \o r
  <2>1. field' = field
    BY <1>6 DEF Goto
  <2>2. Count' = Count /\ FirstTexts(Count)' = FirstTexts(Count)
    BY <1>1, <2>1, TextsStay DEF FieldParts, FirstTexts
  <2>3. l' = l /\ b' = b /\ e' = e /\ b' = FirstTexts(Count)'
    BY <1>1, <1>3, <2>1, <2>2, PaddingStays DEF l, b
  <2>4. CASE pc = "left" /\ Goto("copy", ret) /\ out'.chars = out.chars \o l
    <3>1. out.chars = e
      BY <2>4 DEF FieldInv
    <3>2. pc' = "copy" /\ out'.chars = e' \o l'
      BY <2>3, <2>4, <3>1 DEF Goto
    <3> QED
      BY <2>3, <3>2 DEF FieldInv, FieldPrinted, l, b
  <2>5. CASE pc = "copy" /\ Goto("right", ret) /\ out'.chars = out.chars \o b
    <3>1. out.chars = e \o l
      BY <2>5 DEF FieldInv, l
    <3>2. pc' = "right" /\ out'.chars = (e' \o l') \o b'
      BY <2>3, <2>5, <3>1 DEF Goto
    <3> QED
      BY <2>3, <3>2 DEF FieldInv, FieldPrinted, l, b
  <2>6. CASE pc = "right" /\ Goto("free", ret) /\ out'.chars = out.chars \o r
    <3>1. out.chars = (e \o l) \o b
      BY <2>6 DEF FieldInv, l, b
    <3>2. IsText(l) /\ IsText(r) /\ IsText(b) /\ IsText(e)
      BY MissingAreNumbers, TextRepeated DEF l, r, b, TypesInv, HasRoom, FieldInv
    <3>3. ((e \o l) \o b) \o r = e \o ((l \o b) \o r)
      <4>1. IsText(l \o b)
        BY <3>2, TextsJoined
      <4>2. (e \o l) \o b = e \o (l \o b)
        BY <3>2, JoinedThrice
      <4>3. (e \o (l \o b)) \o r = e \o ((l \o b) \o r)
        BY <3>2, <4>1, JoinedThrice
      <4> HIDE DEF e
      <4> QED
        BY <4>2, <4>3
    <3>4. Aligned(b, field) = (l \o b) \o r
      BY AlignedParts DEF l, b, r
    <3>5. out'.chars = e \o Aligned(b, field)
      BY <2>6, <3>1, <3>3, <3>4
    <3>6. Aligned(b, field) = Aligned(FirstTexts(Count), field)'
      BY <2>1, <2>3 DEF Aligned
    <3>7. pc' = "free" /\ out'.chars = earlier' \o Aligned(FirstTexts(Count), field)'
      BY <2>3, <2>6, <3>5, <3>6 DEF Goto
    <3> QED
      BY <2>3, <3>7 DEF FieldInv, FieldPrinted
  <2> QED
    BY <1>6, <2>4, <2>5, <2>6
<1> QED
  BY <1>4, <1>5, <1>6

LEMMA FieldInit == Init => FieldInv
BY TextOf DEF Init, FormatStart, FieldInv, FieldPrinted

LEMMA FieldNext ==
  ASSUME Bits <= 32
  PROVE  FieldInv /\ TypesInv /\ ArgumentsAsNamed /\ [Next]_printing_vars => FieldInv'
<1> SUFFICES ASSUME FieldInv, TypesInv, ArgumentsAsNamed, [Next]_printing_vars PROVE FieldInv'
  OBVIOUS
<1>1. CASE UNCHANGED printing_vars
  <2>1. UNCHANGED <<pc, ret, field, args, cache, item, out, buff, earlier>>
    BY <1>1 DEF printing_vars, vars, parser_vars, format_vars
  <2>2. Count' = Count /\ FirstTexts(item)' = FirstTexts(item)
        /\ FirstTexts(Count)' = FirstTexts(Count) /\ MissingLeft' = MissingLeft
    BY <2>1, TextsStay, PaddingStays DEF FieldParts, FirstTexts
  <2>3. Aligned(FirstTexts(Count), field)' = Aligned(FirstTexts(Count), field)
    BY <2>1, <2>2 DEF Aligned
  <2>4. FieldPrinted'
    BY <2>1, <2>3 DEF FieldInv, FieldPrinted
  <2> HIDE DEF FieldPrinted
  <2> QED
    BY <2>1, <2>2, <2>4 DEF FieldInv
<1>2. CASE Next
  <2>1. earlier' = IF pc = "value" THEN out.chars ELSE earlier
    BY <1>2 DEF Next
  <2>2. earlier' \in {earlier, out.chars} /\ (pc # "value" => earlier' = earlier)
    BY <2>1
  <2>3. CASE LoadValue \/ LoadLength
    BY <2>1, <2>3, LoadKeepsField
  <2>4. CASE CheckType
    BY <2>2, <2>4, CheckKeepsField DEF CheckType
  <2>5. CASE Convert
    BY <2>2, <2>5, ConvertKeepsField DEF Convert
  <2>6. CASE Separate
    BY <2>2, <2>6, SeparateKeepsField DEF Separate
  <2>7. CASE EndOfItems
    BY <2>2, <2>7, EndKeepsField DEF EndOfItems
  <2>8. CASE FillLeft \/ CopyText \/ FillRight
    BY <2>2, <2>8, CopyKeepsField DEF FillLeft, CopyText, FillRight
  <2>9. CASE Parse
    <3>1. pc' \in Running \cup Ended
      BY <2>9, ParserStaysInside DEF Parse
    <3>2. FieldPoints \subseteq FormatPoints
      BY DEF FieldPoints, FormatPoints
    <3> HIDE DEF FieldPoints, FormatPoints, Running, Ended
    <3> QED
      BY <2>2, <3>1, <3>2, PointsApart, OutsideKeepsField
  <2>10. CASE CopyCharacter \/ CopyEscaped
    <3>1. \/ \E grown : Output(grown, "scan", "scan")
          \/ Goto("scan", "MStr_Err_UnicodeEncodingError")
      BY <2>10 DEF CopyCharacter, CopyEscaped
    <3>2. pc' = "scan"
      BY <3>1, OutputGoes DEF Goto
    <3> QED
      BY <2>2, <3>2, OutsideKeepsField DEF FieldPoints
  <2>11. CASE \/ mstr_vformat \/ StartField \/ process_replacement_field \/ FreeBuff
              \/ EndOfText \/ mstr_format \/ io_write \/ mstr_iovformat
    <3>1. pc' \notin FieldPoints
      BY <2>11 DEF mstr_vformat, StartField, process_replacement_field, FreeBuff, EndOfText,
                   mstr_format, io_write, mstr_iovformat, Goto, FieldPoints
    <3> QED
      BY <2>2, <3>1, OutsideKeepsField
  <2> QED
    BY <1>2, <2>3, <2>4, <2>5, <2>6, <2>7, <2>8, <2>9, <2>10, <2>11 DEF Next, FormatNext
<1> QED
  BY <1>1, <1>2

\* Whatever a field asks for, be it one value or a list of any length, and whatever its fill,
\* alignment and width: if nothing fails, it adds to the output the texts of its values
\* as the manual aligns them, and leaves alone what stood there before.
THEOREM FormatPrintsFields ==
  ASSUME Bits <= 32
  PROVE  Spec /\ []ArgumentsAsNamed => []FieldPrinted
<1>1. TypesInv /\ ArgumentsAsNamed /\ [Next]_printing_vars => TypesInv'
  BY TypesNext
<1>2. FieldInv /\ TypesInv /\ ArgumentsAsNamed /\ [Next]_printing_vars => FieldInv'
  BY FieldNext
<1>3. FieldInv => FieldPrinted
  BY DEF FieldInv
<1> QED
  BY <1>1, <1>2, <1>3, TypesStart, FieldInit, PTL DEF Spec
================================================================================
