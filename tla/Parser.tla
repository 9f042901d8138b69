-------------------------------- MODULE Parser --------------------------------
(***************************************************************************)
(* The parser of MtFmT's format strings (src/src/mm_parser.c): one call of *)
(* mstr_fmt_parse_goal, which reads one replacement field, or an escaped   *)
(* brace, from the beginning of a format string.                           *)
(*                                                                         *)
(* The functions of the parser do not call themselves, so where a call     *)
(* stands is one variable, pc: it names what is parsed next.  Each action  *)
(* is one function, up to the token it reads.                              *)
(***************************************************************************)
EXTENDS Lexer

CONSTANTS
  Texts,           \* the format strings
  Word,            \* 2^32, the number of values of uint32_t
  PlaceMaxWidth,   \* MFMT_PLACE_MAX_WIDTH
  ChronoPlaceMax   \* MFMT_CHRONO_PLACE_MAX_NUM

ASSUME ParserAssumption ==
  /\ Texts \subseteq Seq(STRING)
  /\ \A t \in Texts : \A p \in 1..Len(t) : t[p] # NUL
  /\ Word \in Nat \ {0}
  /\ PlaceMaxWidth \in Nat
  /\ ChronoPlaceMax \in Nat /\ ChronoPlaceMax >= 8   \* so many are in %f

VARIABLES
  text,      \* the format string; it does not change
  current,   \* the place where the next token begins
  token,     \* the current token
  stage,     \* what the lexer is told to look for
  pc,        \* what is parsed next
  field,     \* what has been found: the MStrFmtParseResult
  ret        \* the result of the call

parser_vars == <<text, current, token, stage, pc, field, ret>>

Running ==
  {"goal", "replacement", "arg_id", "arg_type", "split", "split_chars", "spec", "items",
   "align", "sign", "width", "format", "chrono", "chrono_split", "end"}

\* A call returns, or it has looked behind the end of its text, where anything may
\* follow.
Ended == {"done", "failed", "lost"}

ParserResults ==
  {"MStr_Ok", "MStr_Err_UnrecognizedToken", "MStr_Err_MissingReplacement",
   "MStr_Err_MissingRightBrace", "MStr_Err_MissingArgumentID",
   "MStr_Err_MissingArgumentType", "MStr_Err_UnsupportFormatType",
   "MStr_Err_MissingChronoItemType", "MStr_Err_TooMoreChronoItem", "MStr_Err_WidthTooLarge"}

ArgClass == {"Value", "Array", "EscapeChar"}

Unknown == "Unknown"

\* The types that an argument can have, by the token that names them.
ArgTypeOf ==
  [Type_Int8 |-> "Int8", Type_Int16 |-> "Int16", Type_Int32 |-> "Int32",
   Type_Uint8 |-> "Uint8", Type_Uint16 |-> "Uint16", Type_Uint32 |-> "Uint32",
   Type_CString |-> "CString", Type_SysTime |-> "Time",
   Type_IQuant |-> "QuantizedValue", Type_UQuant |-> "QuantizedUnsignedValue"]

ArgType == {ArgTypeOf[k] : k \in DOMAIN ArgTypeOf}

FormatTypeOf ==
  [b |-> "Binary", d |-> "Deciaml", o |-> "Oct", h |-> "Hex", H |-> "Hex_UpperCase",
   x |-> "Hex_WithPrefix", X |-> "Hex_UpperCase_WithPrefix"]

UnSpec == "UnSpec"

FormatType == {FormatTypeOf[c] : c \in DOMAIN FormatTypeOf} \cup {UnSpec}

AlignOf == [Lt |-> "Left", Gt |-> "Right", Equ |-> "Center"]

Align == {AlignOf[k] : k \in AlignTokens}

SignOf(ch) ==
  CASE ch = "+" -> "Always" [] ch = "-" -> "NegOnly" [] OTHER -> "Neg_Or_Space"

SignChars == {"+", "-", " "}

\* What an item of a time shows, in at least or in exactly so many digits.
Item(value_type, fixed_length, format_length) ==
  [value_type |-> value_type, fixed_length |-> fixed_length, format_length |-> format_length]

ChronoItemOf ==
  [Chrono_Year_1 |-> Item("Year", FALSE, 1), Chrono_Year_Fixed2 |-> Item("Year", TRUE, 2),
   Chrono_Year_3 |-> Item("Year", FALSE, 3), Chrono_Year_Fixed4 |-> Item("Year", TRUE, 4),
   Chrono_Month_1 |-> Item("Month", FALSE, 1), Chrono_Month_Fixed2 |-> Item("Month", TRUE, 2),
   Chrono_Day_1 |-> Item("Day", FALSE, 1), Chrono_Day_Fixed2 |-> Item("Day", TRUE, 2),
   Chrono_Hour_1 |-> Item("Hour", FALSE, 1), Chrono_Hour_Fixed2 |-> Item("Hour", TRUE, 2),
   Chrono_Hour24_1 |-> Item("Hour24", FALSE, 1), Chrono_Hour24_Fixed2 |-> Item("Hour24", TRUE, 2),
   Chrono_Minute_1 |-> Item("Minute", FALSE, 1), Chrono_Minute_Fixed2 |-> Item("Minute", TRUE, 2),
   Chrono_Second_1 |-> Item("Second", FALSE, 1), Chrono_Second_Fixed2 |-> Item("Second", TRUE, 2),
   Chrono_SubSecond_Fixed1 |-> Item("SubSecond", TRUE, 1),
   Chrono_SubSecond_Fixed2 |-> Item("SubSecond", TRUE, 2),
   Chrono_SubSecond_Fixed3 |-> Item("SubSecond", TRUE, 3),
   Chrono_SubSecond_Fixed4 |-> Item("SubSecond", TRUE, 4),
   Chrono_WeekName |-> Item("Week", FALSE, 0)]

ChronoItems == {ChronoItemOf[k] : k \in UserdefTokens}

Split(item, chars) == [item |-> item, split |-> chars]

\* %g, and %f, which adds the day of the week.
Predef_g ==
  <<Split(Item("Year", TRUE, 4), <<"-">>), Split(Item("Month", TRUE, 2), <<"-">>),
    Split(Item("Day", TRUE, 2), <<" ">>), Split(Item("Hour24", TRUE, 2), <<":">>),
    Split(Item("Minute", TRUE, 2), <<":">>), Split(Item("Second", TRUE, 2), <<".">>),
    Split(Item("SubSecond", TRUE, 4), <<>>)>>

Predef_f ==
  [Predef_g EXCEPT ![7].split = <<" ">>] \o <<Split(Item("Week", FALSE, 0), <<>>)>>

\* A field before anything of it is known; its defaults are those of
\* parse_opt_formatfield_spec.
NoField ==
  [class |-> "Value", id |-> 0, type |-> Unknown, prop |-> 0, split |-> <<",", " ">>,
   align |-> "Right", fill |-> " ", sign |-> "NegOnly", width |-> -1, fmt |-> UnSpec,
   items |-> <<>>]

--------------------------------------------------------------------------------
(* What the actions are made of.                                               *)

\* The characters of the current token; a token may hold the terminator.
TokenText == [i \in 1..token.len |-> At(text, token.beg + i - 1)]

FirstChar == At(text, token.beg)

\* A decimal number, modulo the width of uint32_t.
lex_atou(chars) ==
  LET value[n \in 0..Len(chars)] ==
        IF n = 0 THEN 0 ELSE (value[n - 1] * 10 + DigitValue(chars[n])) % Word
  IN  value[Len(chars)]

\* The bits of a quantized type: its first two digits.  A token of :q and one digit has
\* length 3; any other is taken to have a second digit or none.
parse_arg_get_fixed_props(chars) ==
  LET first == DigitValue(chars[3])
  IN  IF Len(chars) > 3 /\ chars[4] \in Digit THEN first * 10 + DigitValue(chars[4]) ELSE first

Fail(err) ==
  /\ pc' = "failed"
  /\ ret' = err
  /\ UNCHANGED <<text, current, token, stage, field>>

\* parser_next_token, in the stages s: what was parsed leads on to the point "to" with
\* the field f, unless there is no token.
parser_next_token(s, to, f) ==
  LET t == lex_next_token(text, current, s)
  IN  /\ stage' = s
      /\ UNCHANGED text
      /\ \/ /\ t.type \notin NoToken
            /\ token' = t
            /\ current' = current + t.len
            /\ pc' = to
            /\ field' = f
            /\ UNCHANGED ret
         \/ /\ t.type = "Unrecognized"
            /\ pc' = "failed"
            /\ ret' = "MStr_Err_UnrecognizedToken"
            /\ UNCHANGED <<current, token, field>>
         \/ /\ t.type = "Beyond"
            /\ pc' = "lost"
            /\ UNCHANGED <<current, token, field, ret>>

\* On without a token, because what could stand here is optional.
Skip(to, f) ==
  /\ pc' = to
  /\ field' = f
  /\ UNCHANGED <<text, current, token, stage, ret>>

--------------------------------------------------------------------------------
(* The functions.                                                              *)

mstr_fmt_parse_goal ==
  /\ pc = "goal"
  /\ parser_next_token(stage, "replacement", field)

EscapeChar ==
  /\ pc = "replacement"
  /\ token.type \in {"LeftBraceBrace", "RightBraceBrace"}
  /\ Skip("done", [field EXCEPT !.class = "EscapeChar"])

parse_replacement_field ==
  /\ pc = "replacement"
  /\ \/ /\ token.type = "LeftBrace"
        /\ parser_next_token(stage, "arg_id", [field EXCEPT !.class = "Value"])
     \/ /\ token.type = "LeftBraceBracket"
        /\ parser_next_token(stage, "arg_id", [field EXCEPT !.class = "Array"])
     \/ /\ token.type \notin {"LeftBrace", "LeftBraceBracket", "LeftBraceBrace", "RightBraceBrace"}
        /\ Fail("MStr_Err_MissingReplacement")

\* The field of one value waits for its end from here on, that of an array does not.
parse_simple_field ==
  IF field.class = "Value" THEN stage \cup {"NeedEnd"} ELSE stage

parse_arg_id ==
  /\ pc = "arg_id"
  /\ LET id == lex_atou(TokenText)
     IN  IF token.type = "Digits"
         THEN /\ id \in 0..(Word - 1)
              /\ parser_next_token(parse_simple_field, "arg_type", [field EXCEPT !.id = id])
         ELSE Fail("MStr_Err_MissingArgumentID")

\* Only the field of an array goes on with its separators.
parse_array_field == IF field.class = "Array" THEN "split" ELSE "spec"

parse_arg_type ==
  /\ pc = "arg_type"
  /\ IF token.type \in DOMAIN ArgTypeOf
     THEN parser_next_token(stage, parse_array_field,
            [field EXCEPT !.type = ArgTypeOf[token.type],
                          !.prop = IF token.type \in QuatTokens
                                   THEN parse_arg_get_fixed_props(TokenText) ELSE 0])
     ELSE Fail("MStr_Err_MissingArgumentType")

parse_opt_split_chars ==
  /\ pc = "split"
  /\ IF token.type = "VlineColon"
     THEN parser_next_token(stage, "split_chars", [field EXCEPT !.split = <<>>])
     ELSE Skip("spec", field)

\* One turn of the loop over the separators.  It does not stop at the end of the text.
parse_split_chars ==
  /\ pc = "split_chars"
  /\ IF token.type \in {"Colon", "RightBrace", "RightBracketBrace"}
     THEN Skip("spec", field)
     ELSE parser_next_token(stage, "split_chars", [field EXCEPT !.split = @ \o TokenText])

parse_opt_formatfield_spec ==
  /\ pc = "spec"
  /\ IF token.type = "Colon"
     THEN parser_next_token(stage \cup {"MatchChronoToken"}, "items", field)
     ELSE Skip("end", field)

\* One character of a sign, for the functions that look for one.
Sign(to) ==
  parser_next_token(stage, to, [field EXCEPT !.sign = SignOf(FirstChar)])

IsSign == token.type = "OtherChar" /\ FirstChar \in SignChars

parse_format_spec ==
  IF FirstChar \in DOMAIN FormatTypeOf
  THEN parser_next_token(stage, "end", [field EXCEPT !.fmt = FormatTypeOf[FirstChar]])
  ELSE Fail("MStr_Err_UnsupportFormatType")

\* Mutant: the token that is looked at is the one that has been read.
PeekCurrent == token

\* Is the first item a fill character?  Only the token behind it tells.
parser_peek_token == lex_next_token(text, current, stage)

parse_opt_items ==
  /\ pc = "items"
  /\ token.type \notin AlignTokens
  /\ IF token.type \in {"Colon", "Digits", "LeftBrace", "OtherChar"}
     THEN CASE parser_peek_token.type \in AlignTokens \cup NoToken ->
                 parser_next_token(stage, "align", [field EXCEPT !.fill = FirstChar])
            [] parser_peek_token.type \notin AlignTokens \cup NoToken ->
                 (CASE IsSign                                     -> Sign("sign")
                    [] token.type = "OtherChar" /\ ~IsSign        -> parse_format_spec
                    [] OTHER                                      -> Skip("sign", field))
     ELSE Skip("sign", [field EXCEPT !.fill = " ", !.align = "Left"])

\* Behind a fill character, or as the first item.
parse_align ==
  /\ pc \in {"items", "align"}
  /\ token.type \in AlignTokens
  /\ parser_next_token(stage, "sign", [field EXCEPT !.align = AlignOf[token.type]])

parse_opt_sign ==
  /\ pc = "sign"
  /\ IF IsSign THEN Sign("width") ELSE Skip("width", field)

parse_opt_width ==
  /\ pc = "width"
  /\ LET w == lex_atou(TokenText)
     IN  CASE token.type # "Digits" -> Skip("format", field)
           [] token.type = "Digits" /\ w \in 0..(PlaceMaxWidth - 1) ->
                parser_next_token(stage, "format", [field EXCEPT !.width = w])
           [] OTHER -> Fail("MStr_Err_WidthTooLarge")

parse_opt_format_chrono_spec ==
  /\ pc = "format"
  /\ CASE token.type = "OtherChar"      -> parse_format_spec
       [] token.type \in ChronoTokens   -> Skip("chrono", field)
       [] OTHER                         -> Skip("end", field)

\* The items of %f and %g are written over those that there are.
parse_chrono_spec ==
  /\ pc = "chrono"
  /\ token.type \in PredefTokens
  /\ field.items = <<>>
  /\ parser_next_token(stage, "end",
       [field EXCEPT !.items = IF token.type = "ChronoPredef_g" THEN Predef_g ELSE Predef_f])

\* Mutant: one item more than there is room for.
ItemsFullLate == Len(field.items) > ChronoPlaceMax

ItemsFull == Len(field.items) >= ChronoPlaceMax

\* The next item that the caller wrote, up to its separator.
parse_chrono_spec_item ==
  /\ pc = "chrono"
  /\ token.type \in UserdefTokens \/ field.items # <<>>
  /\ CASE ItemsFull -> Fail("MStr_Err_TooMoreChronoItem")
       [] ~ItemsFull /\ token.type \in UserdefTokens ->
            parser_next_token(stage, "chrono_split",
              [field EXCEPT !.items = Append(@, Split(ChronoItemOf[token.type], <<>>))])
       [] OTHER -> Fail("MStr_Err_MissingChronoItemType")

\* Mutant: the end of the text does not end the list.
SplitEndsNotAtEOF == {"RightBracketBrace", "RightBrace"}

\* What ends the characters behind an item, besides the next item.
SplitEnds == {"RightBracketBrace", "RightBrace", "EOF"}

\* One turn of the loop over the characters behind an item.
ChronoSplit ==
  /\ pc = "chrono_split"
  /\ CASE token.type \in ChronoTokens -> Skip("chrono", field)
       [] token.type \in SplitEnds    -> Skip("end", field)
       [] OTHER ->
            parser_next_token(stage, "chrono_split",
              [field EXCEPT !.items[Len(field.items)].split = @ \o TokenText])

\* Both stages end before the token that closes the field is looked at.
parse_end_token ==
  /\ pc = "end"
  /\ IF token.type = (IF field.class = "Value" THEN "RightBrace" ELSE "RightBracketBrace")
     THEN pc' = "done" /\ UNCHANGED ret
     ELSE pc' = "failed" /\ ret' = "MStr_Err_MissingRightBrace"
  /\ stage' = {}
  /\ UNCHANGED <<text, current, token, field>>

--------------------------------------------------------------------------------
\* mstr_fmt_parser_init, for a field that begins at the place p.
ParserStart(p) ==
  /\ current = p
  /\ token = Accept("EOF", p, p)
  /\ stage = {}
  /\ pc = "goal"
  /\ field = NoField
  /\ ret = "MStr_Ok"

ParserInit == text \in Texts /\ ParserStart(1)

ParserNext ==
  \/ mstr_fmt_parse_goal \/ EscapeChar \/ parse_replacement_field
  \/ parse_arg_id \/ parse_arg_type
  \/ parse_opt_split_chars \/ parse_split_chars
  \/ parse_opt_formatfield_spec \/ parse_opt_items \/ parse_align \/ parse_opt_sign
  \/ parse_opt_width \/ parse_opt_format_chrono_spec
  \/ parse_chrono_spec \/ parse_chrono_spec_item \/ ChronoSplit
  \/ parse_end_token

ParserSpec == ParserInit /\ [][ParserNext]_parser_vars

--------------------------------------------------------------------------------
(* Properties.                                                                 *)

\* The characters between the items of a time are those of the text, up to its
\* terminator, or of %g and %f.
SplitChars == {text[i] : i \in 1..Len(text)} \cup {NUL, "-", " ", ":", "."}

\* The characters between the values of an array are those of the text, or ", ".
ListChars == SplitChars \cup {","}

\* The control state stays within the text: the current token ends where the next one
\* begins, which is at most one place behind the terminator, and what the parser has
\* found can be stored in an MStrFmtParseResult, with its eight items of a time.
ParserTypeOK ==
  /\ text \in Seq(STRING)
  /\ token.type \in TokenType
  /\ token.beg \in 1..(Len(text) + 1)
  /\ token.len \in Nat
  /\ current = token.beg + token.len
  /\ current <= Len(text) + 2
  /\ stage \subseteq ParserStage
  /\ pc \in Running \cup Ended
  /\ ret \in ParserResults
  /\ field.class \in ArgClass
  /\ field.id \in 0..(Word - 1)
  /\ field.type \in ArgType \cup {Unknown}
  /\ field.prop \in 0..99
  /\ field.split \in Seq(ListChars)
  /\ field.align \in Align
  /\ field.width \in -1..(PlaceMaxWidth - 1)
  /\ field.fmt \in FormatType
  /\ field.items \in Seq([item : ChronoItems, split : Seq(SplitChars)])
  /\ Len(field.items) <= ChronoPlaceMax

\* The points of a call in an order that every step without a token follows.
Order ==
  [goal |-> 1, replacement |-> 2, arg_id |-> 3, arg_type |-> 4, split |-> 5, split_chars |-> 6,
   spec |-> 7, items |-> 8, align |-> 9, sign |-> 10, width |-> 11, format |-> 12,
   chrono_split |-> 13, chrono |-> 14, end |-> 15, done |-> 16, failed |-> 16, lost |-> 16]

\* Each step reads a token of at least one character or comes nearer to the end of the
\* call without one, so no loop of the parser stands still, whatever the text.
Advances ==
  [][current' > current \/ (current' = current /\ Order[pc'] > Order[pc])]_parser_vars

\* Somewhere in the text a fixed or floating point type is named.  They have tokens, but
\* no argument can be of them, and their tokens do not look at all they contain.
NamesPointType(t) == \E p \in 1..(Len(t) - 1) : t[p] = ":" /\ t[p + 1] \in {"F", "f"}

\* The parser looks behind the terminator only from a list of separators that is not
\* closed; every other malformed text ends in an error within the text.
OnlyListsRunOn ==
  [][pc' = "lost" => pc = "split_chars" \/ NamesPointType(text)]_parser_vars

\* What has been accepted ends at the first place that can close it, and the caller
\* goes on right behind: of several braces in a row the first closes a value, an
\* escaped brace is two, and an array ends with ]} wherever braces stand in between.
EndsAtFirstClose ==
  LET Closes(p) == IF field.class = "Array" THEN At(text, p) = "]" /\ At(text, p + 1) = "}"
                                            ELSE At(text, p) = "}"
      size == IF field.class = "Array" THEN 2 ELSE 1
  IN  pc = "done" /\ ~NamesPointType(text) =>
        IF field.class = "EscapeChar"
        THEN current = 3 /\ text[1] = text[2] /\ text[1] \in {"{", "}"}
        ELSE /\ Closes(current - size)
             /\ \A p \in 1..(current - size - 1) : ~Closes(p)
===============================================================================
