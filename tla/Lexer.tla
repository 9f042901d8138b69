-------------------------------- MODULE Lexer --------------------------------
(***************************************************************************)
(* The lexer of MtFmT's format strings (src/src/mm_parser.c): which token  *)
(* begins at a place of a format string, and where it ends.                *)
(*                                                                         *)
(* A format string is a sequence of characters, each a string of one       *)
(* letter; places count from 1, and the place behind the last character    *)
(* holds the terminator NUL.  Nothing is known of what lies behind it: a   *)
(* token that cannot be told without looking there is Beyond.  The lexer   *)
(* steps over single characters through labels; here each group of labels  *)
(* is an operator with the group's first label as its name.                *)
(***************************************************************************)
EXTENDS Integers, Sequences

CONSTANT UseFP     \* _MSTR_USE_FP: the build has floating point

ASSUME LexerAssumption == UseFP \in BOOLEAN

NUL == "NUL"

Digit == {"0", "1", "2", "3", "4", "5", "6", "7", "8", "9"}

DigitValue(c) == CHOOSE v \in 0..9 : c = <<"0", "1", "2", "3", "4", "5", "6", "7", "8", "9">>[v + 1]

AlignTokens == {"Gt", "Lt", "Equ"}

IntTokens == {"Type_Int8", "Type_Int16", "Type_Int32", "Type_Uint8", "Type_Uint16", "Type_Uint32"}

QuatTokens == {"Type_IQuant", "Type_UQuant"}

\* Fixed and floating point: they have tokens, but no argument may be of them.
PointTokens ==
  {"Type_IFixedNumber", "Type_UFixedNumber", "Type_Floating32", "Type_Floating64"}

PredefTokens == {"ChronoPredef_f", "ChronoPredef_g"}

\* The tokens %y, %yy and so on, by letter and by how often it is repeated.
ChronoUserdef ==
  [y |-> <<"Chrono_Year_1", "Chrono_Year_Fixed2", "Chrono_Year_3", "Chrono_Year_Fixed4">>,
   M |-> <<"Chrono_Month_1", "Chrono_Month_Fixed2">>,
   d |-> <<"Chrono_Day_1", "Chrono_Day_Fixed2">>,
   h |-> <<"Chrono_Hour_1", "Chrono_Hour_Fixed2">>,
   H |-> <<"Chrono_Hour24_1", "Chrono_Hour24_Fixed2">>,
   m |-> <<"Chrono_Minute_1", "Chrono_Minute_Fixed2">>,
   s |-> <<"Chrono_Second_1", "Chrono_Second_Fixed2">>,
   x |-> <<"Chrono_SubSecond_Fixed1", "Chrono_SubSecond_Fixed2",
           "Chrono_SubSecond_Fixed3", "Chrono_SubSecond_Fixed4">>,
   w |-> <<"Chrono_WeekName">>]

UserdefTokens == UNION {{ChronoUserdef[c][n] : n \in 1..Len(ChronoUserdef[c])}
                          : c \in DOMAIN ChronoUserdef}

ChronoTokens == PredefTokens \cup UserdefTokens

TokenType ==
  {"EOF", "Colon", "VlineColon", "Type_CString", "Type_SysTime", "LeftBrace", "RightBrace",
   "LeftBraceBracket", "RightBracketBrace", "LeftBraceBrace", "RightBraceBrace", "Digits",
   "OtherChar"}
  \cup AlignTokens \cup IntTokens \cup QuatTokens \cup PointTokens \cup ChronoTokens

\* What the lexer finds instead of a token: an error, or the unknown.
NoToken == {"Unrecognized", "Beyond"}

ParserStage == {"NeedEnd", "MatchChronoToken"}

--------------------------------------------------------------------------------
(* The character at a place of the text t.                                     *)

At(t, p) == IF p <= Len(t) THEN t[p] ELSE NUL

\* LEX_ACCEPT_TOKEN: a token from beg to the place in front of end.
Accept(typ, beg, end) == [type |-> typ, beg |-> beg, len |-> end - beg]

No(why, beg) == Accept(why, beg, beg)

\* Where the digits that begin at p end.
DigitsEnd(t, p) ==
  CHOOSE e \in p..(Len(t) + 1) :
    /\ \A i \in p..(e - 1) : At(t, i) \in Digit
    /\ At(t, e) \notin Digit

\* How many of the characters from p on are c, of at most max.
Repeated(t, p, c, max) ==
  CHOOSE n \in 0..max :
    /\ \A i \in 0..(n - 1) : At(t, p + i) = c
    /\ n = max \/ At(t, p + n) # c

--------------------------------------------------------------------------------
(* The tokens that begin at b, by their first character.                       *)

digits_beg(t, b) == Accept("Digits", b, DigitsEnd(t, b))

\* i8, i16, i32, u8, u16, u32 behind a colon; of anything else only the colon.
type_ix(t, b) ==
  LET types == IF At(t, b + 1) = "i" THEN <<"Type_Int8", "Type_Int16", "Type_Int32">>
                                     ELSE <<"Type_Uint8", "Type_Uint16", "Type_Uint32">>
      first  == At(t, b + 2)
      second == At(t, b + 3)
  IN  CASE first = "8"                   -> Accept(types[1], b, b + 3)
        [] first = "1" /\ second = "6"   -> Accept(types[2], b, b + 4)
        [] first = "3" /\ second = "2"   -> Accept(types[3], b, b + 4)
        [] OTHER                         -> Accept("Colon", b, b + 1)

\* A type that ends here, or behind the u that makes it unsigned.
Unsigned(t, b, end, plain, with_u) ==
  IF At(t, end) = "u" THEN Accept(with_u, b, end + 1) ELSE Accept(plain, b, end)

\* F12 or F12.4: the character behind the point is skipped without a look.
type_fixed(t, b) ==
  LET ipart == DigitsEnd(t, b + 2)
      Fixed(end) == Unsigned(t, b, end, "Type_IFixedNumber", "Type_UFixedNumber")
  IN  CASE At(t, b + 2) \notin Digit                    -> Accept("Colon", b, b + 1)
        [] At(t, b + 2) \in Digit /\ At(t, ipart) # "." -> Fixed(ipart)
        [] OTHER -> IF ipart < Len(t) THEN Fixed(DigitsEnd(t, ipart + 2)) ELSE No("Beyond", b)

\* q12: the bound on the digits compares token->beg - pstr, which is negative, with 2,
\* so there is none.
type_quat(t, b) ==
  IF At(t, b + 2) \in Digit
  THEN Unsigned(t, b, DigitsEnd(t, b + 2), "Type_IQuant", "Type_UQuant")
  ELSE Accept("Colon", b, b + 1)

\* f32 and f64: neither branch leaves when it has found its type, so f32 goes on to
\* look for the 4 of f64, and f64 ends as :s does, one character further on.
type_floating(t, b) ==
  LET first  == At(t, b + 2)
      second == At(t, b + 3)
  IN  CASE first \notin {"3", "6"}       -> Accept("Type_Floating32", b, b + 2)
        [] first = "6" /\ second = "4"   -> Accept("Type_CString", b, b + 5)
        [] first = "3" /\ second = "2"   ->
             (CASE At(t, b + 4) = NUL -> No("Beyond", b)
                [] At(t, b + 5) = "4" -> Accept("Type_CString", b, b + 7)
                [] OTHER              -> No("Unrecognized", b))
        [] OTHER                         -> No("Unrecognized", b)

colon(t, b) ==
  LET next == At(t, b + 1)
  IN  CASE next \in {"i", "u"}    -> type_ix(t, b)
        [] next = "q"             -> type_quat(t, b)
        [] next = "F"             -> type_fixed(t, b)
        [] next = "f" /\ UseFP    -> type_floating(t, b)
        [] next = "s"             -> Accept("Type_CString", b, b + 2)
        [] next = "t"             -> Accept("Type_SysTime", b, b + 2)
        [] OTHER                  -> Accept("Colon", b, b + 1)

\* Mutant: a line that no colon follows is a token before the lexer has moved on.
VLineEmpty(t, b) ==
  IF At(t, b + 1) = ":" THEN Accept("VlineColon", b, b + 2) ELSE Accept("OtherChar", b, b)

v_line(t, b) ==
  IF At(t, b + 1) = ":" THEN Accept("VlineColon", b, b + 2) ELSE Accept("OtherChar", b, b + 1)

l_brace(t, b) ==
  CASE At(t, b + 1) = "[" -> Accept("LeftBraceBracket", b, b + 2)
    [] At(t, b + 1) = "{" -> Accept("LeftBraceBrace", b, b + 2)
    [] OTHER              -> Accept("LeftBrace", b, b + 1)

\* Mutant: two braces are always one token.
BracesPaired(t, b, stage) ==
  IF At(t, b + 1) = "}" THEN Accept("RightBraceBrace", b, b + 2) ELSE Accept("RightBrace", b, b + 1)

\* Two braces are one token, unless the parser waits for the end of its field.
r_brace(t, b, stage) ==
  IF "NeedEnd" \notin stage /\ At(t, b + 1) = "}"
  THEN Accept("RightBraceBrace", b, b + 2)
  ELSE Accept("RightBrace", b, b + 1)

r_bracket(t, b) ==
  IF At(t, b + 1) = "}" THEN Accept("RightBracketBrace", b, b + 2) ELSE Accept("OtherChar", b, b + 1)

chrono_userdef(t, b) ==
  LET letter == At(t, b + 1)
      names  == ChronoUserdef[letter]
      n      == Repeated(t, b + 1, letter, Len(names))
  IN  Accept(names[n], b, b + 1 + n)

chrono_percentage(t, b) ==
  LET next == At(t, b + 1)
  IN  CASE next = "%"                     -> Accept("OtherChar", b, b + 2)
        [] next = "f"                     -> Accept("ChronoPredef_f", b, b + 2)
        [] next = "g"                     -> Accept("ChronoPredef_g", b, b + 2)
        [] next \in DOMAIN ChronoUserdef  -> chrono_userdef(t, b)
        [] next \in {">", "<", "="}       -> Accept("OtherChar", b, b + 1)
        [] OTHER                          -> No("Unrecognized", b)

\* The token at b.  The terminator is a token of length 1, so the parser stands behind
\* it when it has read it.
lex_next_token(t, b, stage) ==
  LET ch == At(t, b)
  IN  CASE b > Len(t) + 1  -> No("Beyond", b)
        [] b = Len(t) + 1  -> Accept("EOF", b, b + 1)
        [] OTHER ->
             (CASE ch = "="      -> Accept("Equ", b, b + 1)
                [] ch = ">"      -> Accept("Gt", b, b + 1)
                [] ch = "<"      -> Accept("Lt", b, b + 1)
                [] ch = ":"      -> colon(t, b)
                [] ch = "{"      -> l_brace(t, b)
                [] ch = "}"      -> r_brace(t, b, stage)
                [] ch = "]"      -> r_bracket(t, b)
                [] ch = "|"      -> v_line(t, b)
                [] ch = "%" /\ "MatchChronoToken" \in stage -> chrono_percentage(t, b)
                [] ch \in Digit  -> digits_beg(t, b)
                [] OTHER         -> Accept("OtherChar", b, b + 1))
===============================================================================
