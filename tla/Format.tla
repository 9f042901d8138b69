-------------------------------- MODULE Format --------------------------------
(***************************************************************************)
(* One call of mstr_format or mstr_ioformat: the loop of                   *)
(* mstr_context_format over a format string (src/src/mm_fmt.c), with the   *)
(* parser (Parser), the conversions (Into), the arguments it reads from a  *)
(* va_list, and the strings it builds the text in; and the function that   *)
(* hands the text to a callback (src/src/mm_io.c).                         *)
(*                                                                         *)
(* A string is its characters and its capacity; it holds a block of the    *)
(* heap when its capacity is above that of its stack region.  That an      *)
(* append or a concatenation adds all or, for want of memory, nothing is   *)
(* shown of the strings themselves in module MString.                      *)
(***************************************************************************)
EXTENDS Parser, Into

CONSTANTS
  PlaceMaxNum,     \* MFMT_PLACE_MAX_NUM
  StackRegion,     \* MSTR_STACK_REGION_SIZE
  HighBytes        \* the bytes of characters outside ASCII; char is signed

ASSUME FormatAssumption ==
  /\ Word = Modulus
  /\ PlaceMaxNum \in Nat \ {0}
  /\ StackRegion \in Nat \ {0}

VARIABLES
  fmt,       \* the place in the format string that the loop has come to
  place,     \* fmt_place: how many arguments the caller says there are
  args,      \* the arguments; those of them that have been taken are gone
  taken,     \* how often va_arg has been called
  cache,     \* the arguments that have been used: their types, and which they are
  item,      \* array_index
  out,       \* res_str
  buff,      \* the string that a value is converted into
  blocks,    \* the blocks that strings of this call hold
  sink,      \* "string" or "io": which function was called
  written    \* what io_write has been given

format_vars == <<fmt, place, args, taken, cache, item, out, buff, blocks, sink, written>>

vars == <<parser_vars, format_vars>>

FormatPoints ==
  {"entry", "scan", "value", "attach", "typed", "convert", "separate", "left", "copy", "right",
   "free", "returned", "written", "ended"}

FormatResults ==
  ParserResults
  \cup {"MStr_Err_IndexTooLarge", "MStr_Err_InvaildArgumentID", "MStr_Err_UnusedArgumentID",
        "MStr_Err_InvaildArgumentType", "MStr_Err_UnsupportQuantBits", "MStr_Err_HeapTooSmall",
        "MStr_Err_UnicodeEncodingError", "MStr_Err_NoImplemention"}

\* The type of an argument: of a value, or of an array of such values (AS_ARRAY_TYPE).
KindOf(type, array) == [ele |-> type, array |-> array]

Unused == [kind |-> KindOf(Unknown, FALSE), arg |-> 0]

--------------------------------------------------------------------------------
(* Strings.                                                                    *)

\* mstr_create_empty.
EmptyString == [chars |-> <<>>, cap |-> StackRegion]

Held(s) == IF s.cap > StackRegion THEN 1 ELSE 0

\* mstr_resize_tactic, for the capacities below its limit.
Resized(cap, more) == IF 2 * cap > cap + more + 1 THEN 2 * cap ELSE cap + more + 1

NoMemory == [chars |-> <<>>, cap |-> 0]

\* What becomes of s when chars are added and "spare" bytes must be left.
Added(s, chars, spare) ==
  LET longer == [s EXCEPT !.chars = @ \o chars]
  IN  IF Len(longer.chars) + spare < s.cap
      THEN {longer}
      ELSE {[longer EXCEPT !.cap = Resized(s.cap, Len(chars))], NoMemory}

\* mstr_append and mstr_repeat_append keep a byte to spare, a concatenation does not.
Appended(s, chars) == IF chars = <<>> THEN {s} ELSE Added(s, chars, 1)

\* Mutant: no byte is left for the terminator.
ConcatenatedTight(s, chars) == Added(s, chars, -1)

Concatenated(s, chars) == Added(s, chars, 0)

--------------------------------------------------------------------------------
(* Steps.                                                                      *)

\* On to another point, with the result res.
Goto(to, res) ==
  /\ pc' = to
  /\ ret' = res
  /\ UNCHANGED <<text, current, token, stage, field>>

\* The output grows and the call goes on, or there is no memory, and it goes to "bad".
Output(grown, good, bad) ==
  \E r \in grown :
    IF r = NoMemory
    THEN Goto(bad, "MStr_Err_HeapTooSmall") /\ UNCHANGED <<out, blocks>>
    ELSE Goto(good, ret) /\ out' = r /\ blocks' = blocks + Held(r) - Held(out)

\* The check before the loop; mstr_iovformat has made an empty string by then.
mstr_vformat ==
  /\ pc = "entry"
  /\ IF place > PlaceMaxNum THEN Goto("returned", "MStr_Err_IndexTooLarge") ELSE Goto("scan", ret)
  /\ UNCHANGED format_vars

\* Mutant: an error of the parser does not end the loop.
GoesOnRegardless == fmt <= Len(text) /\ (ret = "MStr_Ok" \/ ret \in ParserResults)

GoesOn == fmt <= Len(text) /\ ret = "MStr_Ok"

Braces == {"{", "}"}

\* The loop of mstr_context_format: characters that are not part of a field.  A byte of
\* another character becomes a negative code point, which has no encoding.
CopyCharacter ==
  /\ pc = "scan"
  /\ GoesOn
  /\ text[fmt] \notin Braces
  /\ fmt' = fmt + 1
  /\ IF text[fmt] \in HighBytes
     THEN Goto("scan", "MStr_Err_UnicodeEncodingError") /\ UNCHANGED <<out, blocks>>
     ELSE Output(Appended(out, <<text[fmt]>>), "scan", "scan")
  /\ UNCHANGED <<place, args, taken, cache, item, buff, sink, written>>

\* process_replacement_field, from mstr_fmt_parser_init ...
StartField ==
  /\ pc = "scan"
  /\ GoesOn
  /\ text[fmt] \in Braces
  /\ current' = fmt
  /\ token' = Accept("EOF", fmt, fmt)
  /\ stage' = {}
  /\ pc' = "goal"
  /\ field' = NoField
  /\ UNCHANGED <<text, ret, format_vars>>

Parse == ParserNext /\ UNCHANGED format_vars

\* ... to its end: only then does the loop go on, behind the field.
process_replacement_field ==
  /\ \/ /\ pc = "done"
        /\ fmt' = current
        /\ Goto("value", ret)
     \/ /\ pc = "failed"
        /\ UNCHANGED fmt
        /\ Goto("scan", ret)
  /\ UNCHANGED <<place, args, taken, cache, item, out, buff, blocks, sink, written>>

CopyEscaped ==
  /\ pc = "value"
  /\ field.class = "EscapeChar"
  /\ Output(Appended(out, <<FirstChar>>), "scan", "scan")
  /\ UNCHANGED <<fmt, place, args, taken, cache, item, buff, sink, written>>

\* Mutant: a gap in the identifiers is not noticed.
SkippedNever(id) == FALSE

Skipped(id) == id > 0 /\ cache[id - 1].kind = Unused.kind

\* The argument id, which is read when it is used for the first time, as one of the kind
\* given.  Arguments can only be read one after the other.
load_value(id, kind, to) ==
  CASE id >= place                  -> Goto("scan", "MStr_Err_InvaildArgumentID") /\ UNCHANGED <<taken, cache>>
    [] id < place /\ Skipped(id)    -> Goto("scan", "MStr_Err_UnusedArgumentID") /\ UNCHANGED <<taken, cache>>
    [] OTHER ->
         /\ Goto(to, ret)
         /\ IF cache[id].kind = Unused.kind
            THEN /\ taken' = taken + 1
                 /\ cache' = [cache EXCEPT ![id] = [kind |-> kind, arg |-> taken + 1]]
            ELSE UNCHANGED <<taken, cache>>

LoadValue ==
  /\ pc = "value"
  /\ field.class # "EscapeChar"
  /\ load_value(field.id, KindOf(field.type, field.class = "Array"),
                IF field.class = "Array" THEN "attach" ELSE "typed")
  /\ UNCHANGED <<fmt, place, args, item, out, buff, blocks, sink, written>>

\* The length of an array is the next argument.
LoadLength ==
  /\ pc = "attach"
  /\ load_value(field.id + 1, KindOf("Uint32", FALSE), "typed")
  /\ UNCHANGED <<fmt, place, args, item, out, buff, blocks, sink, written>>

\* Mutant: a value is read as what the field says, whatever it was first.
CheckTypeNever ==
  /\ pc = "typed"
  /\ Goto("convert", ret)
  /\ buff' = EmptyString
  /\ item' = 0
  /\ UNCHANGED <<fmt, place, args, taken, cache, out, blocks, sink, written>>

\* The beginning of format_value and format_array: the types must be those of the first use.
CheckType ==
  /\ pc = "typed"
  /\ IF /\ cache[field.id].kind = KindOf(field.type, field.class = "Array")
        /\ field.class = "Array" => cache[field.id + 1].kind = KindOf("Uint32", FALSE)
     THEN /\ Goto("convert", ret)
          /\ buff' = EmptyString
          /\ item' = 0
     ELSE /\ Goto("scan", "MStr_Err_InvaildArgumentType")
          /\ UNCHANGED <<buff, item>>
  /\ UNCHANGED <<fmt, place, args, taken, cache, out, blocks, sink, written>>

\* A value as a word, with and without a sign.
AsUnsigned(v) == v % Modulus

AsSigned(v) == IF v % Modulus >= Modulus \div 2 THEN (v % Modulus) - Modulus ELSE v % Modulus

\* convert, and the functions that it calls.
convert(v) ==
  LET index   == fmt_type_as_integer_index[field.fmt]
      Plain(chars) ==
        IF field.fmt = UnSpec THEN Converted(chars) ELSE Refused("MStr_Err_UnsupportFormatType")
  IN  CASE field.type \in {"Uint8", "Uint16", "Uint32"} -> Converted(mstr_fmt_utoa(AsUnsigned(v), index))
        [] field.type \in {"Int8", "Int16", "Int32"}    -> Converted(mstr_fmt_itoa(AsSigned(v), index, field.sign))
        [] field.type = "CString"                       -> Plain(v)
        [] field.type = "Time"                          -> Plain(mstr_fmt_ttoa(v, field.items))
        [] field.type = "QuantizedValue"                -> mstr_fmt_iqtoa(AsSigned(v), field.prop, field.sign)
        [] field.type = "QuantizedUnsignedValue"        -> mstr_fmt_uqtoa(AsUnsigned(v), field.prop)

Argument(id) == args[cache[id].arg].value

\* How many values there are to convert, and the next one (array_get_item).
Count == IF field.class = "Array" THEN Argument(field.id + 1) ELSE 1

Element == IF field.class = "Array" THEN Argument(field.id)[item + 1] ELSE Argument(field.id)

\* The loop of format_array, which format_value goes through once; the strings within a
\* conversion run out of memory when buff does.
Convert ==
  /\ pc = "convert"
  /\ item < Count
  /\ LET c == convert(Element)
     IN  IF c.err # "MStr_Ok"
         THEN Goto("free", c.err) /\ UNCHANGED <<buff, blocks, item>>
         ELSE \E r \in Appended(buff, c.chars) :
                IF r = NoMemory
                THEN Goto("free", "MStr_Err_HeapTooSmall") /\ UNCHANGED <<buff, blocks, item>>
                ELSE /\ Goto(IF item + 1 < Count THEN "separate" ELSE "convert", ret)
                     /\ buff' = r
                     /\ blocks' = blocks + Held(r) - Held(buff)
                     /\ item' = item + 1
  /\ UNCHANGED <<fmt, place, args, taken, cache, out, sink, written>>

Separate ==
  /\ pc = "separate"
  /\ \E r \in Concatenated(buff, field.split) :
       IF r = NoMemory
       THEN Goto("free", "MStr_Err_HeapTooSmall") /\ UNCHANGED <<buff, blocks>>
       ELSE /\ Goto("convert", ret)
            /\ buff' = r
            /\ blocks' = blocks + Held(r) - Held(buff)
  /\ UNCHANGED <<fmt, place, args, taken, cache, item, out, sink, written>>

EndOfItems ==
  /\ pc = "convert"
  /\ item >= Count
  /\ Goto("left", ret)
  /\ UNCHANGED format_vars

\* How many characters fill up to the width, and how many of them stand on the left.
Missing == IF field.width > Len(buff.chars) THEN field.width - Len(buff.chars) ELSE 0

MissingLeft ==
  CASE field.align = "Left"   -> 0
    [] field.align = "Right"  -> Missing
    [] field.align = "Center" -> Missing \div 2

\* copy_to_output: the three parts of the text.
FillLeft ==
  /\ pc = "left"
  /\ Output(Appended(out, [i \in 1..MissingLeft |-> field.fill]), "copy", "free")
  /\ UNCHANGED <<fmt, place, args, taken, cache, item, buff, sink, written>>

CopyText ==
  /\ pc = "copy"
  /\ Output(Concatenated(out, buff.chars), "right", "free")
  /\ UNCHANGED <<fmt, place, args, taken, cache, item, buff, sink, written>>

FillRight ==
  /\ pc = "right"
  /\ Output(Appended(out, [i \in 1..(Missing - MissingLeft) |-> field.fill]), "free", "free")
  /\ UNCHANGED <<fmt, place, args, taken, cache, item, buff, sink, written>>

\* Mutant: a failed conversion returns without freeing its string.
FreeBuffOnSuccess ==
  /\ pc = "free"
  /\ Goto("scan", ret)
  /\ buff' = EmptyString
  /\ blocks' = IF ret = "MStr_Ok" THEN blocks - Held(buff) ELSE blocks
  /\ UNCHANGED <<fmt, place, args, taken, cache, item, out, sink, written>>

\* format_value and format_array end here, whatever has happened.
FreeBuff ==
  /\ pc = "free"
  /\ Goto("scan", ret)
  /\ buff' = EmptyString
  /\ blocks' = blocks - Held(buff)
  /\ UNCHANGED <<fmt, place, args, taken, cache, item, out, sink, written>>

EndOfText ==
  /\ pc = "scan"
  /\ ~GoesOn
  /\ Goto("returned", ret)
  /\ UNCHANGED format_vars

\* mstr_format returns; its text stays in res_str.
mstr_format ==
  /\ pc = "returned"
  /\ sink = "string"
  /\ Goto("ended", ret)
  /\ UNCHANGED format_vars

\* mstr_iovformat hands a complete text on, to a callback that may refuse it ...
io_write ==
  /\ pc = "returned"
  /\ sink = "io"
  /\ ret = "MStr_Ok"
  /\ written' = out.chars
  /\ \E res \in {"MStr_Ok", "MStr_Err_NoImplemention"} : Goto("written", res)
  /\ UNCHANGED <<fmt, place, args, taken, cache, item, out, buff, blocks, sink>>

\* ... and frees its string, whatever has happened.
mstr_iovformat ==
  /\ \/ pc = "written"
     \/ pc = "returned" /\ sink = "io" /\ ret # "MStr_Ok"
  /\ Goto("ended", ret)
  /\ out' = EmptyString
  /\ blocks' = blocks - Held(out)
  /\ UNCHANGED <<fmt, place, args, taken, cache, item, buff, sink, written>>

--------------------------------------------------------------------------------
\* A call has begun; text, place, args and sink are the caller's.
FormatStart ==
  /\ current = 1
  /\ token = Accept("EOF", 1, 1)
  /\ stage = {}
  /\ pc = "entry"
  /\ field = NoField
  /\ ret = "MStr_Ok"
  /\ fmt = 1
  /\ taken = 0
  /\ cache = [id \in 0..(PlaceMaxNum - 1) |-> Unused]
  /\ item = 0
  /\ out = EmptyString
  /\ buff = EmptyString
  /\ blocks = 0
  /\ written = <<>>

FormatNext ==
  \/ mstr_vformat \/ CopyCharacter
  \/ StartField \/ Parse \/ process_replacement_field \/ CopyEscaped
  \/ LoadValue \/ LoadLength \/ CheckType
  \/ Convert \/ Separate \/ EndOfItems
  \/ FillLeft \/ CopyText \/ FillRight \/ FreeBuff
  \/ EndOfText \/ mstr_format \/ io_write \/ mstr_iovformat

--------------------------------------------------------------------------------
(* Properties.                                                                 *)

\* The variables of a call: what has been read are places of the text and arguments,
\* a string has room for its terminator, and the callback is given nothing before the text
\* is complete.
FormatTypeOK ==
  /\ fmt \in 1..(Len(text) + 1)
  /\ pc \in Running \cup Ended \cup FormatPoints
  /\ ret \in FormatResults
  /\ taken \in 0..Len(args)
  /\ item \in Nat
  /\ Len(out.chars) < out.cap
  /\ Len(buff.chars) < buff.cap
  /\ sink \in {"string", "io"}
  /\ written # <<>> => sink = "io" /\ pc \in {"written", "ended"}

\* va_arg can only go forward.  Whatever the order and the types in which fields name
\* their arguments, an argument is taken from the list once, when all in front of it have
\* been taken, and is the one that the caller passed in this place; there are never more
\* taken than the caller has announced.
ArgumentsReadInOrder ==
  /\ taken <= place
  /\ \A id \in DOMAIN cache :
       IF id < taken THEN cache[id].arg = id + 1 ELSE cache[id] = Unused

\* What is asked of the caller: an argument is of the type in which the text names it
\* first, an array is followed by its length, and has as many elements.
ArgumentsAsNamed ==
  /\ pc = "value" /\ field.class # "EscapeChar" /\ field.id = taken /\ taken < place =>
       args[taken + 1].kind = KindOf(field.type, field.class = "Array")
  /\ pc = "attach" /\ cache[field.id].kind = KindOf(field.type, TRUE)
       /\ field.id + 1 = taken /\ taken < place =>
       args[taken + 1].kind = KindOf("Uint32", FALSE)
  /\ pc = "convert" /\ field.class = "Array" => Count <= Len(Argument(field.id))

\* However often, and as whatever, the fields of a text name an argument, a value is only
\* converted as what the caller has passed: a field that names it otherwise is refused.
ConvertsAsPassed ==
  pc = "convert" =>
    /\ args[cache[field.id].arg].kind = KindOf(field.type, field.class = "Array")
    /\ field.class = "Array" => args[cache[field.id + 1].arg].kind = KindOf("Uint32", FALSE)

\* A block that a string of the call holds is given back whichever step fails: when the
\* call has ended there is none but the one that the caller's own string holds.
BlocksGivenBack ==
  /\ blocks = Held(out) + Held(buff)
  /\ pc \in {"scan", "returned"} => Held(buff) = 0
  /\ pc = "ended" => blocks = (IF sink = "string" THEN Held(out) ELSE 0)
===============================================================================
