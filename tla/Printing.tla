------------------------------- MODULE Printing -------------------------------
(***************************************************************************)
(* A call of mstr_format or mstr_ioformat on a format string put together  *)
(* from pieces, compared with what the manual says that it prints: Format  *)
(* implements Printer.                                                     *)
(***************************************************************************)
EXTENDS Format, Manual

CONSTANTS
  Calls     \* the calls: their pieces, their arguments and fmt_place

\* A value of a type, as far as a conversion can fail on it.
IsValue(type, v) ==
  CASE type = "CString" -> v \in Seq(STRING)
    [] type \in {"Uint8", "Uint16", "Uint32"} -> v \in Nat
    [] type \in {"Int8", "Int16", "Int32", "QuantizedValue", "QuantizedUnsignedValue"} -> v \in Int
    [] OTHER -> TRUE

IsArgument(a) ==
  IF a.kind.array THEN Len(a.value) \in Nat /\ \A i \in 1..Len(a.value) : IsValue(a.kind.ele, a.value[i])
                  ELSE IsValue(a.kind.ele, a.value)

\* A caller passes a C string, and says how many arguments follow it.
ASSUME PrintingAssumption ==
  /\ WordBits = Bits
  /\ MaxPlaces = PlaceMaxNum
  /\ \A c \in Calls :
       /\ PiecesText(c.pieces) \in Texts
       /\ Len(c.args) \in Nat
       /\ c.place \in 0..Len(c.args)
       /\ \A i \in 1..Len(c.args) : IsArgument(c.args[i])

VARIABLES
  wanted,   \* what the manual says of the call
  earlier   \* what stood in the output when the latest field had been read

printing_vars == <<vars, wanted, earlier>>

Init ==
  /\ \E c \in Calls :
       /\ text = PiecesText(c.pieces)
       /\ args = c.args
       /\ place = c.place
       /\ wanted = Read(c.pieces, c.args, c.place)
  /\ sink \in {"string", "io"}
  /\ earlier = <<>>
  /\ FormatStart

Next ==
  /\ FormatNext
  /\ earlier' = IF pc = "value" THEN out.chars ELSE earlier
  /\ UNCHANGED wanted

\* The call runs in its caller's thread, which goes on as long as there is a next step.
Spec == Init /\ [][Next]_printing_vars /\ WF_printing_vars(Next)

\* The caller's string shows what is printed at once, the callback gets it all at the end.
Printed == IF sink = "string" THEN out.chars ELSE written

Status ==
  CASE pc # "ended"                     -> "printing"
    [] pc = "ended" /\ ret = "MStr_Ok"  -> "done"
    [] pc = "ended" /\ ret # "MStr_Ok"  -> "failed"

P == INSTANCE Printer WITH
       Room    <- StackRegion - 1,
       wanted  <- wanted.prints,
       whole   <- wanted.whole,
       atomic  <- sink = "io",
       printed <- Printed,
       status  <- Status

\* A call prints what the manual says, from left to right, up to the first fault of its
\* text or its arguments, and to a callback all or nothing; it fails at such a fault, and
\* otherwise only for want of memory or because the callback refuses.
ImplementsPrinter == P!Spec

\* Every call ends, whatever fails in it.
EveryCallEnds == <>(pc = "ended")

\* The error that a call reports is the first that it met: nothing that fails or succeeds
\* behind it takes its place, and nothing is printed behind it.
FirstErrorReported == [][ret # "MStr_Ok" => ret' = ret /\ Printed' = Printed]_printing_vars

\* What a call has printed stays; it prints behind it.  To a callback it prints once, a
\* text that has been read to its end without an error.
PrintsForward ==
  [][Printed' # Printed =>
       /\ IsPrefix(Printed, Printed')
       /\ sink = "io" => Printed = <<>> /\ fmt > Len(text) /\ ret = "MStr_Ok"]_printing_vars

\* The text of the i-th value of a field, and what divides it from the next one.
ElementText(i) ==
  LET v == IF field.class = "Array" THEN Argument(field.id)[i] ELSE Argument(field.id)
  IN  convert(v).chars \o IF i < Count THEN field.split ELSE <<>>

FirstTexts(n) == FlattenSeq([i \in 1..n |-> ElementText(i)])

\* What a field adds to the output is the text of all its values in the alignment that
\* the manual asks for, and nothing else.
FieldPrinted ==
  pc = "free" /\ ret = "MStr_Ok" => out.chars = earlier \o Aligned(FirstTexts(Count), field)

\* A call that succeeds has read its text to the end.
ReadsToTheEnd == pc = "ended" /\ ret = "MStr_Ok" => fmt = Len(text) + 1

\* A call that succeeds has printed what the manual says.
PrintsExactly == pc = "ended" /\ ret = "MStr_Ok" => Printed = wanted.prints
===============================================================================
