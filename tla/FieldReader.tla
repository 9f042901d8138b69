------------------------------ MODULE FieldReader -----------------------------
(***************************************************************************)
(* The parser on the fields of its manual: what it reads is compared with  *)
(* what the field means.                                                   *)
(***************************************************************************)
EXTENDS Parser, FieldGrammar

CONSTANTS
  Fields,   \* fields put together from parts
  Rests     \* what follows a field in its text

ASSUME ReaderAssumption ==
  /\ PlaceMaxWidth <= Word
  /\ \A f \in Fields :
       Grammatical(f, Word, PlaceMaxWidth, ChronoPlaceMax) /\ FieldText(f) \in Seq(STRING \ {NUL})
  /\ Rests \subseteq Seq(STRING \ {NUL})

VARIABLE meant    \* the field that the text begins with, and its length; 0 if there is none

reader_vars == <<parser_vars, meant>>

Meant(means, n) == [means |-> means, len |-> n]

\* The parser started on a field of the grammar, or on any text.
ReaderInit ==
  /\ \/ text \in Texts /\ meant = Meant(NoField, 0)
     \/ \E f \in Fields, rest \in Rests :
          /\ text = FieldText(f) \o rest
          /\ meant = Meant(FieldMeans(f), Len(FieldText(f)))
  /\ ParserStart(1)

ReaderSpec == ReaderInit /\ [][ParserNext /\ UNCHANGED meant]_reader_vars

\* Every field that the grammar describes is read as what it means, up to its end,
\* whatever follows it in the text.  An alignment says nothing where there is no width.
FieldsReadBack ==
  LET read == IF field.width = -1 THEN [field EXCEPT !.align = "Right"] ELSE field
  IN  pc \in Ended /\ meant.len > 0 =>
        pc = "done" /\ current = meant.len + 1 /\ read = meant.means
===============================================================================
