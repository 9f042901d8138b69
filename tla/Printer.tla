-------------------------------- MODULE Printer -------------------------------
(***************************************************************************)
(* What a call of mstr_format or mstr_ioformat promises, without how: it   *)
(* prints what its format string and arguments stand for, from left to     *)
(* right, and gives up only for a reason.  Format implements it.           *)
(***************************************************************************)
EXTENDS Integers, Sequences

CONSTANT Room      \* the characters that a string holds without memory from the heap

VARIABLES
  wanted,    \* what there is to print, up to the first fault in the text
  whole,     \* is there no fault?
  atomic,    \* does all appear at once?
  printed,   \* what has been printed
  status     \* "printing", "done" or "failed"

printer_vars == <<wanted, whole, atomic, printed, status>>

Init ==
  /\ wanted \in Seq(STRING)
  /\ whole \in BOOLEAN
  /\ atomic \in BOOLEAN
  /\ printed = <<>>
  /\ status = "printing"

Write ==
  /\ status = "printing"
  /\ atomic => whole
  /\ \E n \in (Len(printed) + 1)..Len(wanted) :
       /\ printed' = SubSeq(wanted, 1, n)
       /\ atomic => n = Len(wanted)
  /\ UNCHANGED <<wanted, whole, atomic, status>>

Finish ==
  /\ status = "printing"
  /\ whole
  /\ printed = wanted
  /\ status' = "done"
  /\ UNCHANGED <<wanted, whole, atomic, printed>>

\* There is a fault in the text and all in front of it has been printed, unless all
\* appears at once; or what is to be printed may not fit into memory; or whoever takes
\* it all does not want it.
GiveUp ==
  /\ status = "printing"
  /\ \/ ~whole /\ (atomic \/ printed = wanted)
     \/ Len(wanted) >= Room
     \/ atomic /\ printed = wanted
  /\ status' = "failed"
  /\ UNCHANGED <<wanted, whole, atomic, printed>>

Spec == Init /\ [][Write \/ Finish \/ GiveUp]_printer_vars
===============================================================================
