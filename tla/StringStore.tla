----------------------------- MODULE StringStore -----------------------------
(***************************************************************************)
(* What the string functions of MtFmT promise: every string has a text, a  *)
(* sequence of characters, or no text at all, and each function changes    *)
(* the text of the strings it is given and of no other.  There is no       *)
(* memory here, and no encoding.                                           *)
(***************************************************************************)
EXTENDS Integers, Sequences, SequencesExt

CONSTANTS
  Strings,
  Codes,      \* the characters that are put into strings one at a time
  Repeats,    \* and how often
  Texts,      \* the texts that the callers write as literals
  NoText      \* the value of a string that is not created, or no longer

VARIABLE value

Has(s) == value[s] # NoText

Become(s, text) == value' = [value EXCEPT ![s] = text]

Create(s, text) == ~Has(s) /\ Become(s, text)

AppendChars(s, c, n) == Has(s) /\ Become(s, value[s] \o [i \in 1..n |-> c])

Concat(s, o) == Has(s) /\ Has(o) /\ Become(s, value[s] \o value[o])

ConcatText(s, text, n) == Has(s) /\ n <= Len(text) /\ Become(s, value[s] \o SubSeq(text, 1, n))

InsertChar(s, c) == Has(s) /\ \E i \in 1..(Len(value[s]) + 1) : Become(s, InsertAt(value[s], i, c))

RemoveChar(s) == Has(s) /\ \E i \in 1..Len(value[s]) : Become(s, RemoveAt(value[s], i))

Turn(s) == Has(s) /\ Become(s, Reverse(value[s]))

\* Also what a copy that finds no memory, or of a string to itself, comes to.
Clear(s) == Become(s, <<>>)

Copy(s, o) == Has(o) /\ Become(s, value[o])

Move(s, o) == value' = [value EXCEPT ![s] = value[o], ![o] = NoText]

Free(s) == Become(s, NoText)

Init == value = [s \in Strings |-> NoText]

Next ==
  \E s \in Strings :
    \/ \E text \in Texts : Create(s, text)
    \/ \E c \in Codes, n \in Repeats : AppendChars(s, c, n)
    \/ \E text \in Texts : \E n \in 0..Len(text) : ConcatText(s, text, n)
    \/ \E c \in Codes : InsertChar(s, c)
    \/ RemoveChar(s) \/ Turn(s) \/ Clear(s) \/ Free(s)
    \/ \E o \in Strings : Concat(s, o) \/ Copy(s, o) \/ Move(s, o)

Spec == Init /\ [][Next]_value
===============================================================================
