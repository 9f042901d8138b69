--------------------------- MODULE StringIterator ---------------------------
(***************************************************************************)
(* The bidirectional iterator of mtfmt::string (src/inc/mm_string.hpp):    *)
(* an offset into the bytes of a text and the number of characters from    *)
(* there on, moved by the UTF-8 functions of module Utf8.  operator* puts  *)
(* the character into a static variable, code, and returns a reference.    *)
(* The text does not change while it is walked: the string is const.       *)
(***************************************************************************)
EXTENDS Utf8

CONSTANTS
  Codes,      \* the code points that the texts are made of
  MaxChars    \* bound: the texts have at most this many characters

ASSUME IteratorAssumption ==
  /\ Codes \subseteq 1..MaxCode
  /\ MaxChars \in Nat

VARIABLES
  text,         \* the characters of the string, as code points
  it,           \* the offset of the iterator
  rem_length,   \* the characters that it believes are left
  code          \* the static variable of operator*

vars == <<text, it, rem_length, code>>

\* The string's buffer, and beg, the iterator's lower limit, which is offset 0.
Bytes == Encode(text)

\* The bytes from the offset p on.
From(p) == SubSeq(Bytes, p + 1, Len(Bytes))

begin == it = 0 /\ rem_length = Len(text)
end == it = Len(Bytes) /\ rem_length = 0

Init ==
  /\ text \in UNION {[1..n -> Codes] : n \in 0..MaxChars}
  /\ begin \/ end
  /\ code = 0

\* ++it; at the end it throws and leaves the iterator as it is.
increment ==
  /\ rem_length > 0
  /\ it' = it + mstr_char_length(Bytes[it + 1])
  /\ rem_length' = rem_length - 1
  /\ UNCHANGED <<text, code>>

\* Mutant: --it at the beginning changes the count.
DecrementUnguarded ==
  /\ it' = it - mstr_lead_char_offset(Bytes, it - 1, it)
  /\ rem_length' = rem_length + 1
  /\ UNCHANGED <<text, code>>

\* --it; at the beginning it throws and leaves the iterator as it is.
decrement ==
  /\ it > 0
  /\ it' = it - mstr_lead_char_offset(Bytes, it - 1, it)
  /\ rem_length' = rem_length + 1
  /\ UNCHANGED <<text, code>>

\* *it, of an iterator that is not the end: the length comes from the first
\* byte, and the decoder is given that many bytes.
dereference ==
  /\ it < Len(Bytes)
  /\ code' = mstr_codepoint_of(SubSeq(From(it), 1, mstr_char_length(Bytes[it + 1])))
  /\ UNCHANGED <<text, it, rem_length>>

Next == increment \/ decrement \/ dereference

Spec == Init /\ [][Next]_vars

--------------------------------------------------------------------------------
(* Properties.                                                                 *)

TypeOK ==
  /\ text \in Seq(Codes) /\ Len(text) <= MaxChars
  /\ it \in 0..Len(Bytes)
  /\ rem_length \in 0..Len(text)
  /\ code \in Codes \cup {0}

\* However ++ and -- are mixed, the iterator stands before a character, never
\* inside one, and rem_length is the number of characters after it: the guard of
\* ++ tests the count, that of -- the offset, so they have to agree.
StandsBetweenCharacters ==
  it = Len(Encode(SubSeq(text, 1, Len(text) - rem_length)))

\* operator* gives the character that the iterator stands before.
YieldsCharacters ==
  [][code' # code => code' = text[Len(text) - rem_length + 1]]_vars

\* Every code point of the text is what its encoding decodes to, and the first
\* byte of the encoding tells its length; the bytes after a character, here the
\* rest of the text, do not matter.
CodecRoundTrip ==
  \A i \in DOMAIN text :
    LET bytes == mstr_as_utf8(text[i])
    IN  /\ mstr_codepoint_of(bytes) = text[i]
        /\ mstr_char_length(bytes[1]) = Len(bytes)

\* mstr_strlen counts the characters of a slice and the bytes they take, and
\* reports a slice that ends inside a character; mstr_char_offset_at finds the
\* end of the same characters.
SlicesMeasured ==
  \A stop \in 0..Len(Bytes) :
    LET found == mstr_strlen(Bytes, stop)
        whole == Len(Encode(SubSeq(text, 1, found.length)))
    IN  /\ found.count = whole
        /\ found.count = mstr_char_offset_at(Bytes, found.length)
        /\ found.complete <=> \E n \in 0..Len(text) : stop = Len(Encode(SubSeq(text, 1, n)))

\* mstr_reverse_self reverses the characters and keeps each one's bytes in order,
\* for characters of every length next to each other.
ReversesCharacters == mstr_reverse_self(Bytes) = Encode(Reverse(text))
===============================================================================
