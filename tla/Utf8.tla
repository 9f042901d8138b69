-------------------------------- MODULE Utf8 --------------------------------
(***************************************************************************)
(* The UTF-8 functions of MtFmT (src/src/mm_string.c, with _MSTR_USE_UTF_8 *)
(* on).  A byte is a number in 0..255, a code point a natural number, and  *)
(* an offset into a sequence of bytes counts from 0, as in the code: the   *)
(* byte at offset p is bytes[p + 1].  Shifts and masks of the code are     *)
(* divisions and remainders by powers of two here.                         *)
(***************************************************************************)
EXTENDS Integers, Sequences, SequencesExt

\* The largest code point that has an encoding.
MaxCode == 2097151

\* The outcome of decoding bytes that are not a whole character.
Undecodable == -1

\* A byte after the first: the six bits of code from unit upwards.
Continuation(code, unit) == 128 + ((code \div unit) % 64)

\* Mutant: the second of four bytes gets five bits only.
AsUtf8Drops(code) ==
  IF code <= 127 THEN <<code>>
  ELSE IF code <= 2047 THEN <<192 + (code \div 64), Continuation(code, 1)>>
  ELSE IF code <= 65535
  THEN <<224 + (code \div 4096), Continuation(code, 64), Continuation(code, 1)>>
  ELSE IF code <= MaxCode
  THEN <<240 + (code \div 262144), 128 + ((code \div 4096) % 32), Continuation(code, 64),
         Continuation(code, 1)>>
  ELSE <<>>

\* The encoding of a code point; empty when it has none (an error in the code).
mstr_as_utf8(code) ==
  IF code <= 127 THEN <<code>>
  ELSE IF code <= 2047 THEN <<192 + (code \div 64), Continuation(code, 1)>>
  ELSE IF code <= 65535
  THEN <<224 + (code \div 4096), Continuation(code, 64), Continuation(code, 1)>>
  ELSE IF code <= MaxCode
  THEN <<240 + (code \div 262144), Continuation(code, 4096), Continuation(code, 64),
         Continuation(code, 1)>>
  ELSE <<>>

\* Mutant: the two-byte form ends one too early.
DecodedLengthShort(lead) ==
  CASE lead <= 127 -> 1
    [] lead \in 128..222 -> 2
    [] lead \in 223..239 -> 3
    [] lead \in 240..247 -> 4
    [] OTHER -> 0

\* The bytes that the decoder takes for a character, by its first byte; 0 when
\* there is no such form.  Unlike mstr_char_length it takes a byte of 128..191
\* for the first of two.
DecodedLength(lead) ==
  CASE lead <= 127 -> 1
    [] lead \in 128..223 -> 2
    [] lead \in 224..239 -> 3
    [] lead \in 240..247 -> 4
    [] OTHER -> 0

\* The code point whose encoding bytes start with.
mstr_codepoint_of(bytes) ==
  LET n == DecodedLength(bytes[1])
      low(i) == bytes[i] % 64
  IN  IF n = 0 \/ Len(bytes) < n THEN Undecodable
      ELSE CASE n = 1 -> bytes[1] % 128
             [] n = 2 -> (bytes[1] % 32) * 64 + low(2)
             [] n = 3 -> (bytes[1] % 16) * 4096 + low(2) * 64 + low(3)
             [] n = 4 -> (bytes[1] % 8) * 262144 + low(2) * 4096 + low(3) * 64 + low(4)

--------------------------------------------------------------------------------
(* The length of a character from its first byte.                              *)

PowersOfTwo == {1, 2, 4, 8, 16, 32, 64, 128, 256}

\* The shifts that spread the top bit of v downwards, and the increment after
\* them: the smallest power of two above v.
NextPower(v) == CHOOSE p \in PowersOfTwo : p > v /\ \A q \in PowersOfTwo : q > v => p <= q

\* The length by the first byte: 0 for a byte that starts no character.
CharLength ==
  [lead \in 0..255 |->
    <<1, 7, 2, 6, 0, 3, 4, 5>>[1 + (((NextPower(255 - lead) * 232) \div 256) % 8)]]

mstr_char_length(lead) == CharLength[lead]

\* Mutant: the search looks at three bytes at most.
LeadOffsetThree(bytes, p, hist_len) ==
  LET n == IF hist_len > 3 THEN 3 ELSE hist_len
      stops == {k \in 0..(n - 1) : bytes[p - k + 1] < 128 \/ bytes[p - k + 1] >= 192}
  IN  IF stops = {} THEN n ELSE Min(stops) + 1

\* The steps back from offset p that lead past the first byte of the character
\* that p is in, with hist_len bytes to look at.
mstr_lead_char_offset(bytes, p, hist_len) ==
  LET n == IF hist_len > 6 THEN 6 ELSE hist_len
      stops == {k \in 0..(n - 1) : bytes[p - k + 1] < 128 \/ bytes[p - k + 1] >= 192}
  IN  IF stops = {} THEN n ELSE Min(stops) + 1

--------------------------------------------------------------------------------
(* Walks over a sequence of bytes, from one first byte to the next.            *)

\* The offset of character idx.
mstr_char_offset_at(bytes, idx) ==
  LET offset[i \in 0..idx] ==
        IF i = 0 THEN 0 ELSE offset[i - 1] + mstr_char_length(bytes[offset[i - 1] + 1])
  IN  offset[idx]

\* Mutant: a text whose last character is cut is accepted.
StrlenAccepts(bytes, end) ==
  LET walk[p \in 0..Len(bytes)] ==
        IF p >= end
        THEN [length |-> 0, count |-> p, complete |-> TRUE]
        ELSE LET rest == walk[p + mstr_char_length(bytes[p + 1])]
             IN  [rest EXCEPT !.length = @ + 1]
  IN  walk[0]

\* The characters of bytes before the offset end, the bytes that they take, and
\* whether the last one ends at end.  The terminating 0 follows bytes.
mstr_strlen(bytes, end) ==
  LET walk[p \in 0..Len(bytes)] ==
        IF p >= end
        THEN [length |-> 0, count |-> p, complete |-> p = end]
        ELSE LET rest == walk[p + mstr_char_length(bytes[p + 1])]
             IN  [rest EXCEPT !.length = @ + 1]
  IN  walk[0]

--------------------------------------------------------------------------------
(* Reversal: every byte first, then the bytes of each character.               *)

mstr_reverse_only(bytes) == Reverse(bytes)

Swapped(bytes, i, j) ==
  [k \in DOMAIN bytes |-> bytes[CASE k = i -> j [] k = j -> i [] OTHER -> k]]

\* Mutant: of four bytes only the outer two are exchanged.
MendOuter(bytes, first, last) ==
  CASE last - first + 1 \in {2, 3, 4} -> Swapped(bytes, first, last)
    [] OTHER -> bytes

\* The bytes of one character put back in order; no other length occurs.
MendCharacter(bytes, first, last) ==
  CASE last - first + 1 = 4 ->
         Swapped(Swapped(bytes, first, last), first + 1, last - 1)
    [] last - first + 1 \in {2, 3} -> Swapped(bytes, first, last)
    [] OTHER -> bytes

\* The scan over reversed bytes: first is where the pending bytes start, an
\* ASCII byte or the first byte of a character ends them.
ScanByte(scan, p) ==
  CASE scan.bytes[p] < 128  -> [scan EXCEPT !.first = p + 1]
    [] scan.bytes[p] >= 192 ->
         [first |-> p + 1, bytes |-> MendCharacter(scan.bytes, scan.first, p)]
    [] OTHER -> scan

mstr_reverse_unicode_helper(bytes) ==
  LET scan[p \in 0..Len(bytes)] ==
        IF p = 0 THEN [first |-> 1, bytes |-> bytes] ELSE ScanByte(scan[p - 1], p)
  IN  scan[Len(bytes)].bytes

mstr_reverse_self(bytes) == mstr_reverse_unicode_helper(mstr_reverse_only(bytes))

\* The bytes of a text, a sequence of code points.
Encode(text) == FlattenSeq([i \in DOMAIN text |-> mstr_as_utf8(text[i])])
===============================================================================
