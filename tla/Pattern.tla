------------------------------- MODULE Pattern -------------------------------
(***************************************************************************)
(* The pattern functions of MtFmT (src/src/mm_pattern.c) on the strings of *)
(* module MString: find the first match of a pattern, and remove matches   *)
(* from a string.  A pattern of Threshold bytes or more is searched with a *)
(* jump table, which takes a block of the heap during the call; removing   *)
(* all matches builds the result in a second string and moves it over.     *)
(* mstr_replace does nothing yet but return an error and is left out.      *)
(***************************************************************************)
EXTENDS MString

CONSTANTS
  Patterns,    \* the patterns of the callers, as sequences of code points
  Threshold,   \* BM_THRESHOLD_CNT
  MaxShift     \* BAD_CHAR_MAX_OFFSET

ASSUME PatternAssumption ==
  /\ Patterns \subseteq Seq(1..MaxCode)
  /\ Threshold \in Nat /\ MaxShift \in Nat \ {0}

VARIABLE found   \* what the last call found, or NULL unless it was a search that succeeded

patternVars == <<vars, found>>

NoMatch == [is_matched |-> FALSE, begin_pos |-> 0, begin_offset |-> 0]

--------------------------------------------------------------------------------
(* The search.  A window is the offset p of Len(patt) bytes.                   *)

UsesTable(patt) == Len(patt) >= Threshold

Lesser(a, b) == IF a < b THEN a ELSE b

\* The last byte of the pattern has no entry of its own.
make_jump_table(patt) ==
  [byte \in 0..255 |->
    LET places == {i \in 1..(Len(patt) - 1) : patt[i] = byte}
    IN  Lesser(MaxShift, IF places = {} THEN Len(patt) ELSE Len(patt) - Max(places))]

\* Mutant: the last window is left out.
InTextStrict(bytes, patt, p) == p + Len(patt) < Len(bytes)

InText(bytes, patt, p) == p + Len(patt) <= Len(bytes)

\* Mutant: the comparison starts one byte before the end.
MismatchesShort(bytes, patt, p) == {i \in 1..(Len(patt) - 1) : patt[i] # bytes[p + i]}

\* The places of the window that differ from the pattern; it is compared from
\* the end.
Mismatches(bytes, patt, p) == {i \in 1..Len(patt) : patt[i] # bytes[p + i]}

\* How far a window that differs is moved: by the entry of the byte that differs.
Shift(bytes, patt, p) ==
  IF UsesTable(patt)
  THEN make_jump_table(patt)[bytes[p + Max(Mismatches(bytes, patt, p))]] ELSE 1

\* The first match that the windows meet, from the offset begin on; -1 if none.
patt_match_impl(bytes, begin, patt) ==
  LET search[p \in 0..Len(bytes)] ==
        IF ~InText(bytes, patt, p) THEN -1
        ELSE IF Mismatches(bytes, patt, p) = {} THEN p - begin
        ELSE search[p + Shift(bytes, patt, p)]
  IN  search[begin]

mstr_find_simple(bytes, begin, patt) ==
  IF begin > Len(bytes) \/ Len(patt) > Len(bytes) THEN -1
  ELSE IF patt = <<>> THEN 0
  ELSE patt_match_impl(bytes, begin, patt)

\* Whether a search gets as far as allocating a table.
Searches(bytes, begin, patt) == begin <= Len(bytes) /\ Len(patt) \in 1..Len(bytes)

\* Mutant: bytes are counted for characters.
LengthInBytes(bytes) == Len(bytes)

\* The characters in bytes, which are whole characters.
unicode_length_of(bytes) == mstr_strlen(bytes, Len(bytes)).length

\* Mutants: one byte is copied where the window moves by several; the scan ends
\* with the first match.
RetainCopiesOne(bytes, patt) ==
  LET scan[p \in 0..Len(bytes)] ==
        IF ~InText(bytes, patt, p)
        THEN [bytes |-> SubSeq(bytes, p + 1, Len(bytes)), matches |-> 0]
        ELSE IF Mismatches(bytes, patt, p) = {}
        THEN [scan[p + Len(patt)] EXCEPT !.matches = @ + 1]
        ELSE [scan[p + Shift(bytes, patt, p)] EXCEPT !.bytes = <<bytes[p + 1]>> \o @]
  IN  scan[0]

RetainFirstOnly(bytes, patt) ==
  LET scan[p \in 0..Len(bytes)] ==
        IF ~InText(bytes, patt, p)
        THEN [bytes |-> SubSeq(bytes, p + 1, Len(bytes)), matches |-> 0]
        ELSE IF Mismatches(bytes, patt, p) = {}
        THEN [bytes |-> SubSeq(bytes, p + Len(patt) + 1, Len(bytes)), matches |-> 1]
        ELSE LET next == p + Shift(bytes, patt, p)
             IN  [scan[next] EXCEPT !.bytes = SubSeq(bytes, p + 1, next) \o @]
  IN  scan[0]

\* What is left of bytes, and the number of matches that are left out.
mstr_retain_all_impl_helper(bytes, patt) ==
  LET scan[p \in 0..Len(bytes)] ==
        IF ~InText(bytes, patt, p)
        THEN [bytes |-> SubSeq(bytes, p + 1, Len(bytes)), matches |-> 0]
        ELSE IF Mismatches(bytes, patt, p) = {}
        THEN [scan[p + Len(patt)] EXCEPT !.matches = @ + 1]
        ELSE LET next == p + Shift(bytes, patt, p)
             IN  [scan[next] EXCEPT !.bytes = SubSeq(bytes, p + 1, next) \o @]
  IN  scan[0]

--------------------------------------------------------------------------------
(* The operations.  A pattern is whole characters.                             *)

PatternInit == Init /\ found = NULL

\* The match is reported relative to begin_pos, in characters and in bytes.  A
\* begin_pos that is not in the string is an error of the caller, save 0 in an
\* empty one, which mstr_contains asks for too.
mstr_find(s, begin_pos, pattern) ==
  LET r == str[s]
      patt == Encode(pattern)
      offset == mstr_char_offset_at(r.bytes, begin_pos)
      find_res == mstr_find_simple(r.bytes, offset, patt)
      walked == SubSeq(r.bytes, offset + 1, offset + find_res)
  IN  /\ Created(s) /\ (begin_pos < r.length \/ begin_pos = 0)
      /\ UNCHANGED <<str, heap>>
      /\ \/ /\ UsesTable(patt) /\ Searches(r.bytes, offset, patt) => Available(heap) # {}
            /\ found' = IF find_res = -1 THEN NoMatch
                        ELSE [is_matched |-> TRUE, begin_pos |-> unicode_length_of(walked),
                              begin_offset |-> find_res]
            /\ result' = "MStr_Ok"
         \/ /\ UsesTable(patt) /\ Searches(r.bytes, offset, patt)
            /\ result' = "MStr_Err_HeapTooSmall"
            /\ found' = NULL

\* Mutant: the length falls by the bytes.
CutBytes(s, patt, bytes) ==
  Finish(s, Outcome([str[s] EXCEPT !.bytes = bytes, !.count = @ - Len(patt),
                                   !.length = @ - Len(patt)],
                    heap, "MStr_Ok"))

\* Takes the pattern off the string: what is left is bytes.
Cut(s, patt, bytes) ==
  Finish(s, Outcome([str[s] EXCEPT !.bytes = bytes, !.count = @ - Len(patt),
                                   !.length = @ - unicode_length_of(patt)],
                    heap, "MStr_Ok"))

AsString(patt) == [count |-> Len(patt), bytes |-> patt]

mstr_retain_start_with_impl(s, patt) ==
  LET r == str[s]
  IN  IF mstr_start_with(r, AsString(patt))
      THEN Cut(s, patt, SubSeq(r.bytes, Len(patt) + 1, r.count))
      ELSE Return("MStr_Ok")

mstr_retain_end_with_impl(s, patt) ==
  LET r == str[s]
  IN  IF mstr_end_with(r, AsString(patt))
      THEN Cut(s, patt, SubSeq(r.bytes, 1, r.count - Len(patt)))
      ELSE Return("MStr_Ok")

\* Mutants: the string is moved also when there is no table; it keeps its buffer.
RetainMovesAnyway(s, patt) ==
  LET r == str[s]
      kept == mstr_retain_all_impl_helper(r.bytes, patt)
  IN  \E tmp \in Reserved(Empty, heap, r.count) :
        \/ /\ tmp.result # "MStr_Ok"
           /\ Return(tmp.result)
        \/ /\ tmp.result = "MStr_Ok" /\ UsesTable(patt)
           /\ Finish(s, Outcome([tmp.str EXCEPT !.bytes = SubSeq(r.bytes, 1, 1), !.count = 1],
                                Without(tmp.heap, r.buff), "MStr_Err_HeapTooSmall"))
        \/ /\ tmp.result = "MStr_Ok" /\ (UsesTable(patt) => Available(tmp.heap) # {})
           /\ Finish(s, Outcome([tmp.str EXCEPT
                                   !.bytes = kept.bytes,
                                   !.count = r.count - kept.matches * Len(patt),
                                   !.length = r.length
                                                - kept.matches * unicode_length_of(patt)],
                                Without(tmp.heap, r.buff), "MStr_Ok"))

RetainKeepsBuffer(s, patt) ==
  LET r == str[s]
      kept == mstr_retain_all_impl_helper(r.bytes, patt)
  IN  \E tmp \in Reserved(Empty, heap, r.count) :
        \/ /\ tmp.result # "MStr_Ok"
           /\ Return(tmp.result)
        \/ /\ tmp.result = "MStr_Ok" /\ UsesTable(patt)
           /\ str' = str /\ heap' = tmp.heap
           /\ result' = "MStr_Err_HeapTooSmall"
        \/ /\ tmp.result = "MStr_Ok" /\ (UsesTable(patt) => Available(tmp.heap) # {})
           /\ Finish(s, Outcome([r EXCEPT
                                   !.bytes = kept.bytes,
                                   !.count = r.count - kept.matches * Len(patt),
                                   !.length = r.length
                                                - kept.matches * unicode_length_of(patt)],
                                Without(tmp.heap, r.buff), "MStr_Ok"))

\* The string tmp_str grows to the bytes of s; then the table is allocated; then
\* the bytes are copied and tmp_str moved to s.  Without a table tmp_str is lost.
mstr_retain_all_impl(s, patt) ==
  LET r == str[s]
      kept == mstr_retain_all_impl_helper(r.bytes, patt)
  IN  \E tmp \in Reserved(Empty, heap, r.count) :
        \/ /\ tmp.result # "MStr_Ok"
           /\ Return(tmp.result)
        \/ /\ tmp.result = "MStr_Ok" /\ UsesTable(patt)
           /\ str' = str /\ heap' = tmp.heap
           /\ result' = "MStr_Err_HeapTooSmall"
        \/ /\ tmp.result = "MStr_Ok" /\ (UsesTable(patt) => Available(tmp.heap) # {})
           /\ Finish(s, Outcome([tmp.str EXCEPT
                                   !.bytes = kept.bytes,
                                   !.count = r.count - kept.matches * Len(patt),
                                   !.length = r.length
                                                - kept.matches * unicode_length_of(patt)],
                                Without(tmp.heap, r.buff), "MStr_Ok"))

mstr_retain(s, opt, pattern) ==
  LET patt == Encode(pattern)
  IN  /\ Created(s)
      /\ IF patt = <<>>
         THEN Return("MStr_Ok")
         ELSE CASE opt = "StartWith" -> mstr_retain_start_with_impl(s, patt)
                [] opt = "EndWith" -> mstr_retain_end_with_impl(s, patt)
                [] opt = "All" -> mstr_retain_all_impl(s, patt)
      /\ found' = NULL

PatternNext ==
  \E s \in Strings :
    \/ \E text \in Texts : mstr_create(s, text) /\ found' = NULL
    \/ mstr_free(s) /\ found' = NULL
    \/ \E pattern \in Patterns :
         \/ \E begin_pos \in 0..str[s].length : mstr_find(s, begin_pos, pattern)
         \/ \E opt \in {"StartWith", "EndWith", "All"} : mstr_retain(s, opt, pattern)

PatternSpec == PatternInit /\ [][PatternNext]_patternVars

--------------------------------------------------------------------------------
(* Properties.                                                                 *)

PatternTypeOK ==
  /\ TypeOK
  /\ found \in [is_matched : BOOLEAN, begin_pos : Nat, begin_offset : Nat] \cup {NULL}

\* Every buffer in the heap is allocated, with the capacity of its string: moving
\* the result of a removal over the string, whose old buffer goes, leaves no
\* pointer to freed memory, whichever allocations fail.
BuffersOwned ==
  \A s \in Strings : str[s].buff \in Blocks =>
    /\ str[s].buff \in DOMAIN heap
    /\ heap[str[s].buff] = str[s].cap_size

\* No block is lost: the test driver compares the numbers of allocations and of
\* frees after every test (tests/test_main.c).
NothingLeaks == DOMAIN heap \subseteq {str[s].buff : s \in Strings}

\* A call that finds no memory, for the string or for the table, changes no text.
FailureKeepsTexts ==
  [][result' # "MStr_Ok" => \A s \in Strings : Text(s)' = Text(s)]_patternVars

Short(pattern) == Len(Encode(pattern)) < Threshold

OccursAt(text, pattern, k) ==
  k + Len(pattern) <= Len(text) /\ SubSeq(text, k + 1, k + Len(pattern)) = pattern

\* A successful search for pattern in s from begin_pos.
Found(s, begin_pos, pattern) == mstr_find(s, begin_pos, pattern) /\ result' = "MStr_Ok"

\* What is found is there: the search is over bytes, but a match is a match of
\* characters, at the reported character and at the reported byte, with the jump
\* table and without.
FoundIsMatch ==
  [][\A s \in Strings, pattern \in Patterns : \A k \in 0..str[s].length :
       Found(s, k, pattern) /\ found'.is_matched =>
         /\ OccursAt(Text(s), pattern, k + found'.begin_pos)
         /\ found'.begin_offset = Len(Encode(SubSeq(Text(s), k + 1, k + found'.begin_pos)))
    ]_patternVars

\* The search for pattern finds its first occurrence.
FindsFirst(pattern) ==
  \A s \in Strings : \A k \in 0..str[s].length :
    Found(s, k, pattern) =>
      LET all == {j \in k..Len(Text(s)) : OccursAt(Text(s), pattern, j)}
      IN  IF all = {} THEN ~found'.is_matched
          ELSE found'.is_matched /\ k + found'.begin_pos = Min(all)

\* Without the jump table nothing is missed.
ShortFindIsFirst ==
  [][\A pattern \in Patterns : Short(pattern) => FindsFirst(pattern)]_patternVars

\* What the comment on mstr_find says of every pattern.
FindIsFirst == [][\A pattern \in Patterns : FindsFirst(pattern)]_patternVars

\* The texts that remain when some of the matches that do not overlap are removed
\* from text, and the one that remains when no match is passed over.
Remainders(text, pattern) ==
  LET rest[k \in 0..Len(text)] ==
        IF k = Len(text) THEN {<<>>}
        ELSE {<<text[k + 1]>> \o t : t \in rest[k + 1]}
               \cup (IF OccursAt(text, pattern, k) THEN rest[k + Len(pattern)] ELSE {})
  IN  rest[0]

Remainder(text, pattern) ==
  LET rest[k \in 0..Len(text)] ==
        IF k = Len(text) THEN <<>>
        ELSE IF OccursAt(text, pattern, k) THEN rest[k + Len(pattern)]
        ELSE <<text[k + 1]>> \o rest[k + 1]
  IN  rest[0]

Retained(s, opt, pattern) ==
  pattern # <<>> /\ mstr_retain(s, opt, pattern) /\ result' = "MStr_Ok"

\* A removal takes away matches and nothing else: at one end exactly the pattern
\* that is there; everywhere, whole matches, whatever the jumps.
RetainRemovesMatches ==
  [][\A s \in Strings, pattern \in Patterns :
       LET text == Text(s)
           n == Len(pattern)
       IN  /\ Retained(s, "StartWith", pattern) =>
                Text(s)' = IF IsPrefix(pattern, text) THEN SubSeq(text, n + 1, Len(text)) ELSE text
           /\ Retained(s, "EndWith", pattern) =>
                Text(s)' = IF IsSuffix(pattern, text) THEN SubSeq(text, 1, Len(text) - n) ELSE text
           /\ Retained(s, "All", pattern) => Text(s)' \in Remainders(text, pattern)
    ]_patternVars

\* Without the jump table every match from the left on goes.
ShortRetainIsComplete ==
  [][\A s \in Strings, pattern \in Patterns :
       Short(pattern) /\ Retained(s, "All", pattern) =>
         Text(s)' = Remainder(Text(s), pattern)]_patternVars
===============================================================================
