------------------------------- MODULE MString -------------------------------
(***************************************************************************)
(* The strings of MtFmT (src/src/mm_string.c): a buffer that is the        *)
(* string's own stack_region or a block of the heap, its capacity, the     *)
(* bytes in use and the number of characters they encode.                  *)
(*                                                                         *)
(* The heap appears as the sizes of the blocks it has handed out; module   *)
(* Heap is about its inside.  Any allocation may fail.  Of a buffer only   *)
(* the bytes below count are kept: nothing reads those above.              *)
(***************************************************************************)
EXTENDS Utf8, FiniteSets

CONSTANTS
  Strings,      \* the MString objects of the callers
  Blocks,       \* the addresses that the heap may return
  NULL, Stack,  \* the other two values of buff: none, and stack_region
  StackSize,    \* MSTR_STACK_REGION_SIZE
  ExpandMax,    \* MSTR_SIZE_EXPAND_MAX
  LargeStep,    \* MSTR_SIZE_LARGE_CAP_SIZE_STEP
  Codes,        \* the code points that the callers append and insert
  Repeats,      \* and how often they append one
  Texts,        \* the C strings of the callers, as sequences of code points
  Reserves,     \* the sizes that the callers reserve
  MaxBytes      \* bound: no string grows beyond this many bytes

ASSUME MStringAssumption ==
  /\ NULL \notin Blocks /\ Stack \notin Blocks /\ NULL # Stack
  /\ StackSize \in Nat \ {0}
  /\ ExpandMax \in Nat
  /\ LargeStep \in Nat \ {0}
  /\ Codes \subseteq Nat
  /\ Repeats \subseteq Nat
  /\ Texts \subseteq Seq(1..MaxCode)
  /\ Reserves \subseteq Nat
  /\ MaxBytes \in Nat

\* NULL is also what stands for the text of a string without a buffer.
ASSUME NullIsNoText == NULL \notin Seq(0..MaxCode)

VARIABLES
  str,     \* for each string [buff, cap_size, count, length, bytes]
  heap,    \* the blocks that are allocated: their sizes, a function
  result   \* what the last call returned

vars == <<str, heap, result>>

Results ==
  {"MStr_Ok", "MStr_Err_HeapTooSmall", "MStr_Err_UnicodeEncodingError",
   "MStr_Err_EncodingNotCompleted"}

\* mstr_init.
Empty == [buff |-> Stack, cap_size |-> StackSize, count |-> 0, length |-> 0, bytes |-> <<>>]

\* A string that was moved away; also the one that a caller has not yet created,
\* which has no state that anything relies on.
Nothing == [buff |-> NULL, cap_size |-> 0, count |-> 0, length |-> 0, bytes |-> <<>>]

\* mstr_free forgets the buffer and leaves length as it is.
Freed(r) == [r EXCEPT !.buff = NULL, !.count = 0, !.cap_size = 0, !.bytes = <<>>]

--------------------------------------------------------------------------------
(* Memory.                                                                     *)

\* The heap after buff, if it is a block, is given back.
Without(blocks, buff) == [b \in DOMAIN blocks \ {buff} |-> blocks[b]]

With(blocks, buff, size) ==
  [b \in DOMAIN blocks \cup {buff} |-> IF b = buff THEN size ELSE blocks[b]]

\* Mutant: an allocation that fails is not noticed.
AvailableOrNot(blocks) == (Blocks \ DOMAIN blocks) \cup {NULL}

\* mstr_heap_alloc: one of the blocks that are not out, or NULL.
Available(blocks) == Blocks \ DOMAIN blocks

\* The capacity to grow to, larger by inc_len + 1 at least.
mstr_resize_tactic(old_sz, inc_len) ==
  LET min_sz == old_sz + inc_len + 1
      exp_sz == old_sz * 2
  IN  IF old_sz < ExpandMax
      THEN IF min_sz < exp_sz THEN exp_sz ELSE min_sz
      ELSE old_sz + inc_len + LargeStep

Outcome(r, blocks, res) == [str |-> r, heap |-> blocks, result |-> res]

\* mstr_reserve and mstr_string_realloc, for a string r: the bytes move to a new
\* block, whether the old buffer was stack_region or a block, and an old block is
\* freed.  There may be no block; then nothing changes.
Reserved(r, blocks, new_size) ==
  IF new_size <= r.cap_size
  THEN {Outcome(r, blocks, "MStr_Ok")}
  ELSE {Outcome([r EXCEPT !.buff = b, !.cap_size = new_size],
                With(Without(blocks, r.buff), b, new_size), "MStr_Ok")
          : b \in Available(blocks)}
         \cup {Outcome(r, blocks, "MStr_Err_HeapTooSmall")}

\* A string s that has a buffer.
Created(s) == str[s].buff # NULL

\* A call on s that ends with the outcome o.
Finish(s, o) ==
  /\ str' = [str EXCEPT ![s] = o.str]
  /\ heap' = o.heap
  /\ result' = o.result

\* Mutant: the contents are written also when the string could not grow.
RewriteAlways(s, r, blocks, new_size, new) ==
  /\ new.count <= MaxBytes
  /\ \E o \in Reserved(r, blocks, new_size) :
       Finish(s, [o EXCEPT !.str.count = new.count, !.str.length = new.length,
                           !.str.bytes = new.bytes])

\* How the functions that grow a string end, given what s and the heap are by
\* then: reserve and, when that succeeds, write the contents: new is a record of
\* count, length and bytes.
Rewrite(s, r, blocks, new_size, new) ==
  /\ new.count <= MaxBytes
  /\ \E o \in Reserved(r, blocks, new_size) :
       Finish(s, IF o.result = "MStr_Ok"
                 THEN [o EXCEPT !.str.count = new.count, !.str.length = new.length,
                                !.str.bytes = new.bytes]
                 ELSE o)

\* What r holds after count bytes, of length characters, are added at its end.
Added(r, count, length, bytes) ==
  [count |-> r.count + count, length |-> r.length + length, bytes |-> r.bytes \o bytes]

\* A call that returns res and changes no string.
Return(res) == result' = res /\ UNCHANGED <<str, heap>>

\* The size to reserve for need_len more bytes, 0 when there is room: with one
\* byte to spare besides the terminating 0 where characters are added, without
\* where strings are.
AppendRoom(r, need_len) ==
  IF r.count + need_len + 1 >= r.cap_size
  THEN mstr_resize_tactic(r.cap_size, need_len) ELSE 0

\* Mutant: a string that fills its buffer does not grow.
ConcatRoomTight(r, count) ==
  IF r.count + count > r.cap_size THEN mstr_resize_tactic(r.cap_size, count) ELSE 0

ConcatRoom(r, count) ==
  IF r.count + count >= r.cap_size THEN mstr_resize_tactic(r.cap_size, count) ELSE 0

--------------------------------------------------------------------------------
(* The operations.                                                             *)

Init ==
  /\ str = [s \in Strings |-> Nothing]
  /\ heap = [b \in {} |-> 0]
  /\ result = "MStr_Ok"

\* For a string that has no buffer: it would be lost.  An allocation that fails
\* leaves count, length and cap_size as if it had not.
mstr_create(s, text) ==
  LET bytes == Encode(text)
      size == mstr_strlen(bytes, Len(bytes))
      cap == size.count + StackSize
      filled(buff, cap_size, held) ==
        [buff |-> buff, cap_size |-> cap_size, count |-> size.count,
         length |-> size.length, bytes |-> held]
  IN  /\ ~Created(s)
      /\ size.count <= MaxBytes
      /\ \/ /\ size.count < StackSize
            /\ Finish(s, Outcome(filled(Stack, StackSize, bytes), heap, "MStr_Ok"))
         \/ /\ size.count >= StackSize
            /\ \E b \in Available(heap) :
                 Finish(s, Outcome(filled(b, cap, bytes), With(heap, b, cap), "MStr_Ok"))
         \/ /\ size.count >= StackSize
            /\ Finish(s, Outcome(filled(NULL, cap, <<>>), heap, "MStr_Err_HeapTooSmall"))

\* Mutant: the string that is moved keeps its buffer.
MoveShares(s, o) ==
  LET freed == IF Created(s) THEN [str EXCEPT ![s] = Freed(@)] ELSE str
  IN  /\ str' = [freed EXCEPT ![s] = freed[o]]
      /\ heap' = Without(heap, str[s].buff)
      /\ result' = "MStr_Ok"

\* The string s, freed first, takes over the buffer of o; what is in stack_region
\* is copied.  s may be o, which then loses its text.
mstr_move_from(s, o) ==
  LET freed == IF Created(s) THEN [str EXCEPT ![s] = Freed(@)] ELSE str
  IN  /\ str' = [freed EXCEPT ![s] = freed[o], ![o] = Nothing]
      /\ heap' = Without(heap, str[s].buff)
      /\ result' = "MStr_Ok"

\* The string s, freed first, becomes empty and then o is appended; s may be o,
\* which is empty by then.
mstr_copy_from(s, o) ==
  LET other == IF s = o THEN Empty ELSE str[o]
  IN  /\ Created(o)
      /\ Rewrite(s, Empty, Without(heap, str[s].buff), ConcatRoom(Empty, other.count),
                 Added(Empty, other.count, other.length, other.bytes))

mstr_reserve(s, new_size) ==
  /\ Created(s)
  /\ \E o \in Reserved(str[s], heap, new_size) : Finish(s, o)

\* mstr_append is the case cnt = 1.
mstr_repeat_append(s, ch, cnt) ==
  LET r == str[s]
      code == mstr_as_utf8(ch)
      need_len == Len(code) * cnt
      written == [i \in 1..need_len |-> code[1 + ((i - 1) % Len(code))]]
  IN  /\ Created(s)
      /\ IF cnt > 0 /\ code = <<>>
         THEN Return("MStr_Err_UnicodeEncodingError")
         ELSE Rewrite(s, r, heap, IF cnt = 0 THEN 0 ELSE AppendRoom(r, need_len),
                      Added(r, need_len, cnt, written))

\* s may be o, whose buffer is read after s has grown.
mstr_concat(s, o) ==
  LET r == str[s]
      other == str[o]
  IN  /\ Created(s) /\ Created(o)
      /\ Rewrite(s, r, heap, ConcatRoom(r, other.count),
                 Added(r, other.count, other.length, other.bytes))

\* The bytes of a text up to end; mstr_concat_cstr is the whole of it.
mstr_concat_cstr_slice(s, text, end) ==
  LET r == str[s]
      bytes == Encode(text)
      size == mstr_strlen(bytes, end)
  IN  /\ Created(s)
      /\ end <= Len(bytes)
      /\ IF size.complete
         THEN Rewrite(s, r, heap, ConcatRoom(r, size.count),
                      Added(r, size.count, size.length, SubSeq(bytes, 1, size.count)))
         ELSE Return("MStr_Err_EncodingNotCompleted")

\* What is left of a string that is cleared.
Cleared(r) == [r EXCEPT !.count = 0, !.length = 0, !.bytes = <<>>]

mstr_clear(s) ==
  /\ Created(s)
  /\ Finish(s, Outcome(Cleared(str[s]), heap, "MStr_Ok"))

\* The assignment of C++: mstr_clear, and mstr_concat, whose result it drops.  A string
\* assigned to itself is empty by then, and stays so.
string_assign(s, o) ==
  LET r == Cleared(str[s])
      other == IF s = o THEN r ELSE str[o]
  IN  /\ Created(s) /\ Created(o)
      /\ Rewrite(s, r, heap, ConcatRoom(r, other.count),
                 Added(r, other.count, other.length, other.bytes))

\* mstr_reverse_self; mstr_reverse_only is for strings of ASCII characters.
reverse(s) ==
  /\ Created(s)
  /\ \/ Finish(s, Outcome([str[s] EXCEPT !.bytes = mstr_reverse_self(@)], heap, "MStr_Ok"))
     \/ /\ \A i \in DOMAIN str[s].bytes : str[s].bytes[i] < 128
        /\ Finish(s, Outcome([str[s] EXCEPT !.bytes = mstr_reverse_only(@)], heap, "MStr_Ok"))

\* Mutant: the character after the one to remove tells how much goes.
RemoveByNext(s, idx) ==
  LET r == str[s]
      offset == mstr_char_offset_at(r.bytes, idx)
      ccnt == IF offset + 1 < r.count /\ mstr_char_length(r.bytes[offset + 2]) > 0
              THEN mstr_char_length(r.bytes[offset + 2])
              ELSE mstr_char_length(r.bytes[offset + 1])
      rest == SubSeq(r.bytes, 1, offset) \o SubSeq(r.bytes, offset + ccnt + 1, r.count)
  IN  /\ Created(s) /\ idx < r.length
      /\ Finish(s, Outcome([r EXCEPT !.bytes = rest, !.count = @ - ccnt, !.length = @ - 1],
                           heap, "MStr_Ok"))

\* For an index below the length.  The output removed_ch is left out.
mstr_remove(s, idx) ==
  LET r == str[s]
      offset == mstr_char_offset_at(r.bytes, idx)
      ccnt == mstr_char_length(r.bytes[offset + 1])
      rest == SubSeq(r.bytes, 1, offset) \o SubSeq(r.bytes, offset + ccnt + 1, r.count)
  IN  /\ Created(s) /\ idx < r.length
      /\ Finish(s, Outcome([r EXCEPT !.bytes = rest, !.count = @ - ccnt, !.length = @ - 1],
                           heap, "MStr_Ok"))

\* Mutant: the bytes from the index on do not make way.
InsertOverwrites(s, idx, ch) ==
  LET r == str[s]
      code == mstr_as_utf8(ch)
      offset == mstr_char_offset_at(r.bytes, idx)
  IN  /\ Created(s) /\ idx < r.length
      /\ IF code = <<>>
         THEN Return("MStr_Err_UnicodeEncodingError")
         ELSE Rewrite(s, r, heap, AppendRoom(r, Len(code)),
                      [count |-> r.count + Len(code), length |-> r.length + 1,
                       bytes |-> SubSeq(r.bytes, 1, offset) \o code
                                   \o SubSeq(r.bytes, offset + Len(code) + 1, r.count)])

\* For an index up to the length, at which it is mstr_append.
mstr_insert(s, idx, ch) ==
  LET r == str[s]
      code == mstr_as_utf8(ch)
      offset == mstr_char_offset_at(r.bytes, idx)
  IN  /\ Created(s) /\ idx < r.length
      /\ IF code = <<>>
         THEN Return("MStr_Err_UnicodeEncodingError")
         ELSE Rewrite(s, r, heap, AppendRoom(r, Len(code)),
                      [count |-> r.count + Len(code), length |-> r.length + 1,
                       bytes |-> SubSeq(r.bytes, 1, offset) \o code
                                   \o SubSeq(r.bytes, offset + 1, r.count)])

\* Of any string, one without a buffer too.
mstr_free(s) ==
  Finish(s, Outcome(Freed(str[s]), Without(heap, str[s].buff), "MStr_Ok"))

--------------------------------------------------------------------------------
(* The comparisons.                                                            *)

mstr_compare_helper(a, b, len) == \A i \in 1..len : a[i] = b[i]

mstr_equal(a, b) == a.count = b.count /\ mstr_compare_helper(a.bytes, b.bytes, b.count)

mstr_start_with(a, prefix) ==
  a.count >= prefix.count /\ mstr_compare_helper(a.bytes, prefix.bytes, prefix.count)

\* Mutant: one byte too far from the end.
EndWithShifted(a, suffix) ==
  LET offset == a.count - suffix.count
  IN  a.count > suffix.count
      /\ mstr_compare_helper(SubSeq(a.bytes, offset, a.count), suffix.bytes, suffix.count)

mstr_end_with(a, suffix) ==
  LET offset == a.count - suffix.count
  IN  a.count >= suffix.count
      /\ mstr_compare_helper(SubSeq(a.bytes, offset + 1, a.count), suffix.bytes, suffix.count)

--------------------------------------------------------------------------------
Next ==
  \E s \in Strings :
    \/ \E text \in Texts : mstr_create(s, text)
    \/ \E o \in Strings : mstr_move_from(s, o) \/ mstr_copy_from(s, o) \/ mstr_concat(s, o)
    \/ \E o \in Strings : string_assign(s, o)
    \/ \E size \in Reserves : mstr_reserve(s, size)
    \/ \E ch \in Codes, cnt \in Repeats : mstr_repeat_append(s, ch, cnt)
    \/ \E text \in Texts : \E end \in 0..Len(Encode(text)) :
         mstr_concat_cstr_slice(s, text, end)
    \/ mstr_clear(s) \/ reverse(s) \/ mstr_free(s)
    \/ \E idx \in 0..(str[s].length - 1) : mstr_remove(s, idx)
    \/ \E idx \in 0..(str[s].length - 1), ch \in Codes : mstr_insert(s, idx, ch)

Spec == Init /\ [][Next]_vars

--------------------------------------------------------------------------------
(* Properties.                                                                 *)

Record ==
  [buff : Blocks \cup {NULL, Stack}, cap_size : Nat, count : Nat, length : Nat,
   bytes : Seq(0..255)]

TypeOK ==
  /\ str \in [Strings -> Record]
  /\ DOMAIN heap \subseteq Blocks
  /\ \A b \in DOMAIN heap : heap[b] \in Nat
  /\ result \in Results

\* Every block that is allocated is the buffer of exactly one string, and every
\* buffer that is a block is allocated, with the size that its string takes it to
\* have: no leak, no second owner who would free it again, no pointer to freed
\* memory, after any calls and failures, a string moved or copied onto itself
\* included.
OneOwner ==
  /\ DOMAIN heap = {str[s].buff : s \in Strings} \ {NULL, Stack}
  /\ \A s, t \in Strings : s # t /\ str[s].buff \in Blocks => str[s].buff # str[t].buff
  /\ \A s \in Strings :
       /\ str[s].buff \in Blocks => heap[str[s].buff] = str[s].cap_size
       /\ str[s].buff = Stack => str[s].cap_size = StackSize

\* There is always room behind the bytes of a string for the 0 that mstr_c_str
\* writes there without a look at the capacity.
RoomForTerminator == \A s \in Strings : Created(s) => str[s].count + 1 <= str[s].cap_size

\* The characters of bytes, up to a byte that no character starts with.
Decode(bytes) ==
  LET text[p \in 0..Len(bytes)] ==
        IF p = Len(bytes) \/ mstr_char_length(bytes[p + 1]) \notin 1..(Len(bytes) - p)
        THEN <<>>
        ELSE <<mstr_codepoint_of(SubSeq(bytes, p + 1, Len(bytes)))>>
               \o text[p + mstr_char_length(bytes[p + 1])]
  IN  text[0]

Text(s) == IF Created(s) THEN Decode(str[s].bytes) ELSE NULL

\* The bytes in use are whole characters, as many as length says: every function
\* that shifts bytes around an offset, and every one that adds to count and to
\* length, keeps the three in step, whatever the lengths of the characters.
LengthExact ==
  \A s \in Strings : Created(s) =>
    /\ str[s].count = Len(str[s].bytes)
    /\ str[s].bytes = Encode(Text(s))
    /\ str[s].length = Len(Text(s))

\* The comparisons look at bytes and mean characters: a string starts, or ends,
\* with another exactly when its text does; no match begins or ends inside a
\* character.
ComparisonsSeeCharacters ==
  \A s, t \in Strings : Created(s) /\ Created(t) =>
    /\ mstr_equal(str[s], str[t]) <=> Text(s) = Text(t)
    /\ mstr_start_with(str[s], str[t]) <=> IsPrefix(Text(t), Text(s))
    /\ mstr_end_with(str[s], str[t]) <=> IsSuffix(Text(t), Text(s))

\* A call that reports an error leaves every text as it was, or, for the target
\* of a copy, empty: nothing in between, and no other string is affected.
FailureLeavesNoPart ==
  [][result' # "MStr_Ok" =>
       \E s \in Strings :
         /\ Text(s)' \in {Text(s), <<>>}
         /\ \A t \in Strings \ {s} : Text(t)' = Text(t)]_vars

\* The strings implement the abstract store of texts.
Store == INSTANCE StringStore WITH
           Codes <- {c \in Codes : c <= MaxCode}, NoText <- NULL,
           value <- [s \in Strings |-> Text(s)]

ImplementsStore == Store!Spec
===============================================================================
