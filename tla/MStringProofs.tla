---------------------------- MODULE MStringProofs ----------------------------
(***************************************************************************)
(* Proofs about the strings, for any number of strings and blocks, any     *)
(* texts and sizes, and whichever allocations fail: every block has one    *)
(* owner; bytes, count and length agree with one text; and the calls are,  *)
(* on the texts, the operations of the abstract store.                     *)
(*                                                                         *)
(* Ownership: every call but mstr_move_from changes one string, and either *)
(* gives its block back, or exchanges it for one that was free, or keeps   *)
(* it: what Settled says.  Lemma SettledKeeps proves the invariant from    *)
(* that, the lemmas after it that the calls are of this kind.              *)
(*                                                                         *)
(* Contents: TextInv says that every string holds a text.  The lemmas      *)
(* whose names end in Effect say what each call does to the texts; types,  *)
(* lengths, failures and the refinement all follow from them.              *)
(***************************************************************************)
EXTENDS MString, Utf8Proofs

Fields == {"buff", "cap_size", "count", "length", "bytes"}

Shape(r) == DOMAIN r = Fields /\ r.buff \in Blocks \cup {NULL, Stack}

\* The inductive invariant: OneOwner, and that str and heap are functions.
IInv ==
  /\ str = [s \in Strings |-> str[s]]
  /\ \A s \in Strings : Shape(str[s])
  /\ heap = [b \in DOMAIN heap |-> heap[b]]
  /\ OneOwner

\* The heap without the block of s.
Rest(s) == Without(heap, str[s].buff)

\* The record r and the heap h are what s and the heap may become.
Settled(s, r, h) ==
  /\ Shape(r)
  /\ \/ /\ r.buff \in {NULL, Stack}
        /\ r.buff = Stack => r.cap_size = StackSize
        /\ h = Rest(s)
     \/ /\ r.buff \in Blocks \ DOMAIN Rest(s)
        /\ h = With(Rest(s), r.buff, r.cap_size)

\* What the heap holds besides the block of s belongs to the other strings.
LEMMA RestOwners ==
  ASSUME IInv, NEW s \in Strings
  PROVE  /\ DOMAIN Rest(s) = {str[t].buff : t \in Strings \ {s}} \ {NULL, Stack}
         /\ \A b \in DOMAIN Rest(s) : Rest(s)[b] = heap[b]
BY DEF IInv, OneOwner, Shape, Rest, Without

\* A step that settles s keeps the invariant.
LEMMA SettledKeeps ==
  ASSUME IInv, NEW s \in Strings, NEW r, NEW h, Settled(s, r, h),
         str' = [str EXCEPT ![s] = r], heap' = h
  PROVE  IInv'
<1>1. /\ str' = [t \in Strings |-> IF t = s THEN r ELSE str[t]]
      /\ str' = [t \in Strings |-> str'[t]]
  BY DEF IInv
<1>2. \A t \in Strings : Shape(str'[t])
  BY <1>1 DEF IInv, Settled
<1>3. heap' = [b \in DOMAIN heap' |-> heap'[b]]
  BY DEF Settled, Rest, With, Without
<1>4. OneOwner'
  <2> DEFINE others == {str[t].buff : t \in Strings \ {s}}
  <2>0. {str'[t].buff : t \in Strings} = others \cup {r.buff}
    <3>1. ASSUME NEW x \in {str'[t].buff : t \in Strings} PROVE x \in others \cup {r.buff}
      BY <1>1
    <3>2. ASSUME NEW x \in others PROVE x \in {str'[t].buff : t \in Strings}
      <4>1. PICK t \in Strings \ {s} : x = str[t].buff
        OBVIOUS
      <4>2. x = str'[t].buff
        BY <1>1, <4>1
      <4> QED
        BY <4>2
    <3>3. r.buff = str'[s].buff
      BY <1>1
    <3> QED
      BY <3>1, <3>2, <3>3
  <2>1. CASE r.buff \in {NULL, Stack} /\ h = Rest(s)
    <3>1. DOMAIN heap' = {str'[t].buff : t \in Strings} \ {NULL, Stack}
      BY <2>0, <2>1, RestOwners
    <3>2. \A t, u \in Strings :
            t # u /\ str'[t].buff \in Blocks => str'[t].buff # str'[u].buff
      BY <1>1, <2>1, MStringAssumption DEF IInv, OneOwner
    <3>3. \A t \in Strings \ {s} :
            str[t].buff \in Blocks => str[t].buff \in DOMAIN Rest(s)
      BY RestOwners, MStringAssumption
    <3>4. \A t \in Strings \ {s} : str[t].buff \in Blocks => heap'[str[t].buff] = str[t].cap_size
      BY <2>1, <3>3, RestOwners DEF IInv, OneOwner
    <3>5. ASSUME NEW t \in Strings
          PROVE  /\ str'[t].buff \in Blocks => heap'[str'[t].buff] = str'[t].cap_size
                 /\ str'[t].buff = Stack => str'[t].cap_size = StackSize
      <4>1. CASE t = s
        BY <1>1, <2>1, <4>1, MStringAssumption DEF Settled
      <4>2. CASE t # s
        BY <1>1, <3>4, <4>2 DEF IInv, OneOwner
      <4> QED
        BY <4>1, <4>2
    <3> QED
      BY <3>1, <3>2, <3>5 DEF OneOwner
  <2>2. CASE /\ r.buff \in Blocks \ DOMAIN Rest(s)
             /\ h = With(Rest(s), r.buff, r.cap_size)
    <3>1. DOMAIN heap' = DOMAIN Rest(s) \cup {r.buff}
      BY <2>2 DEF With
    <3>2. DOMAIN heap' = {str'[t].buff : t \in Strings} \ {NULL, Stack}
      BY <2>0, <2>2, <3>1, RestOwners, MStringAssumption
    <3>3. heap'[r.buff] = r.cap_size /\ \A b \in DOMAIN Rest(s) : heap'[b] = heap[b]
      BY <2>2, RestOwners DEF With
    <3>4. \A t \in Strings \ {s} : str[t].buff \in Blocks => str[t].buff \in DOMAIN Rest(s)
      BY RestOwners, MStringAssumption
    <3> QED
      BY <1>1, <2>2, <3>2, <3>3, <3>4, MStringAssumption DEF IInv, OneOwner
  <2> QED
    BY <2>1, <2>2 DEF Settled
<1> QED
  BY <1>1, <1>2, <1>3, <1>4 DEF IInv

\* A record with the buffer and the capacity that s has settles s, if the heap
\* stays as it is.
LEMMA SameSettled ==
  ASSUME IInv, NEW s \in Strings, NEW r, Shape(r),
         r.buff = str[s].buff, r.cap_size = str[s].cap_size
  PROVE  Settled(s, r, heap)
<1>1. CASE r.buff \in {NULL, Stack}
  BY <1>1, MStringAssumption DEF IInv, OneOwner, Settled, Rest, Without
<1>2. CASE r.buff \in Blocks
  <2>1. r.buff \in DOMAIN heap /\ heap[r.buff] = r.cap_size
    BY <1>2, MStringAssumption DEF IInv, OneOwner
  <2>2. heap = With(Rest(s), r.buff, r.cap_size)
    BY <2>1 DEF IInv, Rest, With, Without
  <2> QED
    BY <1>2, <2>1, <2>2 DEF Settled, Rest, Without
<1> QED
  BY <1>1, <1>2 DEF Shape

\* The record r has the buffer and the capacity of s.
Like(s, r) == Shape(r) /\ r.buff = str[s].buff /\ r.cap_size = str[s].cap_size

\* Every outcome of reserving settles s: for a string in its own buffer, and for the
\* empty one that mstr_copy_from starts from.
LEMMA ReservedSettles ==
  ASSUME IInv, NEW s \in Strings, NEW r, NEW blocks, NEW n,
         \/ Like(s, r) /\ blocks = heap
         \/ r = Empty /\ blocks = Rest(s),
         NEW o \in Reserved(r, blocks, n)
  PROVE  Settled(s, o.str, o.heap)
<1>1. Shape(r)
  <2>1. Shape(Empty)
    BY DEF Shape, Empty, Fields
  <2> QED
    BY <2>1 DEF Like
<1>2. Without(blocks, r.buff) = Rest(s)
  <2>1. CASE Like(s, r) /\ blocks = heap
    BY <2>1 DEF Rest, Like
  <2>2. CASE r = Empty /\ blocks = Rest(s)
    <3>1. Stack \notin DOMAIN Rest(s)
      BY RestOwners
    <3>2. Rest(s) = [b \in DOMAIN Rest(s) |-> Rest(s)[b]]
      BY DEF Rest, Without
    <3>3. Empty.buff = Stack
      BY DEF Empty
    <3> QED
      BY <2>2, <3>1, <3>2, <3>3 DEF Without
  <2> QED
    BY <2>1, <2>2
<1>3. Settled(s, r, blocks)
  <2>1. CASE Like(s, r) /\ blocks = heap
    BY <1>1, <2>1, SameSettled DEF Like
  <2>2. CASE r = Empty /\ blocks = Rest(s)
    BY <1>1, <2>2 DEF Settled, Empty
  <2> QED
    BY <2>1, <2>2
<1>4. CASE o.str = r /\ o.heap = blocks
  BY <1>3, <1>4
<1>5. ASSUME NEW b \in Available(blocks),
             o = Outcome([r EXCEPT !.buff = b, !.cap_size = n],
                         With(Without(blocks, r.buff), b, n), "MStr_Ok")
      PROVE  Settled(s, o.str, o.heap)
  <2>1. /\ DOMAIN o.str = Fields
        /\ o.str.buff = b /\ o.str.cap_size = n
        /\ o.heap = With(Rest(s), b, n)
    BY <1>1, <1>2, <1>5 DEF Outcome, Shape, Fields
  <2>2. b \in Blocks \ DOMAIN Rest(s)
    BY <1>2 DEF Available, Without
  <2> QED
    BY <2>1, <2>2 DEF Settled, Shape
<1>6. CASE o \in {Outcome(r, blocks, "MStr_Ok"), Outcome(r, blocks, "MStr_Err_HeapTooSmall")}
  BY <1>4, <1>6 DEF Outcome
<1> QED
  BY <1>5, <1>6 DEF Reserved

\* So does a call that reserves and then writes.
LEMMA RewriteKeeps ==
  ASSUME IInv, NEW s \in Strings, NEW r, NEW blocks, NEW n, NEW new,
         \/ Like(s, r) /\ blocks = heap
         \/ r = Empty /\ blocks = Rest(s),
         Rewrite(s, r, blocks, n, new)
  PROVE  IInv'
<1>1. PICK o \in Reserved(r, blocks, n) :
        Finish(s, IF o.result = "MStr_Ok"
                  THEN [o EXCEPT !.str.count = new.count, !.str.length = new.length,
                                 !.str.bytes = new.bytes]
                  ELSE o)
  BY DEF Rewrite
<1>2. Settled(s, o.str, o.heap)
  BY ReservedSettles
<1>3. o = Outcome(o.str, o.heap, o.result)
  <2>1. \A x, h, res : Outcome(x, h, res) =
          Outcome(Outcome(x, h, res).str, Outcome(x, h, res).heap, Outcome(x, h, res).result)
    BY DEF Outcome
  <2>2. \E x, h, res : o = Outcome(x, h, res)
    BY DEF Reserved
  <2> QED
    BY <2>1, <2>2
<1>4. CASE o.result = "MStr_Ok"
  <2> DEFINE written == [o EXCEPT !.str.count = new.count, !.str.length = new.length,
                                  !.str.bytes = new.bytes]
  <2>1. Finish(s, written)
    BY <1>1, <1>4
  <2>2. written.heap = o.heap /\ DOMAIN written.str = Fields
        /\ written.str.buff = o.str.buff /\ written.str.cap_size = o.str.cap_size
    BY <1>2, <1>3 DEF Outcome, Settled, Shape, Fields
  <2>3. Settled(s, written.str, written.heap)
    BY <1>2, <2>2 DEF Settled, Shape
  <2> QED
    BY <2>1, <2>3, SettledKeeps DEF Finish
<1>5. CASE o.result # "MStr_Ok"
  BY <1>1, <1>2, <1>5, SettledKeeps DEF Finish
<1> QED
  BY <1>4, <1>5

\* A call that leaves the strings and the heap as they are keeps the invariant.
LEMMA UnchangedKeeps == ASSUME IInv, UNCHANGED <<str, heap>> PROVE IInv'
BY DEF IInv, OneOwner, Shape

\* A call that only writes the contents of s keeps the invariant.
LEMMA WriteKeeps ==
  ASSUME IInv, NEW s \in Strings, NEW r, NEW res, Shape(r),
         r.buff = str[s].buff, r.cap_size = str[s].cap_size,
         Finish(s, Outcome(r, heap, res))
  PROVE  IInv'
<1>1. str' = [str EXCEPT ![s] = r] /\ heap' = heap
  BY DEF Finish, Outcome
<1> QED
  BY <1>1, SameSettled, SettledKeeps

LEMMA CreateKeeps ==
  ASSUME IInv, NEW s \in Strings, NEW text, mstr_create(s, text)
  PROVE  IInv'
<1> DEFINE bytes == Encode(text)
           size == mstr_strlen(bytes, Len(bytes))
           cap == size.count + StackSize
           filled(buff, cap_size, held) ==
             [buff |-> buff, cap_size |-> cap_size, count |-> size.count,
              length |-> size.length, bytes |-> held]
<1> HIDE DEF size, cap
<1>1. str[s].buff = NULL /\ Rest(s) = heap
  BY DEF mstr_create, Created, IInv, OneOwner, Rest, Without
<1>2. CASE Finish(s, Outcome(filled(Stack, StackSize, bytes), heap, "MStr_Ok"))
  <2>1. Settled(s, filled(Stack, StackSize, bytes), heap)
    BY <1>1 DEF Settled, Shape, Fields
  <2> QED
    BY <1>2, <2>1, SettledKeeps DEF Finish, Outcome
<1>3. ASSUME NEW b \in Available(heap),
             Finish(s, Outcome(filled(b, cap, bytes), With(heap, b, cap), "MStr_Ok"))
      PROVE  IInv'
  <2>1. Settled(s, filled(b, cap, bytes), With(heap, b, cap))
    BY <1>1 DEF Settled, Shape, Fields, Available
  <2> QED
    BY <1>3, <2>1, SettledKeeps DEF Finish, Outcome
<1>4. CASE Finish(s, Outcome(filled(NULL, cap, <<>>), heap, "MStr_Err_HeapTooSmall"))
  <2>1. Settled(s, filled(NULL, cap, <<>>), heap)
    BY <1>1, MStringAssumption DEF Settled, Shape, Fields
  <2> QED
    BY <1>4, <2>1, SettledKeeps DEF Finish, Outcome
<1> QED
  BY <1>2, <1>3, <1>4 DEF mstr_create, size, cap

LEMMA MoveKeeps ==
  ASSUME IInv, NEW s \in Strings, NEW o \in Strings, mstr_move_from(s, o)
  PROVE  IInv'
<1> DEFINE freed == IF Created(s) THEN [str EXCEPT ![s] = Freed(@)] ELSE str
<1>1. /\ Shape(Nothing) /\ Nothing.buff = NULL
      /\ Shape(Freed(str[s])) /\ Freed(str[s]).buff = NULL
  BY DEF IInv, Shape, Fields, Nothing, Freed
<1>2. /\ str' = [freed EXCEPT ![s] = freed[o], ![o] = Nothing]
      /\ heap' = Rest(s)
  BY DEF mstr_move_from, Rest
<1>3. CASE s = o
  <2>1. str' = [str EXCEPT ![s] = Nothing]
    BY <1>2, <1>3 DEF IInv
  <2>2. Settled(s, Nothing, Rest(s))
    BY <1>1, MStringAssumption DEF Settled
  <2> QED
    BY <1>2, <2>1, <2>2, SettledKeeps
<1>4. CASE s # o
  <2>1. str' = [t \in Strings |-> CASE t = s -> str[o] [] t = o -> Nothing [] OTHER -> str[t]]
    BY <1>2, <1>4 DEF IInv
  <2>2. /\ str'[s] = str[o] /\ str'[o].buff = NULL
        /\ \A t \in Strings \ {s, o} : str'[t] = str[t]
    BY <1>1, <1>4, <2>1
  <2>3. \A t \in Strings : Shape(str'[t])
    <3>1. ASSUME NEW t \in Strings PROVE Shape(str'[t])
      <4>1. CASE t = s
        BY <2>2, <4>1 DEF IInv
      <4>2. CASE t = o
        BY <1>1, <1>4, <2>1, <4>2
      <4>3. CASE t \notin {s, o}
        BY <2>2, <4>3 DEF IInv
      <4> QED
        BY <4>1, <4>2, <4>3
    <3> QED
      BY <3>1
  <2>4. DOMAIN heap' = {str'[t].buff : t \in Strings} \ {NULL, Stack}
    <3>1. DOMAIN heap' = {str[t].buff : t \in Strings \ {s}} \ {NULL, Stack}
      BY <1>2, RestOwners
    <3>2. ASSUME NEW t \in Strings \ {s}, str[t].buff # NULL
          PROVE  str[t].buff \in {str'[u].buff : u \in Strings}
      <4>1. CASE t = o
        BY <2>2, <4>1
      <4>2. CASE t # o
        BY <2>2, <4>2
      <4> QED
        BY <4>1, <4>2
    <3>3. ASSUME NEW t \in Strings, str'[t].buff # NULL
          PROVE  str'[t].buff \in {str[u].buff : u \in Strings \ {s}}
      <4>1. CASE t = s
        BY <1>4, <2>2, <4>1
      <4>2. CASE t \notin {s, o}
        BY <2>2, <4>2
      <4> QED
        BY <2>2, <3>3, <4>1, <4>2
    <3> QED
      BY <3>1, <3>2, <3>3
  <2>5. \A t, u \in Strings : t # u /\ str'[t].buff \in Blocks => str'[t].buff # str'[u].buff
    BY <1>4, <2>2, MStringAssumption DEF IInv, OneOwner
  <2>6. ASSUME NEW t \in Strings
        PROVE  /\ str'[t].buff \in Blocks => heap'[str'[t].buff] = str'[t].cap_size
               /\ str'[t].buff = Stack => str'[t].cap_size = StackSize
    <3>1. \A u \in Strings \ {s} : str[u].buff \in Blocks => heap'[str[u].buff] = str[u].cap_size
      <4>1. \A u \in Strings \ {s} : str[u].buff \in Blocks => str[u].buff \in DOMAIN Rest(s)
        BY RestOwners, MStringAssumption
      <4> QED
        BY <1>2, <4>1, RestOwners DEF IInv, OneOwner
    <3>2. CASE t = s
      BY <1>4, <2>2, <3>1, <3>2 DEF IInv, OneOwner
    <3>3. CASE t = o
      BY <2>2, <3>3, MStringAssumption
    <3>4. CASE t \notin {s, o}
      BY <2>2, <3>1, <3>4 DEF IInv, OneOwner
    <3> QED
      BY <3>2, <3>3, <3>4
  <2>7. /\ str' = [t \in Strings |-> str'[t]]
        /\ heap' = [b \in DOMAIN heap' |-> heap'[b]]
    BY <1>2, <2>1 DEF Rest, Without
  <2> QED
    BY <2>3, <2>4, <2>5, <2>6, <2>7 DEF IInv, OneOwner
<1> QED
  BY <1>3, <1>4

\* The calls that grow or copy a string, by RewriteKeeps.
LEMMA GrowthKeeps ==
  ASSUME IInv, NEW s \in Strings,
         \/ \E o \in Strings : mstr_copy_from(s, o) \/ mstr_concat(s, o) \/ string_assign(s, o)
         \/ \E size : mstr_reserve(s, size)
         \/ \E ch, cnt : mstr_repeat_append(s, ch, cnt)
         \/ \E text, end : mstr_concat_cstr_slice(s, text, end)
         \/ \E idx, ch : mstr_insert(s, idx, ch)
  PROVE  IInv'
<1>0. Like(s, str[s]) /\ Like(s, Cleared(str[s]))
  BY DEF IInv, Like, Shape, Fields, Cleared
<1>1. ASSUME NEW o \in Strings, mstr_copy_from(s, o) PROVE IInv'
  <2>1. \E n, new : Rewrite(s, Empty, Rest(s), n, new)
    BY <1>1 DEF mstr_copy_from, Rest
  <2> QED
    BY <2>1, RewriteKeeps
<1>2. ASSUME NEW o \in Strings, mstr_concat(s, o) PROVE IInv'
  BY <1>0, <1>2, RewriteKeeps DEF mstr_concat
<1>3. ASSUME NEW size, mstr_reserve(s, size) PROVE IInv'
  <2>1. PICK o \in Reserved(str[s], heap, size) : Finish(s, o)
    BY <1>3 DEF mstr_reserve
  <2> QED
    BY <1>0, <2>1, ReservedSettles, SettledKeeps DEF Finish
<1>4. ASSUME NEW ch, NEW cnt, mstr_repeat_append(s, ch, cnt) PROVE IInv'
  <2>1. \/ \E n, new : Rewrite(s, str[s], heap, n, new)
        \/ UNCHANGED <<str, heap>>
    BY <1>4 DEF mstr_repeat_append, Return
  <2> QED
    BY <1>0, <2>1, RewriteKeeps, UnchangedKeeps
<1>5. ASSUME NEW text, NEW end, mstr_concat_cstr_slice(s, text, end) PROVE IInv'
  <2>1. \/ \E n, new : Rewrite(s, str[s], heap, n, new)
        \/ UNCHANGED <<str, heap>>
    BY <1>5 DEF mstr_concat_cstr_slice, Return
  <2> QED
    BY <1>0, <2>1, RewriteKeeps, UnchangedKeeps
<1>6. ASSUME NEW idx, NEW ch, mstr_insert(s, idx, ch) PROVE IInv'
  <2>1. \/ \E n, new : Rewrite(s, str[s], heap, n, new)
        \/ UNCHANGED <<str, heap>>
    BY <1>6 DEF mstr_insert, Return
  <2> QED
    BY <1>0, <2>1, RewriteKeeps, UnchangedKeeps
<1>7. ASSUME NEW o \in Strings, string_assign(s, o) PROVE IInv'
  BY <1>0, <1>7, RewriteKeeps DEF string_assign
<1> QED
  BY <1>1, <1>2, <1>3, <1>4, <1>5, <1>6, <1>7

\* The calls that change the contents in place, and the release.
LEMMA EditKeeps ==
  ASSUME IInv, NEW s \in Strings,
         \/ mstr_clear(s) \/ reverse(s) \/ mstr_free(s)
         \/ \E idx : mstr_remove(s, idx)
  PROVE  IInv'
<1> DEFINE SameButContents(r) ==
             DOMAIN r = Fields /\ r.buff = str[s].buff /\ r.cap_size = str[s].cap_size
<1>1. Shape(str[s])
  BY DEF IInv
<1>2. ASSUME mstr_clear(s) \/ reverse(s) \/ (\E idx : mstr_remove(s, idx)) PROVE IInv'
  <2>1. \E r, res : SameButContents(r) /\ Finish(s, Outcome(r, heap, res))
    <3>1. CASE mstr_clear(s)
      BY <1>1, <3>1 DEF mstr_clear, Cleared, Shape, Fields
    <3>2. CASE reverse(s)
      BY <1>1, <3>2 DEF reverse, Shape, Fields
    <3>3. ASSUME NEW idx, mstr_remove(s, idx)
          PROVE  \E r, res : SameButContents(r) /\ Finish(s, Outcome(r, heap, res))
      BY <1>1, <3>3 DEF mstr_remove, Shape, Fields
    <3> QED
      BY <1>2, <3>1, <3>2, <3>3
  <2> QED
    BY <1>1, <2>1, WriteKeeps DEF Shape
<1>3. ASSUME mstr_free(s) PROVE IInv'
  <2>1. Shape(Freed(str[s])) /\ Freed(str[s]).buff = NULL
    BY <1>1 DEF Shape, Fields, Freed
  <2>2. Settled(s, Freed(str[s]), Rest(s))
    BY <2>1, MStringAssumption DEF Settled
  <2> QED
    BY <1>3, <2>2, SettledKeeps DEF mstr_free, Finish, Outcome, Rest
<1> QED
  BY <1>2, <1>3

LEMMA InitHolds == Init => IInv
<1> SUFFICES ASSUME Init PROVE IInv
  OBVIOUS
<1>1. Shape(Nothing) /\ Nothing.buff = NULL
  BY DEF Shape, Fields, Nothing
<1>2. DOMAIN heap = {} /\ \A s \in Strings : str[s] = Nothing
  BY DEF Init
<1>3. {str[s].buff : s \in Strings} \ {NULL, Stack} = {}
  BY <1>1, <1>2
<1> QED
  BY <1>1, <1>2, <1>3, MStringAssumption DEF Init, IInv, OneOwner

LEMMA NextKeeps == IInv /\ [Next]_vars => IInv'
<1> SUFFICES ASSUME IInv, [Next]_vars PROVE IInv'
  OBVIOUS
<1>1. CASE UNCHANGED vars
  BY <1>1, UnchangedKeeps DEF vars
<1>2. CASE Next
  <2>1. PICK s \in Strings :
          \/ \E text : mstr_create(s, text)
          \/ \E o \in Strings : mstr_move_from(s, o)
          \/ \/ \E o \in Strings : mstr_copy_from(s, o) \/ mstr_concat(s, o) \/ string_assign(s, o)
             \/ \E size : mstr_reserve(s, size)
             \/ \E ch, cnt : mstr_repeat_append(s, ch, cnt)
             \/ \E text, end : mstr_concat_cstr_slice(s, text, end)
             \/ \E idx, ch : mstr_insert(s, idx, ch)
          \/ \/ mstr_clear(s) \/ reverse(s) \/ mstr_free(s)
             \/ \E idx : mstr_remove(s, idx)
    BY <1>2 DEF Next
  <2> QED
    BY <2>1, CreateKeeps, MoveKeeps, GrowthKeeps, EditKeeps
<1> QED
  BY <1>1, <1>2

\* No leak, no second owner and no pointer to freed memory, whatever calls are
\* made on however many strings, and whichever of them fail.
THEOREM MStringOneOwner == Spec => []OneOwner
<1>1. IInv => OneOwner
  BY DEF IInv
<1> QED
  BY <1>1, InitHolds, NextKeeps, PTL DEF Spec

--------------------------------------------------------------------------------
(* What Decode makes of the bytes of a text.                                   *)

\* Decode undoes Encode.
LEMMA DecodeEncodes ==
  ASSUME NEW t \in Seq(Code)
  PROVE  Decode(Encode(t)) = t
<1> DEFINE b == Encode(t)
           n == Len(t)
           After(k) == SubSeq(t, k + 1, n)
           Read(p, rest) ==
             IF p = Len(b) \/ mstr_char_length(b[p + 1]) \notin 1..(Len(b) - p)
             THEN <<>>
             ELSE <<mstr_codepoint_of(SubSeq(b, p + 1, Len(b)))>> \o rest
           Reads(f) == f = [p \in 0..Len(b) |-> Read(p, f[p + mstr_char_length(b[p + 1])])]
           read[p \in 0..Len(b)] ==
             IF p = Len(b) \/ mstr_char_length(b[p + 1]) \notin 1..(Len(b) - p)
             THEN <<>>
             ELSE <<mstr_codepoint_of(SubSeq(b, p + 1, Len(b)))>>
                    \o read[p + mstr_char_length(b[p + 1])]
           g == [p \in 0..Len(b) |->
                   IF \E k \in 0..n : p = Offset(t, k)
                   THEN After(CHOOSE k \in 0..n : p = Offset(t, k))
                   ELSE <<>>]
<1>0. /\ n \in Nat /\ Len(b) \in Nat
      /\ \A k \in 0..n : Offset(t, k) \in 0..Len(b)
      /\ Offset(t, 0) = 0 /\ Offset(t, n) = Len(b)
  BY LenProperties, SplitBytes, EncodeType, OffsetEnds
<1>1. Decode(b) = read[0]
  BY DEF Decode
<1>2. After(n) = <<>> /\ After(0) = t
  <2>1. 0 + 1 = 1 /\ n + 1 > n
    BY <1>0
  <2> QED
    BY <2>1, SubSeqFull, SubSeqEmpty
<1> HIDE DEF read
<1>3. ASSUME NEW k \in 0..(n - 1)
      PROVE  LET p == Offset(t, k)
             IN  /\ p \in 0..Len(b) /\ p # Len(b)
                 /\ p + mstr_char_length(b[p + 1]) = Offset(t, k + 1)
                 /\ \A rest : Read(p, rest) = <<t[k + 1]>> \o rest
                 /\ After(k) = <<t[k + 1]>> \o After(k + 1)
  <2> DEFINE p == Offset(t, k)
             l == mstr_char_length(b[p + 1])
  <2>1. /\ p \in 0..(Len(b) - 1) /\ p + l = Offset(t, k + 1)
        /\ mstr_codepoint_of(SubSeq(b, p + 1, Len(b))) = t[k + 1]
        /\ l \in 1..4 /\ p + l <= Len(b)
    BY CharacterAt DEF Character
  <2>2. After(k) = <<t[k + 1]>> \o After(k + 1)
    <3>1. (k + 1) + 1 = k + 2
      BY <1>0
    <3> QED
      BY <3>1, NextPrefix
  <2> HIDE DEF l, p
  <2>3. p # Len(b) /\ l \in 1..(Len(b) - p)
    BY <1>0, <2>1
  <2> QED
    BY <1>0, <2>1, <2>2, <2>3 DEF l, p
<1>4. \A k \in 0..n : g[Offset(t, k)] = After(k)
  <2> SUFFICES ASSUME NEW k \in 0..n PROVE g[Offset(t, k)] = After(k)
    OBVIOUS
  <2> DEFINE m == CHOOSE i \in 0..n : Offset(t, k) = Offset(t, i)
  <2>1. m \in 0..n /\ Offset(t, k) = Offset(t, m)
    OBVIOUS
  <2>2. g[Offset(t, k)] = After(m)
    BY <1>0
  <2> HIDE DEF m, g
  <2>3. m = k
    <3>1. ~(m < k) /\ ~(k < m)
      <4>1. Offset(t, k) \in Int /\ Offset(t, m) \in Int
        BY <1>0, <2>1
      <4> QED
        BY <2>1, <4>1, OffsetIncreases
    <3> QED
      BY <1>0, <2>1, <3>1
  <2> QED
    BY <2>2, <2>3
<1>5. ASSUME NEW p \in 0..Len(b)
      PROVE  g[p] = Read(p, g[p + mstr_char_length(b[p + 1])])
  <2>1. CASE p = Len(b)
    <3>1. g[p] = <<>>
      <4>1. n \in 0..n
        BY <1>0
      <4> HIDE DEF g, After
      <4> QED
        BY <1>0, <1>2, <1>4, <2>1, <4>1
    <3> HIDE DEF g
    <3> QED
      BY <2>1, <3>1
  <2>2. CASE p # Len(b) /\ \E k \in 0..n : p = Offset(t, k)
    <3>1. PICK k \in 0..n : p = Offset(t, k)
      BY <2>2
    <3>2. k \in 0..(n - 1) /\ k + 1 \in 0..n
      BY <1>0, <2>2, <3>1
    <3> HIDE DEF g, After, Read
    <3>3. g[Offset(t, k)] = After(k) /\ g[Offset(t, k + 1)] = After(k + 1)
      BY <1>4, <3>2
    <3>4. /\ Offset(t, k) + mstr_char_length(b[Offset(t, k) + 1]) = Offset(t, k + 1)
          /\ After(k) = <<t[k + 1]>> \o After(k + 1)
      BY <1>3, <3>2
    <3>5. Read(Offset(t, k), g[Offset(t, k + 1)]) = <<t[k + 1]>> \o g[Offset(t, k + 1)]
      BY <1>3, <3>2
    <3> QED
      BY <3>1, <3>3, <3>4, <3>5
  <2>3. CASE ~(\E k \in 0..n : p = Offset(t, k))
    <3>1. g[p] = <<>>
      BY <2>3
    <3>2. mstr_char_length(b[p + 1]) = 0
      <4>1. p \in 0..(Len(b) - 1)
        <5>1. n \in 0..n
          BY <1>0
        <5> QED
          BY <1>0, <2>3, <5>1
      <4>2. PICK k \in 0..(Len(t) - 1) :
              /\ p \in Offset(t, k)..(Offset(t, k + 1) - 1)
              /\ p # Offset(t, k) => b[p + 1] \in 128..191
        BY <4>1, Located
      <4>3. k \in 0..n
        BY <1>0
      <4> QED
        BY <2>3, <4>2, <4>3, LengthByLead
    <3> HIDE DEF g
    <3> QED
      BY <3>1, <3>2
  <2> QED
    BY <2>1, <2>2, <2>3
<1>6. Reads(g)
  <2>1. g = [p \in 0..Len(b) |-> g[p]]
    OBVIOUS
  <2> HIDE DEF g, Read
  <2> QED
    BY <1>5, <2>1
<1>7. Reads(read)
  <2> HIDE DEF g
  <2> QED
    BY <1>6 DEF read
<1> HIDE DEF g
<1> DEFINE G == {d \in Nat : d <= n => read[Offset(t, n - d)] = After(n - d)}
<1>8. 0 \in G
  <2>1. n - 0 = n
    BY <1>0
  <2>2. Read(Len(b), read[Len(b) + mstr_char_length(b[Len(b) + 1])]) = <<>>
    OBVIOUS
  <2>3. read[Len(b)] = Read(Len(b), read[Len(b) + mstr_char_length(b[Len(b) + 1])])
    <3>1. Len(b) \in 0..Len(b)
      BY <1>0
    <3> HIDE DEF Read
    <3> QED
      BY <1>7, <3>1
  <2> HIDE DEF Read, After
  <2> QED
    BY <1>0, <1>2, <2>1, <2>2, <2>3
<1>9. ASSUME NEW d \in Nat, d \in G PROVE d + 1 \in G
  <2>1. SUFFICES ASSUME d + 1 <= n PROVE read[Offset(t, n - (d + 1))] = After(n - (d + 1))
    OBVIOUS
  <2> DEFINE k == n - (d + 1)
  <2>2. k \in 0..(n - 1) /\ k + 1 = n - d /\ d <= n
    BY <1>0, <2>1
  <2>3. read[Offset(t, k + 1)] = After(k + 1)
    BY <1>9, <2>2
  <2> HIDE DEF k, After, Read
  <2>4. read[Offset(t, k)] =
          Read(Offset(t, k), read[Offset(t, k) + mstr_char_length(b[Offset(t, k) + 1])])
    BY <1>3, <1>7, <2>2
  <2>5. /\ Offset(t, k) + mstr_char_length(b[Offset(t, k) + 1]) = Offset(t, k + 1)
        /\ After(k) = <<t[k + 1]>> \o After(k + 1)
    BY <1>3, <2>2
  <2>6. Read(Offset(t, k), read[Offset(t, k + 1)]) = <<t[k + 1]>> \o read[Offset(t, k + 1)]
    BY <1>3, <2>2
  <2>7. read[Offset(t, k)] = After(k)
    BY <2>3, <2>4, <2>5, <2>6
  <2> QED
    BY <2>7 DEF k
<1> HIDE DEF G, After
<1>10. Nat \subseteq G
  BY <1>8, <1>9, NumberInduction
<1>11. n <= n /\ n - n = 0
  BY <1>0
<1> QED
  BY <1>0, <1>1, <1>2, <1>10, <1>11 DEF G

--------------------------------------------------------------------------------
(* What the operations do to the bytes of a text.                              *)

\* The code points above MaxCode, and they only, have no encoding.
LEMMA NoEncoding ==
  ASSUME NEW c \in Nat
  PROVE  mstr_as_utf8(c) = <<>> <=> c \notin Code
<1>1. CASE c \in Code
  BY <1>1, EncodesCharacter, EmptySeq DEF Character
<1>2. CASE c \notin Code
  <2>1. c > MaxCode
    <3>1. MaxCode \in Nat
      BY SMTT(10) DEF MaxCode
    <3> QED
      BY <1>2, <3>1 DEF Code
  <2>2. mstr_as_utf8(c) = <<>>
    BY <2>1, SMTT(10) DEF mstr_as_utf8, MaxCode
  <2> QED
    BY <1>2, <2>2
<1> QED
  BY <1>1, <1>2

\* What mstr_repeat_append writes is the encoding of the character, n times.
LEMMA RepeatEncodes ==
  ASSUME NEW c \in Code, NEW n \in Nat
  PROVE  LET u == mstr_as_utf8(c)
             t == [i \in 1..n |-> c]
         IN  /\ t \in Seq(Code) /\ Len(t) = n
             /\ Encode(t) = [i \in 1..(Len(u) * n) |-> u[1 + ((i - 1) % Len(u))]]
             /\ Len(Encode(t)) = Len(u) * n
<1> DEFINE u == mstr_as_utf8(c)
           m == Len(u)
           Same(k) == [i \in 1..k |-> c]
           Written(k) == [i \in 1..(m * k) |-> u[1 + ((i - 1) % m)]]
           G == {k \in Nat : Encode(Same(k)) = Written(k)}
<1>1. u \in Seq(Byte) /\ m \in 1..4
  BY EncodesCharacter DEF Character
<1>2. \A k \in Nat : Same(k) \in Seq(Code) /\ Len(Same(k)) = k
  OBVIOUS
<1> HIDE DEF u
<1>3. ASSUME NEW k \in Nat
      PROVE  m * k \in Nat /\ Written(k) \in Seq(Byte) /\ Len(Written(k)) = m * k
  <2>1. m * k \in Nat
    BY <1>1
  <2>2. \A i \in 1..(m * k) : 1 + ((i - 1) % m) \in 1..m
    <3> SUFFICES ASSUME NEW i \in 1..(m * k) PROVE 1 + ((i - 1) % m) \in 1..m
      OBVIOUS
    <3>1. i - 1 \in Nat
      BY <2>1
    <3> DEFINE q == i - 1
    <3> HIDE DEF q
    <3>2. q \in Nat
      BY <3>1 DEF q
    <3>3. 1 + (q % m) \in 1..m
      BY <1>1, <3>2
    <3> QED
      BY <3>3 DEF q
  <2>3. \A i \in 1..(m * k) : u[1 + ((i - 1) % m)] \in Byte
    BY <1>1, <2>2, ElementOfSeq
  <2> QED
    BY <2>1, <2>3
<1>4. 0 \in G
  <2>1. m * 0 = 0
    BY <1>1
  <2>2. Same(0) = <<>> /\ Written(0) = <<>>
    BY <2>1
  <2> QED
    BY <2>2, EncodeEmpty
<1>5. ASSUME NEW k \in Nat, k \in G PROVE k + 1 \in G
  <2>1. Same(k + 1) = Append(Same(k), c)
    OBVIOUS
  <2>2. Encode(Same(k + 1)) = Written(k) \o u
    BY <1>2, <1>5, <2>1, EncodeAppend DEF u
  <2> DEFINE a == Written(k) \o u
             b == Written(k + 1)
  <2>3. /\ a \in Seq(Byte) /\ Len(a) = m * k + m
        /\ \A i \in 1..(m * k + m) : a[i] = IF i <= m * k THEN Written(k)[i] ELSE u[i - m * k]
    BY <1>1, <1>3, ConcatProperties
  <2>4. m * (k + 1) = m * k + m
    BY <1>1
  <2>5. b \in Seq(Byte) /\ Len(b) = m * k + m
    <3>1. k + 1 \in Nat
      OBVIOUS
    <3> HIDE DEF Written, m
    <3> QED
      BY <1>3, <2>4, <3>1
  <2>6. \A i \in 1..(m * k + m) : a[i] = b[i]
    <3> SUFFICES ASSUME NEW i \in 1..(m * k + m) PROVE a[i] = b[i]
      OBVIOUS
    <3>1. m * k \in Nat
      BY <1>3
    <3>2. b[i] = u[1 + ((i - 1) % m)]
      BY <2>4
    <3>3. CASE i <= m * k
      <4>1. i \in 1..(m * k)
        BY <3>1, <3>3
      <4>2. Written(k)[i] = u[1 + ((i - 1) % m)]
        BY <4>1
      <4> HIDE DEF a, b
      <4> QED
        BY <2>3, <3>2, <3>3, <4>2 DEF a
    <3>4. CASE ~(i <= m * k)
      <4> DEFINE j == i - m * k
      <4>1. j \in 1..m
        BY <1>1, <3>1, <3>4
      <4>2. (i - 1) % m = j - 1
        <5>1. i - 1 = m * k + (j - 1)
          BY <1>1, <3>1
        <5> HIDE DEF j
        <5>2. (m * k + (j - 1)) % m = j - 1
          <6>1. CASE m = 1
            BY <4>1, <6>1
          <6>2. CASE m = 2
            BY <4>1, <6>2
          <6>3. CASE m = 3
            BY <4>1, <6>3
          <6>4. CASE m = 4
            BY <4>1, <6>4
          <6> HIDE DEF m
          <6> QED
            BY <1>1, <6>1, <6>2, <6>3, <6>4
        <5> QED
          BY <5>1, <5>2
      <4>3. 1 + (j - 1) = j
        BY <4>1
      <4>4. b[i] = u[j]
        BY <3>2, <4>2, <4>3
      <4>5. a[i] = u[j]
        <5> HIDE DEF a, b
        <5> QED
          BY <2>3, <3>4
      <4> QED
        BY <4>4, <4>5
    <3> QED
      BY <3>3, <3>4
  <2> HIDE DEF a, b
  <2>7. a = b
    BY <2>3, <2>5, <2>6, SeqEqual
  <2>8. Encode(Same(k + 1)) = Written(k + 1)
    <3> HIDE DEF Written, Same
    <3> QED
      BY <2>2, <2>7 DEF a, b
  <2> QED
    BY <2>8
<1> HIDE DEF G
<1>6. Nat \subseteq G
  BY <1>4, <1>5, NumberInduction
<1>7. Encode(Same(n)) = Written(n)
  BY <1>6 DEF G
<1>8. Len(Encode(Same(n))) = m * n
  BY <1>3, <1>7
<1> QED
  BY <1>2, <1>7, <1>8 DEF u

\* The bytes without those of the character at idx, as mstr_remove leaves them.
LEMMA RemoveEncodes ==
  ASSUME NEW t \in Seq(Code), NEW idx \in 0..(Len(t) - 1)
  PROVE  LET b == Encode(t)
             o == mstr_char_offset_at(b, idx)
             c == mstr_char_length(b[o + 1])
             v == RemoveAt(t, idx + 1)
         IN  /\ v \in Seq(Code) /\ Len(v) = Len(t) - 1
             /\ Encode(v) = SubSeq(b, 1, o) \o SubSeq(b, o + c + 1, Len(b))
             /\ Len(Encode(v)) = Len(b) - c /\ Len(Encode(v)) <= Len(b)
<1> DEFINE b == Encode(t)
           o == Offset(t, idx)
           p == Offset(t, idx + 1)
           c == mstr_char_length(b[o + 1])
           x == SubSeq(t, 1, idx)
           y == SubSeq(t, idx + 2, Len(t))
<1>1. /\ idx \in 0..Len(t) /\ idx + 1 \in 0..Len(t) /\ (idx + 1) + 1 = idx + 2
      /\ (idx + 1) - 1 = idx /\ Len(t) \in Nat
  BY LenProperties
<1>2. mstr_char_offset_at(b, idx) = o
  BY <1>1, OffsetFound
<1>3. o + c = p
  BY CharacterAt
<1>4. /\ x \in Seq(Code) /\ Len(x) = idx
      /\ y \in Seq(Code) /\ Len(y) = Len(t) - (idx + 1)
  BY <1>1, SplitText
<1>5. RemoveAt(t, idx + 1) = x \o y
  BY <1>1 DEF RemoveAt
<1>6. /\ o \in 0..Len(b) /\ p \in 0..Len(b)
      /\ SubSeq(b, 1, o) = Encode(x) /\ SubSeq(b, p + 1, Len(b)) = Encode(y)
      /\ b = Encode(SubSeq(t, 1, idx + 1)) \o Encode(y)
  BY <1>1, SplitBytes
<1>7. Encode(x \o y) = Encode(x) \o Encode(y)
  BY <1>4, EncodeConcat
<1>8. Len(x \o y) = Len(t) - 1 /\ x \o y \in Seq(Code)
  <2> HIDE DEF x, y
  <2>1. Len(x \o y) = Len(x) + Len(y) /\ x \o y \in Seq(Code)
    BY <1>4, ConcatProperties
  <2> QED
    BY <1>1, <1>4, <2>1
<1>9. Len(Encode(x)) = o
  BY DEF Offset
<1>10. Len(b) = p + Len(Encode(y))
  <2>1. Encode(SubSeq(t, 1, idx + 1)) \in Seq(Byte) /\ Encode(y) \in Seq(Byte)
    BY <1>1, <1>4, SplitText, EncodeType
  <2>2. Len(Encode(SubSeq(t, 1, idx + 1))) = p
    BY DEF Offset
  <2> HIDE DEF b, y, p
  <2> QED
    BY <1>6, <2>1, <2>2, ConcatProperties
<1>11. Len(Encode(x \o y)) = Len(b) - c /\ Len(Encode(x \o y)) <= Len(b)
  <2>1. Encode(x) \in Seq(Byte) /\ Encode(y) \in Seq(Byte) /\ Len(Encode(y)) \in Nat
    BY <1>4, EncodeType
  <2>2. Len(Encode(x) \o Encode(y)) = Len(Encode(x)) + Len(Encode(y))
    BY <2>1, ConcatProperties
  <2>3. c \in 1..4
    BY CharacterAt DEF Character
  <2>4. Len(b) \in Nat
    BY EncodeType
  <2>5. Len(Encode(x \o y)) = o + Len(Encode(y))
    BY <1>7, <1>9, <2>2
  <2>6. o \in Nat /\ p \in Nat /\ Len(Encode(y)) \in Nat
    BY <1>6, <2>1, <2>4
  <2> HIDE DEF b, x, y, o, p, c
  <2> QED
    BY <1>3, <1>10, <2>3, <2>5, <2>6
<1>12. o + c + 1 = p + 1
  BY <1>3
<1> QED
  BY <1>2, <1>5, <1>6, <1>7, <1>8, <1>11, <1>12

\* The bytes with those of c before the character at idx, as mstr_insert leaves them.
LEMMA InsertEncodes ==
  ASSUME NEW t \in Seq(Code), NEW idx \in 0..Len(t), NEW c \in Code
  PROVE  LET b == Encode(t)
             o == mstr_char_offset_at(b, idx)
             u == mstr_as_utf8(c)
             v == InsertAt(t, idx + 1, c)
         IN  /\ v \in Seq(Code) /\ Len(v) = Len(t) + 1
             /\ Encode(v) = SubSeq(b, 1, o) \o u \o SubSeq(b, o + 1, Len(b))
             /\ Len(Encode(v)) = Len(b) + Len(u)
<1> DEFINE b == Encode(t)
           o == Offset(t, idx)
           u == mstr_as_utf8(c)
           x == SubSeq(t, 1, idx)
           y == SubSeq(t, idx + 1, Len(t))
           xb == Encode(x)
           yb == Encode(y)
<1>1. (idx + 1) - 1 = idx /\ Len(t) \in Nat
  BY LenProperties
<1>2. mstr_char_offset_at(b, idx) = o
  BY OffsetFound
<1>3. /\ x \in Seq(Code) /\ Len(x) = idx
      /\ y \in Seq(Code) /\ Len(y) = Len(t) - idx
  BY SplitText
<1>4. InsertAt(t, idx + 1, c) = (x \o <<c>>) \o y
  BY <1>1 DEF InsertAt
<1>5. SubSeq(b, 1, o) = xb /\ SubSeq(b, o + 1, Len(b)) = yb /\ b = xb \o yb
  BY SplitBytes
<1>6. /\ <<c>> \in Seq(Code) /\ Len(<<c>>) = 1 /\ Encode(<<c>>) = u
      /\ u \in Seq(Byte) /\ Len(u) \in Nat
  BY EncodeCharacter, EncodesCharacter DEF Character
<1>7. xb \in Seq(Byte) /\ yb \in Seq(Byte) /\ Len(xb) \in Nat /\ Len(yb) \in Nat
  BY <1>3, EncodeType
<1> HIDE DEF x, y
<1>8. x \o <<c>> \in Seq(Code) /\ Len(x \o <<c>>) = idx + 1
  BY <1>3, <1>6, ConcatProperties
<1>9. (x \o <<c>>) \o y \in Seq(Code) /\ Len((x \o <<c>>) \o y) = Len(t) + 1
  <2> DEFINE w == x \o <<c>>
  <2> HIDE DEF w
  <2>1. w \in Seq(Code) /\ Len(w) = idx + 1
    BY <1>8 DEF w
  <2>2. w \o y \in Seq(Code) /\ Len(w \o y) = Len(w) + Len(y)
    BY <1>3, <2>1, ConcatProperties
  <2>3. Len(w \o y) = Len(t) + 1
    BY <1>1, <1>3, <2>1, <2>2
  <2> QED
    BY <2>2, <2>3 DEF w
<1>10. Encode((x \o <<c>>) \o y) = (xb \o u) \o yb
  BY <1>3, <1>6, <1>8, EncodeConcat
<1> HIDE DEF xb, yb, u, b
<1>11. Len((xb \o u) \o yb) = Len(b) + Len(u)
  <2>1. xb \o u \in Seq(Byte) /\ Len(xb \o u) = Len(xb) + Len(u)
    BY <1>6, <1>7, ConcatProperties
  <2>2. Len((xb \o u) \o yb) = Len(xb \o u) + Len(yb)
    BY <1>7, <2>1, ConcatProperties
  <2>3. Len(b) = Len(xb) + Len(yb)
    BY <1>5, <1>7, ConcatProperties
  <2> QED
    BY <1>6, <1>7, <2>1, <2>2, <2>3
<1> QED
  BY <1>2, <1>4, <1>5, <1>9, <1>10, <1>11 DEF b, u

\* A slice that mstr_strlen finds complete is that of the first characters.
LEMMA SliceEncodes ==
  ASSUME NEW t \in Seq(Code), NEW e \in 0..Len(Encode(t)),
         mstr_strlen(Encode(t), e).complete
  PROVE  \E j \in 0..Len(t) :
           /\ mstr_strlen(Encode(t), e).length = j
           /\ mstr_strlen(Encode(t), e).count = Offset(t, j)
           /\ SubSeq(Encode(t), 1, Offset(t, j)) = Encode(SubSeq(t, 1, j))
<1>1. PICK j : Reaches(t, e, j)
  BY ReachExists
<1>2. mstr_strlen(Encode(t), e) =
        [length |-> j, count |-> Offset(t, j), complete |-> Offset(t, j) = e]
  BY <1>1, StrlenMeasures
<1>3. j \in 0..Len(t)
  BY <1>1 DEF Reaches
<1>4. SubSeq(Encode(t), 1, Offset(t, j)) = Encode(SubSeq(t, 1, j))
  BY <1>3, SplitBytes
<1> QED
  BY <1>2, <1>3, <1>4

\* Of bytes below 128 none is moved by the second part of mstr_reverse_self.
LEMMA AsciiReversed ==
  ASSUME NEW b \in Seq(Byte), \A i \in 1..Len(b) : b[i] < 128
  PROVE  mstr_reverse_only(b) = mstr_reverse_self(b)
<1> DEFINE r == Reverse(b)
           n == Len(r)
<1>1. /\ r \in Seq(Byte) /\ Len(r) = Len(b) /\ n \in Nat
      /\ \A i \in 1..n : r[i] < 128
  <2>1. /\ r \in Seq(Byte) /\ Len(r) = Len(b) /\ Len(b) \in Nat
        /\ \A i \in 1..Len(b) : r[i] = b[(Len(b) - i) + 1]
    BY ReverseProperties, LenProperties
  <2> HIDE DEF r
  <2>2. \A i \in 1..Len(b) : (Len(b) - i) + 1 \in 1..Len(b)
    BY <2>1
  <2> QED
    BY <2>1, <2>2
<1> HIDE DEF r
<1>2. PICK f : Scans(f, r) /\ mstr_reverse_unicode_helper(r) = f[n].bytes
  BY <1>1, ScanComputes
<1> DEFINE G == {p \in Nat : p <= n => f[p] = [first |-> p + 1, bytes |-> r]}
<1>3. 0 \in G
  BY <1>1, <1>2 DEF Scans
<1>4. ASSUME NEW p \in Nat, p \in G PROVE p + 1 \in G
  <2>1. SUFFICES ASSUME p + 1 <= n PROVE f[p + 1] = [first |-> (p + 1) + 1, bytes |-> r]
    OBVIOUS
  <2>2. p + 1 \in 1..n /\ p + 1 \in 0..n /\ p + 1 # 0 /\ (p + 1) - 1 = p /\ p <= n
    BY <1>1, <2>1
  <2>3. f[p + 1] = ScanByte(f[p], p + 1)
    BY <1>2, <2>2 DEF Scans
  <2>4. f[p] = [first |-> p + 1, bytes |-> r]
    BY <1>4, <2>2
  <2>5. r[p + 1] < 128 /\ ~(r[p + 1] >= 192)
    <3>1. r[p + 1] \in 0..255
      BY <1>1, <2>2, ElementOfSeq DEF Byte
    <3>2. r[p + 1] < 128
      BY <1>1, <2>2
    <3>3. \A v \in 0..255 : v < 128 => ~(v >= 192)
      OBVIOUS
    <3> QED
      BY <3>1, <3>2, <3>3, Zenon
  <2>6. ScanByte(f[p], p + 1) = [f[p] EXCEPT !.first = (p + 1) + 1]
    BY <2>4, <2>5 DEF ScanByte
  <2> QED
    BY <2>3, <2>4, <2>6
<1> HIDE DEF G
<1>5. Nat \subseteq G
  BY <1>3, <1>4, NumberInduction
<1>6. f[n].bytes = r
  <2>1. n \in G /\ n <= n
    BY <1>1, <1>5
  <2> QED
    BY <2>1 DEF G
<1> QED
  BY <1>2, <1>6 DEF mstr_reverse_self, mstr_reverse_only, r

--------------------------------------------------------------------------------
(* What the comparisons see.                                                   *)

\* Two texts are equal when their bytes are, as mstr_equal compares them.
LEMMA EqualBytes ==
  ASSUME NEW s \in Seq(Code), NEW t \in Seq(Code)
  PROVE  LET a == Encode(s)
             b == Encode(t)
         IN  (Len(a) = Len(b) /\ mstr_compare_helper(a, b, Len(b))) <=> s = t
<1> DEFINE a == Encode(s)
           b == Encode(t)
<1>1. a \in Seq(Byte) /\ b \in Seq(Byte)
  BY EncodeType
<1>2. ASSUME Len(a) = Len(b), mstr_compare_helper(a, b, Len(b)) PROVE s = t
  <2> HIDE DEF a, b
  <2>1. \A i \in 1..Len(a) : a[i] = b[i]
    BY <1>2 DEF mstr_compare_helper
  <2>2. a = b
    BY <1>1, <1>2, <2>1, SeqEqual
  <2> QED
    BY <2>2, EncodeInjective DEF a, b
<1>3. ASSUME s = t PROVE Len(a) = Len(b) /\ mstr_compare_helper(a, b, Len(b))
  BY <1>3 DEF mstr_compare_helper
<1> QED
  BY <1>2, <1>3

\* The first characters are in common when the first bytes are.
LEMMA PrefixBytes ==
  ASSUME NEW s \in Seq(Code), NEW t \in Seq(Code)
  PROVE  LET a == Encode(s)
             b == Encode(t)
         IN  (Len(b) >= Len(a) /\ mstr_compare_helper(b, a, Len(a))) <=> IsPrefix(s, t)
<1> DEFINE a == Encode(s)
           b == Encode(t)
           front == SubSeq(b, 1, Len(a))
           rest == SubSeq(b, Len(a) + 1, Len(b))
           first == SubSeq(t, 1, Len(s))
           others == SubSeq(t, Len(s) + 1, Len(t))
<1>1. /\ a \in Seq(Byte) /\ b \in Seq(Byte) /\ Len(a) \in Nat /\ Len(b) \in Nat
      /\ Len(s) \in Nat /\ Len(t) \in Nat /\ SubSeq(s, 1, Len(s)) = s
  BY EncodeType, LenProperties, SubSeqFull
<1>2. ASSUME Len(b) >= Len(a), mstr_compare_helper(b, a, Len(a)) PROVE IsPrefix(s, t)
  <2> HIDE DEF a, b
  <2>1. Len(a) \in 0..Len(b)
    BY <1>1, <1>2
  <2>2. /\ front \in Seq(Byte) /\ Len(front) = Len(a) /\ rest \in Seq(Byte)
        /\ b = front \o rest
        /\ \A i \in 1..Len(a) : front[i] = b[i]
    BY <1>1, <2>1, SplitText
  <2> HIDE DEF front, rest
  <2>3. front = a
    <3>1. \A i \in 1..Len(front) : front[i] = a[i]
      BY <1>2, <2>2 DEF mstr_compare_helper
    <3> QED
      BY <1>1, <2>2, <3>1, SeqEqual
  <2>4. Encode(t) = Encode(s) \o rest
    BY <2>2, <2>3 DEF a, b
  <2>5. Len(s) <= Len(t) /\ \A i \in 1..Len(s) : s[i] = t[i]
    BY <2>2, <2>4, PrefixTexts
  <2>6. Len(s) \in 0..Len(t)
    BY <1>1, <2>5
  <2>7. /\ first \in Seq(Code) /\ Len(first) = Len(s)
        /\ \A i \in 1..Len(s) : first[i] = t[i]
    BY <2>6, SplitText
  <2> HIDE DEF first
  <2>8. first = s
    BY <2>5, <2>7, SeqEqual
  <2> QED
    BY <1>1, <2>5, <2>8 DEF IsPrefix, first
<1>3. ASSUME IsPrefix(s, t) PROVE Len(b) >= Len(a) /\ mstr_compare_helper(b, a, Len(a))
  <2>1. Len(s) \in 0..Len(t) /\ first = s
    BY <1>1, <1>3 DEF IsPrefix
  <2>2. b = Encode(first) \o Encode(others) /\ others \in Seq(Code)
    BY <2>1, SplitBytes, SplitText
  <2> DEFINE y == Encode(others)
  <2>3. b = a \o y /\ y \in Seq(Byte) /\ Len(y) \in Nat
    BY <2>1, <2>2, EncodeType
  <2> HIDE DEF a, b, y
  <2>4. /\ Len(b) = Len(a) + Len(y)
        /\ \A i \in 1..(Len(a) + Len(y)) : b[i] = IF i <= Len(a) THEN a[i] ELSE y[i - Len(a)]
    BY <1>1, <2>3, ConcatProperties
  <2>5. Len(b) >= Len(a)
    BY <1>1, <2>3, <2>4
  <2>6. \A i \in 1..Len(a) : b[i] = a[i]
    BY <1>1, <2>3, <2>4
  <2> QED
    BY <2>5, <2>6 DEF mstr_compare_helper
<1> QED
  BY <1>2, <1>3

\* IsSuffix, of sequences, by what it means.
LEMMA SuffixMeans ==
  ASSUME NEW S, NEW s \in Seq(S), NEW t \in Seq(S)
  PROVE  IsSuffix(s, t) <=>
           /\ Len(s) <= Len(t)
           /\ SubSeq(t, (Len(t) - Len(s)) + 1, Len(t)) = s
<1> DEFINE m == Len(s)
           n == Len(t)
           k == n - m
           rs == Reverse(s)
           rt == Reverse(t)
<1>1. /\ m \in Nat /\ n \in Nat
      /\ rs \in Seq(S) /\ Len(rs) = m /\ \A i \in 1..m : rs[i] = s[(m - i) + 1]
      /\ rt \in Seq(S) /\ Len(rt) = n /\ \A i \in 1..n : rt[i] = t[(n - i) + 1]
      /\ SubSeq(rs, 1, m) = rs
  <2>1. /\ rs \in Seq(S) /\ Len(rs) = m /\ \A i \in 1..m : rs[i] = s[(m - i) + 1]
        /\ rt \in Seq(S) /\ Len(rt) = n /\ \A i \in 1..n : rt[i] = t[(n - i) + 1]
    BY ReverseProperties
  <2> HIDE DEF rs
  <2>2. SubSeq(rs, 1, Len(rs)) = rs
    BY <2>1, SubSeqFull
  <2> QED
    BY <2>1, <2>2, LenProperties
<1> HIDE DEF rs, rt
<1>2. IsSuffix(s, t) <=> m <= n /\ SubSeq(rt, 1, m) = rs
  BY <1>1 DEF IsSuffix, IsPrefix, rs, rt
<1>3. ASSUME m <= n
      PROVE  SubSeq(rt, 1, m) = rs <=> SubSeq(t, k + 1, n) = s
  <2> DEFINE x == SubSeq(rt, 1, m)
             y == SubSeq(t, k + 1, n)
  <2>1. /\ x \in Seq(S) /\ Len(x) = m /\ \A i \in 1..m : x[i] = rt[i]
    <3>1. m \in 0..Len(rt)
      BY <1>1, <1>3
    <3> QED
      BY <1>1, <3>1, SplitText
  <2>2. k \in 0..n
    BY <1>1, <1>3
  <2>3. /\ y \in Seq(S) /\ Len(y) = n - k /\ \A i \in 1..(n - k) : y[i] = t[k + i]
    <3> HIDE DEF k
    <3> QED
      BY <2>2, SplitText
  <2> HIDE DEF x, y
  <2>4. \A i \in 1..m : /\ (m - i) + 1 \in 1..m
                        /\ i \in 1..n
                        /\ (n - i) + 1 = k + ((m - i) + 1)
                        /\ (m - ((m - i) + 1)) + 1 = i
    BY <1>1, <1>3
  <2>5. Len(y) = m /\ \A i \in 1..m : y[i] = t[k + i]
    BY <1>1, <2>2, <2>3
  <2>6. \A i \in 1..m : x[i] = y[(m - i) + 1]
    <3> SUFFICES ASSUME NEW i \in 1..m PROVE x[i] = y[(m - i) + 1]
      OBVIOUS
    <3>1. x[i] = t[(n - i) + 1]
      BY <1>1, <2>1, <2>4
    <3>2. y[(m - i) + 1] = t[k + ((m - i) + 1)]
      BY <2>4, <2>5
    <3> QED
      BY <2>4, <3>1, <3>2
  <2>7. ASSUME x = rs PROVE y = s
    <3>1. \A i \in 1..m : y[i] = s[i]
      <4> SUFFICES ASSUME NEW i \in 1..m PROVE y[i] = s[i]
        OBVIOUS
      <4> DEFINE j == (m - i) + 1
      <4>1. j \in 1..m /\ (m - j) + 1 = i
        BY <2>4
      <4> HIDE DEF j
      <4>2. x[j] = y[i] /\ rs[j] = s[i]
        BY <1>1, <2>6, <4>1
      <4> QED
        BY <2>7, <4>2
    <3> QED
      BY <2>3, <2>5, <3>1, SeqEqual
  <2>8. ASSUME y = s PROVE x = rs
    <3>1. \A i \in 1..m : x[i] = rs[i]
      BY <1>1, <2>4, <2>6, <2>8
    <3> QED
      BY <1>1, <2>1, <3>1, SeqEqual
  <2> QED
    BY <2>7, <2>8 DEF x, y
<1> QED
  BY <1>2, <1>3

\* The last characters are in common when the last bytes are: the match begins with
\* the first byte of a character, for a continuation byte begins no encoding.
LEMMA SuffixBytes ==
  ASSUME NEW s \in Seq(Code), NEW t \in Seq(Code)
  PROVE  LET a == Encode(s)
             b == Encode(t)
             o == Len(b) - Len(a)
         IN  (Len(b) >= Len(a) /\ mstr_compare_helper(SubSeq(b, o + 1, Len(b)), a, Len(a)))
               <=> IsSuffix(s, t)
<1> DEFINE a == Encode(s)
           b == Encode(t)
           o == Len(b) - Len(a)
           m == Len(s)
           n == Len(t)
<1>1. /\ a \in Seq(Byte) /\ b \in Seq(Byte) /\ Len(a) \in Nat /\ Len(b) \in Nat
      /\ m \in Nat /\ n \in Nat /\ Len(a) >= m
  BY EncodeType, LenProperties
<1>2. ASSUME NEW k \in 0..n, o = Offset(t, k), Len(b) >= Len(a),
             mstr_compare_helper(SubSeq(b, o + 1, Len(b)), a, Len(a))
      PROVE  IsSuffix(s, t)
  <2> DEFINE z == SubSeq(b, o + 1, Len(b))
             y == SubSeq(t, k + 1, n)
  <2>1. y \in Seq(Code) /\ Len(y) = n - k
    BY SplitText
  <2>2. z = Encode(y)
    BY <1>2, SplitBytes
  <2>3. z \in Seq(Byte) /\ Len(z) = Len(a)
    <3>1. o \in 0..Len(b) /\ Len(b) - o = Len(a)
      BY <1>1, <1>2
    <3> HIDE DEF o, b, a
    <3>2. z \in Seq(Byte) /\ Len(z) = Len(b) - o
      BY <1>1, <3>1, SplitText
    <3> QED
      BY <3>1, <3>2
  <2>4. z = a
    <3>1. \A i \in 1..Len(a) : z[i] = a[i]
      BY <1>2 DEF mstr_compare_helper
    <3> HIDE DEF z, a
    <3> QED
      BY <1>1, <2>3, <3>1, SeqEqual
  <2>5. y = s
    BY <2>1, <2>2, <2>4, EncodeInjective
  <2> HIDE DEF y
  <2>6. m <= n /\ (n - m) + 1 = k + 1
    <3>1. m = n - k
      BY <2>1, <2>5
    <3> QED
      BY <1>1, <3>1
  <2> QED
    BY <2>5, <2>6, SuffixMeans DEF y
<1>3. ASSUME Len(b) >= Len(a), mstr_compare_helper(SubSeq(b, o + 1, Len(b)), a, Len(a))
      PROVE  IsSuffix(s, t)
  <2>1. CASE Len(a) = 0
    <3>1. o = Offset(t, n) /\ n \in 0..n
      BY <1>1, <2>1, OffsetEnds
    <3> QED
      BY <1>2, <1>3, <3>1
  <2>2. CASE Len(a) # 0
    <3>1. o \in 0..(Len(b) - 1) /\ 1 \in 1..Len(a) /\ (Len(b) - o) = Len(a) /\ o \in 0..Len(b)
      BY <1>1, <1>3, <2>2
    <3>2. PICK k \in 0..(n - 1) :
            /\ o \in Offset(t, k)..(Offset(t, k + 1) - 1)
            /\ o # Offset(t, k) => b[o + 1] \in 128..191
      BY <3>1, Located
    <3>3. SubSeq(b, o + 1, Len(b))[1] = b[o + 1]
      <4> HIDE DEF o, a, b
      <4> QED
        BY <1>1, <3>1, SplitText
    <3>4. b[o + 1] = a[1]
      BY <1>3, <3>1, <3>3 DEF mstr_compare_helper
    <3>5. a[1] \notin 128..191
      <4>1. m # 0
        <5>1. m = 0 => s = <<>>
          BY EmptySeq
        <5> QED
          BY <2>2, <5>1, EncodeEmpty, EmptySeq
      <4>2. 0 \in 0..(m - 1) /\ Offset(s, 0) = 0
        BY <1>1, <4>1, OffsetEnds
      <4>3. mstr_char_length(a[1]) \in 1..4
        <5>1. mstr_char_length(a[Offset(s, 0) + 1]) \in 1..4
          BY <4>2, CharacterAt DEF Character
        <5>2. Offset(s, 0) + 1 = 1
          BY <4>2
        <5> QED
          BY <5>1, <5>2
      <4>4. a[1] \in 128..191 => mstr_char_length(a[1]) = 0
        BY LengthByLead
      <4> HIDE DEF a
      <4> QED
        BY <4>3, <4>4
    <3>6. k \in 0..n /\ o = Offset(t, k)
      BY <1>1, <3>2, <3>4, <3>5
    <3> QED
      BY <1>2, <1>3, <3>6
  <2> QED
    BY <2>1, <2>2
<1>4. ASSUME IsSuffix(s, t)
      PROVE  Len(b) >= Len(a) /\ mstr_compare_helper(SubSeq(b, o + 1, Len(b)), a, Len(a))
  <2> DEFINE k == n - m
  <2>1. m <= n /\ SubSeq(t, k + 1, n) = s
    BY <1>4, SuffixMeans
  <2>2. k \in 0..n
    BY <1>1, <2>1
  <2> HIDE DEF k
  <2>3. /\ Offset(t, k) \in 0..Len(b)
        /\ SubSeq(b, Offset(t, k) + 1, Len(b)) = a
    BY <2>1, <2>2, SplitBytes
  <2>4. Len(a) = Len(b) - Offset(t, k)
    <3> HIDE DEF a, b
    <3> QED
      BY <1>1, <2>3, SplitText
  <2>5. o = Offset(t, k) /\ Len(b) >= Len(a)
    BY <1>1, <2>3, <2>4
  <2>6. SubSeq(b, o + 1, Len(b)) = a
    BY <2>3, <2>5
  <2> HIDE DEF a, b, o
  <2> QED
    BY <2>5, <2>6 DEF mstr_compare_helper
<1> QED
  BY <1>3, <1>4

--------------------------------------------------------------------------------
(* The contents of the strings.                                                *)

\* The record r is a string whose text is t: its bytes are whole characters, count
\* and length are in step with them, and there is room for the terminating 0.
Holds(r, t) ==
  /\ r \in Record /\ r.buff # NULL
  /\ t \in Seq(Code)
  /\ r.bytes = Encode(t) /\ r.count = Len(Encode(t)) /\ r.length = Len(t)
  /\ r.count + 1 <= r.cap_size

\* The inductive invariant of the contents.
TextInv ==
  /\ str \in [Strings -> Record]
  /\ result \in Results
  /\ \A s \in Strings : Created(s) => Holds(str[s], Text(s))

\* A call leaves s with the text v, or without a buffer.
Becomes(s, v) == \E r : str' = [str EXCEPT ![s] = r] /\ Holds(r, v)

Loses(s) == \E r : str' = [str EXCEPT ![s] = r] /\ r \in Record /\ r.buff = NULL

\* A call that needs memory gives s the text v if it gets it, w if it does not.
Effect(s, v, w) ==
  \/ result' = "MStr_Ok" /\ Becomes(s, v)
  \/ result' = "MStr_Err_HeapTooSmall" /\ Becomes(s, w)

\* What Text says of a string that holds a text, and what it does not depend on.
LEMMA HoldsText ==
  ASSUME NEW r, NEW t, Holds(r, t)
  PROVE  Decode(r.bytes) = t /\ r.buff # NULL
BY DecodeEncodes DEF Holds

\* A step that only gives s another text.
LEMMA BecomesKeeps ==
  ASSUME TextInv, NEW s \in Strings, NEW v, Becomes(s, v), result' \in Results
  PROVE  TextInv' /\ Text(s)' = v /\ \A t \in Strings \ {s} : Text(t)' = Text(t)
<1>1. PICK r : str' = [str EXCEPT ![s] = r] /\ Holds(r, v)
  BY DEF Becomes
<1>2. /\ str'[s] = r /\ r \in Record
      /\ \A t \in Strings \ {s} : str'[t] = str[t]
      /\ str' \in [Strings -> Record]
  BY <1>1 DEF TextInv, Holds
<1>3. Text(s)' = v /\ Created(s)'
  BY <1>1, <1>2, HoldsText DEF Text, Created
<1>4. \A t \in Strings \ {s} : Text(t)' = Text(t) /\ (Created(t)' <=> Created(t))
  BY <1>2 DEF Text, Created
<1>5. ASSUME NEW t \in Strings, Created(t)' PROVE Holds(str'[t], Text(t)')
  <2>1. CASE t = s
    BY <1>1, <1>2, <1>3, <2>1
  <2>2. CASE t # s
    BY <1>2, <1>4, <1>5, <2>2 DEF TextInv
  <2> QED
    BY <2>1, <2>2
<1> QED
  BY <1>2, <1>3, <1>4, <1>5 DEF TextInv

\* A step that only takes the buffer of s away.
LEMMA LosesKeeps ==
  ASSUME TextInv, NEW s \in Strings, Loses(s), result' \in Results
  PROVE  TextInv' /\ Text(s)' = NULL /\ \A t \in Strings \ {s} : Text(t)' = Text(t)
<1>1. PICK r : str' = [str EXCEPT ![s] = r] /\ r \in Record /\ r.buff = NULL
  BY DEF Loses
<1>2. /\ str'[s] = r
      /\ \A t \in Strings \ {s} : str'[t] = str[t]
      /\ str' \in [Strings -> Record]
  BY <1>1 DEF TextInv
<1>3. Text(s)' = NULL /\ ~Created(s)'
  BY <1>1, <1>2 DEF Text, Created
<1>4. \A t \in Strings \ {s} : Text(t)' = Text(t) /\ (Created(t)' <=> Created(t))
  BY <1>2 DEF Text, Created
<1>5. ASSUME NEW t \in Strings, Created(t)' PROVE Holds(str'[t], Text(t)')
  BY <1>2, <1>3, <1>4, <1>5 DEF TextInv
<1> QED
  BY <1>2, <1>3, <1>4, <1>5 DEF TextInv

\* A record with other contents in the buffer of r.
Filled(r, new) ==
  [buff |-> r.buff, cap_size |-> r.cap_size, count |-> new.count, length |-> new.length,
   bytes |-> new.bytes]

Contents(v) == [count |-> Len(Encode(v)), length |-> Len(v), bytes |-> Encode(v)]

LEMMA FilledHolds ==
  ASSUME NEW r, r \in Record, r.buff # NULL, NEW v \in Seq(Code),
         Len(Encode(v)) + 1 <= r.cap_size
  PROVE  Holds(Filled(r, Contents(v)), v)
<1>1. Encode(v) \in Seq(0..255) /\ Len(Encode(v)) \in Nat /\ Len(v) \in Nat
  BY EncodeType, LenProperties DEF Byte
<1> QED
  BY <1>1 DEF Holds, Filled, Contents, Record

\* Reserving keeps the text and, when it succeeds, gives the capacity asked for.
LEMMA ReservedHolds ==
  ASSUME NEW r, NEW w, Holds(r, w), NEW blocks, NEW n \in Nat, NEW o \in Reserved(r, blocks, n)
  PROVE  /\ o = Outcome(o.str, o.heap, o.result)
         /\ Holds(o.str, w) /\ o.str.cap_size >= r.cap_size
         /\ \/ o.result = "MStr_Ok" /\ o.str.cap_size >= n
            \/ o.result = "MStr_Err_HeapTooSmall" /\ o.str = r
<1>1. r \in Record /\ r.cap_size \in Nat /\ r.count \in Nat
  BY DEF Holds, Record
<1>2. CASE n <= r.cap_size
  <2>1. o = Outcome(r, blocks, "MStr_Ok")
    BY <1>2 DEF Reserved
  <2> QED
    BY <1>1, <1>2, <2>1 DEF Outcome
<1>3. CASE ~(n <= r.cap_size)
  <2>1. CASE o = Outcome(r, blocks, "MStr_Err_HeapTooSmall")
    BY <1>1, <2>1 DEF Outcome
  <2>2. ASSUME NEW b \in Available(blocks),
               o = Outcome([r EXCEPT !.buff = b, !.cap_size = n],
                           With(Without(blocks, r.buff), b, n), "MStr_Ok")
        PROVE  /\ o = Outcome(o.str, o.heap, o.result)
               /\ Holds(o.str, w) /\ o.str.cap_size >= r.cap_size
               /\ o.result = "MStr_Ok" /\ o.str.cap_size >= n
    <3> DEFINE x == [r EXCEPT !.buff = b, !.cap_size = n]
    <3>1. b \in Blocks /\ b # NULL
      BY MStringAssumption DEF Available
    <3>2. /\ x \in Record /\ x.buff = b /\ x.cap_size = n
          /\ x.count = r.count /\ x.length = r.length /\ x.bytes = r.bytes
      BY <1>1, <3>1 DEF Record
    <3> HIDE DEF x
    <3>3. Holds(x, w)
      BY <1>1, <1>3, <3>1, <3>2 DEF Holds
    <3>4. o.str = x /\ o.result = "MStr_Ok" /\ o = Outcome(o.str, o.heap, o.result)
      BY <2>2 DEF Outcome, x
    <3> QED
      BY <1>1, <1>3, <3>2, <3>3, <3>4
  <2> QED
    BY <1>3, <2>1, <2>2 DEF Reserved
<1> QED
  BY <1>2, <1>3

\* So a call that reserves room for a text and then writes it has that text, or the
\* one from before.
LEMMA RewriteEffect ==
  ASSUME NEW s \in Strings, NEW r, NEW w, Holds(r, w), NEW blocks, NEW n \in Nat,
         NEW v \in Seq(Code),
         Len(Encode(v)) + 1 <= r.cap_size \/ Len(Encode(v)) + 1 <= n,
         Rewrite(s, r, blocks, n, Contents(v))
  PROVE  Effect(s, v, w)
<1> DEFINE new == Contents(v)
           written(o) == [o EXCEPT !.str.count = new.count, !.str.length = new.length,
                                   !.str.bytes = new.bytes]
<1>1. PICK o \in Reserved(r, blocks, n) :
        Finish(s, IF o.result = "MStr_Ok" THEN written(o) ELSE o)
  BY DEF Rewrite
<1>2. /\ o = Outcome(o.str, o.heap, o.result)
      /\ Holds(o.str, w) /\ o.str.cap_size >= r.cap_size
      /\ \/ o.result = "MStr_Ok" /\ o.str.cap_size >= n
         \/ o.result = "MStr_Err_HeapTooSmall" /\ o.str = r
  BY ReservedHolds
<1>3. o.str \in Record /\ o.str.buff # NULL /\ o.str.cap_size \in Nat /\ r.cap_size \in Nat
  BY <1>2 DEF Holds, Record
<1>4. CASE o.result = "MStr_Ok"
  <2>1. written(o) = Outcome(Filled(o.str, new), o.heap, "MStr_Ok")
    <3> DEFINE x == o.str
    <3>1. o = [str |-> x, heap |-> o.heap, result |-> "MStr_Ok"]
      BY <1>2, <1>4 DEF Outcome
    <3>2. x = [buff |-> x.buff, cap_size |-> x.cap_size, count |-> x.count,
               length |-> x.length, bytes |-> x.bytes]
      BY <1>3 DEF Record
    <3> DEFINE Made(f, g, h, i, j) ==
                 [buff |-> f, cap_size |-> g, count |-> h, length |-> i, bytes |-> j]
               Whole(q, h, z) == [str |-> q, heap |-> h, result |-> z]
               Put(q, c, l, y) == [q EXCEPT !.str.count = c, !.str.length = l, !.str.bytes = y]
               PutCount(q, c) == [q EXCEPT !.str.count = c]
               PutLength(q, l) == [q EXCEPT !.str.length = l]
               PutBytes(q, y) == [q EXCEPT !.str.bytes = y]
    <3>3. \A f, g, h, i, j, k, z, c, l, y :
            Put(Whole(Made(f, g, h, i, j), k, z), c, l, y) = Whole(Made(f, g, c, l, y), k, z)
      <4>1. \A q, c, l, y : Put(q, c, l, y) = PutBytes(PutLength(PutCount(q, c), l), y)
        OBVIOUS
      <4>2. \A f, g, h, i, j, k, z, c :
              PutCount(Whole(Made(f, g, h, i, j), k, z), c) = Whole(Made(f, g, c, i, j), k, z)
        OBVIOUS
      <4>3. \A f, g, h, i, j, k, z, l :
              PutLength(Whole(Made(f, g, h, i, j), k, z), l) = Whole(Made(f, g, h, l, j), k, z)
        OBVIOUS
      <4>4. \A f, g, h, i, j, k, z, y :
              PutBytes(Whole(Made(f, g, h, i, j), k, z), y) = Whole(Made(f, g, h, i, y), k, z)
        OBVIOUS
      <4> HIDE DEF Made, Whole, Put, PutCount, PutLength, PutBytes
      <4> QED
        BY <4>1, <4>2, <4>3, <4>4
    <3> HIDE DEF x, new, Made, Whole, Put
    <3>4. x = Made(x.buff, x.cap_size, x.count, x.length, x.bytes)
      BY <3>2 DEF Made
    <3>5. o = Whole(x, o.heap, "MStr_Ok")
      BY <3>1 DEF Whole
    <3>6. written(o) = Put(o, new.count, new.length, new.bytes)
      BY DEF Put
    <3>7. Put(o, new.count, new.length, new.bytes) =
            Whole(Made(x.buff, x.cap_size, new.count, new.length, new.bytes), o.heap, "MStr_Ok")
      BY <3>3, <3>4, <3>5
    <3>8. Outcome(Filled(x, new), o.heap, "MStr_Ok") =
            Whole(Made(x.buff, x.cap_size, new.count, new.length, new.bytes), o.heap, "MStr_Ok")
      BY DEF Outcome, Filled, Made, Whole
    <3> QED
      BY <3>6, <3>7, <3>8 DEF x
  <2>2. Len(Encode(v)) + 1 <= o.str.cap_size
    BY <1>2, <1>3, <1>4, EncodeType
  <2>3. Holds(Filled(o.str, new), v)
    BY <1>3, <2>2, FilledHolds
  <2>4. str' = [str EXCEPT ![s] = Filled(o.str, new)] /\ result' = "MStr_Ok"
    BY <1>1, <1>4, <2>1 DEF Finish, Outcome
  <2> QED
    BY <2>3, <2>4 DEF Effect, Becomes
<1>5. CASE o.result # "MStr_Ok"
  BY <1>1, <1>2, <1>5 DEF Finish, Effect, Becomes
<1> QED
  BY <1>4, <1>5

--------------------------------------------------------------------------------
(* What each call makes of the texts.                                          *)

\* mstr_resize_tactic always gives room for the bytes and the terminating 0.
LEMMA TacticGrows ==
  ASSUME NEW old \in Nat, NEW inc \in Nat
  PROVE  /\ mstr_resize_tactic(old, inc) \in Nat
         /\ mstr_resize_tactic(old, inc) >= old + inc + 1
BY MStringAssumption DEF mstr_resize_tactic

LEMMA RoomSuffices ==
  ASSUME NEW r, NEW w, Holds(r, w), NEW k \in Nat
  PROVE  /\ AppendRoom(r, k) \in Nat
         /\ r.count + k + 1 <= r.cap_size \/ r.count + k + 1 <= AppendRoom(r, k)
         /\ ConcatRoom(r, k) \in Nat
         /\ r.count + k + 1 <= r.cap_size \/ r.count + k + 1 <= ConcatRoom(r, k)
<1>1. r.cap_size \in Nat /\ r.count \in Nat /\ r.count + 1 <= r.cap_size
  BY DEF Holds, Record
<1> DEFINE grown == mstr_resize_tactic(r.cap_size, k)
<1>2. grown \in Nat /\ grown >= r.cap_size + k + 1
  BY <1>1, TacticGrows
<1> HIDE DEF grown
<1>3. grown >= r.count + k + 1
  BY <1>1, <1>2
<1>4. CASE r.count + k + 1 >= r.cap_size
  BY <1>1, <1>2, <1>3, <1>4 DEF AppendRoom, ConcatRoom, grown
<1>5. CASE ~(r.count + k + 1 >= r.cap_size)
  BY <1>1, <1>2, <1>3, <1>5 DEF AppendRoom, ConcatRoom, grown
<1> QED
  BY <1>4, <1>5

\* A text is added at the end of that of r.
LEMMA AddedHolds ==
  ASSUME NEW r, NEW w, Holds(r, w), NEW u \in Seq(Code)
  PROVE  /\ Added(r, Len(Encode(u)), Len(u), Encode(u)) = Contents(w \o u)
         /\ w \o u \in Seq(Code)
         /\ Len(Encode(w \o u)) = r.count + Len(Encode(u))
<1>1. /\ w \in Seq(Code) /\ Encode(w) \in Seq(Byte) /\ Encode(u) \in Seq(Byte)
      /\ r.count = Len(Encode(w)) /\ r.length = Len(w) /\ r.bytes = Encode(w)
  BY EncodeType DEF Holds
<1>2. w \o u \in Seq(Code) /\ Len(w \o u) = Len(w) + Len(u)
  BY <1>1, ConcatProperties
<1>3. Encode(w \o u) = Encode(w) \o Encode(u)
  BY <1>1, EncodeConcat
<1>4. Len(Encode(w) \o Encode(u)) = Len(Encode(w)) + Len(Encode(u))
  BY <1>1, ConcatProperties
<1> QED
  BY <1>1, <1>2, <1>3, <1>4 DEF Added, Contents

LEMMA GrowEffect ==
  ASSUME NEW s \in Strings, NEW r, NEW w, Holds(r, w), NEW blocks, NEW n \in Nat,
         NEW u \in Seq(Code),
         \/ r.count + Len(Encode(u)) + 1 <= r.cap_size
         \/ r.count + Len(Encode(u)) + 1 <= n,
         Rewrite(s, r, blocks, n, Added(r, Len(Encode(u)), Len(u), Encode(u)))
  PROVE  Effect(s, w \o u, w)
<1> DEFINE v == w \o u
<1>1. /\ Added(r, Len(Encode(u)), Len(u), Encode(u)) = Contents(v)
      /\ v \in Seq(Code)
      /\ Len(Encode(v)) = r.count + Len(Encode(u))
  BY AddedHolds
<1> HIDE DEF v
<1>2. /\ Rewrite(s, r, blocks, n, Contents(v))
      /\ Len(Encode(v)) + 1 <= r.cap_size \/ Len(Encode(v)) + 1 <= n
  BY <1>1
<1>3. Effect(s, v, w)
  BY <1>1, <1>2, RewriteEffect
<1> QED
  BY <1>3 DEF v

\* The case of mstr_concat: the text of another string.
LEMMA JoinEffect ==
  ASSUME NEW s \in Strings, NEW r, NEW w, Holds(r, w), NEW x, NEW u, Holds(x, u),
         NEW blocks,
         Rewrite(s, r, blocks, ConcatRoom(r, x.count), Added(r, x.count, x.length, x.bytes))
  PROVE  Effect(s, w \o u, w)
<1>1. /\ u \in Seq(Code) /\ x.count = Len(Encode(u)) /\ x.length = Len(u)
      /\ x.bytes = Encode(u) /\ Len(Encode(u)) \in Nat
  BY EncodeType DEF Holds
<1> DEFINE n == ConcatRoom(r, Len(Encode(u)))
<1>2. /\ n \in Nat
      /\ \/ r.count + Len(Encode(u)) + 1 <= r.cap_size
         \/ r.count + Len(Encode(u)) + 1 <= n
  BY <1>1, RoomSuffices
<1>3. Rewrite(s, r, blocks, n, Added(r, Len(Encode(u)), Len(u), Encode(u)))
  BY <1>1
<1> HIDE DEF n
<1> QED
  BY <1>1, <1>2, <1>3, GrowEffect

\* The strings that hold no text yet: a new one, one that is cleared.
LEMMA EmptyHolds == Holds(Empty, <<>>)
<1>1. <<>> \in Seq(Code) /\ <<>> \in Seq(0..255) /\ Len(<<>>) = 0 /\ Encode(<<>>) = <<>>
  BY EncodeEmpty, EmptySeq
<1>2. /\ Empty.buff = Stack /\ Empty.cap_size = StackSize /\ Empty.count = 0
      /\ Empty.length = 0 /\ Empty.bytes = <<>>
  BY DEF Empty
<1>3. Empty \in Record
  BY <1>1, MStringAssumption DEF Empty, Record
<1> QED
  BY <1>1, <1>2, <1>3, MStringAssumption DEF Holds

LEMMA ClearedHolds ==
  ASSUME NEW r, NEW w, Holds(r, w)
  PROVE  Holds(Cleared(r), <<>>)
<1>1. <<>> \in Seq(Code) /\ <<>> \in Seq(0..255) /\ Len(<<>>) = 0 /\ Encode(<<>>) = <<>>
  BY EncodeEmpty, EmptySeq
<1>2. /\ Cleared(r) \in Record /\ Cleared(r).buff = r.buff /\ Cleared(r).cap_size = r.cap_size
      /\ Cleared(r).count = 0 /\ Cleared(r).length = 0 /\ Cleared(r).bytes = <<>>
  BY <1>1 DEF Holds, Cleared, Record
<1>3. r.cap_size \in Nat /\ r.count \in Nat /\ r.buff # NULL /\ r.count + 1 <= r.cap_size
  BY DEF Holds, Record
<1> QED
  BY <1>1, <1>2, <1>3 DEF Holds

\* What a string that is created holds.
LEMMA CreatedHolds ==
  ASSUME TextInv, NEW s \in Strings, Created(s)
  PROVE  Holds(str[s], Text(s)) /\ Text(s) \in Seq(Code)
BY DEF TextInv, Holds

LEMMA CreateEffect ==
  ASSUME NEW s \in Strings, NEW text \in Seq(Code), mstr_create(s, text)
  PROVE  /\ ~Created(s)
         /\ \/ result' = "MStr_Ok" /\ Becomes(s, text)
            \/ result' = "MStr_Err_HeapTooSmall" /\ Loses(s)
<1> DEFINE bytes == Encode(text)
           size == mstr_strlen(bytes, Len(bytes))
           cap == size.count + StackSize
           filled(buff, cap_size, held) ==
             [buff |-> buff, cap_size |-> cap_size, count |-> size.count,
              length |-> size.length, bytes |-> held]
<1>1. size.count = Len(bytes) /\ size.length = Len(text)
  BY StrlenWhole
<1>2. bytes \in Seq(0..255) /\ Len(bytes) \in Nat /\ Len(text) \in Nat
  BY EncodeType, LenProperties DEF Byte
<1> HIDE DEF size
<1>3. CASE /\ size.count < StackSize
           /\ Finish(s, Outcome(filled(Stack, StackSize, bytes), heap, "MStr_Ok"))
  <2>1. Holds(filled(Stack, StackSize, bytes), text)
    BY <1>1, <1>2, <1>3, MStringAssumption DEF Holds, Record
  <2> QED
    BY <1>3, <2>1 DEF mstr_create, Finish, Outcome, Becomes
<1>4. ASSUME NEW b \in Available(heap),
             Finish(s, Outcome(filled(b, cap, bytes), With(heap, b, cap), "MStr_Ok"))
      PROVE  result' = "MStr_Ok" /\ Becomes(s, text)
  <2>1. b \in Blocks /\ b # NULL
    BY MStringAssumption DEF Available
  <2>2. cap \in Nat /\ Len(bytes) + 1 <= cap
    BY <1>1, <1>2, MStringAssumption
  <2>3. Holds(filled(b, cap, bytes), text)
    BY <1>1, <1>2, <2>1, <2>2 DEF Holds, Record
  <2> QED
    BY <1>4, <2>3 DEF Finish, Outcome, Becomes
<1>5. CASE Finish(s, Outcome(filled(NULL, cap, <<>>), heap, "MStr_Err_HeapTooSmall"))
  <2> DEFINE x == filled(NULL, cap, <<>>)
  <2>1. x \in Record /\ x.buff = NULL
    BY <1>1, <1>2, MStringAssumption DEF Record
  <2>2. str' = [str EXCEPT ![s] = x] /\ result' = "MStr_Err_HeapTooSmall"
    BY <1>5 DEF Finish, Outcome
  <2> HIDE DEF x
  <2>3. Loses(s)
    BY <2>1, <2>2 DEF Loses
  <2> QED
    BY <2>2, <2>3 DEF mstr_create
<1> QED
  BY <1>3, <1>4, <1>5 DEF mstr_create, size

LEMMA CopyEffect ==
  ASSUME TextInv, NEW s \in Strings, NEW o \in Strings, mstr_copy_from(s, o)
  PROVE  /\ Created(o)
         /\ Effect(s, IF s = o THEN <<>> ELSE Text(o), <<>>)
<1> DEFINE other == IF s = o THEN Empty ELSE str[o]
           u == IF s = o THEN <<>> ELSE Text(o)
           blocks == Without(heap, str[s].buff)
<1>1. /\ Created(o)
      /\ Rewrite(s, Empty, blocks, ConcatRoom(Empty, other.count),
                 Added(Empty, other.count, other.length, other.bytes))
  BY DEF mstr_copy_from
<1>2. Holds(other, u) /\ u \in Seq(Code)
  BY <1>1, CreatedHolds, EmptyHolds DEF Holds
<1>3. <<>> \o u = u
  BY <1>2, ConcatEmptySeq
<1> HIDE DEF other, u, blocks
<1>4. Effect(s, <<>> \o u, <<>>)
  BY <1>1, <1>2, EmptyHolds, JoinEffect
<1> QED
  BY <1>1, <1>3, <1>4 DEF u

LEMMA AssignEffect ==
  ASSUME TextInv, NEW s \in Strings, NEW o \in Strings, string_assign(s, o)
  PROVE  /\ Created(s) /\ Created(o)
         /\ Effect(s, IF s = o THEN <<>> ELSE Text(o), <<>>)
<1> DEFINE r == Cleared(str[s])
           other == IF s = o THEN r ELSE str[o]
           u == IF s = o THEN <<>> ELSE Text(o)
<1>1. /\ Created(s) /\ Created(o)
      /\ Rewrite(s, r, heap, ConcatRoom(r, other.count),
                 Added(r, other.count, other.length, other.bytes))
  BY DEF string_assign
<1>2. Holds(r, <<>>)
  BY <1>1, CreatedHolds, ClearedHolds
<1>3. Holds(other, u) /\ u \in Seq(Code)
  BY <1>1, <1>2, CreatedHolds DEF Holds
<1>4. <<>> \o u = u
  BY <1>3, ConcatEmptySeq
<1> HIDE DEF r, other, u
<1>5. Effect(s, <<>> \o u, <<>>)
  BY <1>1, <1>2, <1>3, JoinEffect
<1> QED
  BY <1>1, <1>4, <1>5 DEF u

LEMMA ConcatEffect ==
  ASSUME TextInv, NEW s \in Strings, NEW o \in Strings, mstr_concat(s, o)
  PROVE  /\ Created(s) /\ Created(o)
         /\ Effect(s, Text(s) \o Text(o), Text(s))
<1>1. /\ Created(s) /\ Created(o)
      /\ Rewrite(s, str[s], heap, ConcatRoom(str[s], str[o].count),
                 Added(str[s], str[o].count, str[o].length, str[o].bytes))
  BY DEF mstr_concat
<1>2. Holds(str[s], Text(s)) /\ Holds(str[o], Text(o))
  BY <1>1, CreatedHolds
<1> QED
  BY <1>1, <1>2, JoinEffect

LEMMA ReserveEffect ==
  ASSUME TextInv, NEW s \in Strings, NEW n \in Nat, mstr_reserve(s, n)
  PROVE  Created(s) /\ Effect(s, Text(s), Text(s))
<1>1. Created(s) /\ Holds(str[s], Text(s))
  BY CreatedHolds DEF mstr_reserve
<1>2. PICK o \in Reserved(str[s], heap, n) : Finish(s, o)
  BY DEF mstr_reserve
<1>3. Holds(o.str, Text(s)) /\ o.result \in {"MStr_Ok", "MStr_Err_HeapTooSmall"}
  BY <1>1, ReservedHolds
<1>4. str' = [str EXCEPT ![s] = o.str] /\ result' = o.result
  BY <1>2 DEF Finish
<1>5. Becomes(s, Text(s))
  BY <1>3, <1>4 DEF Becomes
<1> QED
  BY <1>1, <1>3, <1>4, <1>5 DEF Effect

\* Characters that have an encoding are added, none is where none has been asked for.
LEMMA RepeatEffect ==
  ASSUME TextInv, NEW s \in Strings, NEW c \in Nat, NEW n \in Nat, mstr_repeat_append(s, c, n)
  PROVE  /\ Created(s)
         /\ \/ UNCHANGED str /\ result' = "MStr_Err_UnicodeEncodingError"
            \/ n = 0 /\ Effect(s, Text(s), Text(s))
            \/ c \in Code /\ Effect(s, Text(s) \o [i \in 1..n |-> c], Text(s))
<1> DEFINE r == str[s]
           code == mstr_as_utf8(c)
           need_len == Len(code) * n
           written == [i \in 1..need_len |-> code[1 + ((i - 1) % Len(code))]]
           t == [i \in 1..n |-> c]
<1>1. Created(s) /\ Holds(r, Text(s))
  BY CreatedHolds DEF mstr_repeat_append
<1>2. CASE n > 0 /\ code = <<>>
  BY <1>1, <1>2 DEF mstr_repeat_append, Return
<1>3. CASE ~(n > 0 /\ code = <<>>)
  <2>1. Rewrite(s, r, heap, IF n = 0 THEN 0 ELSE AppendRoom(r, need_len),
                Added(r, need_len, n, written))
    BY <1>3 DEF mstr_repeat_append
  <2>2. CASE n = 0
    <3>1. Len(code) \in Nat
      <4>1. CASE c \in Code
        BY <4>1, EncodesCharacter DEF Character
      <4>2. CASE c \notin Code
        BY <4>2, NoEncoding, EmptySeq
      <4> QED
        BY <4>1, <4>2
    <3>2. need_len = 0
      BY <2>2, <3>1
    <3>3. written = <<>>
      BY <3>2
    <3>4. Encode(<<>>) = <<>> /\ Len(<<>>) = 0 /\ <<>> \in Seq(Code)
      BY EncodeEmpty, EmptySeq
    <3> DEFINE e == <<>>
    <3>5. Rewrite(s, r, heap, 0, Added(r, Len(Encode(e)), Len(e), Encode(e)))
      BY <2>1, <2>2, <3>2, <3>3, <3>4
    <3>6. r.count + Len(Encode(e)) + 1 <= r.cap_size
      <4>1. r.count \in Nat /\ r.count + 1 <= r.cap_size
        BY <1>1 DEF Holds, Record
      <4> QED
        BY <3>4, <4>1
    <3>7. Text(s) \o e = Text(s)
      BY <1>1, ConcatEmptySeq DEF Holds
    <3>8. e \in Seq(Code)
      BY <3>4
    <3> HIDE DEF e, r
    <3>9. Effect(s, Text(s) \o e, Text(s))
      BY <1>1, <3>5, <3>6, <3>8, GrowEffect
    <3> QED
      BY <1>1, <2>2, <3>7, <3>9
  <2>3. CASE n # 0
    <3>1. c \in Code
      <4>1. n > 0
        BY <2>3
      <4> QED
        BY <1>3, <4>1, NoEncoding
    <3>2. /\ t \in Seq(Code) /\ Len(t) = n /\ Encode(t) = written
          /\ Len(Encode(t)) = need_len
      BY <3>1, RepeatEncodes
    <3>3. Len(Encode(t)) \in Nat
      BY <3>2, EncodeType
    <3> HIDE DEF t, r, need_len, written, code
    <3> DEFINE room == AppendRoom(r, Len(Encode(t)))
    <3>4. Rewrite(s, r, heap, room, Added(r, Len(Encode(t)), Len(t), Encode(t)))
      BY <2>1, <2>3, <3>2
    <3>5. /\ room \in Nat
          /\ \/ r.count + Len(Encode(t)) + 1 <= r.cap_size
             \/ r.count + Len(Encode(t)) + 1 <= room
      BY <1>1, <3>3, RoomSuffices
    <3> HIDE DEF room
    <3>6. Effect(s, Text(s) \o t, Text(s))
      BY <1>1, <3>2, <3>4, <3>5, GrowEffect
    <3> QED
      BY <1>1, <3>1, <3>6 DEF t
  <2> QED
    BY <2>2, <2>3
<1> QED
  BY <1>2, <1>3

\* Of a C string the first characters are added, or the slice is refused.
LEMMA SliceEffect ==
  ASSUME TextInv, NEW s \in Strings, NEW text \in Seq(Code), NEW end \in 0..Len(Encode(text)),
         mstr_concat_cstr_slice(s, text, end)
  PROVE  /\ Created(s)
         /\ \/ UNCHANGED str /\ result' = "MStr_Err_EncodingNotCompleted"
            \/ \E j \in 0..Len(text) : Effect(s, Text(s) \o SubSeq(text, 1, j), Text(s))
<1> DEFINE r == str[s]
           bytes == Encode(text)
           size == mstr_strlen(bytes, end)
<1>1. Created(s) /\ Holds(r, Text(s))
  BY CreatedHolds DEF mstr_concat_cstr_slice
<1>2. CASE ~size.complete
  BY <1>1, <1>2 DEF mstr_concat_cstr_slice, Return
<1>3. CASE size.complete
  <2>1. PICK j \in 0..Len(text) :
          /\ size.length = j /\ size.count = Offset(text, j)
          /\ SubSeq(bytes, 1, Offset(text, j)) = Encode(SubSeq(text, 1, j))
    BY <1>3, SliceEncodes
  <2> DEFINE u == SubSeq(text, 1, j)
             n == ConcatRoom(r, Len(Encode(u)))
  <2>2. u \in Seq(Code) /\ Len(u) = j
    BY SplitText
  <2>3. Offset(text, j) = Len(Encode(u)) /\ Len(Encode(u)) \in Nat
    BY <2>2, EncodeType DEF Offset
  <2>4. Rewrite(s, r, heap, ConcatRoom(r, size.count),
                Added(r, size.count, size.length, SubSeq(bytes, 1, size.count)))
    BY <1>3 DEF mstr_concat_cstr_slice
  <2>5. Rewrite(s, r, heap, n, Added(r, Len(Encode(u)), Len(u), Encode(u)))
    <3> HIDE DEF size, u, r, bytes
    <3> QED
      BY <2>1, <2>2, <2>3, <2>4 DEF u
  <2>6. /\ n \in Nat
        /\ \/ r.count + Len(Encode(u)) + 1 <= r.cap_size
           \/ r.count + Len(Encode(u)) + 1 <= n
    BY <1>1, <2>3, RoomSuffices
  <2> HIDE DEF n, u, r
  <2>7. Effect(s, Text(s) \o u, Text(s))
    BY <1>1, <2>2, <2>5, <2>6, GrowEffect
  <2> QED
    BY <1>1, <2>7 DEF u
<1> QED
  BY <1>2, <1>3

LEMMA InsertEffect ==
  ASSUME TextInv, NEW s \in Strings, NEW idx \in 0..(str[s].length - 1), NEW c \in Nat,
         mstr_insert(s, idx, c)
  PROVE  /\ Created(s)
         /\ \/ UNCHANGED str /\ result' = "MStr_Err_UnicodeEncodingError"
            \/ /\ c \in Code /\ idx + 1 \in 1..(Len(Text(s)) + 1)
               /\ Effect(s, InsertAt(Text(s), idx + 1, c), Text(s))
<1> DEFINE r == str[s]
           t == Text(s)
           b == Encode(t)
           code == mstr_as_utf8(c)
           offset == mstr_char_offset_at(r.bytes, idx)
           v == InsertAt(t, idx + 1, c)
           room == AppendRoom(r, Len(code))
<1>1. Created(s) /\ Holds(r, t) /\ t \in Seq(Code)
  BY CreatedHolds DEF mstr_insert
<1>2. /\ r.bytes = b /\ r.count = Len(b) /\ r.length = Len(t)
      /\ r.cap_size \in Nat /\ Len(t) \in Nat /\ Len(b) \in Nat
  BY <1>1, LenProperties, EncodeType DEF Holds, Record
<1>3. CASE code = <<>>
  BY <1>1, <1>3 DEF mstr_insert, Return
<1>4. CASE code # <<>>
  <2>1. c \in Code
    BY <1>4, NoEncoding
  <2>2. idx \in 0..Len(t) /\ idx + 1 \in 1..(Len(t) + 1)
    BY <1>2
  <2>3. Len(code) \in Nat
    BY <2>1, EncodesCharacter DEF Character
  <2>4. Rewrite(s, r, heap, room,
                [count |-> r.count + Len(code), length |-> r.length + 1,
                 bytes |-> SubSeq(r.bytes, 1, offset) \o code
                             \o SubSeq(r.bytes, offset + 1, r.count)])
    BY <1>4 DEF mstr_insert
  <2>5. /\ v \in Seq(Code) /\ Len(v) = Len(t) + 1
        /\ Encode(v) = SubSeq(r.bytes, 1, offset) \o code
                         \o SubSeq(r.bytes, offset + 1, r.count)
        /\ Len(Encode(v)) = r.count + Len(code)
    <3> HIDE DEF t, v, code
    <3>1. t \in Seq(Code)
      BY <1>1
    <3>2. LET o == mstr_char_offset_at(b, idx)
              w == InsertAt(t, idx + 1, c)
          IN  /\ w \in Seq(Code) /\ Len(w) = Len(t) + 1
              /\ Encode(w) = SubSeq(b, 1, o) \o code \o SubSeq(b, o + 1, Len(b))
              /\ Len(Encode(w)) = Len(b) + Len(code)
      BY <2>1, <2>2, <3>1, InsertEncodes DEF code
    <3> QED
      BY <1>2, <3>2 DEF v
  <2> HIDE DEF v, code, r
  <2>6. Rewrite(s, r, heap, room, Contents(v))
    BY <1>2, <2>4, <2>5 DEF Contents
  <2>7. /\ room \in Nat
        /\ Len(Encode(v)) + 1 <= r.cap_size \/ Len(Encode(v)) + 1 <= room
    BY <1>1, <2>3, <2>5, RoomSuffices
  <2> HIDE DEF room, t
  <2>8. Effect(s, v, t)
    BY <1>1, <2>5, <2>6, <2>7, RewriteEffect
  <2> QED
    BY <1>1, <2>1, <2>2, <2>8 DEF v, t
<1> QED
  BY <1>3, <1>4

\* The calls that change a string in place.
LEMMA InPlace ==
  ASSUME NEW s \in Strings, NEW r, NEW w, Holds(r, w), NEW v \in Seq(Code), NEW x,
         x \in Record, x.buff = r.buff, x.cap_size = r.cap_size,
         x.count = Len(Encode(v)), x.length = Len(v), x.bytes = Encode(v),
         Len(Encode(v)) <= Len(Encode(w)),
         str' = [str EXCEPT ![s] = x]
  PROVE  Becomes(s, v)
<1>1. /\ r.cap_size \in Nat /\ r.count = Len(Encode(w)) /\ r.buff # NULL
      /\ Len(Encode(w)) + 1 <= r.cap_size /\ w \in Seq(Code)
  BY DEF Holds, Record
<1>2. Len(Encode(v)) \in Nat /\ Len(Encode(w)) \in Nat
  BY <1>1, EncodeType
<1>3. x.count + 1 <= x.cap_size
  BY <1>1, <1>2
<1>4. Holds(x, v)
  BY <1>1, <1>3 DEF Holds
<1> QED
  BY <1>4 DEF Becomes

LEMMA ClearEffect ==
  ASSUME TextInv, NEW s \in Strings, mstr_clear(s)
  PROVE  Created(s) /\ result' = "MStr_Ok" /\ Becomes(s, <<>>)
<1>1. Created(s) /\ Holds(str[s], Text(s))
  BY CreatedHolds DEF mstr_clear
<1>2. str' = [str EXCEPT ![s] = Cleared(str[s])] /\ result' = "MStr_Ok"
  BY DEF mstr_clear, Finish, Outcome
<1> QED
  BY <1>1, <1>2, ClearedHolds DEF Becomes

\* A text takes as many bytes in reverse.
LEMMA ReversedLength ==
  ASSUME NEW t \in Seq(Code)
  PROVE  Len(Encode(Reverse(t))) = Len(Encode(t))
<1> DEFINE G == {u \in Seq(Code) : Len(Encode(Reverse(u))) = Len(Encode(u))}
<1>1. <<>> \in G
  <2>1. Reverse(<<>>) = <<>> /\ <<>> \in Seq(Code)
    BY DEF Reverse
  <2> QED
    BY <2>1
<1>2. ASSUME NEW u \in Seq(Code), NEW c \in Code, u \in G PROVE Append(u, c) \in G
  <2> DEFINE x == <<c>>
  <2>1. x \in Seq(Code) /\ Append(u, c) = u \o x /\ Reverse(x) = x
    <3>1. x \in Seq(Code) /\ Append(u, c) = u \o x
      BY AppendIsConcat
    <3>2. Reverse(x) = x
      BY DEF Reverse
    <3> QED
      BY <3>1, <3>2
  <2> HIDE DEF x
  <2>2. Reverse(u \o x) = x \o Reverse(u) /\ Reverse(u) \in Seq(Code)
    BY <2>1, ReverseConcat, ReverseProperties
  <2> DEFINE ru == Reverse(u)
             a == Encode(u)
             b == Encode(ru)
             d == Encode(x)
  <2>3. Encode(u \o x) = a \o d /\ Encode(x \o ru) = d \o b
    BY <2>1, <2>2, EncodeConcat
  <2>4. a \in Seq(Byte) /\ b \in Seq(Byte) /\ d \in Seq(Byte)
    BY <2>1, <2>2, EncodeType
  <2>5. Len(b) = Len(a)
    BY <1>2
  <2>6. Encode(Reverse(u \o x)) = d \o b
    BY <2>2, <2>3
  <2> HIDE DEF a, b, d, ru
  <2>7. Len(a \o d) = Len(a) + Len(d) /\ Len(d \o b) = Len(d) + Len(b)
    BY <2>4, ConcatProperties
  <2>8. Len(a) \in Nat /\ Len(b) \in Nat /\ Len(d) \in Nat
    BY <2>4, LenProperties
  <2>9. Len(Encode(Reverse(u \o x))) = Len(Encode(u \o x))
    BY <2>3, <2>5, <2>6, <2>7, <2>8
  <2>10. u \o x \in Seq(Code)
    BY <2>1, ConcatProperties
  <2> QED
    BY <2>1, <2>9, <2>10
<1> HIDE DEF G
<1>3. Seq(Code) \subseteq G
  BY <1>1, <1>2, SequenceInduction
<1> QED
  BY <1>3 DEF G

LEMMA ReverseEffect ==
  ASSUME TextInv, NEW s \in Strings, reverse(s)
  PROVE  Created(s) /\ result' = "MStr_Ok" /\ Becomes(s, Reverse(Text(s)))
<1> DEFINE r == str[s]
           t == Text(s)
           x == [r EXCEPT !.bytes = mstr_reverse_self(r.bytes)]
<1>1. Created(s) /\ Holds(r, t) /\ t \in Seq(Code)
  BY CreatedHolds DEF reverse
<1>2. r \in Record /\ r.bytes = Encode(t) /\ r.count = Len(Encode(t)) /\ r.length = Len(t)
  BY <1>1 DEF Holds
<1> DEFINE v == Reverse(t)
<1>3. /\ v \in Seq(Code) /\ Len(v) = Len(t)
      /\ mstr_reverse_self(r.bytes) = Encode(v)
  BY <1>1, <1>2, ReverseProperties, ReverseEncodes
<1>4. Encode(v) \in Seq(0..255) /\ Encode(t) \in Seq(Byte)
  BY <1>1, <1>3, EncodeType DEF Byte
<1>5. str' = [str EXCEPT ![s] = x] /\ result' = "MStr_Ok"
  <2>1. CASE Finish(s, Outcome(x, heap, "MStr_Ok"))
    BY <2>1 DEF Finish, Outcome
  <2>2. CASE /\ \A i \in DOMAIN r.bytes : r.bytes[i] < 128
             /\ Finish(s, Outcome([r EXCEPT !.bytes = mstr_reverse_only(r.bytes)], heap, "MStr_Ok"))
    <3>1. mstr_reverse_only(r.bytes) = mstr_reverse_self(r.bytes)
      <4> DEFINE b == Encode(t)
      <4>1. b \in Seq(Byte)
        BY <1>4
      <4>2. \A i \in 1..Len(b) : b[i] < 128
        BY <1>2, <2>2, <4>1, LenProperties
      <4> HIDE DEF b
      <4>3. mstr_reverse_only(b) = mstr_reverse_self(b)
        BY <4>1, <4>2, AsciiReversed
      <4> QED
        BY <1>2, <4>3 DEF b
    <3> QED
      BY <2>2, <3>1 DEF Finish, Outcome
  <2> QED
    BY <2>1, <2>2 DEF reverse
<1>6. Len(Encode(v)) = Len(Encode(t))
  BY <1>1, ReversedLength
<1>7. /\ x \in Record /\ x.buff = r.buff /\ x.cap_size = r.cap_size
      /\ x.count = Len(Encode(v)) /\ x.length = Len(v) /\ x.bytes = Encode(v)
  BY <1>2, <1>3, <1>4, <1>6 DEF Record
<1>8. Len(Encode(v)) <= Len(Encode(t))
  BY <1>4, <1>6, LenProperties
<1> HIDE DEF x, v, t, r
<1>9. Becomes(s, v)
  BY <1>1, <1>3, <1>5, <1>7, <1>8, InPlace
<1> QED
  BY <1>1, <1>5, <1>9 DEF v, t

LEMMA RemoveEffect ==
  ASSUME TextInv, NEW s \in Strings, NEW idx \in 0..(str[s].length - 1), mstr_remove(s, idx)
  PROVE  /\ Created(s) /\ result' = "MStr_Ok"
         /\ idx + 1 \in 1..Len(Text(s)) /\ Becomes(s, RemoveAt(Text(s), idx + 1))
<1> DEFINE r == str[s]
           t == Text(s)
           b == Encode(t)
           offset == mstr_char_offset_at(r.bytes, idx)
           ccnt == mstr_char_length(r.bytes[offset + 1])
           rest == SubSeq(r.bytes, 1, offset) \o SubSeq(r.bytes, offset + ccnt + 1, r.count)
           v == RemoveAt(t, idx + 1)
           x == [r EXCEPT !.bytes = rest, !.count = r.count - ccnt, !.length = r.length - 1]
<1>1. Created(s) /\ Holds(r, t) /\ t \in Seq(Code)
  BY CreatedHolds DEF mstr_remove
<1>2. /\ r \in Record /\ r.bytes = b /\ r.count = Len(b) /\ r.length = Len(t)
      /\ r.cap_size \in Nat /\ Len(t) \in Nat /\ Len(b) \in Nat
  BY <1>1, LenProperties, EncodeType DEF Holds, Record
<1>3. str' = [str EXCEPT ![s] = x] /\ result' = "MStr_Ok"
  BY DEF mstr_remove, Finish, Outcome
<1>4. idx \in 0..(Len(t) - 1) /\ idx + 1 \in 1..Len(t)
  BY <1>2
<1>5. /\ v \in Seq(Code) /\ Len(v) = r.length - 1
      /\ Encode(v) = rest
      /\ Len(Encode(v)) = r.count - ccnt /\ Len(Encode(v)) <= Len(b)
  <2> HIDE DEF t
  <2>1. LET o == mstr_char_offset_at(b, idx)
            c == mstr_char_length(b[o + 1])
            w == RemoveAt(t, idx + 1)
        IN  /\ w \in Seq(Code) /\ Len(w) = Len(t) - 1
            /\ Encode(w) = SubSeq(b, 1, o) \o SubSeq(b, o + c + 1, Len(b))
            /\ Len(Encode(w)) = Len(b) - c /\ Len(Encode(w)) <= Len(b)
    BY <1>1, <1>4, RemoveEncodes
  <2> QED
    BY <1>2, <2>1
<1>6. Encode(v) \in Seq(0..255) /\ Len(Encode(v)) \in Nat /\ Len(v) \in Nat
  BY <1>5, EncodeType, LenProperties DEF Byte
<1> HIDE DEF v, rest
<1>7. /\ x \in Record /\ x.buff = r.buff /\ x.cap_size = r.cap_size
      /\ x.count = Len(Encode(v)) /\ x.length = Len(v) /\ x.bytes = Encode(v)
  BY <1>2, <1>5, <1>6 DEF Record
<1> HIDE DEF x, t, r
<1>9. Becomes(s, v)
  BY <1>1, <1>3, <1>5, <1>7, InPlace
<1> QED
  BY <1>1, <1>3, <1>4, <1>9 DEF v, t

LEMMA FreeEffect ==
  ASSUME TextInv, NEW s \in Strings, mstr_free(s)
  PROVE  result' = "MStr_Ok" /\ Loses(s)
<1>1. <<>> \in Seq(0..255)
  BY EmptySeq
<1>2. str[s] \in Record
  BY DEF TextInv
<1>3. Freed(str[s]) \in Record /\ Freed(str[s]).buff = NULL
  BY <1>1, <1>2 DEF Freed, Record
<1>4. str' = [str EXCEPT ![s] = Freed(str[s])] /\ result' = "MStr_Ok"
  BY DEF mstr_free, Finish, Outcome
<1> QED
  BY <1>3, <1>4 DEF Loses

LEMMA MoveEffect ==
  ASSUME TextInv, NEW s \in Strings, NEW o \in Strings, mstr_move_from(s, o)
  PROVE  /\ TextInv' /\ result' = "MStr_Ok"
         /\ Text(o)' = NULL /\ (s # o => Text(s)' = Text(o))
         /\ \A t \in Strings \ {s, o} : Text(t)' = Text(t)
<1> DEFINE freed == IF Created(s) THEN [str EXCEPT ![s] = Freed(str[s])] ELSE str
<1>1. /\ str' = [freed EXCEPT ![s] = freed[o], ![o] = Nothing]
      /\ result' = "MStr_Ok" /\ str \in [Strings -> Record]
  BY DEF mstr_move_from, TextInv
<1>2. Nothing \in Record /\ Nothing.buff = NULL
  <2>1. <<>> \in Seq(0..255)
    BY EmptySeq
  <2> QED
    BY <2>1 DEF Nothing, Record
<1>3. result' \in Results
  BY <1>1 DEF Results
<1>4. CASE s = o
  <2>1. str' = [str EXCEPT ![s] = Nothing]
    BY <1>1, <1>4
  <2>2. Loses(s)
    BY <1>2, <2>1 DEF Loses
  <2> QED
    BY <1>1, <1>3, <1>4, <2>2, LosesKeeps
<1>5. CASE s # o
  <2>1. str' = [t \in Strings |-> CASE t = s -> str[o] [] t = o -> Nothing [] OTHER -> str[t]]
    BY <1>1, <1>5
  <2>2. /\ str'[s] = str[o] /\ str'[o] = Nothing
        /\ \A t \in Strings \ {s, o} : str'[t] = str[t]
    BY <1>5, <2>1
  <2>3. str' \in [Strings -> Record]
    <3>1. \A t \in Strings : str'[t] \in Record
      BY <1>1, <1>2, <2>2
    <3>2. str' = [t \in Strings |-> str'[t]]
      BY <2>1
    <3> QED
      BY <3>1, <3>2
  <2>4. /\ Text(s)' = Text(o) /\ (Created(s)' <=> Created(o))
        /\ Text(o)' = NULL /\ ~Created(o)'
        /\ \A t \in Strings \ {s, o} : Text(t)' = Text(t) /\ (Created(t)' <=> Created(t))
    BY <1>2, <2>2 DEF Text, Created
  <2>5. ASSUME NEW t \in Strings, Created(t)' PROVE Holds(str'[t], Text(t)')
    <3>1. CASE t = s
      BY <2>2, <2>4, <2>5, <3>1 DEF TextInv
    <3>2. CASE t \notin {s, o}
      BY <2>2, <2>4, <2>5, <3>2 DEF TextInv
    <3> QED
      BY <2>4, <2>5, <3>1, <3>2
  <2> QED
    BY <1>1, <1>3, <1>5, <2>3, <2>4, <2>5 DEF TextInv
<1> QED
  BY <1>4, <1>5

\* Every step is a call that only changes the text of s, one that fails and leaves
\* s with the text it had or with none, or mstr_move_from.
Succeeds(s) == result' = "MStr_Ok" /\ (Loses(s) \/ \E v : Becomes(s, v))

Fails(s) ==
  /\ result' \in Results \ {"MStr_Ok"}
  /\ \/ UNCHANGED str
     \/ \E v \in {Text(s), <<>>} : Becomes(s, v)
     \/ ~Created(s) /\ Loses(s)

LEMMA EffectFits ==
  ASSUME NEW s, NEW v, NEW w, w \in {Text(s), <<>>}, Effect(s, v, w)
  PROVE  Succeeds(s) \/ Fails(s)
<1>1. "MStr_Err_HeapTooSmall" \in Results \ {"MStr_Ok"}
  BY DEF Results
<1> QED
  BY <1>1 DEF Effect, Succeeds, Fails

\* The texts of the callers have an encoding.
LEMMA TextsEncode == Texts \subseteq Seq(Code)
<1>1. 1..MaxCode \subseteq Code
  BY DEF Code
<1> SUFFICES ASSUME NEW t \in Texts PROVE t \in Seq(Code)
  OBVIOUS
<1>2. t \in Seq(1..MaxCode)
  BY MStringAssumption
<1> QED
  BY <1>1, <1>2, SeqMonotonic

LEMMA NextEffect ==
  ASSUME TextInv, Next
  PROVE  \/ \E s \in Strings : Succeeds(s) \/ Fails(s)
         \/ \E s, o \in Strings : mstr_move_from(s, o)
<1>0. /\ "MStr_Err_UnicodeEncodingError" \in Results \ {"MStr_Ok"}
      /\ "MStr_Err_EncodingNotCompleted" \in Results \ {"MStr_Ok"}
      /\ "MStr_Err_HeapTooSmall" \in Results \ {"MStr_Ok"}
  BY DEF Results
<1>1. PICK s \in Strings :
        \/ \E text \in Texts : mstr_create(s, text)
        \/ \E o \in Strings : mstr_move_from(s, o) \/ mstr_copy_from(s, o) \/ mstr_concat(s, o)
        \/ \E o \in Strings : string_assign(s, o)
        \/ \E size \in Reserves : mstr_reserve(s, size)
        \/ \E ch \in Codes, cnt \in Repeats : mstr_repeat_append(s, ch, cnt)
        \/ \E text \in Texts : \E end \in 0..Len(Encode(text)) :
             mstr_concat_cstr_slice(s, text, end)
        \/ mstr_clear(s) \/ reverse(s) \/ mstr_free(s)
        \/ \E idx \in 0..(str[s].length - 1) : mstr_remove(s, idx)
        \/ \E idx \in 0..(str[s].length - 1), ch \in Codes : mstr_insert(s, idx, ch)
  BY DEF Next
<1>2. ASSUME NEW text \in Texts, mstr_create(s, text) PROVE Succeeds(s) \/ Fails(s)
  BY <1>0, <1>2, TextsEncode, CreateEffect DEF Succeeds, Fails
<1>3. ASSUME NEW o \in Strings, mstr_copy_from(s, o) PROVE Succeeds(s) \/ Fails(s)
  BY <1>3, CopyEffect, EffectFits
<1>4. ASSUME NEW o \in Strings, mstr_concat(s, o) PROVE Succeeds(s) \/ Fails(s)
  BY <1>4, ConcatEffect, EffectFits
<1>5. ASSUME NEW o \in Strings, string_assign(s, o) PROVE Succeeds(s) \/ Fails(s)
  BY <1>5, AssignEffect, EffectFits
<1>6. ASSUME NEW size \in Reserves, mstr_reserve(s, size) PROVE Succeeds(s) \/ Fails(s)
  <2>1. size \in Nat
    BY MStringAssumption
  <2> QED
    BY <1>6, <2>1, ReserveEffect, EffectFits
<1>7. ASSUME NEW ch \in Codes, NEW cnt \in Repeats, mstr_repeat_append(s, ch, cnt)
      PROVE  Succeeds(s) \/ Fails(s)
  <2>1. ch \in Nat /\ cnt \in Nat
    BY MStringAssumption
  <2>2. \/ UNCHANGED str /\ result' = "MStr_Err_UnicodeEncodingError"
        \/ \E v : Effect(s, v, Text(s))
    BY <1>7, <2>1, RepeatEffect
  <2> QED
    BY <1>0, <2>2, EffectFits DEF Fails
<1>8. ASSUME NEW text \in Texts, NEW end \in 0..Len(Encode(text)),
             mstr_concat_cstr_slice(s, text, end)
      PROVE  Succeeds(s) \/ Fails(s)
  <2>1. \/ UNCHANGED str /\ result' = "MStr_Err_EncodingNotCompleted"
        \/ \E v : Effect(s, v, Text(s))
    BY <1>8, TextsEncode, SliceEffect
  <2> QED
    BY <1>0, <2>1, EffectFits DEF Fails
<1>9. CASE mstr_clear(s) \/ reverse(s) \/ mstr_free(s)
  BY <1>9, ClearEffect, ReverseEffect, FreeEffect DEF Succeeds
<1>10. ASSUME NEW idx \in 0..(str[s].length - 1), mstr_remove(s, idx) PROVE Succeeds(s)
  BY <1>10, RemoveEffect DEF Succeeds
<1>11. ASSUME NEW idx \in 0..(str[s].length - 1), NEW ch \in Codes, mstr_insert(s, idx, ch)
       PROVE  Succeeds(s) \/ Fails(s)
  <2>1. ch \in Nat
    BY MStringAssumption
  <2>2. \/ UNCHANGED str /\ result' = "MStr_Err_UnicodeEncodingError"
        \/ \E v : Effect(s, v, Text(s))
    BY <1>11, <2>1, InsertEffect
  <2> QED
    BY <1>0, <2>2, EffectFits DEF Fails
<1> QED
  BY <1>1, <1>2, <1>3, <1>4, <1>5, <1>6, <1>7, <1>8, <1>9, <1>10, <1>11

LEMMA StayKeeps ==
  ASSUME TextInv, UNCHANGED str, result' \in Results
  PROVE  TextInv' /\ \A s \in Strings : Text(s)' = Text(s)
<1>1. \A s \in Strings : Text(s)' = Text(s) /\ (Created(s)' <=> Created(s))
  BY DEF Text, Created
<1> QED
  BY <1>1 DEF TextInv

LEMMA TextInit == Init => TextInv
<1> SUFFICES ASSUME Init PROVE TextInv
  OBVIOUS
<1>1. Nothing \in Record /\ Nothing.buff = NULL
  <2>1. <<>> \in Seq(0..255)
    BY EmptySeq
  <2> QED
    BY <2>1 DEF Nothing, Record
<1>2. \A s \in Strings : ~Created(s)
  BY <1>1 DEF Init, Created
<1> QED
  BY <1>1, <1>2 DEF Init, TextInv, Results

LEMMA TextNext == TextInv /\ [Next]_vars => TextInv'
<1> SUFFICES ASSUME TextInv, [Next]_vars PROVE TextInv'
  OBVIOUS
<1>1. CASE UNCHANGED vars
  BY <1>1, StayKeeps DEF vars, TextInv
<1>2. CASE Next
  <2>1. ASSUME NEW s \in Strings, Succeeds(s) PROVE TextInv'
    <3>1. result' \in Results
      BY <2>1 DEF Succeeds, Results
    <3> QED
      BY <2>1, <3>1, BecomesKeeps, LosesKeeps DEF Succeeds
  <2>2. ASSUME NEW s \in Strings, Fails(s) PROVE TextInv'
    BY <2>2, BecomesKeeps, LosesKeeps, StayKeeps DEF Fails
  <2> QED
    BY <1>2, <2>1, <2>2, NextEffect, MoveEffect
<1> QED
  BY <1>1, <1>2

LEMMA TextHolds == Spec => []TextInv
BY TextInit, TextNext, PTL DEF Spec

--------------------------------------------------------------------------------
(* The theorems about the contents.                                            *)

\* The fields of the strings and the table of the heap have their types.
THEOREM MStringTypeOK == Spec => []TypeOK
<1>1. IInv /\ TextInv => TypeOK
  <2> SUFFICES ASSUME IInv, TextInv PROVE TypeOK
    OBVIOUS
  <2>1. DOMAIN heap \subseteq Blocks
    BY DEF IInv, OneOwner, Shape
  <2>2. ASSUME NEW b \in DOMAIN heap PROVE heap[b] \in Nat
    <3>1. PICK s \in Strings : str[s].buff = b
      BY DEF IInv, OneOwner
    <3>2. heap[b] = str[s].cap_size /\ str[s] \in Record
      BY <2>1, <3>1 DEF IInv, OneOwner, TextInv
    <3> QED
      BY <3>2 DEF Record
  <2> QED
    BY <2>1, <2>2 DEF TypeOK, TextInv
<1> QED
  BY <1>1, InitHolds, NextKeeps, TextHolds, PTL DEF Spec

\* However strings grow, are cut and change hands, there is room behind the bytes in
\* use for the 0 that mstr_c_str writes.
THEOREM MStringRoomForTerminator == Spec => []RoomForTerminator
<1>1. TextInv => RoomForTerminator
  BY DEF TextInv, RoomForTerminator, Holds
<1> QED
  BY <1>1, TextHolds, PTL

\* The bytes in use are always whole characters, and count and length in step with
\* them: for any texts, of characters of any lengths, and any sequence of calls.
THEOREM MStringLengthExact == Spec => []LengthExact
<1>1. TextInv => LengthExact
  BY DEF TextInv, LengthExact, Holds
<1> QED
  BY <1>1, TextHolds, PTL

\* mstr_equal, mstr_start_with and mstr_end_with compare bytes and mean characters.
THEOREM MStringComparisonsSeeCharacters == Spec => []ComparisonsSeeCharacters
<1>1. TextInv => ComparisonsSeeCharacters
  <2> SUFFICES ASSUME TextInv, NEW s \in Strings, NEW t \in Strings, Created(s), Created(t)
               PROVE  /\ mstr_equal(str[s], str[t]) <=> Text(s) = Text(t)
                      /\ mstr_start_with(str[s], str[t]) <=> IsPrefix(Text(t), Text(s))
                      /\ mstr_end_with(str[s], str[t]) <=> IsSuffix(Text(t), Text(s))
    BY DEF ComparisonsSeeCharacters
  <2> DEFINE u == Text(s)
             v == Text(t)
  <2>1. /\ u \in Seq(Code) /\ str[s].bytes = Encode(u) /\ str[s].count = Len(Encode(u))
        /\ v \in Seq(Code) /\ str[t].bytes = Encode(v) /\ str[t].count = Len(Encode(v))
    BY DEF TextInv, Holds
  <2> HIDE DEF u, v
  <2>2. mstr_equal(str[s], str[t]) <=> u = v
    BY <2>1, EqualBytes DEF mstr_equal
  <2>3. mstr_start_with(str[s], str[t]) <=> IsPrefix(v, u)
    BY <2>1, PrefixBytes DEF mstr_start_with
  <2>4. mstr_end_with(str[s], str[t]) <=> IsSuffix(v, u)
    BY <2>1, SuffixBytes DEF mstr_end_with
  <2> QED
    BY <2>2, <2>3, <2>4 DEF u, v
<1> QED
  BY <1>1, TextHolds, PTL

\* A call that reports an error leaves every text as it was or, that of the target
\* of a copy, empty.
THEOREM MStringFailureLeavesNoPart == Spec => FailureLeavesNoPart
<1>1. TextInv /\ [Next]_vars =>
        [result' # "MStr_Ok" =>
           \E s \in Strings :
             /\ Text(s)' \in {Text(s), <<>>}
             /\ \A t \in Strings \ {s} : Text(t)' = Text(t)]_vars
  <2> SUFFICES ASSUME TextInv, Next, result' # "MStr_Ok"
               PROVE  \E s \in Strings :
                        /\ Text(s)' \in {Text(s), <<>>}
                        /\ \A t \in Strings \ {s} : Text(t)' = Text(t)
    OBVIOUS
  <2>1. PICK s \in Strings : Fails(s)
    BY NextEffect, MoveEffect DEF Succeeds
  <2>2. CASE UNCHANGED str
    <3>1. result' \in Results
      BY <2>1 DEF Fails
    <3> QED
      BY <2>2, <3>1, StayKeeps
  <2>3. ASSUME NEW v \in {Text(s), <<>>}, Becomes(s, v)
        PROVE  /\ Text(s)' \in {Text(s), <<>>}
               /\ \A t \in Strings \ {s} : Text(t)' = Text(t)
    BY <2>1, <2>3, BecomesKeeps DEF Fails
  <2>4. CASE ~Created(s) /\ Loses(s)
    BY <2>1, <2>4, LosesKeeps DEF Fails, Text
  <2> QED
    BY <2>1, <2>2, <2>3, <2>4 DEF Fails
<1> QED
  BY <1>1, TextHolds, PTL DEF Spec, FailureLeavesNoPart

--------------------------------------------------------------------------------
(* The strings implement the store of texts.                                   *)

\* What the store sees, and a step as it sees it.
Value == [s \in Strings |-> Text(s)]

StoreStep == Store!Next \/ Value' = Value

\* The store has a text for exactly the strings that are created.
LEMMA StoreHas ==
  ASSUME TextInv, NEW s \in Strings
  PROVE  /\ Value[s] = Text(s)
         /\ Store!Has(s) <=> Created(s)
<1>1. CASE Created(s)
  <2>1. Text(s) \in Seq(Code)
    BY <1>1, CreatedHolds
  <2> QED
    BY <1>1, <2>1, NullIsNoText DEF Value, Store!Has, Code
<1>2. CASE ~Created(s)
  BY <1>2 DEF Value, Store!Has, Text
<1> QED
  BY <1>1, <1>2

LEMMA StoreBecome ==
  ASSUME TextInv, NEW s \in Strings, NEW v, Becomes(s, v), result' \in Results
  PROVE  Store!Become(s, v)
<1>1. Text(s)' = v /\ \A t \in Strings \ {s} : Text(t)' = Text(t)
  BY BecomesKeeps
<1> QED
  BY <1>1 DEF Store!Become

LEMMA StoreLose ==
  ASSUME TextInv, NEW s \in Strings, Loses(s), result' \in Results
  PROVE  Store!Become(s, NULL)
<1>1. Text(s)' = NULL /\ \A t \in Strings \ {s} : Text(t)' = Text(t)
  BY LosesKeeps
<1> QED
  BY <1>1 DEF Store!Become

\* A call that leaves s with the text that it had, or without one if it had none.
LEMMA StoreStays ==
  ASSUME TextInv, NEW s \in Strings,
         \/ UNCHANGED str
         \/ Becomes(s, Text(s)) /\ result' \in Results
         \/ ~Created(s) /\ Loses(s) /\ result' \in Results
  PROVE  Value' = Value
<1>1. CASE UNCHANGED str
  BY <1>1 DEF Value, Text, Created
<1>2. CASE Becomes(s, Text(s)) /\ result' \in Results
  <2>1. Text(s)' = Text(s) /\ \A t \in Strings \ {s} : Text(t)' = Text(t)
    BY <1>2, BecomesKeeps
  <2> QED
    BY <2>1 DEF Value
<1>3. CASE ~Created(s) /\ Loses(s) /\ result' \in Results
  <2>1. Text(s)' = NULL /\ \A t \in Strings \ {s} : Text(t)' = Text(t)
    BY <1>3, LosesKeeps
  <2>2. Text(s) = NULL
    BY <1>3 DEF Text
  <2> QED
    BY <2>1, <2>2 DEF Value
<1> QED
  BY <1>1, <1>2, <1>3

\* The two outcomes of a call that needs memory.
LEMMA StoreEffect ==
  ASSUME TextInv, NEW s \in Strings, NEW v, NEW w, Effect(s, v, w)
  PROVE  \/ Store!Become(s, v)
         \/ /\ Becomes(s, w) /\ Store!Become(s, w)
            /\ result' \in Results
<1>1. result' \in Results
  BY DEF Effect, Results
<1>2. CASE Becomes(s, v)
  BY <1>1, <1>2, StoreBecome
<1>3. CASE Becomes(s, w)
  BY <1>1, <1>3, StoreBecome
<1> QED
  BY <1>2, <1>3 DEF Effect

LEMMA StoreKeepsOr ==
  ASSUME TextInv, NEW s \in Strings, NEW v, Effect(s, v, Text(s))
  PROVE  Store!Become(s, v) \/ Value' = Value
BY StoreEffect, StoreStays

\* The calls that put a text into s, or add one.
LEMMA StoreGrowth ==
  ASSUME TextInv, NEW s \in Strings,
         \/ \E text \in Texts : mstr_create(s, text)
         \/ \E o \in Strings : mstr_copy_from(s, o) \/ mstr_concat(s, o) \/ string_assign(s, o)
         \/ \E size \in Reserves : mstr_reserve(s, size)
         \/ \E ch \in Codes, cnt \in Repeats : mstr_repeat_append(s, ch, cnt)
         \/ \E text \in Texts : \E end \in 0..Len(Encode(text)) :
              mstr_concat_cstr_slice(s, text, end)
  PROVE  StoreStep
<1>1. ASSUME NEW text \in Texts, mstr_create(s, text) PROVE StoreStep
  <2>1. /\ ~Created(s)
        /\ \/ result' = "MStr_Ok" /\ Becomes(s, text)
           \/ result' = "MStr_Err_HeapTooSmall" /\ Loses(s)
    BY <1>1, TextsEncode, CreateEffect
  <2>2. result' \in Results
    BY <2>1 DEF Results
  <2>3. CASE Becomes(s, text)
    <3>1. Store!Create(s, text)
      BY <2>1, <2>2, <2>3, StoreBecome, StoreHas DEF Store!Create
    <3> QED
      BY <3>1 DEF StoreStep, Store!Next
  <2>4. CASE Loses(s)
    BY <2>1, <2>2, <2>4, StoreStays DEF StoreStep
  <2> QED
    BY <2>1, <2>3, <2>4
<1>2. ASSUME NEW o \in Strings, mstr_copy_from(s, o) \/ string_assign(s, o) PROVE StoreStep
  <2>1. Created(o) /\ Effect(s, IF s = o THEN <<>> ELSE Text(o), <<>>)
    BY <1>2, CopyEffect, AssignEffect
  <2>2. Store!Become(s, <<>>) \/ (s # o /\ Store!Become(s, Text(o)))
    BY <2>1, StoreEffect
  <2>3. CASE Store!Become(s, <<>>)
    BY <2>3 DEF StoreStep, Store!Next, Store!Clear
  <2>4. CASE s # o /\ Store!Become(s, Text(o))
    <3>1. Store!Copy(s, o)
      BY <2>1, <2>4, StoreHas DEF Store!Copy, Value
    <3> QED
      BY <3>1 DEF StoreStep, Store!Next
  <2> QED
    BY <2>2, <2>3, <2>4
<1>3. ASSUME NEW o \in Strings, mstr_concat(s, o) PROVE StoreStep
  <2>1. Created(s) /\ Created(o) /\ Effect(s, Text(s) \o Text(o), Text(s))
    BY <1>3, ConcatEffect
  <2>2. CASE Store!Become(s, Text(s) \o Text(o))
    <3>1. Store!Concat(s, o)
      BY <2>1, <2>2, StoreHas DEF Store!Concat, Value
    <3> QED
      BY <3>1 DEF StoreStep, Store!Next
  <2> QED
    BY <2>1, <2>2, StoreKeepsOr DEF StoreStep
<1>4. ASSUME NEW size \in Reserves, mstr_reserve(s, size) PROVE StoreStep
  <2>1. size \in Nat
    BY MStringAssumption
  <2>2. Effect(s, Text(s), Text(s))
    BY <1>4, <2>1, ReserveEffect
  <2>3. Becomes(s, Text(s)) /\ result' \in Results
    BY <2>2 DEF Effect, Results
  <2> QED
    BY <2>3, StoreStays DEF StoreStep
<1>5. ASSUME NEW ch \in Codes, NEW cnt \in Repeats, mstr_repeat_append(s, ch, cnt)
      PROVE  StoreStep
  <2>1. ch \in Nat /\ cnt \in Nat
    BY MStringAssumption
  <2> DEFINE v == Text(s) \o [i \in 1..cnt |-> ch]
  <2>2. /\ Created(s)
        /\ \/ UNCHANGED str
           \/ Effect(s, Text(s), Text(s))
           \/ ch \in Code /\ Effect(s, v, Text(s))
    BY <1>5, <2>1, RepeatEffect
  <2>3. CASE Effect(s, Text(s), Text(s))
    <3>1. Becomes(s, Text(s)) /\ result' \in Results
      BY <2>3 DEF Effect, Results
    <3> QED
      BY <3>1, StoreStays DEF StoreStep
  <2>4. CASE ch \in Code /\ Store!Become(s, v)
    <3>1. ch \in {c \in Codes : c <= MaxCode}
      BY <2>4 DEF Code
    <3>2. Store!AppendChars(s, ch, cnt)
      BY <2>2, <2>4, StoreHas DEF Store!AppendChars, Value
    <3> QED
      BY <3>1, <3>2 DEF StoreStep, Store!Next
  <2> HIDE DEF v
  <2> QED
    BY <2>2, <2>3, <2>4, StoreKeepsOr, StoreStays DEF StoreStep
<1>6. ASSUME NEW text \in Texts, NEW end \in 0..Len(Encode(text)),
             mstr_concat_cstr_slice(s, text, end)
      PROVE  StoreStep
  <2>1. text \in Seq(Code) /\ Len(text) \in Nat
    BY TextsEncode, LenProperties
  <2>2. /\ Created(s)
        /\ \/ UNCHANGED str
           \/ \E j \in 0..Len(text) : Effect(s, Text(s) \o SubSeq(text, 1, j), Text(s))
    BY <1>6, <2>1, SliceEffect
  <2>3. ASSUME NEW j \in 0..Len(text), Effect(s, Text(s) \o SubSeq(text, 1, j), Text(s))
        PROVE  StoreStep
    <3>1. CASE Store!Become(s, Text(s) \o SubSeq(text, 1, j))
      <4>1. Store!ConcatText(s, text, j)
        BY <2>1, <2>2, <3>1, StoreHas DEF Store!ConcatText, Value
      <4> QED
        BY <4>1 DEF StoreStep, Store!Next
    <3> QED
      BY <2>3, <3>1, StoreKeepsOr DEF StoreStep
  <2> QED
    BY <2>2, <2>3, StoreStays DEF StoreStep
<1> QED
  BY <1>1, <1>2, <1>3, <1>4, <1>5, <1>6

\* The calls that change the text of s in place, and mstr_free.
LEMMA StoreEdit ==
  ASSUME TextInv, NEW s \in Strings,
         \/ mstr_clear(s) \/ reverse(s) \/ mstr_free(s)
         \/ \E idx \in 0..(str[s].length - 1) : mstr_remove(s, idx)
         \/ \E idx \in 0..(str[s].length - 1), ch \in Codes : mstr_insert(s, idx, ch)
  PROVE  StoreStep
<1>0. "MStr_Ok" \in Results
  BY DEF Results
<1>1. CASE mstr_clear(s)
  <2>1. Store!Clear(s)
    BY <1>0, <1>1, ClearEffect, StoreBecome DEF Store!Clear
  <2> QED
    BY <2>1 DEF StoreStep, Store!Next
<1>2. CASE reverse(s)
  <2>1. Store!Turn(s)
    <3>1. Created(s) /\ Store!Become(s, Reverse(Text(s)))
      BY <1>0, <1>2, ReverseEffect, StoreBecome
    <3> QED
      BY <3>1, StoreHas DEF Store!Turn, Store!Reverse, Reverse, Value
  <2> QED
    BY <2>1 DEF StoreStep, Store!Next
<1>3. CASE mstr_free(s)
  <2>1. Store!Free(s)
    BY <1>0, <1>3, FreeEffect, StoreLose DEF Store!Free
  <2> QED
    BY <2>1 DEF StoreStep, Store!Next
<1>4. ASSUME NEW idx \in 0..(str[s].length - 1), mstr_remove(s, idx) PROVE StoreStep
  <2> DEFINE i == idx + 1
  <2>1. /\ Created(s) /\ i \in 1..Len(Text(s)) /\ Store!Become(s, RemoveAt(Text(s), i))
    BY <1>0, <1>4, RemoveEffect, StoreBecome
  <2> HIDE DEF i
  <2>2. Store!RemoveChar(s)
    BY <2>1, StoreHas DEF Store!RemoveChar, Store!RemoveAt, RemoveAt, Value
  <2> QED
    BY <2>2 DEF StoreStep, Store!Next
<1>5. ASSUME NEW idx \in 0..(str[s].length - 1), NEW ch \in Codes, mstr_insert(s, idx, ch)
      PROVE  StoreStep
  <2>1. ch \in Nat
    BY MStringAssumption
  <2> DEFINE i == idx + 1
  <2>2. /\ Created(s)
        /\ \/ UNCHANGED str
           \/ /\ ch \in Code /\ i \in 1..(Len(Text(s)) + 1)
              /\ Effect(s, InsertAt(Text(s), i, ch), Text(s))
    BY <1>5, <2>1, InsertEffect
  <2> HIDE DEF i
  <2>3. CASE /\ ch \in Code /\ i \in 1..(Len(Text(s)) + 1)
             /\ Store!Become(s, InsertAt(Text(s), i, ch))
    <3>1. ch \in {c \in Codes : c <= MaxCode}
      BY <2>3 DEF Code
    <3>2. Store!InsertChar(s, ch)
      BY <2>2, <2>3, StoreHas DEF Store!InsertChar, Store!InsertAt, InsertAt, Value
    <3> QED
      BY <3>1, <3>2 DEF StoreStep, Store!Next
  <2> QED
    BY <2>2, <2>3, StoreKeepsOr, StoreStays DEF StoreStep
<1> QED
  BY <1>1, <1>2, <1>3, <1>4, <1>5

LEMMA StoreMove ==
  ASSUME TextInv, NEW s \in Strings, NEW o \in Strings, mstr_move_from(s, o)
  PROVE  StoreStep
<1>1. /\ Text(o)' = NULL /\ (s # o => Text(s)' = Text(o))
      /\ \A t \in Strings \ {s, o} : Text(t)' = Text(t)
  BY MoveEffect
<1>2. Value' = [[Value EXCEPT ![s] = Value[o]] EXCEPT ![o] = NULL]
  <2>1. ASSUME NEW t \in Strings
        PROVE  Text(t)' = [[Value EXCEPT ![s] = Value[o]] EXCEPT ![o] = NULL][t]
    BY <1>1 DEF Value
  <2>2. Value' = [t \in Strings |-> Text(t)']
    BY DEF Value
  <2> QED
    BY <2>1, <2>2 DEF Value
<1>3. Store!Move(s, o)
  BY <1>2 DEF Store!Move, Value
<1> QED
  BY <1>3 DEF StoreStep, Store!Next

\* Every call is, to those who look at the texts only, an operation of the store or
\* no step at all: for any strings, texts and sizes, whichever allocations fail.
THEOREM MStringImplementsStore == Spec => ImplementsStore
<1>1. Init => Store!Init
  <2> SUFFICES ASSUME Init PROVE Value = [s \in Strings |-> NULL]
    BY DEF Store!Init, Value
  <2>1. \A s \in Strings : Text(s) = NULL
    BY DEF Init, Text, Created, Nothing
  <2> QED
    BY <2>1 DEF Value
<1>2. TextInv /\ [Next]_vars => [Store!Next]_Value
  <2> SUFFICES ASSUME TextInv, [Next]_vars PROVE StoreStep
    BY DEF StoreStep
  <2>1. CASE UNCHANGED vars
    <3>1. Value' = Value
      BY <2>1 DEF vars, Value, Text, Created
    <3> QED
      BY <3>1 DEF StoreStep
  <2>2. CASE Next
    <3>1. PICK s \in Strings :
            \/ \E o \in Strings : mstr_move_from(s, o)
            \/ \/ \E text \in Texts : mstr_create(s, text)
               \/ \E o \in Strings : mstr_copy_from(s, o) \/ mstr_concat(s, o) \/ string_assign(s, o)
               \/ \E size \in Reserves : mstr_reserve(s, size)
               \/ \E ch \in Codes, cnt \in Repeats : mstr_repeat_append(s, ch, cnt)
               \/ \E text \in Texts : \E end \in 0..Len(Encode(text)) :
                    mstr_concat_cstr_slice(s, text, end)
            \/ \/ mstr_clear(s) \/ reverse(s) \/ mstr_free(s)
               \/ \E idx \in 0..(str[s].length - 1) : mstr_remove(s, idx)
               \/ \E idx \in 0..(str[s].length - 1), ch \in Codes : mstr_insert(s, idx, ch)
      BY <2>2 DEF Next
    <3> QED
      BY <3>1, StoreGrowth, StoreEdit, StoreMove
  <2> QED
    BY <2>1, <2>2
<1> QED
  BY <1>1, <1>2, TextHolds, PTL DEF Spec, ImplementsStore, Store!Spec, Value
===============================================================================
