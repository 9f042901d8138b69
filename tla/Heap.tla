-------------------------------- MODULE Heap --------------------------------
(***************************************************************************)
(* The built-in heap of MtFmT (src/src/mm_heap.c): a first-fit allocator   *)
(* over one memory region, whose free blocks form a singly linked list     *)
(* between two sentinel headers, head and tail.                            *)
(*                                                                         *)
(* Addresses and sizes are natural numbers in one unit of memory.  The     *)
(* header of a block, free or allocated, is the FreeBlock struct: H units  *)
(* in front of its memory.  The free list is the sequence of the blocks    *)
(* from head->next up to, and not including, tail, in list order; nothing  *)
(* in this representation keeps it sorted, that is a property below.       *)
(* An allocated block is the header the allocator left in front of the     *)
(* memory it returned, with the number of units the caller asked for.      *)
(***************************************************************************)
EXTENDS Integers, Sequences, FiniteSets, SequencesExt

CONSTANTS
  H,             \* sizeof(FreeBlock)
  RuntimeAlign,  \* _MSTR_RUNTIME_HEAP_ALIGN, also the alignment of mstr_heap_alloc
  MemStart,      \* the memory given to mstr_heap_init: its first address
  MemSize,       \* and its size
  Requests,      \* the sizes the callers ask for
  Aligns,        \* the alignments the callers ask for
  CountMod       \* the counters are unsigned integers modulo CountMod

\* The address beg rounded up to a multiple of align (a power of two).
align_of(beg, align) == ((beg + align - 1) \div align) * align

\* Where heap_init_impl puts the sentinels and the first free block.
HeadAddr == align_of(MemStart, RuntimeAlign)
TailAddr == align_of(MemStart + MemSize - H, RuntimeAlign)
FirstAddr == HeadAddr + H
FirstSize == TailAddr - FirstAddr

\* alloc_size: the units that a request takes, its header included.
AllocSize(need, align) == align_of(need + H, align)

ASSUME HeapAssumption ==
  /\ H \in Nat \ {0}
  /\ RuntimeAlign \in Nat \ {0}
  /\ MemStart \in Nat /\ MemSize \in Nat
  /\ FirstAddr < TailAddr
  /\ Requests \subseteq Nat
  /\ Aligns \subseteq Nat \ {0}
  /\ CountMod \in Nat \ {0, 1}

\* The sizes for which the heap keeps its promises: there is a grain, no smaller
\* than a header, such that the pool and every request take whole multiples of
\* it, the multiples need no alignment fill, and the tail sentinel fits in the
\* memory.  The code neither states nor checks this.
WellSized(grain) ==
  /\ grain \in Nat /\ grain >= H
  /\ FirstSize % grain = 0
  /\ TailAddr + H <= MemStart + MemSize
  /\ \A need \in Requests, align \in Aligns \cup {RuntimeAlign} :
       /\ need > 0
       /\ AllocSize(need, align) % grain = 0
  /\ \A addr \in FirstAddr..TailAddr, align \in Aligns \cup {RuntimeAlign} :
       (addr - FirstAddr) % grain = 0 => align_of(addr, align) = addr

VARIABLES
  free,                \* the free list: a sequence of [addr, size]
  live,                \* the allocated blocks: a set of [addr, size, fill, need]
  cur_free_size,
  free_highwatermark,
  alloc_count,
  free_count

vars == <<free, live, cur_free_size, free_highwatermark, alloc_count, free_count>>

End(block) == block.addr + block.size

--------------------------------------------------------------------------------
(* The free list.                                                              *)

\* Mutant: the remainder starts inside the block that is handed out.
SplitTooEarly(block, alloc_size) ==
  [addr |-> block.addr + alloc_size - H, size |-> block.size - alloc_size + H]

\* The part of a free block that is left behind an allocation of alloc_size.
split_free_block(block, alloc_size) ==
  [addr |-> block.addr + alloc_size, size |-> block.size - alloc_size]

\* The first position of the list whose block does not lie before block; one
\* past the end stands for the tail sentinel.
InsertPos(list, block) ==
  Min({p \in 1..(Len(list) + 1) : p <= Len(list) => list[p].addr >= block.addr})

\* Mutants: the block is never merged with the one before, or the one after it.
InsertNoJoinPrev(list, p, block) ==
  LET joinNext == p <= Len(list) /\ End(block) = list[p].addr
      whole    == IF joinNext THEN [block EXCEPT !.size = @ + list[p].size] ELSE block
  IN  SubSeq(list, 1, p - 1) \o <<whole>>
        \o SubSeq(list, IF joinNext THEN p + 1 ELSE p, Len(list))

InsertNoJoinNext(list, p, block) ==
  LET joinPrev == p > 1 /\ End(list[p - 1]) = block.addr
      whole    == IF joinPrev THEN [list[p - 1] EXCEPT !.size = @ + block.size] ELSE block
  IN  SubSeq(list, 1, IF joinPrev THEN p - 2 ELSE p - 1) \o <<whole>>
        \o SubSeq(list, p, Len(list))

\* Insert block at position p, merged with the block that ends where it starts
\* and with the block that starts where the result ends.  The head sentinel has
\* size 0 and lies before every block, the tail is never merged.
insert_block_helper(list, p, block) ==
  LET joinPrev == p > 1 /\ End(list[p - 1]) = block.addr
      joined   == IF joinPrev THEN [list[p - 1] EXCEPT !.size = @ + block.size] ELSE block
      joinNext == p <= Len(list) /\ End(joined) = list[p].addr
      whole    == IF joinNext THEN [joined EXCEPT !.size = @ + list[p].size] ELSE joined
  IN  SubSeq(list, 1, IF joinPrev THEN p - 2 ELSE p - 1) \o <<whole>>
        \o SubSeq(list, IF joinNext THEN p + 1 ELSE p, Len(list))

insert_free_block(list, block) == insert_block_helper(list, InsertPos(list, block), block)

\* Mutant: a block of exactly the needed size is taken.
FitsExactly(list, need) == {i \in DOMAIN list : list[i].size >= need}

\* The blocks the search does not skip: strictly larger than what is needed.
Fitting(list, need) == {i \in DOMAIN list : list[i].size > need}

FirstFit(list, need) == Min(Fitting(list, need))

\* Mutant: only a block of more than three headers is split.
TacticSplitsLate(list, need) ==
  LET i    == FirstFit(list, need)
      rest == RemoveAt(list, i)
  IN  IF list[i].size > H * 3
      THEN insert_free_block(rest, split_free_block(list[i], need))
      ELSE rest

\* The list after the first fitting block is unlinked and, when it is larger
\* than two headers, its remainder is put back.
allocate_tactic(list, need) ==
  LET i    == FirstFit(list, need)
      rest == RemoveAt(list, i)
  IN  IF list[i].size > H * 2
      THEN insert_free_block(rest, split_free_block(list[i], need))
      ELSE rest

\* The header left in front of the memory that a request of need units gets.
Allocated(list, need, align) ==
  LET n    == AllocSize(need, align)
      head == list[FirstFit(list, n)].addr
      addr == align_of(head, align)
  IN  [addr |-> addr, size |-> n, fill |-> addr - head, need |-> need]

\* Mutant: only the requested units come back, not those lost to rounding.
FreedWithoutRounding(block) ==
  [addr |-> block.addr - block.fill, size |-> block.need + H]

\* The free block that an allocated block turns into.
Freed(block) == [addr |-> block.addr - block.fill, size |-> block.size + block.fill]

--------------------------------------------------------------------------------
(* The operations.                                                             *)

heap_init_impl ==
  /\ free = <<[addr |-> FirstAddr, size |-> FirstSize]>>
  /\ live = {}
  /\ cur_free_size = FirstSize
  /\ free_highwatermark = FirstSize
  /\ alloc_count = 0
  /\ free_count = 0

Lowest(a, b) == IF a > b THEN b ELSE a

CanAllocate(need, align) == Fitting(free, AllocSize(need, align)) # {}

Bump(count) == IF count + 1 = CountMod THEN 0 ELSE count + 1

\* Mutant: the mark is compared with the size before the allocation.
AllocateMarksLate(need, align) ==
  LET n == AllocSize(need, align)
  IN  /\ CanAllocate(need, align)
      /\ free' = allocate_tactic(free, n)
      /\ live' = live \cup {Allocated(free, need, align)}
      /\ cur_free_size' = cur_free_size - n
      /\ free_highwatermark' = Lowest(free_highwatermark, cur_free_size)
      /\ alloc_count' = Bump(alloc_count)
      /\ UNCHANGED free_count

\* An allocation that finds a block.  One that does not returns NULL and changes
\* nothing.
heap_allocate_impl(need, align) ==
  LET n == AllocSize(need, align)
  IN  /\ CanAllocate(need, align)
      /\ free' = allocate_tactic(free, n)
      /\ live' = live \cup {Allocated(free, need, align)}
      /\ cur_free_size' = cur_free_size - n
      /\ free_highwatermark' = Lowest(free_highwatermark, cur_free_size - n)
      /\ alloc_count' = Bump(alloc_count)
      /\ UNCHANGED free_count

\* Mutant: a free is not counted when the block is merged away.
FreeNotCounted(block) ==
  LET list == insert_free_block(free, Freed(block))
  IN  /\ free' = list
      /\ live' = live \ {block}
      /\ cur_free_size' = cur_free_size + Freed(block).size
      /\ free_count' = IF Len(list) < Len(free) THEN free_count ELSE Bump(free_count)
      /\ UNCHANGED <<free_highwatermark, alloc_count>>

\* The block of a pointer that the caller got and has not freed.
heap_free_impl(block) ==
  /\ free' = insert_free_block(free, Freed(block))
  /\ live' = live \ {block}
  /\ cur_free_size' = cur_free_size + Freed(block).size
  /\ free_count' = Bump(free_count)
  /\ UNCHANGED <<free_highwatermark, alloc_count>>

\* Reallocation by copy: a new block is allocated, the contents move, the old
\* block is freed.  When there is no block it returns NULL and the old block
\* stays as it is.
heap_re_allocate_impl(block, need) ==
  LET n == AllocSize(need, RuntimeAlign)
  IN  /\ CanAllocate(need, RuntimeAlign)
      /\ free' = insert_free_block(allocate_tactic(free, n), Freed(block))
      /\ live' = (live \ {block}) \cup {Allocated(free, need, RuntimeAlign)}
      /\ cur_free_size' = cur_free_size - n + Freed(block).size
      /\ free_highwatermark' = Lowest(free_highwatermark, cur_free_size - n)
      /\ alloc_count' = Bump(alloc_count)
      /\ free_count' = Bump(free_count)

Init == heap_init_impl

Next ==
  \/ \E need \in Requests, align \in Aligns : heap_allocate_impl(need, align)
  \/ \E block \in live : heap_free_impl(block)
  \/ \E block \in live : \E need \in {n \in Requests : n >= block.need} :
       heap_re_allocate_impl(block, need)

Spec == Init /\ [][Next]_vars

--------------------------------------------------------------------------------
(* Properties.                                                                 *)

Cells(addr, size) == addr..(addr + size - 1)

Pool == Cells(FirstAddr, FirstSize)

\* The cells a caller relies on: its memory and the header in front of it.
Used(block) == Cells(block.addr, H + block.need)

\* The cells that come back when the block is freed.
Extent(block) == Cells(block.addr - block.fill, block.size + block.fill)

ListCells(list) == UNION {Cells(list[i].addr, list[i].size) : i \in DOMAIN list}

FreeCells == ListCells(free)

\* Every variable has its type: list entries and allocated blocks are non-empty
\* and lie in the pool.
TypeOK ==
  /\ free \in Seq([addr : FirstAddr..TailAddr, size : 1..FirstSize])
  /\ live \subseteq [addr : FirstAddr..TailAddr, size : Nat, fill : Nat, need : Requests]
  /\ cur_free_size \in Nat
  /\ free_highwatermark \in Nat
  /\ alloc_count \in 0..(CountMod - 1)
  /\ free_count \in 0..(CountMod - 1)

\* Nothing the heap writes touches anything else: the headers of free blocks, the
\* memory handed out with its headers, and the two sentinels are pairwise
\* disjoint and inside the memory given to mstr_heap_init.  The split of
\* allocate_tactic and the placement in heap_allocate_impl are what could break it.
NoOverlap ==
  /\ TailAddr + H <= MemStart + MemSize
  /\ \A i \in DOMAIN free : Cells(free[i].addr, H) \subseteq Pool
  /\ \A i, j \in DOMAIN free :
       i # j => Cells(free[i].addr, H) \cap Cells(free[j].addr, H) = {}
  /\ \A b \in live :
       /\ Used(b) \subseteq Pool
       /\ \A c \in live \ {b} : Used(b) \cap Used(c) = {}
       /\ \A i \in DOMAIN free : Used(b) \cap Cells(free[i].addr, H) = {}

\* The list is in strictly increasing order of address and no two of its blocks
\* touch: what insert_block_helper assumes of every list it is given, and what
\* the merging is there for.
Coalesced == \A i, j \in DOMAIN free : i < j => End(free[i]) < free[j].addr

\* cur_free_size, the counter that mstr_heap_get_free_size reports, is the total
\* size of the free blocks: no unit leaves the list without being accounted for.
FreeSizeExact == cur_free_size = Cardinality(FreeCells)

\* Whatever was allocated, in whatever order it was freed, the heap ends as
\* heap_init_impl left it: one free block over the whole pool.
AllFreedRestoresPool ==
  live = {} => free = <<[addr |-> FirstAddr, size |-> FirstSize]>>

\* The difference of the two statistics counters is the number of blocks out,
\* also after the counters wrapped around; tests/test_main.c compares them at
\* the end of a run to find leaks.
CountsBalance == (alloc_count - free_count - Cardinality(live)) % CountMod = 0

\* The mark never rises and is never above the free size, during a reallocation
\* too, where the old block is freed only after the new one was taken: it is the
\* lowest free size ever seen.
WatermarkIsLowest ==
  [][/\ free_highwatermark' <= free_highwatermark
     /\ free_highwatermark' <= cur_free_size'
     /\ free_highwatermark' < free_highwatermark =>
          \E b \in live' \ live : free_highwatermark' = cur_free_size - b.size]_vars

\* The heap implements the abstract allocator: the available cells are those of
\* the free list, a granted region is the extent of an allocated block.
Abstract == INSTANCE RegionAllocator WITH
              avail <- FreeCells, granted <- {Extent(b) : b \in live}

ImplementsRegions == Abstract!Spec
===============================================================================
