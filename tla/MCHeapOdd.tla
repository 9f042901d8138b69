------------------------------ MODULE MCHeapOdd ------------------------------
(* Heaps in bytes, with the 24-byte header of a 64-bit build, whose requests   *)
(* do not take whole multiples of a header: what the comments of mm_heap.c say *)
(* of every heap.                                                              *)
EXTENDS Heap

\* A block that is split yields two parts, each with room for its header (the
\* comment on the split in allocate_tactic).
SplitYieldsTwoBlocks == \A i \in DOMAIN free : free[i].size >= H

\* cur_free_size is the total size of the free memory (the comment on the field).
FreeSizeIsTotal == cur_free_size = Cardinality(FreeCells)
===============================================================================
