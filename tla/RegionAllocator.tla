--------------------------- MODULE RegionAllocator ---------------------------
(***************************************************************************)
(* What a memory allocator promises, without saying how it keeps track of  *)
(* free memory: the cells of the pool are either available or belong to    *)
(* exactly one granted region, a region is a contiguous run of cells that  *)
(* were available when it was granted, and a released region becomes       *)
(* available again, cell for cell.  Module Heap implements it.             *)
(***************************************************************************)
EXTENDS Integers

CONSTANT Pool          \* the cells the allocator manages

VARIABLES avail,       \* the cells that belong to no region
          granted      \* the set of regions, each a set of cells

vars == <<avail, granted>>

Init ==
  /\ avail = Pool
  /\ granted = {}

\* A region is a non-empty interval of cells.
Regions == {lo..hi : lo, hi \in Pool} \ {{}}

\* Region r is granted: its cells were available.
Grant(r) ==
  /\ r \subseteq avail
  /\ granted' = granted \cup {r}
  /\ avail' = avail \ r

Release(r) ==
  /\ granted' = granted \ {r}
  /\ avail' = avail \cup r

\* The contents of region r move to the new region s before r is released.
Move(r, s) ==
  /\ s \subseteq avail
  /\ granted' = (granted \ {r}) \cup {s}
  /\ avail' = (avail \ s) \cup r

Next ==
  \/ \E r \in Regions : Grant(r)
  \/ \E r \in granted : Release(r)
  \/ \E r \in granted, s \in Regions : Move(r, s)

Spec == Init /\ [][Next]_vars
===============================================================================
