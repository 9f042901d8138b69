------------------------------- MODULE MCHeap -------------------------------
(* A small heap for TLC, with the sizes for which the theorems of HeapProofs   *)
(* are stated.                                                                 *)
EXTENDS Heap

\* The pool and the requests take whole headers.
ASSUME WholeHeaders == WellSized(H)
===============================================================================
