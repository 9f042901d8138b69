------------------------------ MODULE MCMString ------------------------------
(* Two strings over characters of one and two bytes, with the sizes of the     *)
(* source scaled down: a stack region of 2 bytes, doubling below 3.            *)
EXTENDS MString, TLC

\* An ASCII character, one of two bytes, and one that has no encoding.
SomeCodes == {97, 233, MaxCode + 1}

SomeTexts == {<<>>, <<97>>, <<233, 97>>}

Interchangeable == Permutations(Blocks)
===============================================================================
