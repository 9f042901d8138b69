------------------------------ MODULE MCPattern ------------------------------
(* One string over an ASCII character and one of two bytes, and patterns with  *)
(* and without a jump table; and a few texts for the sizes of the source.      *)
EXTENDS Pattern, TLC

SomeCodes == {97, 233}

TextsUpTo(n) == UNION {[1..k -> SomeCodes] : k \in 0..n}

SomeTexts == TextsUpTo(3) \cup {<<97, 97, 97, 97, 97, 97>>, <<97, 97, 233, 97>>}

SomePatterns == TextsUpTo(2) \cup {<<97, 97, 97>>, <<97, 233, 97>>}

\* A text of seven bytes, one that fills the stack region and one that does not
\* fit in it.
SourceTexts == {<<97, 97, 98, 98, 98, 98, 98>>, [i \in 1..16 |-> 97], [i \in 1..20 |-> 97]}

\* A pattern of the size from which on a table is used, and a short one.
SourcePatterns == {<<97, 98, 98, 98, 98, 98>>, <<98>>}

Interchangeable == Permutations(Blocks)
===============================================================================
