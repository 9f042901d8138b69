----------------------------- MODULE HeapProofs -----------------------------
(***************************************************************************)
(* Theorems about the heap, for all values of the constants that satisfy   *)
(* WellSized: one inductive invariant, by which the free list and the      *)
(* allocated blocks divide the pool between them, and the properties of    *)
(* module Heap as its consequences.  The lemmas on the operators on free   *)
(* lists come first: inserting a block into a proper list and taking one   *)
(* out of it yield proper lists, and change the set of free cells by       *)
(* exactly the cells of the block.                                         *)
(***************************************************************************)
EXTENDS Heap, TLAPS, FiniteSetTheorems, WellFoundedInduction

--------------------------------------------------------------------------------
(* Sequences and minima.                                                       *)

\* A set of natural numbers has a least element and Min is it: FirstFit and InsertPos,
\* the searches of mm_heap.c that stop at the first block, are such minima.
LEMMA LeastNatural ==
  ASSUME NEW S \in SUBSET Nat, S # {}
  PROVE  /\ Min(S) \in S
         /\ \A y \in S : Min(S) <= y
<1> DEFINE T == {0..x : x \in S}
<1>1. T \subseteq FiniteSubsetsOf(Nat) /\ T # {}
  <2>1. ASSUME NEW x \in S PROVE 0..x \in FiniteSubsetsOf(Nat)
    <3>1. IsFiniteSet(0..x)
      BY FS_Interval
    <3>2. 0..x \subseteq Nat
      OBVIOUS
    <3>3. QED
      BY <3>1, <3>2 DEF FiniteSubsetsOf
  <2>2. QED
    BY <2>1
<1>2. PICK t \in T : \A u \in T : ~ (<<u, t>> \in StrictSubsetOrdering(Nat))
  <2> HIDE DEF T
  <2> QED BY <1>1, FS_StrictSubsetOrderingWellFounded, WFMin
<1>3. PICK x \in S : t = 0..x
  OBVIOUS
<1>4. \A y \in S : x <= y
  <2> SUFFICES ASSUME NEW y \in S, y < x PROVE FALSE
    OBVIOUS
  <2>1. 0..y \in T /\ 0..y \subseteq 0..x /\ x \in 0..x /\ x \notin 0..y
    OBVIOUS
  <2>2. <<0..y, 0..x>> \in StrictSubsetOrdering(Nat)
    BY <2>1 DEF StrictSubsetOrdering
  <2> QED BY <1>2, <1>3, <2>1, <2>2
<1>5. QED
  BY <1>4 DEF Min

\* The elements of a concatenation.
LEMMA Concatenation ==
  ASSUME NEW S, NEW A \in Seq(S), NEW B \in Seq(S)
  PROVE  /\ A \o B \in Seq(S)
         /\ Len(A \o B) = Len(A) + Len(B)
         /\ \A i \in 1..Len(A) : (A \o B)[i] = A[i]
         /\ \A i \in (Len(A) + 1)..(Len(A) + Len(B)) : (A \o B)[i] = B[i - Len(A)]
OBVIOUS

\* The list L with the blocks between positions a and b replaced by w.
Spliced(L, a, w, b) == SubSeq(L, 1, a) \o <<w>> \o SubSeq(L, b, Len(L))

SplicedElements(S, L, a, w, b) ==
  LET R == Spliced(L, a, w, b)
  IN  /\ R \in Seq(S)
      /\ Len(R) = a + 1 + (Len(L) + 1 - b)
      /\ \A i \in 1..a : R[i] = L[i]
      /\ R[a + 1] = w
      /\ \A i \in (a + 2)..Len(R) : R[i] = L[i - a - 2 + b]

\* The positions of a sequence and their elements.
LEMMA SeqDomain ==
  ASSUME NEW S, NEW s \in Seq(S)
  PROVE  Len(s) \in Nat /\ DOMAIN s = 1..Len(s) /\ \A i \in 1..Len(s) : s[i] \in S
OBVIOUS

\* The elements of a spliced list.
LEMMA Splice ==
  ASSUME NEW S, NEW L \in Seq(S), NEW a \in Nat, NEW b \in Nat, NEW w \in S,
         a <= Len(L), 1 <= b, b <= Len(L) + 1
  PROVE  SplicedElements(S, L, a, w, b)
<1> DEFINE A == SubSeq(L, 1, a)
           B == SubSeq(L, b, Len(L))
           P == A \o <<w>>
           R == Spliced(L, a, w, b)
<1>1. A \in Seq(S) /\ Len(A) = a /\ \A i \in 1..a : A[i] = L[i]
  OBVIOUS
<1>2. /\ B \in Seq(S) /\ Len(B) = Len(L) + 1 - b
      /\ \A i \in 1..(Len(L) + 1 - b) : B[i] = L[i - 1 + b]
  OBVIOUS
<1>3. <<w>> \in Seq(S) /\ Len(<<w>>) = 1 /\ <<w>>[1] = w
  OBVIOUS
<1>4. R = P \o B
  BY DEF Spliced
<1>4a. Len(L) \in Nat /\ a \in Nat
  OBVIOUS
<1> HIDE DEF A, B
<1>5. /\ P \in Seq(S) /\ Len(P) = a + 1
      /\ \A i \in 1..a : P[i] = L[i]
      /\ P[a + 1] = w
  BY <1>1, <1>3, <1>4a, Concatenation
<1> HIDE DEF P, R
<1>6. /\ P \o B \in Seq(S) /\ Len(P \o B) = Len(P) + Len(B)
      /\ \A i \in 1..Len(P) : (P \o B)[i] = P[i]
      /\ \A i \in (Len(P) + 1)..(Len(P) + Len(B)) : (P \o B)[i] = B[i - Len(P)]
  BY <1>2, <1>5, Concatenation
<1>7. a \in Nat /\ b \in Nat /\ Len(L) \in Nat /\ b <= Len(L) + 1
  OBVIOUS
<1> DEFINE n == a + 1 + (Len(L) + 1 - b)
<1>8. R \in Seq(S) /\ Len(R) = n
  BY <1>2, <1>4, <1>5, <1>6
<1>9. \A i \in 1..(a + 1) : R[i] = P[i]
  BY <1>4, <1>5, <1>6
<1>10. \A i \in (a + 2)..n : R[i] = B[i - (a + 1)]
  <2>1. Len(P) + 1 = a + 2 /\ Len(P) + Len(B) = n /\ Len(P) = a + 1
    BY <1>2, <1>5, <1>7
  <2>2. QED
    BY <1>4, <1>6, <2>1
<1>11. ASSUME NEW i \in (a + 2)..n PROVE R[i] = L[i - a - 2 + b]
  <2>1. i - (a + 1) \in 1..(Len(L) + 1 - b) /\ i - (a + 1) - 1 + b = i - a - 2 + b
    BY <1>7
  <2>2. QED
    BY <1>2, <1>10, <2>1
<1>12. ASSUME NEW i \in 1..a PROVE R[i] = L[i]
  <2>1. i \in 1..(a + 1)
    BY <1>7
  <2>2. QED
    BY <1>5, <1>9, <2>1
<1>13. a + 1 \in 1..(a + 1)
  BY <1>7
<1>14. R[a + 1] = w
  BY <1>5, <1>9, <1>13
<1>15. QED
  BY <1>8, <1>11, <1>12, <1>14 DEF R, SplicedElements

\* The elements of a list from which allocate_tactic unlinked position k.
LEMMA RemoveAtElements ==
  ASSUME NEW S, NEW L \in Seq(S), NEW k \in 1..Len(L)
  PROVE  /\ RemoveAt(L, k) \in Seq(S)
         /\ Len(RemoveAt(L, k)) = Len(L) - 1
         /\ \A i \in 1..(k - 1) : RemoveAt(L, k)[i] = L[i]
         /\ \A i \in k..(Len(L) - 1) : RemoveAt(L, k)[i] = L[i + 1]
<1> DEFINE A == SubSeq(L, 1, k - 1)
           B == SubSeq(L, k + 1, Len(L))
<1>1. A \in Seq(S) /\ Len(A) = k - 1 /\ \A i \in 1..(k - 1) : A[i] = L[i]
  OBVIOUS
<1>2. B \in Seq(S) /\ Len(B) = Len(L) - k /\ \A i \in 1..(Len(L) - k) : B[i] = L[i + k]
  OBVIOUS
<1>3. RemoveAt(L, k) = A \o B
  BY DEF RemoveAt
<1>4. k \in Nat /\ Len(L) \in Nat
  OBVIOUS
<1> HIDE DEF A, B
<1>5. /\ A \o B \in Seq(S) /\ Len(A \o B) = Len(A) + Len(B)
      /\ \A i \in 1..Len(A) : (A \o B)[i] = A[i]
      /\ \A i \in (Len(A) + 1)..(Len(A) + Len(B)) : (A \o B)[i] = B[i - Len(A)]
  BY <1>1, <1>2, Concatenation
<1>6. ASSUME NEW i \in k..(Len(L) - 1) PROVE (A \o B)[i] = L[i + 1]
  <2>1. (A \o B)[i] = B[i - (k - 1)]
    BY <1>1, <1>2, <1>4, <1>5
  <2>2. i - (k - 1) \in 1..(Len(L) - k) /\ i - (k - 1) + k = i + 1
    BY <1>4
  <2>3. QED
    BY <1>2, <2>1, <2>2
<1>7. QED
  BY <1>1, <1>2, <1>3, <1>4, <1>5, <1>6

--------------------------------------------------------------------------------
(* Multiples of a grain.                                                       *)

\* A multiple of G is its quotient by G, times G.
LEMMA MultipleQuotient ==
  ASSUME NEW G \in Nat \ {0}, NEW x \in Int, x % G = 0
  PROVE  x = (x \div G) * G /\ x \div G \in Int
OBVIOUS

\* What is G times something is a multiple of G.
LEMMA QuotientMultiple ==
  ASSUME NEW G \in Nat \ {0}, NEW k \in Int
  PROVE  (k * G) % G = 0
OBVIOUS

\* Sums and differences of multiples of G are multiples of G.
LEMMA MultipleSum ==
  ASSUME NEW G \in Nat \ {0}, NEW x \in Int, NEW y \in Int, x % G = 0, y % G = 0
  PROVE  (x + y) % G = 0 /\ (x - y) % G = 0
<1> DEFINE k == x \div G
           l == y \div G
<1>1. x = k * G /\ k \in Int /\ y = l * G /\ l \in Int
  BY MultipleQuotient
<1> HIDE DEF k, l
<1>2. x + y = (k + l) * G /\ x - y = (k - l) * G
  BY <1>1
<1>3. ((k + l) * G) % G = 0 /\ ((k - l) * G) % G = 0
  BY <1>1, QuotientMultiple
<1>4. QED
  BY <1>2, <1>3

\* A positive multiple of G is at least G: what remains of a split block, if
\* anything, has room for a header.
LEMMA MultipleAtLeast ==
  ASSUME NEW G \in Nat \ {0}, NEW x \in Int, x % G = 0, x > 0
  PROVE  x >= G
OBVIOUS

\* Rounding up never yields less.
LEMMA AlignUp ==
  ASSUME NEW x \in Nat, NEW align \in Nat \ {0}
  PROVE  align_of(x, align) \in Nat /\ align_of(x, align) >= x
BY DEF align_of

--------------------------------------------------------------------------------
(* Lists of free blocks.                                                       *)

Block == [addr : Int, size : Int]

BlockOK(x, G) ==
  /\ x \in Block
  /\ FirstAddr <= x.addr /\ x.size >= G /\ End(x) <= TailAddr
  /\ (x.addr - FirstAddr) % G = 0 /\ x.size % G = 0

BlockCells(x) == Cells(x.addr, x.size)

ListOK(L, G) ==
  /\ L \in Seq(Block)
  /\ \A i \in DOMAIN L : BlockOK(L[i], G)
  /\ \A i, j \in DOMAIN L : i < j => End(L[i]) < L[j].addr

\* The addresses of the sentinels and of the first block are numbers.
LEMMA SentinelTypes ==
  FirstAddr \in Nat /\ TailAddr \in Int /\ FirstSize \in Int /\ HeadAddr \in Nat
<1>1. HeadAddr \in Nat
  BY HeapAssumption, AlignUp DEF HeadAddr
<1>2. TailAddr \in Int
  BY HeapAssumption DEF TailAddr, align_of
<1>3. QED
  BY <1>1, <1>2, HeapAssumption DEF FirstAddr, FirstSize

\* The cells of a block are those from its address up to its end.
LEMMA InBlockCells ==
  ASSUME NEW x \in Block, NEW c
  PROVE  c \in BlockCells(x) <=> c \in Int /\ x.addr <= c /\ c < End(x)
<1>1. x.addr \in Int /\ x.size \in Int
  BY DEF Block
<1>2. QED
  BY <1>1 DEF BlockCells, Cells, End

\* The cells of a list are those of its blocks.
LEMMA InListCells ==
  ASSUME NEW L \in Seq(Block), NEW c
  PROVE  c \in ListCells(L) <=>
           c \in Int /\ \E i \in DOMAIN L : L[i].addr <= c /\ c < End(L[i])
<1>1. ASSUME NEW i \in DOMAIN L
      PROVE  c \in Cells(L[i].addr, L[i].size) <=> c \in Int /\ L[i].addr <= c /\ c < End(L[i])
  <2>1. L[i] \in Block
    OBVIOUS
  <2>2. QED
    BY <2>1, InBlockCells DEF BlockCells
<1>2. c \in ListCells(L) <=> \E i \in DOMAIN L : c \in Cells(L[i].addr, L[i].size)
  BY DEF ListCells
<1>3. QED
  BY <1>1, <1>2

\* Of two non-empty blocks without a common cell one ends before the other starts.
LEMMA DisjointBlocks ==
  ASSUME NEW x \in Block, NEW y \in Block, x.size > 0, y.size > 0,
         BlockCells(x) \cap BlockCells(y) = {}
  PROVE  End(x) <= y.addr \/ End(y) <= x.addr
<1> SUFFICES ASSUME End(x) > y.addr, End(y) > x.addr PROVE FALSE
  BY DEF End, Block
<1>1. CASE x.addr <= y.addr
  <2>1. y.addr \in BlockCells(x) /\ y.addr \in BlockCells(y)
    BY <1>1 DEF BlockCells, Cells, End, Block
  <2>2. QED
    BY <2>1
<1>2. CASE y.addr <= x.addr
  <2>1. x.addr \in BlockCells(x) /\ x.addr \in BlockCells(y)
    BY <1>2 DEF BlockCells, Cells, End, Block
  <2>2. QED
    BY <2>1
<1>3. QED
  BY <1>1, <1>2 DEF Block

\* A list with a stretch of blocks replaced by one block w that lies strictly
\* between the blocks that stay is a proper list again.
LEMMA SpliceOK ==
  ASSUME NEW G \in Nat \ {0}, NEW L, ListOK(L, G),
         NEW a \in 0..Len(L), NEW b \in 1..(Len(L) + 1), a < b,
         NEW w, BlockOK(w, G),
         \A i \in 1..a : End(L[i]) < w.addr,
         \A i \in b..Len(L) : End(w) < L[i].addr,
         NEW R, R = Spliced(L, a, w, b)
  PROVE  /\ ListOK(R, G)
         /\ \A c : c \in ListCells(R) <=>
              \/ c \in BlockCells(w)
              \/ c \in Int /\ \E i \in (1..a) \cup (b..Len(L)) : L[i].addr <= c /\ c < End(L[i])
<1> DEFINE n == Len(R)
           m == Len(L)
           src(i) == i - a - 2 + b
           dst(i) == i + a + 2 - b
<1>1. L \in Seq(Block) /\ w \in Block
  BY DEF ListOK, BlockOK
<1>2. m \in Nat /\ DOMAIN L = 1..m
  BY <1>1
<1>3. a \in Nat /\ b \in Nat /\ a <= m /\ 1 <= b /\ b <= m + 1
  BY <1>2
<1>4. /\ R \in Seq(Block)
      /\ n = a + 1 + (m + 1 - b)
      /\ \A i \in 1..a : R[i] = L[i]
      /\ R[a + 1] = w
      /\ \A i \in (a + 2)..n : R[i] = L[src(i)]
  <2>1. a <= Len(L) /\ 1 <= b /\ b <= Len(L) + 1
    BY <1>3 DEF m
  <2>2. SplicedElements(Block, L, a, w, b)
    BY <1>1, <1>3, <2>1, Splice, Zenon
  <2>3. QED
    BY <2>2 DEF SplicedElements
<1>5. n \in Nat /\ DOMAIN R = 1..n
  BY <1>4, SeqDomain
<1> HIDE DEF n, m
<1>6. \A i \in 1..n : i \in 1..a \/ i = a + 1 \/ i \in (a + 2)..n
  BY <1>3, <1>5
<1>7. \A i \in (a + 2)..n : src(i) \in b..m /\ src(i) \in 1..m
  BY <1>2, <1>3, <1>4, <1>5
<1>8. \A i \in b..m : dst(i) \in (a + 2)..n /\ dst(i) \in 1..n /\ src(dst(i)) = i
  BY <1>2, <1>3, <1>4, <1>5
<1>9. \A i \in 1..a : i \in 1..m /\ i \in 1..n
  BY <1>2, <1>3, <1>4, <1>5
<1>10. a + 1 \in 1..n
  BY <1>2, <1>3, <1>4, <1>5
<1>11. \A i \in 1..m : BlockOK(L[i], G)
  BY <1>2 DEF ListOK
<1>12. \A i, j \in 1..m : i < j => End(L[i]) < L[j].addr
  BY <1>2 DEF ListOK
<1>13. \A i \in b..m : End(w) < L[i].addr
  BY DEF m
<1>14. \A i, j \in (a + 2)..n : i < j => src(i) < src(j)
  BY <1>3, <1>5
<1>15. \A i \in 1..a, j \in b..m : i < j
  BY <1>2, <1>3
<1>16. \A i, j \in 1..a : i \in 1..m /\ j \in 1..m
  BY <1>9
<1> HIDE DEF src, dst
<1>17. ASSUME NEW i \in 1..n PROVE BlockOK(R[i], G)
  BY <1>4, <1>6, <1>7, <1>9, <1>11
<1>18. ASSUME NEW i \in 1..n, NEW j \in 1..n, i < j PROVE End(R[i]) < R[j].addr
  <2>1. CASE i \in 1..a /\ j \in 1..a
    <3>1. R[i] = L[i] /\ R[j] = L[j] /\ i \in 1..m /\ j \in 1..m
      BY <2>1, <1>4, <1>9
    <3>2. QED
      BY <3>1, <1>12, <1>18
  <2>2. CASE i \in 1..a /\ j = a + 1
    <3>1. R[i] = L[i] /\ R[j] = w
      BY <2>2, <1>4
    <3>2. QED
      BY <3>1, <2>2
  <2>3. CASE i \in 1..a /\ j \in (a + 2)..n
    <3>1. R[i] = L[i] /\ R[j] = L[src(j)] /\ i \in 1..m /\ src(j) \in 1..m /\ i < src(j)
      BY <2>3, <1>4, <1>7, <1>9, <1>15
    <3>2. QED
      BY <3>1, <1>12
  <2>4. CASE i = a + 1 /\ j \in (a + 2)..n
    <3>1. R[i] = w /\ R[j] = L[src(j)] /\ src(j) \in b..m
      BY <2>4, <1>4, <1>7
    <3>2. QED
      BY <3>1, <1>13
  <2>5. CASE i \in (a + 2)..n /\ j \in (a + 2)..n
    <3>1. /\ R[i] = L[src(i)] /\ R[j] = L[src(j)]
          /\ src(i) \in 1..m /\ src(j) \in 1..m /\ src(i) < src(j)
      BY <2>5, <1>4, <1>7, <1>14, <1>18
    <3>2. QED
      BY <3>1, <1>12
  <2>6. \/ i \in 1..a /\ j \in 1..a
        \/ i \in 1..a /\ j = a + 1
        \/ i \in 1..a /\ j \in (a + 2)..n
        \/ i = a + 1 /\ j \in (a + 2)..n
        \/ i \in (a + 2)..n /\ j \in (a + 2)..n
    <3>1. i \in 1..a \/ i = a + 1 \/ i \in (a + 2)..n
      BY <1>6
    <3>2. j \in 1..a \/ j = a + 1 \/ j \in (a + 2)..n
      BY <1>6
    <3>3. i \in Nat /\ j \in Nat /\ i < j
      BY <1>18
    <3>4. QED
      BY <3>1, <3>2, <3>3, <1>3
  <2>7. QED
    BY <2>1, <2>2, <2>3, <2>4, <2>5, <2>6
<1>19. ASSUME NEW c
       PROVE  c \in ListCells(R) <=>
                \/ c \in BlockCells(w)
                \/ c \in Int /\ \E i \in (1..a) \cup (b..m) : L[i].addr <= c /\ c < End(L[i])
  <2>1. c \in BlockCells(w) <=> c \in Int /\ w.addr <= c /\ c < End(w)
    BY <1>1, InBlockCells
  <2>2. c \in ListCells(R) <=> c \in Int /\ \E i \in 1..n : R[i].addr <= c /\ c < End(R[i])
    BY <1>4, <1>5, InListCells
  <2>3. ASSUME NEW i \in 1..n
        PROVE  \/ R[i] = w
               \/ \E k \in (1..a) \cup (b..m) : R[i] = L[k]
    BY <1>4, <1>6, <1>7
  <2>4. \E i \in 1..n : R[i] = w
    BY <1>4, <1>10
  <2>5. ASSUME NEW k \in (1..a) \cup (b..m)
        PROVE  \E i \in 1..n : R[i] = L[k]
    <3>1. CASE k \in 1..a
      BY <3>1, <1>4, <1>9
    <3>2. CASE k \in b..m
      <4>1. dst(k) \in 1..n /\ R[dst(k)] = L[k]
        BY <3>2, <1>4, <1>8
      <4>2. QED
        BY <4>1
    <3>3. QED
      BY <3>1, <3>2
  <2>6. QED
    BY <2>1, <2>2, <2>3, <2>4, <2>5
<1>20. ListOK(R, G)
  BY <1>4, <1>5, <1>17, <1>18 DEF ListOK
<1>21. QED
  BY <1>19, <1>20 DEF m

\* InsertPos is the first position whose block does not lie before x.
LEMMA InsertPosition ==
  ASSUME NEW L \in Seq(Block), NEW x \in Block
  PROVE  /\ InsertPos(L, x) \in 1..(Len(L) + 1)
         /\ InsertPos(L, x) <= Len(L) => L[InsertPos(L, x)].addr >= x.addr
         /\ \A i \in 1..Len(L) : i < InsertPos(L, x) => L[i].addr < x.addr
<1> DEFINE S == {p \in 1..(Len(L) + 1) : p <= Len(L) => L[p].addr >= x.addr}
<1>1. Len(L) \in Nat /\ \A i \in 1..Len(L) : L[i] \in Block
  BY SeqDomain
<1>2. x.addr \in Int /\ \A i \in 1..Len(L) : L[i].addr \in Int
  BY <1>1 DEF Block
<1>3. S \subseteq Nat /\ Len(L) + 1 \in S
  BY <1>1
<1>4. Min(S) \in S /\ \A y \in S : Min(S) <= y
  <2> HIDE DEF S
  <2> QED BY <1>3, LeastNatural
<1>5. InsertPos(L, x) = Min(S)
  BY DEF InsertPos
<1> DEFINE q == Min(S)
<1>6. q \in S /\ \A y \in S : q <= y
  BY <1>4
<1> HIDE DEF q
<1>7. q \in 1..(Len(L) + 1) /\ (q <= Len(L) => L[q].addr >= x.addr)
  BY <1>6
<1>8. ASSUME NEW i \in 1..Len(L), i < q PROVE L[i].addr < x.addr
  <2>1. i \notin S
    <3> HIDE DEF S
    <3>1. q \in Nat /\ i \in Nat
      BY <1>1, <1>7
    <3>2. QED
      BY <1>6, <1>8, <3>1
  <2>2. i \in 1..(Len(L) + 1)
    BY <1>1
  <2>3. QED
    BY <1>2, <2>1, <2>2
<1>9. QED
  BY <1>5, <1>7, <1>8 DEF q

\* Two blocks of which one ends where the other starts make one block.
LEMMA JoinedBlock ==
  ASSUME NEW G \in Nat \ {0}, NEW x, NEW y, BlockOK(x, G), BlockOK(y, G), End(x) = y.addr
  PROVE  LET j == [x EXCEPT !.size = @ + y.size]
         IN  BlockOK(j, G) /\ j.addr = x.addr /\ End(j) = End(y)
<1> DEFINE j == [x EXCEPT !.size = @ + y.size]
<1>1. /\ x \in Block /\ y \in Block
      /\ FirstAddr <= x.addr /\ x.size >= G /\ End(x) <= TailAddr
      /\ y.size >= G /\ End(y) <= TailAddr
      /\ (x.addr - FirstAddr) % G = 0 /\ x.size % G = 0 /\ y.size % G = 0
  BY DEF BlockOK
<1>2. x.addr \in Int /\ x.size \in Int /\ y.addr \in Int /\ y.size \in Int
  BY <1>1 DEF Block
<1>3. j \in Block /\ j.addr = x.addr /\ j.size = x.size + y.size
  BY <1>1, <1>2 DEF Block
<1>4. (x.size + y.size) % G = 0
  BY <1>1, <1>2, MultipleSum
<1>5. x.addr + (x.size + y.size) = y.addr + y.size
  BY <1>2 DEF End
<1> HIDE DEF j
<1>6. End(j) = End(y)
  BY <1>3, <1>5 DEF End
<1>7. j.size >= G
  BY <1>1, <1>2, <1>3
<1>8. BlockOK(j, G)
  BY <1>1, <1>3, <1>4, <1>6, <1>7 DEF BlockOK
<1>9. QED
  BY <1>3, <1>6, <1>8 DEF j

\* insert_free_block on a proper list and a block that shares no cell with it:
\* the list stays proper and gains exactly the cells of the block.
LEMMA InsertOK ==
  ASSUME NEW G \in Nat \ {0}, NEW L, ListOK(L, G), NEW x, BlockOK(x, G),
         \A c \in BlockCells(x) : c \notin ListCells(L)
  PROVE  /\ ListOK(insert_free_block(L, x), G)
         /\ ListCells(insert_free_block(L, x)) = ListCells(L) \cup BlockCells(x)
<1> DEFINE m == Len(L)
           p == InsertPos(L, x)
           joinPrev == p > 1 /\ End(L[p - 1]) = x.addr
           joined == IF joinPrev THEN [L[p - 1] EXCEPT !.size = @ + x.size] ELSE x
           joinNext == p <= m /\ End(joined) = L[p].addr
           w == IF joinNext THEN [joined EXCEPT !.size = @ + L[p].size] ELSE joined
           a == IF joinPrev THEN p - 2 ELSE p - 1
           b == IF joinNext THEN p + 1 ELSE p
           R == Spliced(L, a, w, b)
<1>1. insert_free_block(L, x) = R
  BY DEF insert_free_block, insert_block_helper, Spliced
<1>2. L \in Seq(Block) /\ x \in Block
  BY DEF ListOK, BlockOK
<1>3. m \in Nat /\ DOMAIN L = 1..m /\ \A i \in 1..m : L[i] \in Block
  BY <1>2, SeqDomain
<1>4. /\ p \in 1..(m + 1)
      /\ p <= m => L[p].addr >= x.addr
      /\ \A i \in 1..m : i < p => L[i].addr < x.addr
  BY <1>2, InsertPosition
<1>5. \A i \in 1..m : BlockOK(L[i], G)
  BY <1>3 DEF ListOK
<1>6. \A i, j \in 1..m : i < j => End(L[i]) < L[j].addr
  BY <1>3 DEF ListOK
<1> HIDE DEF m, p
<1>7. x.addr \in Int /\ x.size \in Int /\ x.size > 0 /\ End(x) = x.addr + x.size /\ End(x) \in Int
  BY DEF BlockOK, Block, End
<1>8. ASSUME NEW i \in 1..m
      PROVE  L[i].addr \in Int /\ L[i].size > 0 /\ End(L[i]) \in Int /\ L[i].addr < End(L[i])
  <2>1. BlockOK(L[i], G)
    BY <1>5
  <2>2. QED
    BY <2>1 DEF BlockOK, Block, End
<1>9. ASSUME NEW i \in 1..m PROVE End(L[i]) <= x.addr \/ End(x) <= L[i].addr
  <2>1. BlockCells(x) \cap BlockCells(L[i]) = {}
    <3>1. BlockCells(L[i]) \subseteq ListCells(L)
      BY <1>3 DEF ListCells, BlockCells
    <3>2. QED
      BY <3>1
  <2>2. L[i] \in Block /\ L[i].size > 0
    BY <1>3, <1>8
  <2>3. QED
    BY <1>2, <1>7, <2>1, <2>2, DisjointBlocks
<1>10. \A i \in 1..m : i < p => End(L[i]) <= x.addr
  BY <1>4, <1>7, <1>8, <1>9
<1>11. ASSUME NEW i \in 1..m, i >= p PROVE End(x) <= L[i].addr
  <2>1. p \in 1..m /\ p \in Nat
    BY <1>3, <1>4, <1>11
  <2>2. End(x) <= L[p].addr
    BY <1>4, <1>7, <1>8, <1>9, <2>1
  <2>3. CASE i = p
    BY <2>2, <2>3
  <2>4. CASE i > p
    <3>1. End(L[p]) < L[i].addr
      BY <1>6, <2>1, <2>4
    <3>2. QED
      BY <3>1, <2>1, <2>2, <1>7, <1>8
  <2>5. QED
    BY <2>1, <2>3, <2>4, <1>11
<1>12. joinPrev => p - 1 \in 1..m
  BY <1>3, <1>4
<1>13. /\ BlockOK(joined, G) /\ End(joined) = End(x)
       /\ joined.addr = IF joinPrev THEN L[p - 1].addr ELSE x.addr
  <2>1. CASE joinPrev
    BY <2>1, <1>5, <1>12, JoinedBlock
  <2>2. CASE ~joinPrev
    BY <2>2
  <2>3. QED
    BY <2>1, <2>2
<1> HIDE DEF joined
<1>14. joinNext => p \in 1..m
  BY <1>3, <1>4
<1>15. /\ BlockOK(w, G) /\ w.addr = joined.addr
       /\ End(w) = IF joinNext THEN End(L[p]) ELSE End(x)
  <2>1. CASE joinNext
    <3>1. BlockOK(joined, G) /\ BlockOK(L[p], G) /\ End(joined) = L[p].addr
      BY <2>1, <1>5, <1>13, <1>14
    <3>2. w = [joined EXCEPT !.size = @ + L[p].size]
      BY <2>1
    <3>3. BlockOK(w, G) /\ w.addr = joined.addr /\ End(w) = End(L[p])
      BY <3>1, <3>2, JoinedBlock
    <3>4. QED
      BY <2>1, <3>3
  <2>2. CASE ~joinNext
    BY <2>2, <1>13
  <2>3. QED
    BY <2>1, <2>2
<1> HIDE DEF w
<1>16. a \in 0..m /\ b \in 1..(m + 1) /\ a < b
  BY <1>3, <1>4
<1>17. ASSUME NEW i \in 1..a PROVE End(L[i]) < w.addr
  <2>1. i \in 1..m /\ i < p /\ i \in Nat /\ p \in Nat
    BY <1>3, <1>4, <1>16
  <2>2. CASE joinPrev
    <3>1. i < p - 1
      BY <2>1, <2>2
    <3>2. End(L[i]) < L[p - 1].addr
      BY <2>1, <3>1, <1>6, <1>12, <2>2
    <3>3. QED
      BY <2>2, <3>2, <1>13, <1>15
  <2>3. CASE ~joinPrev
    <3>1. w.addr = x.addr
      BY <2>3, <1>13, <1>15
    <3>2. CASE i = p - 1
      <4>1. End(L[i]) # x.addr /\ End(L[i]) <= x.addr
        BY <2>1, <2>3, <3>2, <1>10
      <4>2. QED
        BY <4>1, <3>1, <2>1, <1>7, <1>8
    <3>3. CASE i < p - 1
      <4>1. p - 1 \in 1..m /\ p - 1 < p
        BY <1>3, <1>4, <2>1, <3>3
      <4>2. End(L[i]) < L[p - 1].addr /\ End(L[p - 1]) <= x.addr
        BY <1>6, <1>10, <2>1, <3>3, <4>1
      <4>3. QED
        BY <4>1, <4>2, <3>1, <2>1, <1>7, <1>8
    <3>4. QED
      BY <2>1, <3>2, <3>3
  <2>4. QED
    BY <2>2, <2>3
<1>18. ASSUME NEW i \in b..m PROVE End(w) < L[i].addr
  <2>1. i \in 1..m /\ i >= p /\ i \in Nat /\ p \in Nat
    BY <1>3, <1>4, <1>16
  <2>2. CASE joinNext
    <3>1. p < i /\ p \in 1..m
      BY <2>1, <2>2, <1>14
    <3>2. End(L[p]) < L[i].addr
      BY <2>1, <3>1, <1>6
    <3>3. QED
      BY <2>2, <3>2, <1>15
  <2>3. CASE ~joinNext
    <3>1. End(w) = End(x)
      BY <2>3, <1>15
    <3>2. CASE i = p
      <4>1. End(x) # L[i].addr /\ End(x) <= L[i].addr
        BY <2>1, <2>3, <3>2, <1>3, <1>11, <1>13
      <4>2. QED
        BY <4>1, <3>1, <2>1, <1>7, <1>8
    <3>3. CASE i > p
      <4>1. p \in 1..m
        BY <1>3, <1>4, <2>1, <3>3
      <4>2. End(L[p]) < L[i].addr /\ End(x) <= L[p].addr
        BY <1>6, <1>11, <2>1, <3>3, <4>1
      <4>3. QED
        BY <4>1, <4>2, <3>1, <2>1, <1>7, <1>8
    <3>4. QED
      BY <2>1, <3>2, <3>3
  <2>4. QED
    BY <2>2, <2>3
<1> HIDE DEF R
<1>19. /\ ListOK(R, G)
       /\ \A c : c \in ListCells(R) <=>
            \/ c \in BlockCells(w)
            \/ c \in Int /\ \E i \in (1..a) \cup (b..m) : L[i].addr <= c /\ c < End(L[i])
  <2> HIDE DEF a, b
  <2>1. ListOK(L, G) /\ BlockOK(w, G)
    BY <1>15
  <2>2. a \in 0..Len(L) /\ b \in 1..(Len(L) + 1) /\ a < b
    BY <1>16 DEF m
  <2>3. \A i \in b..Len(L) : End(w) < L[i].addr
    BY <1>18 DEF m
  <2>4. R = Spliced(L, a, w, b)
    BY DEF R
  <2>5. QED
    BY <1>17, <2>1, <2>2, <2>3, <2>4, SpliceOK DEF m
<1>20. ASSUME NEW c
       PROVE  c \in ListCells(R) <=> c \in ListCells(L) \/ c \in BlockCells(x)
  <2>1. c \in BlockCells(w) <=> c \in Int /\ w.addr <= c /\ c < End(w)
    BY <1>15, InBlockCells DEF BlockOK
  <2>2. c \in BlockCells(x) <=> c \in Int /\ x.addr <= c /\ c < End(x)
    BY <1>2, InBlockCells
  <2>3. c \in ListCells(L) <=> c \in Int /\ \E i \in 1..m : L[i].addr <= c /\ c < End(L[i])
    BY <1>2, <1>3, InListCells
  <2>4. ASSUME NEW i \in 1..m
        PROVE  \/ i \in (1..a) \cup (b..m)
               \/ joinPrev /\ i = p - 1
               \/ joinNext /\ i = p
    BY <1>3, <1>4
  <2>5. \A i \in (1..a) \cup (b..m) : i \in 1..m
    BY <1>16, <1>3
  <2>6. joinPrev => w.addr = L[p - 1].addr /\ End(L[p - 1]) = x.addr
    BY <1>13, <1>15
  <2>7. ~joinPrev => w.addr = x.addr
    BY <1>13, <1>15
  <2>8. joinNext => End(w) = End(L[p]) /\ End(x) = L[p].addr
    BY <1>13, <1>15
  <2>9. ~joinNext => End(w) = End(x)
    BY <1>15
  <2> HIDE DEF a, b, joinPrev, joinNext
  <2>10. joinPrev => L[p - 1].addr < End(L[p - 1]) /\ L[p - 1].addr \in Int /\ End(L[p - 1]) \in Int
    BY <1>8, <1>12
  <2>11. joinNext => L[p].addr < End(L[p]) /\ L[p].addr \in Int /\ End(L[p]) \in Int
    BY <1>8, <1>14
  <2>12. ASSUME c \in Int
         PROVE  w.addr <= c /\ c < End(w) <=>
                  \/ x.addr <= c /\ c < End(x)
                  \/ joinPrev /\ L[p - 1].addr <= c /\ c < End(L[p - 1])
                  \/ joinNext /\ L[p].addr <= c /\ c < End(L[p])
    BY <2>6, <2>7, <2>8, <2>9, <2>10, <2>11, <2>12, <1>7
  <2>13. QED
    BY <2>1, <2>2, <2>3, <2>4, <2>5, <2>12, <1>12, <1>14, <1>19
<1>21. ListCells(R) = ListCells(L) \cup BlockCells(x)
  BY <1>20
<1>22. QED
  BY <1>1, <1>19, <1>21

\* Unlinking a block takes its cells, and only them, out of the list.
LEMMA RemoveOK ==
  ASSUME NEW G \in Nat \ {0}, NEW L, ListOK(L, G), NEW k \in 1..Len(L)
  PROVE  /\ ListOK(RemoveAt(L, k), G)
         /\ \A c : c \in ListCells(RemoveAt(L, k)) <=> c \in ListCells(L) /\ c \notin BlockCells(L[k])
<1> DEFINE m == Len(L)
           R == RemoveAt(L, k)
           src(i) == IF i < k THEN i ELSE i + 1
<1>1. L \in Seq(Block)
  BY DEF ListOK
<1>2. m \in Nat /\ DOMAIN L = 1..m /\ \A i \in 1..m : L[i] \in Block
  BY <1>1, SeqDomain
<1>3. /\ R \in Seq(Block) /\ Len(R) = m - 1
      /\ \A i \in 1..(k - 1) : R[i] = L[i]
      /\ \A i \in k..(m - 1) : R[i] = L[i + 1]
  BY <1>1, RemoveAtElements
<1>4. DOMAIN R = 1..(m - 1)
  BY <1>3, SeqDomain
<1>5. k \in 1..m /\ k \in Nat
  BY <1>2
<1>6. \A i \in 1..m : BlockOK(L[i], G)
  BY <1>2 DEF ListOK
<1>7. \A i, j \in 1..m : i < j => End(L[i]) < L[j].addr
  BY <1>2 DEF ListOK
<1> HIDE DEF m, R
<1>8. ASSUME NEW i \in 1..(m - 1) PROVE R[i] = L[src(i)] /\ src(i) \in 1..m /\ src(i) # k
  BY <1>2, <1>3, <1>5
<1>9. \A i, j \in 1..(m - 1) : i < j => src(i) < src(j)
  BY <1>2, <1>5
<1>10. ASSUME NEW i \in 1..m, i # k PROVE \E j \in 1..(m - 1) : R[j] = L[i]
  <2>1. CASE i < k
    <3>1. i \in 1..(m - 1) /\ i \in 1..(k - 1)
      BY <1>2, <1>5, <2>1
    <3>2. QED
      BY <1>3, <3>1
  <2>2. CASE i > k
    <3>1. i - 1 \in 1..(m - 1) /\ i - 1 \in k..(m - 1) /\ (i - 1) + 1 = i
      BY <1>2, <1>5, <2>2
    <3>2. R[i - 1] = L[i]
      BY <1>3, <3>1
    <3>3. QED
      BY <3>1, <3>2
  <2>3. QED
    BY <1>5, <1>10, <2>1, <2>2
<1> HIDE DEF src
<1>11. \A i \in 1..(m - 1) : BlockOK(R[i], G)
  BY <1>6, <1>8
<1>12. \A i, j \in 1..(m - 1) : i < j => End(R[i]) < R[j].addr
  BY <1>7, <1>8, <1>9
<1>13. ListOK(R, G)
  BY <1>3, <1>4, <1>11, <1>12 DEF ListOK
<1>14. ASSUME NEW c
       PROVE  c \in ListCells(R) <=> c \in ListCells(L) /\ c \notin BlockCells(L[k])
  <2>1. c \in ListCells(R) <=> c \in Int /\ \E i \in 1..(m - 1) : R[i].addr <= c /\ c < End(R[i])
    BY <1>3, <1>4, InListCells
  <2>2. c \in ListCells(L) <=> c \in Int /\ \E i \in 1..m : L[i].addr <= c /\ c < End(L[i])
    BY <1>1, <1>2, InListCells
  <2>3. c \in BlockCells(L[k]) <=> c \in Int /\ L[k].addr <= c /\ c < End(L[k])
    BY <1>2, <1>5, InBlockCells
  <2>4. ASSUME c \in Int, NEW i \in 1..m, i # k, L[i].addr <= c, c < End(L[i])
        PROVE  ~ (L[k].addr <= c /\ c < End(L[k]))
    <3>1. BlockOK(L[i], G) /\ BlockOK(L[k], G)
      BY <1>5, <1>6
    <3>2. /\ L[i].addr \in Int /\ End(L[i]) \in Int
          /\ L[k].addr \in Int /\ End(L[k]) \in Int
      BY <3>1 DEF BlockOK, Block, End
    <3>3. End(L[i]) < L[k].addr \/ End(L[k]) < L[i].addr
      <4>1. i < k \/ k < i
        BY <1>5, <2>4
      <4>2. QED
        BY <4>1, <1>5, <1>7
    <3>4. QED
      BY <3>2, <3>3, <2>4
  <2>5. c \in ListCells(R) => c \in ListCells(L) /\ c \notin BlockCells(L[k])
    BY <2>1, <2>2, <2>3, <2>4, <1>8
  <2>6. c \in ListCells(L) /\ c \notin BlockCells(L[k]) => c \in ListCells(R)
    BY <2>1, <2>2, <2>3, <1>10
  <2>7. QED
    BY <2>5, <2>6
<1>15. QED
  BY <1>13, <1>14 DEF R

\* The first fitting block is one of the list that is larger than what is needed.
LEMMA FirstFits ==
  ASSUME NEW L \in Seq(Block), NEW n, Fitting(L, n) # {}
  PROVE  FirstFit(L, n) \in 1..Len(L) /\ L[FirstFit(L, n)].size > n
<1>1. DOMAIN L = 1..Len(L) /\ Len(L) \in Nat
  BY SeqDomain
<1>2. Fitting(L, n) \subseteq 1..Len(L) /\ Fitting(L, n) \subseteq Nat
  BY <1>1 DEF Fitting
<1>3. Min(Fitting(L, n)) \in Fitting(L, n)
  BY <1>2, LeastNatural
<1>4. QED
  BY <1>2, <1>3 DEF FirstFit, Fitting

\* allocate_tactic with a need of whole grains, on a proper list: the remainder of
\* the block is always put back, and exactly the first n cells of the block leave
\* the list.
LEMMA TakeOK ==
  ASSUME NEW G \in Nat \ {0}, H <= G, NEW L, ListOK(L, G),
         NEW n \in Nat, n % G = 0, n > H, Fitting(L, n) # {}
  PROVE  LET k == FirstFit(L, n)
         IN  /\ k \in 1..Len(L) /\ BlockOK(L[k], G) /\ L[k].size > n
             /\ ListOK(allocate_tactic(L, n), G)
             /\ Cells(L[k].addr, n) \subseteq ListCells(L)
             /\ ListCells(allocate_tactic(L, n)) = ListCells(L) \ Cells(L[k].addr, n)
<1> DEFINE k == FirstFit(L, n)
           s == split_free_block(L[k], n)
           rest == RemoveAt(L, k)
<1>1. L \in Seq(Block)
  BY DEF ListOK
<1>2. k \in 1..Len(L) /\ L[k].size > n
  BY <1>1, FirstFits
<1> HIDE DEF k
<1>3. DOMAIN L = 1..Len(L)
  BY <1>1, SeqDomain
<1>4. BlockOK(L[k], G)
  BY <1>2, <1>3 DEF ListOK
<1>5. /\ L[k] \in Block /\ FirstAddr <= L[k].addr /\ End(L[k]) <= TailAddr
      /\ (L[k].addr - FirstAddr) % G = 0 /\ L[k].size % G = 0
  BY <1>4 DEF BlockOK
<1>6. /\ L[k].addr \in Int /\ L[k].size \in Int /\ H \in Nat /\ H > 0
      /\ End(L[k]) = L[k].addr + L[k].size
  BY <1>5, HeapAssumption DEF Block, End
<1>7. L[k].size - n >= G /\ (L[k].size - n) % G = 0
  <2>1. (L[k].size - n) % G = 0
    BY <1>5, <1>6, MultipleSum
  <2>2. L[k].size - n \in Int /\ L[k].size - n > 0
    BY <1>2, <1>6
  <2>3. QED
    BY <2>1, <2>2, MultipleAtLeast
<1>8. n >= G
  <2>1. n \in Int /\ n > 0
    BY <1>6
  <2>2. QED
    BY <2>1, MultipleAtLeast
<1>9. L[k].size > H * 2
  BY <1>6, <1>7, <1>8
<1>10. allocate_tactic(L, n) = insert_free_block(rest, s)
  BY <1>9 DEF allocate_tactic, k
<1>11. s = [addr |-> L[k].addr + n, size |-> L[k].size - n]
  BY DEF split_free_block
<1> HIDE DEF s
<1>12. /\ s \in Block /\ s.addr = L[k].addr + n /\ s.size = L[k].size - n
       /\ End(s) = End(L[k])
  BY <1>6, <1>11 DEF Block, End
<1>13. BlockOK(s, G)
  <2>1. (s.addr - FirstAddr) % G = 0
    <3>1. L[k].addr - FirstAddr \in Int /\ s.addr - FirstAddr = (L[k].addr - FirstAddr) + n
      BY <1>6, <1>12, SentinelTypes
    <3>2. ((L[k].addr - FirstAddr) + n) % G = 0
      BY <1>5, <3>1, MultipleSum
    <3>3. QED
      BY <3>1, <3>2
  <2>2. FirstAddr <= s.addr
    BY <1>5, <1>6, <1>12, SentinelTypes
  <2>3. QED
    BY <1>5, <1>7, <1>12, <2>1, <2>2 DEF BlockOK
<1>14. /\ ListOK(rest, G)
       /\ \A c : c \in ListCells(rest) <=> c \in ListCells(L) /\ c \notin BlockCells(L[k])
  BY <1>2, RemoveOK
<1>15. BlockCells(L[k]) \subseteq ListCells(L)
  BY <1>2, <1>3 DEF ListCells, BlockCells
<1>16. \A c : c \in BlockCells(L[k]) <=> c \in Int /\ L[k].addr <= c /\ c < L[k].addr + L[k].size
  BY <1>5, <1>6, InBlockCells
<1>17. \A c : c \in BlockCells(s) <=> c \in Int /\ L[k].addr + n <= c /\ c < L[k].addr + L[k].size
  BY <1>6, <1>12, InBlockCells
<1>18. \A c : c \in Cells(L[k].addr, n) <=> c \in Int /\ L[k].addr <= c /\ c < L[k].addr + n
  BY <1>6 DEF Cells
<1>19. \A c : c \in BlockCells(L[k]) <=> c \in Cells(L[k].addr, n) \/ c \in BlockCells(s)
  BY <1>2, <1>6, <1>16, <1>17, <1>18
<1>20. \A c : ~ (c \in Cells(L[k].addr, n) /\ c \in BlockCells(s))
  BY <1>6, <1>17, <1>18
<1>21. /\ ListOK(insert_free_block(rest, s), G)
       /\ ListCells(insert_free_block(rest, s)) = ListCells(rest) \cup BlockCells(s)
  <2> HIDE DEF rest
  <2>1. \A c \in BlockCells(s) : c \notin ListCells(rest)
    BY <1>14, <1>19
  <2>2. QED
    BY <1>13, <1>14, <2>1, InsertOK
<1>22. Cells(L[k].addr, n) \subseteq ListCells(L)
  BY <1>15, <1>19
<1> HIDE DEF rest
<1>23. ListCells(allocate_tactic(L, n)) = ListCells(L) \ Cells(L[k].addr, n)
  BY <1>10, <1>14, <1>15, <1>19, <1>20, <1>21
<1>24. QED
  BY <1>2, <1>4, <1>10, <1>21, <1>22, <1>23 DEF k

--------------------------------------------------------------------------------
(* The free list and the allocated blocks together.                            *)

Grants == [addr : Int, size : Int, fill : Int, need : Requests]

\* An allocated block of whole grains, without alignment fill, that holds what was
\* asked for behind its header.
GrantOK(b, G) ==
  /\ b \in Grants /\ b.fill = 0
  /\ BlockOK([addr |-> b.addr, size |-> b.size], G)
  /\ H + b.need <= b.size

\* The list and the blocks divide the pool between them.
RegionsOK(list, blocks, G) ==
  /\ ListOK(list, G)
  /\ \A b \in blocks : GrantOK(b, G)
  /\ \A b, c \in blocks : b # c => Extent(b) \cap Extent(c) = {}
  /\ \A b \in blocks : Extent(b) \cap ListCells(list) = {}
  /\ ListCells(list) \cup UNION {Extent(b) : b \in blocks} = Pool

\* The cells of a proper list lie in the pool, so there are finitely many.
LEMMA CellsInPool ==
  ASSUME NEW G, NEW L, ListOK(L, G)
  PROVE  ListCells(L) \subseteq Pool /\ IsFiniteSet(ListCells(L))
<1>1. L \in Seq(Block) /\ \A i \in DOMAIN L : BlockOK(L[i], G)
  BY DEF ListOK
<1>2. ASSUME NEW c \in ListCells(L) PROVE c \in Pool
  <2>1. PICK i \in DOMAIN L : c \in Int /\ L[i].addr <= c /\ c < End(L[i])
    BY <1>1, InListCells
  <2>2. BlockOK(L[i], G)
    BY <1>1
  <2>3. /\ L[i].addr \in Int /\ End(L[i]) \in Int
        /\ FirstAddr <= L[i].addr /\ End(L[i]) <= TailAddr
    BY <2>2 DEF BlockOK, Block, End
  <2>4. FirstAddr <= c /\ c <= TailAddr - 1
    BY <2>1, <2>3, SentinelTypes
  <2>5. QED
    BY <2>1, <2>4, SentinelTypes DEF Pool, Cells, FirstSize
<1>3. IsFiniteSet(Pool)
  BY SentinelTypes, FS_Interval DEF Pool, Cells
<1>4. QED
  BY <1>2, <1>3, FS_Subset

\* A run of n cells has n cells.
LEMMA CellsCardinality ==
  ASSUME NEW addr \in Int, NEW n \in Nat
  PROVE  IsFiniteSet(Cells(addr, n)) /\ Cardinality(Cells(addr, n)) = n
<1>1. addr + n - 1 \in Int /\ (addr + n - 1) - addr + 1 = n /\ (addr <= addr + n - 1 <=> n # 0)
  OBVIOUS
<1>2. /\ IsFiniteSet(addr..(addr + n - 1))
      /\ Cardinality(addr..(addr + n - 1)) =
           IF addr <= addr + n - 1 THEN (addr + n - 1) - addr + 1 ELSE 0
  BY <1>1, FS_Interval
<1>3. QED
  BY <1>1, <1>2 DEF Cells

\* The cells of a block that comes back are its extent.
LEMMA FreedBlock ==
  ASSUME NEW G \in Nat \ {0}, NEW b, GrantOK(b, G)
  PROVE  /\ BlockOK(Freed(b), G) /\ BlockCells(Freed(b)) = Extent(b)
         /\ Freed(b).size = b.size /\ b.size \in Nat
         /\ Extent(b) = Cells(b.addr, b.size) /\ b.addr \in Extent(b)
         /\ Cardinality(Extent(b)) = b.size
<1>1. b.addr \in Int /\ b.size \in Int /\ b.fill = 0
  BY DEF GrantOK, Grants
<1>2. Freed(b) = [addr |-> b.addr, size |-> b.size]
  BY <1>1 DEF Freed
<1>3. BlockOK(Freed(b), G)
  BY <1>2 DEF GrantOK
<1>4. Extent(b) = Cells(b.addr, b.size)
  BY <1>1 DEF Extent
<1>5. Freed(b).addr = b.addr /\ Freed(b).size = b.size
  BY <1>2
<1>6. b.size >= G /\ b.size \in Nat
  BY <1>1, <1>3, <1>5 DEF BlockOK
<1>7. b.addr \in Extent(b)
  BY <1>1, <1>4, <1>6 DEF Cells
<1>8. QED
  BY <1>1, <1>3, <1>4, <1>5, <1>6, <1>7, CellsCardinality DEF BlockCells

\* What putting a block back does to the division of the pool.
LEMMA ReturnRegions ==
  ASSUME NEW G \in Nat \ {0}, NEW L, NEW B, RegionsOK(L, B, G), NEW b \in B
  PROVE  /\ RegionsOK(insert_free_block(L, Freed(b)), B \ {b}, G)
         /\ ListCells(insert_free_block(L, Freed(b))) = ListCells(L) \cup Extent(b)
         /\ Cardinality(ListCells(insert_free_block(L, Freed(b)))) =
              Cardinality(ListCells(L)) + Freed(b).size
<1> DEFINE R == insert_free_block(L, Freed(b))
<1>1. /\ ListOK(L, G) /\ GrantOK(b, G)
      /\ \A c \in B : GrantOK(c, G)
      /\ \A c, d \in B : c # d => Extent(c) \cap Extent(d) = {}
      /\ \A c \in B : Extent(c) \cap ListCells(L) = {}
      /\ ListCells(L) \cup UNION {Extent(c) : c \in B} = Pool
  BY DEF RegionsOK
<1>2. /\ BlockOK(Freed(b), G) /\ BlockCells(Freed(b)) = Extent(b)
      /\ Freed(b).size = b.size /\ Cardinality(Extent(b)) = b.size
      /\ b.size \in Nat
  BY <1>1, FreedBlock
<1>3. ListOK(R, G) /\ ListCells(R) = ListCells(L) \cup Extent(b)
  <2>1. \A c \in BlockCells(Freed(b)) : c \notin ListCells(L)
    BY <1>1, <1>2
  <2>2. QED
    BY <1>1, <1>2, <2>1, InsertOK
<1> HIDE DEF R
<1>4. \A c \in B \ {b} : Extent(c) \cap ListCells(R) = {}
  BY <1>1, <1>3
<1>5. ListCells(R) \cup UNION {Extent(c) : c \in B \ {b}} = Pool
  BY <1>1, <1>3
<1>6. RegionsOK(R, B \ {b}, G)
  BY <1>1, <1>3, <1>4, <1>5 DEF RegionsOK
<1>7. Cardinality(ListCells(R)) = Cardinality(ListCells(L)) + Freed(b).size
  <2>1. IsFiniteSet(ListCells(L)) /\ IsFiniteSet(ListCells(R))
    BY <1>1, <1>3, CellsInPool
  <2>2. IsFiniteSet(Extent(b)) /\ ListCells(L) \cap Extent(b) = {}
    BY <2>1, <1>1, <1>3, FS_Subset
  <2>3. Cardinality(ListCells(L) \cup Extent(b)) =
          Cardinality(ListCells(L)) + Cardinality(Extent(b)) - Cardinality(ListCells(L) \cap Extent(b))
    BY <2>1, <2>2, FS_Union
  <2>4. Cardinality(ListCells(L) \cap Extent(b)) = 0
    BY <2>2, FS_EmptySet
  <2>5. Cardinality(ListCells(L)) \in Nat
    BY <2>1, FS_CardinalityType
  <2>6. QED
    BY <1>2, <1>3, <2>3, <2>4, <2>5
<1>8. QED
  BY <1>3, <1>6, <1>7 DEF R

\* What a request takes, when every request takes whole grains.
LEMMA RequestSize ==
  ASSUME NEW G, WellSized(G), NEW need \in Requests, NEW align \in Aligns \cup {RuntimeAlign}
  PROVE  /\ G \in Nat \ {0} /\ H <= G /\ H \in Nat /\ need \in Nat /\ align \in Nat \ {0}
         /\ AllocSize(need, align) \in Nat /\ AllocSize(need, align) % G = 0
         /\ AllocSize(need, align) >= need + H /\ AllocSize(need, align) > H
<1>1. G \in Nat \ {0} /\ H <= G /\ H \in Nat
  BY HeapAssumption DEF WellSized
<1>2. need \in Nat /\ need > 0 /\ align \in Nat \ {0}
  BY HeapAssumption DEF WellSized
<1>3. need + H \in Nat
  BY <1>1, <1>2
<1>4. AllocSize(need, align) \in Nat /\ AllocSize(need, align) >= need + H
  BY <1>2, <1>3, AlignUp DEF AllocSize
<1>5. AllocSize(need, align) % G = 0
  BY DEF WellSized
<1>6. AllocSize(need, align) > H
  BY <1>1, <1>2, <1>4
<1>7. QED
  BY <1>1, <1>2, <1>4, <1>5, <1>6

\* What taking a block does to the division of the pool.
LEMMA TakeRegions ==
  ASSUME NEW G, WellSized(G), NEW L, NEW B, RegionsOK(L, B, G),
         NEW need \in Requests, NEW align \in Aligns \cup {RuntimeAlign},
         Fitting(L, AllocSize(need, align)) # {}
  PROVE  LET n == AllocSize(need, align)
             R == allocate_tactic(L, n)
             nb == Allocated(L, need, align)
         IN  /\ RegionsOK(R, B \cup {nb}, G)
             /\ nb \notin B /\ nb.size = n /\ nb.need = need
             /\ Extent(nb) \subseteq ListCells(L)
             /\ ListCells(R) = ListCells(L) \ Extent(nb)
             /\ Cardinality(ListCells(R)) = Cardinality(ListCells(L)) - n
<1> DEFINE n == AllocSize(need, align)
           R == allocate_tactic(L, n)
           nb == Allocated(L, need, align)
           k == FirstFit(L, n)
<1>1. /\ G \in Nat \ {0} /\ H <= G /\ H \in Nat /\ need \in Nat /\ align \in Nat \ {0}
      /\ n \in Nat /\ n % G = 0 /\ n >= need + H /\ n > H
  BY RequestSize
<1>2. /\ ListOK(L, G)
      /\ \A c \in B : GrantOK(c, G)
      /\ \A c, d \in B : c # d => Extent(c) \cap Extent(d) = {}
      /\ \A c \in B : Extent(c) \cap ListCells(L) = {}
      /\ ListCells(L) \cup UNION {Extent(c) : c \in B} = Pool
  BY DEF RegionsOK
<1>3. nb = [addr |-> align_of(L[k].addr, align), size |-> n,
            fill |-> align_of(L[k].addr, align) - L[k].addr, need |-> need]
  BY DEF Allocated
<1>4. Fitting(L, n) # {}
  OBVIOUS
<1> HIDE DEF n
<1>5. /\ k \in 1..Len(L) /\ BlockOK(L[k], G) /\ L[k].size > n
      /\ ListOK(R, G)
      /\ Cells(L[k].addr, n) \subseteq ListCells(L)
      /\ ListCells(R) = ListCells(L) \ Cells(L[k].addr, n)
  BY <1>1, <1>2, <1>4, TakeOK
<1> HIDE DEF nb, k, R
<1>6. /\ L[k].addr \in Int /\ L[k].size \in Int /\ FirstAddr <= L[k].addr
      /\ L[k].addr + L[k].size <= TailAddr
      /\ (L[k].addr - FirstAddr) % G = 0
  BY <1>5 DEF BlockOK, Block, End
<1>7. L[k].addr \in FirstAddr..TailAddr
  BY <1>1, <1>5, <1>6, SentinelTypes
<1>8. align_of(L[k].addr, align) = L[k].addr
  BY <1>6, <1>7 DEF WellSized
<1>9. nb = [addr |-> L[k].addr, size |-> n, fill |-> 0, need |-> need]
  BY <1>3, <1>6, <1>8
<1>10. nb.addr = L[k].addr /\ nb.size = n /\ nb.fill = 0 /\ nb.need = need
  BY <1>9
<1>11. nb \in Grants
  BY <1>1, <1>6, <1>9 DEF Grants
<1>12. n >= G
  <2>1. n \in Int /\ n > 0
    BY <1>1
  <2>2. QED
    BY <1>1, <2>1, MultipleAtLeast
<1>13. GrantOK(nb, G)
  <2> DEFINE x == [addr |-> nb.addr, size |-> nb.size]
  <2>1. x \in Block /\ x.addr = L[k].addr /\ x.size = n /\ End(x) = L[k].addr + n
    BY <1>1, <1>6, <1>10 DEF Block, End
  <2> HIDE DEF x
  <2>2. End(x) <= TailAddr
    BY <1>1, <1>5, <1>6, <2>1, SentinelTypes
  <2>3. BlockOK(x, G)
    BY <1>1, <1>6, <1>12, <2>1, <2>2 DEF BlockOK
  <2>4. H + nb.need <= nb.size
    BY <1>1, <1>10
  <2>5. QED
    BY <1>10, <1>11, <2>3, <2>4 DEF GrantOK, x
<1>14. /\ Extent(nb) = Cells(L[k].addr, n) /\ nb.addr \in Extent(nb)
       /\ Cardinality(Extent(nb)) = n
  BY <1>1, <1>10, <1>13, FreedBlock
<1>15. Extent(nb) \subseteq ListCells(L) /\ ListCells(R) = ListCells(L) \ Extent(nb)
  BY <1>5, <1>14
<1>16. nb \notin B
  BY <1>2, <1>14, <1>15
<1>17. \A c, d \in B \cup {nb} : c # d => Extent(c) \cap Extent(d) = {}
  BY <1>2, <1>15
<1>18. \A c \in B \cup {nb} : Extent(c) \cap ListCells(R) = {}
  BY <1>2, <1>15
<1>19. ListCells(R) \cup UNION {Extent(c) : c \in B \cup {nb}} = Pool
  BY <1>2, <1>15
<1>20. RegionsOK(R, B \cup {nb}, G)
  BY <1>2, <1>5, <1>13, <1>17, <1>18, <1>19 DEF RegionsOK
<1>21. Cardinality(ListCells(R)) = Cardinality(ListCells(L)) - n
  <2>1. IsFiniteSet(ListCells(L))
    BY <1>2, CellsInPool
  <2>2. Cardinality(ListCells(L) \ Extent(nb)) =
          Cardinality(ListCells(L)) - Cardinality(ListCells(L) \cap Extent(nb))
    BY <2>1, FS_Difference
  <2>3. ListCells(L) \cap Extent(nb) = Extent(nb)
    BY <1>15
  <2>4. QED
    BY <1>14, <1>15, <2>2, <2>3
<1>22. QED
  BY <1>10, <1>15, <1>16, <1>20, <1>21 DEF n, R, nb

--------------------------------------------------------------------------------
(* The inductive invariant.                                                    *)

CountsOK == alloc_count \in 0..(CountMod - 1) /\ free_count \in 0..(CountMod - 1)

IInv(G) ==
  /\ RegionsOK(free, live, G)
  /\ cur_free_size = Cardinality(FreeCells)
  /\ free_highwatermark \in Nat /\ free_highwatermark <= cur_free_size
  /\ CountsOK

\* heap_init_impl establishes the invariant.
LEMMA IInvInit ==
  ASSUME NEW G, WellSized(G), Init PROVE IInv(G)
<1> DEFINE x == [addr |-> FirstAddr, size |-> FirstSize]
<1>1. /\ free = <<x>> /\ live = {} /\ cur_free_size = FirstSize
      /\ free_highwatermark = FirstSize /\ alloc_count = 0 /\ free_count = 0
  BY DEF Init, heap_init_impl
<1>2. /\ FirstAddr \in Int /\ TailAddr \in Int /\ FirstSize \in Nat /\ FirstSize > 0
      /\ FirstAddr + FirstSize = TailAddr
  BY SentinelTypes, HeapAssumption DEF FirstSize
<1>3. G \in Nat \ {0} /\ FirstSize % G = 0
  BY HeapAssumption DEF WellSized
<1>4. FirstSize >= G
  BY <1>2, <1>3, MultipleAtLeast
<1>5. x \in Block /\ x.addr = FirstAddr /\ x.size = FirstSize /\ End(x) = TailAddr
  BY <1>2 DEF Block, End
<1>6. (FirstAddr - FirstAddr) % G = 0
  BY <1>2, <1>3
<1> HIDE DEF x
<1>7. BlockOK(x, G)
  BY <1>2, <1>3, <1>4, <1>5, <1>6 DEF BlockOK
<1>8. free \in Seq(Block) /\ DOMAIN free = {1} /\ free[1] = x
  BY <1>1, <1>5
<1>9. ListOK(free, G)
  BY <1>7, <1>8 DEF ListOK
<1>10. FreeCells = Pool
  BY <1>5, <1>8 DEF FreeCells, ListCells, Pool
<1>11. RegionsOK(free, live, G)
  BY <1>1, <1>9, <1>10 DEF RegionsOK, FreeCells
<1>12. Cardinality(Pool) = FirstSize
  BY <1>2, CellsCardinality DEF Pool
<1>13. CountsOK
  BY <1>1, HeapAssumption DEF CountsOK
<1>14. QED
  BY <1>1, <1>2, <1>10, <1>11, <1>12, <1>13 DEF IInv

\* heap_allocate_impl keeps the invariant and takes exactly the extent of the new
\* block from the free list.
LEMMA AllocateStep ==
  ASSUME NEW G, WellSized(G), IInv(G), NEW need \in Requests, NEW align \in Aligns,
         heap_allocate_impl(need, align)
  PROVE  /\ IInv(G)'
         /\ \E nb : /\ nb \notin live /\ live' = live \cup {nb}
                    /\ Extent(nb) \subseteq FreeCells
                    /\ FreeCells' = FreeCells \ Extent(nb)
                    /\ GrantOK(nb, G)
                    /\ cur_free_size' = cur_free_size - nb.size
                    /\ free_highwatermark' = Lowest(free_highwatermark, cur_free_size - nb.size)
<1> DEFINE n == AllocSize(need, align)
           R == allocate_tactic(free, n)
           nb == Allocated(free, need, align)
<1>1. /\ Fitting(free, n) # {}
      /\ free' = R /\ live' = live \cup {nb}
      /\ cur_free_size' = cur_free_size - n
      /\ free_highwatermark' = Lowest(free_highwatermark, cur_free_size - n)
      /\ alloc_count' = Bump(alloc_count) /\ free_count' = free_count
  BY DEF heap_allocate_impl, CanAllocate
<1>2. /\ RegionsOK(free, live, G)
      /\ cur_free_size = Cardinality(ListCells(free))
      /\ free_highwatermark \in Nat /\ free_highwatermark <= cur_free_size
      /\ CountsOK
  BY DEF IInv, FreeCells
<1>3. align \in Aligns \cup {RuntimeAlign}
  OBVIOUS
<1>4. /\ RegionsOK(R, live \cup {nb}, G)
      /\ nb \notin live /\ nb.size = n
      /\ Extent(nb) \subseteq ListCells(free)
      /\ ListCells(R) = ListCells(free) \ Extent(nb)
      /\ Cardinality(ListCells(R)) = Cardinality(ListCells(free)) - n
  BY <1>1, <1>2, <1>3, TakeRegions
<1>5. n \in Nat
  BY <1>3, RequestSize
<1> HIDE DEF n, R, nb
<1>6. GrantOK(nb, G)
  BY <1>4 DEF RegionsOK
<1>7. IsFiniteSet(ListCells(R)) /\ IsFiniteSet(ListCells(free))
  BY <1>2, <1>4, CellsInPool DEF RegionsOK
<1>8. cur_free_size' \in Nat /\ cur_free_size \in Nat /\ cur_free_size' = Cardinality(ListCells(R))
  BY <1>1, <1>2, <1>4, <1>7, FS_CardinalityType
<1>9. free_highwatermark' \in Nat /\ free_highwatermark' <= cur_free_size'
  BY <1>1, <1>2, <1>8 DEF Lowest
<1>10. CountsOK'
  BY <1>1, <1>2, HeapAssumption DEF CountsOK, Bump
<1>11. IInv(G)'
  BY <1>1, <1>4, <1>8, <1>9, <1>10 DEF IInv, FreeCells
<1>12. QED
  BY <1>1, <1>4, <1>6, <1>11 DEF FreeCells

\* heap_free_impl keeps the invariant and returns exactly the extent of the block.
LEMMA FreeStep ==
  ASSUME NEW G, WellSized(G), IInv(G), NEW b \in live, heap_free_impl(b)
  PROVE  /\ IInv(G)'
         /\ live' = live \ {b}
         /\ FreeCells' = FreeCells \cup Extent(b)
         /\ free_highwatermark' = free_highwatermark
<1> DEFINE R == insert_free_block(free, Freed(b))
<1>1. /\ free' = R /\ live' = live \ {b}
      /\ cur_free_size' = cur_free_size + Freed(b).size
      /\ free_highwatermark' = free_highwatermark
      /\ free_count' = Bump(free_count) /\ alloc_count' = alloc_count
  BY DEF heap_free_impl
<1>2. /\ RegionsOK(free, live, G)
      /\ cur_free_size = Cardinality(ListCells(free))
      /\ free_highwatermark \in Nat /\ free_highwatermark <= cur_free_size
      /\ CountsOK
  BY DEF IInv, FreeCells
<1>3. G \in Nat \ {0}
  BY HeapAssumption DEF WellSized
<1>4. /\ RegionsOK(R, live \ {b}, G)
      /\ ListCells(R) = ListCells(free) \cup Extent(b)
      /\ Cardinality(ListCells(R)) = Cardinality(ListCells(free)) + Freed(b).size
  BY <1>2, <1>3, ReturnRegions
<1> HIDE DEF R
<1>5. Freed(b).size \in Nat
  BY <1>2, <1>3, FreedBlock DEF RegionsOK
<1>6. IsFiniteSet(ListCells(free))
  BY <1>2, CellsInPool DEF RegionsOK
<1>7. cur_free_size \in Nat
  BY <1>2, <1>6, FS_CardinalityType
<1>8. free_highwatermark' \in Nat /\ free_highwatermark' <= cur_free_size'
  BY <1>1, <1>2, <1>5, <1>7
<1>9. CountsOK'
  BY <1>1, <1>2, HeapAssumption DEF CountsOK, Bump
<1>10. cur_free_size' = Cardinality(ListCells(R))
  BY <1>1, <1>2, <1>4
<1>11. IInv(G)'
  BY <1>1, <1>4, <1>8, <1>9, <1>10 DEF IInv, FreeCells
<1>12. QED
  BY <1>1, <1>4, <1>11 DEF FreeCells

\* heap_re_allocate_impl keeps the invariant: it takes a new block before the old
\* one comes back.
LEMMA ReallocateStep ==
  ASSUME NEW G, WellSized(G), IInv(G), NEW b \in live, NEW need \in Requests,
         heap_re_allocate_impl(b, need)
  PROVE  /\ IInv(G)'
         /\ \E nb : /\ nb \notin live /\ live' = (live \ {b}) \cup {nb}
                    /\ Extent(nb) \subseteq FreeCells
                    /\ FreeCells' = (FreeCells \ Extent(nb)) \cup Extent(b)
                    /\ GrantOK(nb, G)
                    /\ cur_free_size - nb.size <= cur_free_size'
                    /\ free_highwatermark' = Lowest(free_highwatermark, cur_free_size - nb.size)
<1> DEFINE n == AllocSize(need, RuntimeAlign)
           T == allocate_tactic(free, n)
           nb == Allocated(free, need, RuntimeAlign)
           R == insert_free_block(T, Freed(b))
<1>1. /\ Fitting(free, n) # {}
      /\ free' = R /\ live' = (live \ {b}) \cup {nb}
      /\ cur_free_size' = cur_free_size - n + Freed(b).size
      /\ free_highwatermark' = Lowest(free_highwatermark, cur_free_size - n)
      /\ alloc_count' = Bump(alloc_count) /\ free_count' = Bump(free_count)
  BY DEF heap_re_allocate_impl, CanAllocate
<1>2. /\ RegionsOK(free, live, G)
      /\ cur_free_size = Cardinality(ListCells(free))
      /\ free_highwatermark \in Nat /\ free_highwatermark <= cur_free_size
      /\ CountsOK
  BY DEF IInv, FreeCells
<1>3. RuntimeAlign \in Aligns \cup {RuntimeAlign} /\ G \in Nat \ {0}
  BY HeapAssumption DEF WellSized
<1>4. /\ RegionsOK(T, live \cup {nb}, G)
      /\ nb \notin live /\ nb.size = n
      /\ Extent(nb) \subseteq ListCells(free)
      /\ ListCells(T) = ListCells(free) \ Extent(nb)
      /\ Cardinality(ListCells(T)) = Cardinality(ListCells(free)) - n
  BY <1>1, <1>2, <1>3, TakeRegions
<1>5. n \in Nat
  BY <1>3, RequestSize
<1> HIDE DEF n, T, nb
<1>6. /\ RegionsOK(R, (live \cup {nb}) \ {b}, G)
      /\ ListCells(R) = ListCells(T) \cup Extent(b)
      /\ Cardinality(ListCells(R)) = Cardinality(ListCells(T)) + Freed(b).size
  <2>1. b \in live \cup {nb}
    OBVIOUS
  <2> DEFINE B == live \cup {nb}
  <2> HIDE DEF B
  <2>2. RegionsOK(T, B, G) /\ b \in B
    BY <1>4, <2>1 DEF B
  <2>3. /\ RegionsOK(R, B \ {b}, G)
        /\ ListCells(R) = ListCells(T) \cup Extent(b)
        /\ Cardinality(ListCells(R)) = Cardinality(ListCells(T)) + Freed(b).size
    BY <1>3, <2>2, ReturnRegions
  <2>4. QED
    BY <2>3 DEF B
<1> HIDE DEF R
<1>7. (live \cup {nb}) \ {b} = live'
  BY <1>1, <1>4
<1>8. GrantOK(nb, G)
  BY <1>4 DEF RegionsOK
<1>9. Freed(b).size \in Nat
  BY <1>2, <1>3, FreedBlock DEF RegionsOK
<1>10. IsFiniteSet(ListCells(T)) /\ IsFiniteSet(ListCells(free))
  BY <1>2, <1>4, CellsInPool DEF RegionsOK
<1>11. cur_free_size - n \in Nat /\ cur_free_size \in Nat
  BY <1>2, <1>4, <1>10, FS_CardinalityType
<1>12. cur_free_size' = Cardinality(ListCells(R))
  BY <1>1, <1>2, <1>4, <1>6
<1>13. free_highwatermark' \in Nat /\ free_highwatermark' <= cur_free_size'
  BY <1>1, <1>2, <1>9, <1>11 DEF Lowest
<1>14. CountsOK'
  BY <1>1, <1>2, HeapAssumption DEF CountsOK, Bump
<1>15. IInv(G)'
  BY <1>1, <1>6, <1>7, <1>12, <1>13, <1>14 DEF IInv, FreeCells
<1>16. cur_free_size - nb.size <= cur_free_size'
  BY <1>1, <1>4, <1>9, <1>11
<1>17. QED
  BY <1>1, <1>4, <1>6, <1>8, <1>15, <1>16 DEF FreeCells

\* The invariant that all theorems on the heap rest on.
THEOREM HeapInductive ==
  ASSUME NEW G, WellSized(G)
  PROVE  Spec => []IInv(G)
<1>1. Init => IInv(G)
  BY IInvInit
<1>2. IInv(G) /\ [Next]_vars => IInv(G)'
  <2> SUFFICES ASSUME IInv(G), [Next]_vars PROVE IInv(G)'
    OBVIOUS
  <2>1. ASSUME NEW need \in Requests, NEW align \in Aligns, heap_allocate_impl(need, align)
        PROVE  IInv(G)'
    BY <2>1, AllocateStep
  <2>2. ASSUME NEW b \in live, heap_free_impl(b) PROVE IInv(G)'
    BY <2>2, FreeStep
  <2>3. ASSUME NEW b \in live, NEW need \in Requests, heap_re_allocate_impl(b, need)
        PROVE  IInv(G)'
    BY <2>3, ReallocateStep
  <2>4. CASE UNCHANGED vars
    BY <2>4 DEF IInv, vars, CountsOK, FreeCells
  <2>5. QED
    BY <2>1, <2>2, <2>3, <2>4 DEF Next
<1>3. QED
  BY <1>1, <1>2, PTL DEF Spec

--------------------------------------------------------------------------------
(* The properties, from the invariant.                                         *)

\* A sequence whose elements all lie in T is a sequence over T.
LEMMA SeqOfSmaller ==
  ASSUME NEW S, NEW T, NEW s \in Seq(S), \A i \in DOMAIN s : s[i] \in T
  PROVE  s \in Seq(T)
OBVIOUS

\* What IInv says of one list entry and of one allocated block.
LEMMA EntryFacts ==
  ASSUME NEW G, WellSized(G), IInv(G)
  PROVE  /\ free \in Seq(Block)
         /\ \A i \in DOMAIN free :
              /\ free[i].addr \in Int /\ free[i].size \in Int
              /\ FirstAddr <= free[i].addr /\ free[i].addr + free[i].size <= TailAddr
              /\ free[i].size >= H /\ free[i].size > 0
         /\ \A b \in live :
              /\ b \in Grants /\ b.fill = 0
              /\ b.addr \in Int /\ b.size \in Int
              /\ FirstAddr <= b.addr /\ b.addr + b.size <= TailAddr
              /\ H + b.need <= b.size /\ b.size > 0 /\ b.need \in Requests
              /\ Extent(b) = Cells(b.addr, b.size) /\ b.addr \in Extent(b)
<1>1. RegionsOK(free, live, G) /\ ListOK(free, G)
  BY DEF IInv, RegionsOK
<1>2. G \in Nat \ {0} /\ G >= H /\ H \in Nat
  BY HeapAssumption DEF WellSized
<1>3. ASSUME NEW i \in DOMAIN free
      PROVE  /\ free[i].addr \in Int /\ free[i].size \in Int
             /\ FirstAddr <= free[i].addr /\ free[i].addr + free[i].size <= TailAddr
             /\ free[i].size >= H /\ free[i].size > 0
  <2>1. BlockOK(free[i], G)
    BY <1>1 DEF ListOK
  <2>2. QED
    BY <1>2, <2>1 DEF BlockOK, Block, End
<1>4. ASSUME NEW b \in live
      PROVE  /\ b \in Grants /\ b.fill = 0
             /\ b.addr \in Int /\ b.size \in Int
             /\ FirstAddr <= b.addr /\ b.addr + b.size <= TailAddr
             /\ H + b.need <= b.size /\ b.size > 0 /\ b.need \in Requests
             /\ Extent(b) = Cells(b.addr, b.size) /\ b.addr \in Extent(b)
  <2>1. GrantOK(b, G)
    BY <1>1 DEF RegionsOK
  <2>2. Extent(b) = Cells(b.addr, b.size) /\ b.addr \in Extent(b)
    BY <1>2, <2>1, FreedBlock
  <2>3. b \in Grants /\ b.fill = 0 /\ H + b.need <= b.size
    BY <2>1 DEF GrantOK
  <2>4. b.addr \in Int /\ b.size \in Int /\ b.need \in Requests
    BY <2>3 DEF Grants
  <2> DEFINE x == [addr |-> b.addr, size |-> b.size]
  <2>5. BlockOK(x, G) /\ x.addr = b.addr /\ x.size = b.size
    BY <2>1 DEF GrantOK
  <2> HIDE DEF x
  <2>6. FirstAddr <= b.addr /\ b.addr + b.size <= TailAddr /\ b.size > 0
    BY <1>2, <2>4, <2>5 DEF BlockOK, End
  <2>7. QED
    BY <2>2, <2>3, <2>4, <2>6
<1>5. QED
  BY <1>1, <1>3, <1>4 DEF ListOK

\* Every variable has its type, for every well-sized heap.
THEOREM HeapTypes ==
  ASSUME NEW G, WellSized(G)
  PROVE  Spec => []TypeOK
<1>1. IInv(G) => TypeOK
  <2> SUFFICES ASSUME IInv(G) PROVE TypeOK
    OBVIOUS
  <2>1. H \in Nat /\ H > 0 /\ FirstAddr \in Nat /\ TailAddr \in Int /\ FirstSize = TailAddr - FirstAddr
    BY HeapAssumption, SentinelTypes DEF FirstSize
  <2>2. ASSUME NEW i \in DOMAIN free
        PROVE  free[i] \in [addr : FirstAddr..TailAddr, size : 1..FirstSize]
    <3>1. free[i] \in Block
      BY EntryFacts
    <3>2. free[i].addr \in FirstAddr..TailAddr /\ free[i].size \in 1..FirstSize
      BY <2>1, EntryFacts
    <3>3. QED
      BY <3>1, <3>2 DEF Block
  <2>3. free \in Seq([addr : FirstAddr..TailAddr, size : 1..FirstSize])
    <3> DEFINE T == [addr : FirstAddr..TailAddr, size : 1..FirstSize]
    <3>1. free \in Seq(Block) /\ \A i \in DOMAIN free : free[i] \in T
      BY <2>2, EntryFacts
    <3> HIDE DEF T
    <3>2. free \in Seq(T)
      BY <3>1, SeqOfSmaller
    <3>3. QED
      BY <3>2 DEF T
  <2>4. ASSUME NEW b \in live
        PROVE  b \in [addr : FirstAddr..TailAddr, size : Nat, fill : Nat, need : Requests]
    <3>1. b \in Grants /\ b.fill = 0
      BY EntryFacts
    <3>2. b.addr \in FirstAddr..TailAddr /\ b.size \in Nat
      BY <2>1, EntryFacts
    <3>3. QED
      BY <3>1, <3>2 DEF Grants
  <2>5. cur_free_size \in Nat
    BY CellsInPool, FS_CardinalityType DEF IInv, RegionsOK, FreeCells
  <2>6. QED
    BY <2>3, <2>4, <2>5 DEF TypeOK, IInv, CountsOK
<1>2. QED
  BY <1>1, HeapInductive, PTL

\* The free list of a well-sized heap stays sorted and merged.
THEOREM HeapCoalesced ==
  ASSUME NEW G, WellSized(G)
  PROVE  Spec => []Coalesced
<1>1. IInv(G) => Coalesced
  BY DEF IInv, RegionsOK, ListOK, Coalesced
<1>2. QED
  BY <1>1, HeapInductive, PTL

\* The free-size counter of a well-sized heap counts the cells of the free list.
THEOREM HeapFreeSizeExact ==
  ASSUME NEW G, WellSized(G)
  PROVE  Spec => []FreeSizeExact
<1>1. IInv(G) => FreeSizeExact
  BY DEF IInv, FreeSizeExact
<1>2. QED
  BY <1>1, HeapInductive, PTL

\* In a well-sized heap nothing the allocator or a caller writes touches the
\* memory, the header or the sentinel of another.
THEOREM HeapNoOverlap ==
  ASSUME NEW G, WellSized(G)
  PROVE  Spec => []NoOverlap
<1>1. IInv(G) => NoOverlap
  <2> SUFFICES ASSUME IInv(G) PROVE NoOverlap
    OBVIOUS
  <2>1. H \in Nat /\ H > 0 /\ FirstAddr \in Nat /\ TailAddr \in Int /\ FirstSize = TailAddr - FirstAddr
    BY HeapAssumption, SentinelTypes DEF FirstSize
  <2>2. \A c : c \in Pool <=> c \in Int /\ FirstAddr <= c /\ c < TailAddr
    BY <2>1 DEF Pool, Cells
  <2>3. RegionsOK(free, live, G)
    BY DEF IInv
  <2>4. ASSUME NEW i \in DOMAIN free
        PROVE  /\ Cells(free[i].addr, H) \subseteq Pool
               /\ Cells(free[i].addr, H) \subseteq ListCells(free)
    <3>1. Cells(free[i].addr, H) \subseteq Cells(free[i].addr, free[i].size)
      BY <2>1, EntryFacts DEF Cells
    <3>2. Cells(free[i].addr, free[i].size) \subseteq ListCells(free)
      BY DEF ListCells
    <3>3. ListCells(free) \subseteq Pool
      BY <2>3, CellsInPool DEF RegionsOK
    <3>4. QED
      BY <3>1, <3>2, <3>3
  <2>5. ASSUME NEW i \in DOMAIN free, NEW j \in DOMAIN free, i < j
        PROVE  Cells(free[i].addr, H) \cap Cells(free[j].addr, H) = {}
    <3>1. End(free[i]) < free[j].addr
      BY <2>3, <2>5 DEF RegionsOK, ListOK
    <3>2. free[i].addr + H <= free[j].addr
      BY <2>1, <3>1, EntryFacts DEF End
    <3>3. QED
      BY <2>1, <3>2, EntryFacts DEF Cells
  <2>6. \A i, j \in DOMAIN free :
          i # j => Cells(free[i].addr, H) \cap Cells(free[j].addr, H) = {}
    <3>1. \A i, j \in DOMAIN free : i # j => i < j \/ j < i
      BY EntryFacts, SeqDomain
    <3>2. QED
      BY <2>5, <3>1
  <2>7. ASSUME NEW b \in live
        PROVE  Used(b) \subseteq Extent(b) /\ Used(b) \subseteq Pool
    <3>1. /\ b.need \in Nat /\ b.addr \in Int /\ b.size \in Int /\ H + b.need <= b.size
          /\ FirstAddr <= b.addr /\ b.addr + b.size <= TailAddr
      BY EntryFacts, HeapAssumption
    <3>2. Used(b) \subseteq Cells(b.addr, b.size)
      BY <2>1, <3>1 DEF Used, Cells
    <3>3. \A c \in Cells(b.addr, b.size) : c \in Pool
      BY <2>1, <2>2, <3>1 DEF Cells
    <3>4. QED
      BY <3>2, <3>3, EntryFacts
  <2>8. \A b, c \in live : b # c => Extent(b) \cap Extent(c) = {}
    BY <2>3 DEF RegionsOK
  <2>9. \A b \in live : Extent(b) \cap ListCells(free) = {}
    BY <2>3 DEF RegionsOK
  <2>10. TailAddr + H <= MemStart + MemSize
    BY DEF WellSized
  <2>11. \A b \in live : \A c \in live \ {b} : Used(b) \cap Used(c) = {}
    BY <2>7, <2>8
  <2>12. \A b \in live : \A i \in DOMAIN free : Used(b) \cap Cells(free[i].addr, H) = {}
    BY <2>4, <2>7, <2>9
  <2>13. QED
    BY <2>4, <2>6, <2>7, <2>10, <2>11, <2>12 DEF NoOverlap
<1>2. QED
  BY <1>1, HeapInductive, PTL

\* When everything is freed a well-sized heap is as heap_init_impl left it.
THEOREM HeapAllFreedRestoresPool ==
  ASSUME NEW G, WellSized(G)
  PROVE  Spec => []AllFreedRestoresPool
<1>1. IInv(G) => AllFreedRestoresPool
  <2> SUFFICES ASSUME IInv(G), live = {}
               PROVE  free = <<[addr |-> FirstAddr, size |-> FirstSize]>>
    BY DEF AllFreedRestoresPool
  <2>1. /\ FirstAddr \in Nat /\ TailAddr \in Int /\ FirstSize = TailAddr - FirstAddr
        /\ FirstAddr < TailAddr
    BY HeapAssumption, SentinelTypes DEF FirstSize
  <2>2. \A c : c \in Pool <=> c \in Int /\ FirstAddr <= c /\ c < TailAddr
    BY <2>1 DEF Pool, Cells
  <2>3. ListCells(free) = Pool
    BY DEF IInv, RegionsOK
  <2>4. /\ free \in Seq(Block) /\ Len(free) \in Nat /\ DOMAIN free = 1..Len(free)
        /\ \A i \in 1..Len(free) : free[i] \in Block
    BY EntryFacts, SeqDomain
  <2> DEFINE m == Len(free)
             lo(i) == free[i].addr
             hi(i) == free[i].addr + free[i].size
  <2>5. /\ m \in Nat /\ DOMAIN free = 1..m
        /\ \A i \in 1..m : /\ lo(i) \in Int /\ hi(i) \in Int
                           /\ FirstAddr <= lo(i) /\ hi(i) <= TailAddr /\ lo(i) < hi(i)
    BY <2>4, EntryFacts
  <2>6. \A i, j \in 1..m : i < j => hi(i) < lo(j)
    BY <2>4 DEF IInv, RegionsOK, ListOK, End
  <2>7. \A c \in Pool : \E i \in 1..m : lo(i) <= c /\ c < hi(i)
    BY <2>3, <2>4, InListCells DEF End
  <2> HIDE DEF m, lo, hi
  <2>8. PICK i \in 1..m : lo(i) <= FirstAddr /\ FirstAddr < hi(i)
    BY <2>1, <2>2, <2>7
  <2>9. lo(i) = FirstAddr
    BY <2>1, <2>5, <2>8
  <2>10. hi(i) = TailAddr
    <3> SUFFICES ASSUME hi(i) # TailAddr PROVE FALSE
      OBVIOUS
    <3>1. hi(i) \in Pool
      <4>1. hi(i) \in Int /\ hi(i) <= TailAddr /\ FirstAddr < hi(i)
        BY <2>5, <2>8
      <4>2. hi(i) < TailAddr /\ FirstAddr <= hi(i)
        BY <2>1, <4>1
      <4>3. QED
        BY <2>2, <4>1, <4>2
    <3>2. PICK j \in 1..m : lo(j) <= hi(i) /\ hi(i) < hi(j)
      BY <2>7, <3>1
    <3>3. j < i \/ i < j \/ i = j
      BY <2>5
    <3>4. QED
      BY <2>5, <2>6, <3>2, <3>3
  <2>11. ASSUME NEW j \in 1..m PROVE j = i
    <3>1. j < i \/ i < j \/ i = j
      BY <2>5
    <3>2. QED
      BY <2>1, <2>5, <2>6, <2>9, <2>10, <3>1
  <2>12. m = 1 /\ i = 1
    <3>1. 1 \in 1..m /\ m \in 1..m
      BY <2>5
    <3>2. QED
      BY <2>11, <3>1
  <2>13. free[1] = [addr |-> FirstAddr, size |-> FirstSize]
    <3>1. free[1] \in Block /\ free[1].addr = FirstAddr /\ free[1].addr + free[1].size = TailAddr
      BY <2>4, <2>9, <2>10, <2>12 DEF m, lo, hi
    <3>2. free[1].size = FirstSize
      BY <2>1, <3>1 DEF Block
    <3>3. QED
      BY <3>1, <3>2 DEF Block
  <2>14. QED
    BY <2>4, <2>12, <2>13 DEF m
<1>2. QED
  BY <1>1, HeapInductive, PTL

\* The mark of a well-sized heap only falls, to the free size an allocation left.
THEOREM HeapWatermarkIsLowest ==
  ASSUME NEW G, WellSized(G)
  PROVE  Spec => WatermarkIsLowest
<1> DEFINE A == /\ free_highwatermark' <= free_highwatermark
                /\ free_highwatermark' <= cur_free_size'
                /\ free_highwatermark' < free_highwatermark =>
                     \E b \in live' \ live : free_highwatermark' = cur_free_size - b.size
<1>1. IInv(G) /\ [Next]_vars => [A]_vars
  <2> SUFFICES ASSUME IInv(G), Next PROVE A
    OBVIOUS
  <2>1. cur_free_size \in Nat /\ free_highwatermark \in Nat /\ free_highwatermark <= cur_free_size
    BY CellsInPool, FS_CardinalityType DEF IInv, RegionsOK, FreeCells
  <2>2. ASSUME NEW need \in Requests, NEW align \in Aligns, heap_allocate_impl(need, align)
        PROVE  A
    <3>1. IInv(G)'
      BY <2>2, AllocateStep
    <3>2. PICK nb : /\ nb \notin live /\ live' = live \cup {nb}
                    /\ GrantOK(nb, G)
                    /\ cur_free_size' = cur_free_size - nb.size
                    /\ free_highwatermark' = Lowest(free_highwatermark, cur_free_size - nb.size)
      BY <2>2, AllocateStep
    <3>3. nb.size \in Int /\ nb \in live' \ live
      BY <3>2 DEF GrantOK, Grants
    <3>4. free_highwatermark' <= cur_free_size'
      BY <3>1 DEF IInv
    <3>5. \/ free_highwatermark' = free_highwatermark
          \/ /\ free_highwatermark' = cur_free_size - nb.size
             /\ free_highwatermark' < free_highwatermark
      BY <2>1, <3>2, <3>3 DEF Lowest
    <3>6. QED
      BY <2>1, <3>3, <3>4, <3>5
  <2>3. ASSUME NEW b \in live, heap_free_impl(b)
        PROVE  A
    <3>1. free_highwatermark' = free_highwatermark /\ IInv(G)'
      BY <2>3, FreeStep
    <3>2. free_highwatermark' <= cur_free_size'
      BY <3>1 DEF IInv
    <3>3. QED
      BY <2>1, <3>1, <3>2
  <2>4. ASSUME NEW b \in live, NEW need \in Requests, heap_re_allocate_impl(b, need)
        PROVE  A
    <3>1. IInv(G)'
      BY <2>4, ReallocateStep
    <3>2. PICK nb : /\ nb \notin live /\ live' = (live \ {b}) \cup {nb}
                    /\ GrantOK(nb, G)
                    /\ free_highwatermark' = Lowest(free_highwatermark, cur_free_size - nb.size)
      BY <2>4, ReallocateStep
    <3>3. nb.size \in Int /\ nb \in live' \ live
      BY <3>2 DEF GrantOK, Grants
    <3>4. free_highwatermark' <= cur_free_size'
      BY <3>1 DEF IInv
    <3>5. \/ free_highwatermark' = free_highwatermark
          \/ /\ free_highwatermark' = cur_free_size - nb.size
             /\ free_highwatermark' < free_highwatermark
      BY <2>1, <3>2, <3>3 DEF Lowest
    <3>6. QED
      BY <2>1, <3>3, <3>4, <3>5
  <2>5. QED
    BY <2>2, <2>3, <2>4 DEF Next
<1>2. Spec => []IInv(G)
  BY HeapInductive
<1>3. Spec => [][A]_vars
  BY <1>1, <1>2, PTL DEF Spec
<1>4. QED
  BY <1>3 DEF WatermarkIsLowest

\* The two counters of a well-sized heap always differ by the number of blocks
\* out, modulo the width of a counter.
THEOREM HeapCountsBalance ==
  ASSUME NEW G, WellSized(G)
  PROVE  Spec => []CountsBalance
<1> DEFINE Diff == alloc_count - free_count - Cardinality(live)
           CInv == IsFiniteSet(live) /\ CountsBalance
<1>1. Init => CInv
  <2> SUFFICES ASSUME Init PROVE CInv
    OBVIOUS
  <2>1. live = {} /\ alloc_count = 0 /\ free_count = 0
    BY DEF Init, heap_init_impl
  <2>2. IsFiniteSet(live) /\ Cardinality(live) = 0
    BY <2>1, FS_EmptySet
  <2>3. QED
    BY <2>1, <2>2, HeapAssumption DEF CountsBalance
<1>2. IInv(G) /\ CInv /\ [Next]_vars => CInv'
  <2> SUFFICES ASSUME IInv(G), CInv, [Next]_vars PROVE CInv'
    OBVIOUS
  <2>1. /\ CountMod \in Nat \ {0} /\ CountMod % CountMod = 0
        /\ alloc_count \in 0..(CountMod - 1) /\ free_count \in 0..(CountMod - 1)
    BY HeapAssumption DEF IInv, CountsOK
  <2>2. IsFiniteSet(live) /\ Cardinality(live) \in Nat /\ Diff \in Int /\ Diff % CountMod = 0
    BY <2>1, FS_CardinalityType DEF CountsBalance
  <2>3. ASSUME NEW count \in 0..(CountMod - 1)
        PROVE  Bump(count) = count + 1 \/ Bump(count) = count + 1 - CountMod
    BY <2>1 DEF Bump
  <2>4. (Diff + CountMod) % CountMod = 0 /\ (Diff - CountMod) % CountMod = 0
    <3>1. CountMod \in Int
      BY <2>1
    <3> HIDE DEF Diff
    <3>2. QED
      BY <2>1, <2>2, <3>1, MultipleSum
  <2>5. ASSUME NEW need \in Requests, NEW align \in Aligns, heap_allocate_impl(need, align)
        PROVE  CInv'
    <3>1. PICK nb : nb \notin live /\ live' = live \cup {nb}
      BY <2>5, AllocateStep
    <3>2. IsFiniteSet(live') /\ Cardinality(live') = Cardinality(live) + 1
      BY <2>2, <3>1, FS_AddElement
    <3>3. alloc_count' = Bump(alloc_count) /\ free_count' = free_count
      BY <2>5 DEF heap_allocate_impl
    <3>4. Diff' = Diff \/ Diff' = Diff - CountMod
      BY <2>1, <2>2, <2>3, <3>2, <3>3
    <3>5. QED
      BY <2>2, <2>4, <3>2, <3>4 DEF CountsBalance
  <2>6. ASSUME NEW b \in live, heap_free_impl(b)
        PROVE  CInv'
    <3>1. live' = live \ {b} /\ free_count' = Bump(free_count) /\ alloc_count' = alloc_count
      BY <2>6 DEF heap_free_impl
    <3>2. IsFiniteSet(live') /\ Cardinality(live') = Cardinality(live) - 1
      BY <2>2, <3>1, FS_RemoveElement
    <3>3. Diff' = Diff \/ Diff' = Diff + CountMod
      BY <2>1, <2>2, <2>3, <3>1, <3>2
    <3>4. QED
      BY <2>2, <2>4, <3>2, <3>3 DEF CountsBalance
  <2>7. ASSUME NEW b \in live, NEW need \in Requests, heap_re_allocate_impl(b, need)
        PROVE  CInv'
    <3>1. PICK nb : nb \notin live /\ live' = (live \ {b}) \cup {nb}
      BY <2>7, ReallocateStep
    <3>2. IsFiniteSet(live \ {b}) /\ Cardinality(live \ {b}) = Cardinality(live) - 1
      BY <2>2, FS_RemoveElement
    <3>3. IsFiniteSet(live') /\ Cardinality(live') = Cardinality(live \ {b}) + 1
      BY <3>1, <3>2, FS_AddElement
    <3>4. alloc_count' = Bump(alloc_count) /\ free_count' = Bump(free_count)
      BY <2>7 DEF heap_re_allocate_impl
    <3>5. Cardinality(live') = Cardinality(live)
      BY <2>2, <3>2, <3>3
    <3>6. Diff' = Diff \/ Diff' = Diff - CountMod \/ Diff' = Diff + CountMod
      BY <2>1, <2>2, <2>3, <3>4, <3>5
    <3>7. QED
      BY <2>2, <2>4, <3>3, <3>6 DEF CountsBalance
  <2>8. CASE UNCHANGED vars
    BY <2>8 DEF vars, CountsBalance
  <2>9. QED
    BY <2>5, <2>6, <2>7, <2>8 DEF Next
<1>3. CInv => CountsBalance
  OBVIOUS
<1>4. Spec => []IInv(G)
  BY HeapInductive
<1>5. QED
  BY <1>1, <1>2, <1>3, <1>4, PTL DEF Spec

--------------------------------------------------------------------------------
(* The refinement.                                                             *)

Granted == {Extent(b) : b \in live}

\* The extent of a block is a region of the abstract allocator.
LEMMA ExtentIsRegion ==
  ASSUME NEW G, WellSized(G), NEW b, GrantOK(b, G)
  PROVE  Extent(b) \in Abstract!Regions
<1>1. G \in Nat \ {0}
  BY HeapAssumption DEF WellSized
<1>2. Extent(b) = Cells(b.addr, b.size) /\ b.addr \in Extent(b)
  BY <1>1, FreedBlock
<1> DEFINE x == [addr |-> b.addr, size |-> b.size]
<1>3. BlockOK(x, G) /\ x.addr = b.addr /\ x.size = b.size
  BY DEF GrantOK
<1> HIDE DEF x
<1>4. /\ b.addr \in Int /\ b.size \in Int /\ b.size > 0
      /\ FirstAddr <= b.addr /\ b.addr + b.size <= TailAddr
  BY <1>1, <1>3 DEF BlockOK, Block, End
<1>5. \A c : c \in Pool <=> c \in Int /\ FirstAddr <= c /\ c < TailAddr
  BY SentinelTypes DEF Pool, Cells, FirstSize
<1> DEFINE h == b.addr + b.size - 1
<1>6. h \in Int /\ FirstAddr <= h /\ h < TailAddr /\ b.addr < TailAddr
  BY <1>4, SentinelTypes
<1>7. b.addr \in Pool /\ h \in Pool
  BY <1>4, <1>5, <1>6
<1>8. Extent(b) = b.addr..h /\ Extent(b) # {}
  BY <1>2 DEF Cells
<1> HIDE DEF h
<1>9. QED
  BY <1>7, <1>8 DEF Abstract!Regions

\* Different blocks have different extents, so a set of extents loses exactly the
\* extent of the block that goes.
LEMMA ExtentsApart ==
  ASSUME NEW G, WellSized(G), IInv(G), NEW b \in live
  PROVE  {Extent(c) : c \in live \ {b}} = Granted \ {Extent(b)}
<1>1. \A c \in live : c.addr \in Extent(c)
  BY EntryFacts
<1>2. \A c \in live : c # b => Extent(c) \cap Extent(b) = {}
  BY DEF IInv, RegionsOK
<1>3. \A c \in live : c # b => Extent(c) # Extent(b)
  BY <1>1, <1>2
<1>4. QED
  BY <1>3 DEF Granted

\* A well-sized heap implements the abstract allocator: every operation is a
\* grant, a release or a move of one region.
THEOREM HeapImplementsRegions ==
  ASSUME NEW G, WellSized(G)
  PROVE  Spec => ImplementsRegions
<1>1. Init => Abstract!Init
  <2> SUFFICES ASSUME Init PROVE Abstract!Init
    OBVIOUS
  <2>1. live = {}
    BY DEF Init, heap_init_impl
  <2>2. FreeCells = Pool
    <3>1. IInv(G)
      BY IInvInit
    <3>2. ListCells(free) \cup UNION {Extent(b) : b \in live} = Pool
      BY <3>1 DEF IInv, RegionsOK
    <3>3. UNION {Extent(b) : b \in live} = {}
      BY <2>1
    <3>4. QED
      BY <3>2, <3>3 DEF FreeCells
  <2>3. QED
    BY <2>1, <2>2 DEF Abstract!Init
<1>2. IInv(G) /\ [Next]_vars => [Abstract!Next]_(Abstract!vars)
  <2> SUFFICES ASSUME IInv(G), [Next]_vars
               PROVE  Abstract!Next \/ UNCHANGED <<FreeCells, Granted>>
    BY DEF Abstract!vars, Granted
  <2>1. ASSUME NEW need \in Requests, NEW align \in Aligns, heap_allocate_impl(need, align)
        PROVE  Abstract!Next
    <3>1. PICK nb : /\ live' = live \cup {nb}
                    /\ Extent(nb) \subseteq FreeCells
                    /\ FreeCells' = FreeCells \ Extent(nb)
                    /\ GrantOK(nb, G)
      BY <2>1, AllocateStep
    <3>2. Granted' = Granted \cup {Extent(nb)}
      BY <3>1 DEF Granted
    <3>3. Extent(nb) \in Abstract!Regions
      BY <3>1, ExtentIsRegion
    <3>4. Abstract!Grant(Extent(nb))
      BY <3>1, <3>2 DEF Abstract!Grant, Granted
    <3>5. QED
      BY <3>3, <3>4 DEF Abstract!Next
  <2>2. ASSUME NEW b \in live, heap_free_impl(b)
        PROVE  Abstract!Next
    <3>1. live' = live \ {b} /\ FreeCells' = FreeCells \cup Extent(b)
      BY <2>2, FreeStep
    <3>2. Granted' = Granted \ {Extent(b)}
      BY <3>1, ExtentsApart DEF Granted
    <3>3. Abstract!Release(Extent(b)) /\ Extent(b) \in Granted
      BY <3>1, <3>2 DEF Abstract!Release, Granted
    <3>4. QED
      BY <3>3 DEF Abstract!Next, Granted
  <2>3. ASSUME NEW b \in live, NEW need \in Requests, heap_re_allocate_impl(b, need)
        PROVE  Abstract!Next
    <3>1. PICK nb : /\ live' = (live \ {b}) \cup {nb}
                    /\ Extent(nb) \subseteq FreeCells
                    /\ FreeCells' = (FreeCells \ Extent(nb)) \cup Extent(b)
                    /\ GrantOK(nb, G)
      BY <2>3, ReallocateStep
    <3>2. Granted' = {Extent(c) : c \in live \ {b}} \cup {Extent(nb)}
      BY <3>1 DEF Granted
    <3>3. Granted' = (Granted \ {Extent(b)}) \cup {Extent(nb)}
      BY <3>2, ExtentsApart
    <3>4. Extent(nb) \in Abstract!Regions /\ Extent(b) \in Granted
      BY <3>1, ExtentIsRegion DEF Granted
    <3>5. Abstract!Move(Extent(b), Extent(nb))
      BY <3>1, <3>3 DEF Abstract!Move, Granted
    <3>6. QED
      BY <3>4, <3>5 DEF Abstract!Next, Granted
  <2>4. CASE UNCHANGED vars
    BY <2>4 DEF vars, FreeCells, Granted
  <2>5. QED
    BY <2>1, <2>2, <2>3, <2>4 DEF Next
<1>3. Spec => []IInv(G)
  BY HeapInductive
<1>4. Spec => Abstract!Spec
  BY <1>1, <1>2, <1>3, PTL DEF Spec, Abstract!Spec
<1>5. QED
  BY <1>4 DEF ImplementsRegions

===============================================================================
