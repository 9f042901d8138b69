\* A header of two alignment units, and requests that all take whole multiples of
\* it: 3 and 4 take 8 units, 7 takes 12.  The pool holds 9 headers.
CONSTANTS
  H = 4
  RuntimeAlign = 2
  MemStart = 3
  MemSize = 45
  Requests = {3, 4, 7}
  Aligns = {2, 4}
  CountMod = 3
SPECIFICATION Spec
INVARIANTS
  TypeOK
  NoOverlap
  Coalesced
  FreeSizeExact
  AllFreedRestoresPool
  CountsBalance
PROPERTIES
  WatermarkIsLowest
  ImplementsRegions
