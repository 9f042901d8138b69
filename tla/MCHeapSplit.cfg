\* A first block of 208 bytes and requests of 170: they take 196 bytes, and the
\* header of the remaining 12 would reach into the tail sentinel.
CONSTANTS
  H = 24
  RuntimeAlign = 4
  MemStart = 4
  MemSize = 256
  Requests = {170}
  Aligns = {4}
  CountMod = 4
SPECIFICATION Spec
INVARIANT SplitYieldsTwoBlocks
