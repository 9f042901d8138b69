\* A first block of 48 bytes, two headers, and requests of 8: they take 32 bytes,
\* and the block is not split.
CONSTANTS
  H = 24
  RuntimeAlign = 4
  MemStart = 4
  MemSize = 96
  Requests = {8}
  Aligns = {4}
  CountMod = 4
SPECIFICATION Spec
INVARIANT FreeSizeIsTotal
