\* Blocks for the string, for the result of a removal and for the table; patterns
\* of three bytes or more take a table.
CONSTANTS
  Strings = {s1}
  Blocks = {b1, b2, b3}
  NULL = NULL
  Stack = Stack
  StackSize = 4
  ExpandMax = 3
  LargeStep = 2
  Codes <- SomeCodes
  Repeats = {1}
  Texts <- SomeTexts
  Reserves = {4}
  MaxBytes = 6
  Patterns <- SomePatterns
  Threshold = 3
  MaxShift = 255
SPECIFICATION PatternSpec
SYMMETRY Interchangeable
INVARIANTS
  PatternTypeOK
  BuffersOwned
  LengthExact
PROPERTIES
  FailureKeepsTexts
  FoundIsMatch
  ShortFindIsFirst
  RetainRemovesMatches
  ShortRetainIsComplete
