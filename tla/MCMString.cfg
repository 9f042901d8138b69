CONSTANTS
  Strings = {s1, s2}
  Blocks = {b1, b2, b3}
  NULL = NULL
  Stack = Stack
  StackSize = 2
  ExpandMax = 3
  LargeStep = 2
  Codes <- SomeCodes
  Repeats = {0, 1, 2}
  Texts <- SomeTexts
  Reserves = {4}
  MaxBytes = 3
SPECIFICATION Spec
SYMMETRY Interchangeable
INVARIANTS
  TypeOK
  OneOwner
  RoomForTerminator
  LengthExact
  ComparisonsSeeCharacters
PROPERTIES
  
  ImplementsStore
