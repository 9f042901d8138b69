\* A removal leaves room for the terminator. The sizes are those of the source.
CONSTANTS
  Strings = {s1}
  Blocks = {b1, b2}
  NULL = NULL
  Stack = Stack
  StackSize = 16
  ExpandMax = 1024
  LargeStep = 512
  Codes = {97}
  Repeats = {1}
  Texts <- SourceTexts
  Reserves = {4}
  MaxBytes = 20
  Patterns <- SourcePatterns
  Threshold = 6
  MaxShift = 255
SPECIFICATION PatternSpec
INVARIANT
  RoomForTerminator
