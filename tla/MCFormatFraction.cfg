\* Fractions of up to seven bits in a word of eight, as up to 31 in one of 32.
CONSTANTS
  UseFP = TRUE
  Texts <- FractionFormats
  Word = 256
  PlaceMaxWidth = 32
  ChronoPlaceMax = 8
  Bits = 8
  HardwareDiv = FALSE
  PlaceMaxNum = 16
  StackRegion = 16
  HighBytes <- Bytes
  WordBits = 8
  MaxPlaces = 16
  Calls <- FractionCalls
SPECIFICATION Spec
CHECK_DEADLOCK FALSE
INVARIANTS
  PrintsExactly
