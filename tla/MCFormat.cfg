\* A word of eight bits, and strings that need the heap beyond seven characters.
CONSTANTS
  UseFP = TRUE
  Texts <- SomeFormats
  Word = 256
  PlaceMaxWidth = 32
  ChronoPlaceMax = 8
  Bits = 8
  HardwareDiv = FALSE
  PlaceMaxNum = 16
  StackRegion = 8
  HighBytes <- Bytes
  WordBits = 8
  MaxPlaces = 16
  Calls <- SomeCalls
SPECIFICATION Spec
CHECK_DEADLOCK FALSE
INVARIANTS
  FormatTypeOK
  ArgumentsReadInOrder
  ConvertsAsPassed
  BlocksGivenBack
PROPERTIES
  
  EveryCallEnds
