\* Both stages, every token and every error of the parser.
CONSTANTS
  UseFP = TRUE
  Texts <- SomeTexts
  Fields <- SomeFields
  Rests <- SomeRests
  Word = 65536
  PlaceMaxWidth = 32
  ChronoPlaceMax = 8
SPECIFICATION ReaderSpec
CHECK_DEADLOCK FALSE
INVARIANTS
  ParserTypeOK
  EndsAtFirstClose
  FieldsReadBack
PROPERTIES
  Advances
  OnlyListsRunOn
