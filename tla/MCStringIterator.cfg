\* Texts of up to three characters, over the code points where the length of
\* the encoding changes.
CONSTANTS
  Codes <- BoundaryCodes
  MaxChars = 3
SPECIFICATION Spec
INVARIANTS
  TypeOK
  StandsBetweenCharacters
  CodecRoundTrip
  SlicesMeasured
  ReversesCharacters
PROPERTY
  YieldsCharacters
CHECK_DEADLOCK FALSE
