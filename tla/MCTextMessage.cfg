SPECIFICATION Spec
CONSTANTS
  BlockSize = 3
  Texts <- MCTexts
  Encodings <- MCEncodings
  BodyLimit = 5
  MaxTries = 2
INVARIANTS PointersResolve ReaderGetsText
CHECK_DEADLOCK FALSE
