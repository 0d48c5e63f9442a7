SPECIFICATION Spec
CONSTANTS
  a = a
  b = b
  l = l
  BootImage = b
  c1 = c1
  c2 = c2
  Image <- MCImage
  NoImage = NoImage
  Caller <- MCCaller
  Pieces <- MCPieces
  MaxPieces = 3
  Slot <- MCSlot
  Boot = 1
  Request <- MCRequests
  MaxCommits = 2
  U32 = 3
INVARIANTS UpdateWhole AnswersTruthful
