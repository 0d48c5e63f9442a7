SPECIFICATION Spec
CONSTANTS
  c1 = c1
  c2 = c2
  Caller <- MCCaller
  Request <- MCRequests
  Announced <- MCAnnounced
  NoCall = NoCall
  U32 = 262144
  USize <- MCUSize
  MiChunk = 4096
  MaxCapture = 2
INVARIANTS BufferSafe TransportsAgree
PROPERTIES RetainKept OnlyCreateCaptures
