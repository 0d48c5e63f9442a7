SPECIFICATION Spec
CONSTANTS
  h1 = h1
  h2 = h2
  Host <- MCHost
  k1 = k1
  k2 = k2
  NoKey = NoKey
  NoHost = NoHost
  None = None
  Key <- MCKey
  StatusSize = 64
  VecLen = 128
  EntrySize <- MCEntrySize
  HeaderSize <- MCHeaderSize
  U32 = 256
  Request <- MCRequests
SYMMETRY Symmetry
INVARIANTS TypeOK HolderInformed ClaimsCompatible RegistrantInformed ReportTruthful
