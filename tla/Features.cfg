SPECIFICATION Spec
CONSTANTS
  c1 = c1
  c2 = c2
  Client <- MCClient
  vwc = vwc
  wp = wp
  hid = hid
  n1 = n1
  n2 = n2
  Unscoped = Unscoped
  Unknown = Unknown
  Feature <- MCFeature
  HostId = hid
  Scope <- MCScope
  Scoped <- MCScoped
  Saveable <- MCSaveable
  Value <- MCValue
  Factory <- MCFactory
  Supports <- MCSupports
  Request <- MCRequests
SYMMETRY Symmetry
INVARIANTS TypeOK GetTruthful PromisesKept
PROPERTY ChangesAskedFor
