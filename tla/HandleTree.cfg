SPECIFICATION FairTreeSpec
CONSTANTS
  h1 = h1
  h2 = h2
  h3 = h3
  hosts = hosts
  subs = subs
  Node = {h1, h2, h3}
  Top = Top
  NULL = NULL
  List <- MCList
  Owner <- MCOwner
  Hosts = hosts
  Iter = {i1, i2}
  Topology <- MCTopology
INVARIANTS TreeTypeOK YieldsInOrder YieldsAll
PROPERTY LoopEnds
