SPECIFICATION Spec
CONSTANTS
  a = a
  Client = {c1}
  Zero = Zero
  Uncor = Uncor
  Torn = Torn
  Value <- MCValue
  Lba <- MCLba
  LbaFormat <- MCFormat
  LbaSize <- MCLbaSize
  LbaCount <- MCTwoEach
  Request <- CommandRequests
  MaxNlb = 2
  MaxDsmRanges = 2
  MaxCopyRanges = 2
  U32 = 4
INVARIANTS TypeOK WireFaithful RefusesMalformed
PROPERTY ImplementsStore
