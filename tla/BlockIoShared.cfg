SPECIFICATION FairSpec
CONSTANTS
  a = a
  Client = {c1, c2}
  Zero = Zero
  Uncor = Uncor
  Torn = Torn
  Value <- MCValue
  Lba <- MCLba
  LbaFormat <- MCFormat
  LbaSize <- MCLbaSize
  LbaCount <- MCLbaCount
  Request <- SharedRequests
  MaxNlb = 2
  MaxDsmRanges = 2
  MaxCopyRanges = 2
  U32 = 8
PROPERTIES KeepsPromise TornOnlyWhenStale EveryCallReturns
INVARIANT WireFaithful
