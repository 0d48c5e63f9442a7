SPECIFICATION Spec
CONSTANTS
  c1 = c1
  c2 = c2
  Caller <- MCCaller
  Request <- MCRequests
  ZoneSize = 3
  ZoneCap = 3
  Zones = 2
  NlbMax = 2
  LbaSize = 16
  ExtSize = 64
  MaxAppends = 2
  None = None
  U32 = 256
INVARIANTS AppendsStay ReportTruthful
PROPERTIES LostOnlyAsRequested
