SPECIFICATION Spec
CONSTANTS
  p1 = p1
  p2 = p2
  Process <- MCProcess
  User <- MCUser
  Nsid = {1, 2}
  Cntlid <- MCCntlid
  MaxIds = 2
  MaxMade = 2
  Request <- MCRequests
INVARIANTS TypeOK OnlyAsked AttachLasts CreatedIsOwn HandleKeepsNamespace
