SPECIFICATION Spec
CONSTANTS
  Obj = {o1, o2, o3}
  Handle = {h1, h2}
  Inst = {n0, n1}
  MaxConn = 3
  NULL = NULL
SYMMETRY Symmetry
INVARIANTS TypeOK NothingDangles LeaksOnlyByConnect
PROPERTY CommandsStayPut
