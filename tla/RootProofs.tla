----------------------------- MODULE RootProofs -----------------------------
(***************************************************************************)
(* Proofs about what hangs off a Root.  HandleTree, for every tree, any    *)
(* number of iterators and any sequence of insertions: the iterators yield *)
(* in order, without repetition and without omission.  Fabrics, for every  *)
(* number of allocations, handles and names: no handle, log or call refers *)
(* to freed memory, nothing is freed twice, only a failed Connect leaks,   *)
(* and a command reaches the connection its controller stands for.         *)
(***************************************************************************)
EXTENDS HandleTree, Fabrics, TLAPS

(***************************************************************************)
(* The tree and its iterators.                                             *)
(***************************************************************************)

(* What makes the two properties inductive: iterators borrow the Root, the *)
(* lists are ordered, and a node present at the start that has not been    *)
(* yielded is not behind the cursor.                                       *)
BorrowsRoot == Open # {} => scanned

ListsOrdered == \A l \in List : Ordered(member[l], before[l])

NoneBehind ==
  \A i \in Open : \A n \in iter[i].start :
    \/ n \in iter[i].seen
    \/ n = iter[i].cursor
    \/ iter[i].cursor # NULL /\ <<iter[i].cursor, n>> \in before[iter[i].list]

StartListed == \A i \in Open : iter[i].start \subseteq member[iter[i].list]

TreeIInv ==
  TreeTypeOK /\ BorrowsRoot /\ ListsOrdered /\ StartListed /\ YieldsInOrder /\ NoneBehind

(* Linking a node into a list keeps the list ordered.                      *)
LEMMA LinkOrdered ==
  ASSUME NEW S, NEW lt, Ordered(S, lt), NEW n, n \notin S, NEW P \in SUBSET S,
         \A x \in P, y \in S \ P : <<x, y>> \in lt
  PROVE  Ordered(S \cup {n}, lt \cup (P \X {n}) \cup ({n} \X (S \ P)))
<1> DEFINE T == S \cup {n}
           gt == lt \cup (P \X {n}) \cup ({n} \X (S \ P))
<1>1. gt \subseteq T \X T
  BY DEF Ordered
<1>2. \A x, y : <<x, y>> \in gt <=>
        (<<x, y>> \in lt) \/ (x \in P /\ y = n) \/ (x = n /\ y \in S \ P)
  OBVIOUS
<1>3. \A x, y : <<x, y>> \in lt => x \in S /\ y \in S
  BY DEF Ordered
<1>4. \A x \in T : <<x, x>> \notin gt
  BY <1>2, <1>3 DEF Ordered
<1>5. \A x, y \in T : x = y \/ <<x, y>> \in gt \/ <<y, x>> \in gt
  BY <1>2 DEF Ordered
<1>6. ASSUME NEW x \in T, NEW y \in T, NEW z \in T, <<x, y>> \in gt, <<y, z>> \in gt
      PROVE  <<x, z>> \in gt
  <2>1. CASE x \in S /\ y \in S /\ z \in S
    BY <2>1, <1>2, <1>6 DEF Ordered
  <2>2. CASE x = n
    <3>1. y \in S \ P
      BY <2>2, <1>2, <1>3, <1>6
    <3>2. <<y, z>> \in lt /\ z \in S
      BY <3>1, <1>2, <1>3, <1>6
    <3>3. z \notin P
      BY <3>1, <3>2 DEF Ordered
    <3> QED BY <2>2, <3>2, <3>3, <1>2
  <2>3. CASE y = n
    <3>1. x \in P /\ z \in S \ P
      BY <2>3, <1>2, <1>3, <1>6
    <3> QED BY <3>1, <1>2
  <2>4. CASE z = n /\ x \in S /\ y \in S
    <3>1. y \in P /\ <<x, y>> \in lt
      BY <2>4, <1>2, <1>3, <1>6
    <3>2. x \in P
      BY <2>4, <3>1 DEF Ordered
    <3> QED BY <2>4, <3>2, <1>2
  <2> QED BY <2>1, <2>2, <2>3, <2>4
<1> QED BY <1>1, <1>4, <1>5, <1>6 DEF Ordered

(* A step that links one node preserves the invariant.                     *)
LEMMA LinkPreserves ==
  ASSUME TreeIInv, NEW l \in List, NEW n \in Node, n \notin member[l],
         NEW P \in SUBSET member[l], Link(l, n, P), UNCHANGED <<scanned, iter>>
  PROVE  TreeIInv'
<1>1. TreeTypeOK'
  BY DEF TreeIInv, TreeTypeOK, Link
<1>2. ListsOrdered'
  <2> SUFFICES ASSUME NEW k \in List PROVE Ordered(member'[k], before'[k])
    BY DEF ListsOrdered
  <2>1. CASE k # l
    BY <2>1 DEF TreeIInv, TreeTypeOK, ListsOrdered, Link
  <2>2. CASE k = l
    <3>1. /\ member'[l] = member[l] \cup {n}
          /\ before'[l] = before[l] \cup (P \X {n}) \cup ({n} \X (member[l] \ P))
      BY DEF TreeIInv, TreeTypeOK, Link
    <3>2. \A x \in P, y \in member[l] \ P : <<x, y>> \in before[l]
      BY DEF Link
    <3>3. Ordered(member[l], before[l])
      BY DEF TreeIInv, ListsOrdered
    <3>4. Ordered(member[l] \cup {n},
                  before[l] \cup (P \X {n}) \cup ({n} \X (member[l] \ P)))
      BY <3>2, <3>3, LinkOrdered
    <3> QED BY <2>2, <3>1, <3>4
  <2> QED BY <2>1, <2>2
<1>3. \A k \in List : member[k] \subseteq member'[k] /\ before[k] \subseteq before'[k]
  BY DEF TreeIInv, TreeTypeOK, Link
<1>4. Open' = Open /\ \A i \in Open : iter'[i] = iter[i] /\ iter[i].list \in List
  BY TreeAssumption DEF TreeIInv, TreeTypeOK, Open
<1>5. StartListed'
  BY <1>3, <1>4 DEF TreeIInv, StartListed
<1>6. YieldsInOrder'
  BY <1>3, <1>4 DEF TreeIInv, YieldsInOrder
<1>7. NoneBehind'
  BY <1>3, <1>4 DEF TreeIInv, NoneBehind
<1>8. BorrowsRoot'
  BY <1>4 DEF TreeIInv, BorrowsRoot
<1> QED BY <1>1, <1>2, <1>5, <1>6, <1>7, <1>8 DEF TreeIInv

LEMMA InitIInv == TreeInit => TreeIInv
<1> SUFFICES ASSUME TreeInit PROVE TreeIInv
  OBVIOUS
<1>1. TreeTypeOK
  BY DEF TreeInit, TreeTypeOK, Closed
<1>2. Open = {}
  BY DEF TreeInit, Open, Closed
<1>3. ListsOrdered
  BY DEF TreeInit, ListsOrdered, Ordered
<1> QED
  BY <1>1, <1>2, <1>3 DEF TreeIInv, BorrowsRoot, StartListed, YieldsInOrder, NoneBehind

LEMMA NewPreserves ==
  ASSUME TreeIInv, NEW i \in Iter, NEW l \in List, new(i, l)
  PROVE  TreeIInv'
<1>1. PICK n \in Node \cup {NULL} :
        /\ IsFirst(l, n)
        /\ iter' = [iter EXCEPT ![i] = [list |-> l, cursor |-> n, seen |-> {},
                                        start |-> member[l]]]
  BY DEF new
<1>2. UNCHANGED <<scanned, member, before>>
  BY DEF new
<1>3. TreeTypeOK'
  BY <1>1, <1>2 DEF TreeIInv, TreeTypeOK
<1>4. iter'[i] = [list |-> l, cursor |-> n, seen |-> {}, start |-> member[l]]
  BY <1>1 DEF TreeIInv, TreeTypeOK
<1>5. \A j \in Iter \ {i} : iter'[j] = iter[j]
  BY <1>1 DEF TreeIInv, TreeTypeOK
<1>6. n # NULL => n \in member[l] /\ \A m \in member[l] : m = n \/ <<n, m>> \in before[l]
  BY <1>1 DEF IsFirst
<1>7. n = NULL => member[l] = {}
  BY <1>1, TreeAssumption DEF IsFirst, TreeIInv, TreeTypeOK
<1>8. YieldsInOrder'
  BY <1>2, <1>4, <1>5, <1>6 DEF TreeIInv, YieldsInOrder, Open
<1>9. NoneBehind'
  BY <1>2, <1>4, <1>5, <1>6, <1>7 DEF TreeIInv, NoneBehind, Open
<1>10. StartListed' /\ ListsOrdered'
  BY <1>2, <1>4, <1>5 DEF TreeIInv, StartListed, ListsOrdered, Open
<1>11. BorrowsRoot'
  BY <1>2 DEF new, BorrowsRoot
<1> QED BY <1>3, <1>8, <1>9, <1>10, <1>11 DEF TreeIInv

LEMMA NextPreserves ==
  ASSUME TreeIInv, NEW i \in Iter, next(i)
  PROVE  TreeIInv'
<1> DEFINE l == iter[i].list
           k == iter[i].cursor
<1>1. PICK n \in Node \cup {NULL} :
        /\ IsNext(l, k, n)
        /\ iter' = [iter EXCEPT ![i].cursor = n, ![i].seen = @ \cup {k}]
  BY DEF next
<1>2. UNCHANGED <<scanned, member, before>>
  BY DEF next
<1>3. i \in Open /\ l \in List /\ k # NULL /\ k \in Node
  BY DEF next, Open, TreeIInv, TreeTypeOK
<1>4. TreeTypeOK'
  BY <1>1, <1>2, <1>3 DEF TreeIInv, TreeTypeOK
<1>5. /\ iter'[i].list = l /\ iter'[i].cursor = n
      /\ iter'[i].seen = iter[i].seen \cup {k} /\ iter'[i].start = iter[i].start
  BY <1>1 DEF TreeIInv, TreeTypeOK
<1>6. \A j \in Iter \ {i} : iter'[j] = iter[j]
  BY <1>1 DEF TreeIInv, TreeTypeOK
<1>7. /\ k \in member[l] /\ iter[i].seen \subseteq member[l]
      /\ \A m \in iter[i].seen : <<m, k>> \in before[l]
  BY <1>3 DEF TreeIInv, YieldsInOrder
<1>8. Ordered(member[l], before[l])
  BY <1>3 DEF TreeIInv, ListsOrdered
<1>9. n # NULL => /\ n \in member[l] /\ <<k, n>> \in before[l]
                  /\ \A m \in After(l, k) : m = n \/ <<n, m>> \in before[l]
  BY <1>1 DEF IsNext, After
<1>10. n = NULL => After(l, k) = {}
  BY <1>1, <1>3, TreeAssumption DEF IsNext, After, TreeIInv, TreeTypeOK
<1>11. n # NULL => \A m \in iter[i].seen \cup {k} : <<m, n>> \in before[l]
  BY <1>7, <1>8, <1>9 DEF Ordered
<1>12. YieldsInOrder'
  BY <1>2, <1>5, <1>6, <1>7, <1>9, <1>11 DEF TreeIInv, YieldsInOrder, Open
<1>13. \A m \in iter[i].start : m \in iter[i].seen \cup {k} \/ m \in After(l, k)
  BY <1>3 DEF TreeIInv, NoneBehind, StartListed, After
<1>14. NoneBehind'
  BY <1>2, <1>5, <1>6, <1>9, <1>10, <1>13 DEF TreeIInv, NoneBehind, Open
<1>15. StartListed' /\ ListsOrdered'
  BY <1>2, <1>5, <1>6 DEF TreeIInv, StartListed, ListsOrdered, Open
<1>16. BorrowsRoot'
  BY <1>2, <1>3 DEF TreeIInv, BorrowsRoot
<1> QED BY <1>4, <1>12, <1>14, <1>15, <1>16 DEF TreeIInv

LEMMA StepIInv == TreeIInv /\ [TreeNext]_treeVars => TreeIInv'
<1> SUFFICES ASSUME TreeIInv, [TreeNext]_treeVars PROVE TreeIInv'
  OBVIOUS
<1>1. CASE scan_lists
  <2>1. PICK t \in Topology : member' = t.member /\ before' = t.before
    BY <1>1 DEF scan_lists
  <2>2. TreeTypeOK' /\ ListsOrdered'
    BY <1>1, <2>1, TreeAssumption DEF scan_lists, TreeIInv, TreeTypeOK, ListsOrdered
  <2>3. Open = {}
    BY <1>1 DEF scan_lists, TreeIInv, BorrowsRoot
  <2> QED BY <2>2, <2>3, <1>1
    DEF scan_lists, TreeIInv, BorrowsRoot, StartListed, YieldsInOrder, NoneBehind, Open
<1>2. CASE drop_lists
  <2>1. TreeTypeOK' /\ ListsOrdered'
    BY <1>2 DEF drop_lists, TreeIInv, TreeTypeOK, ListsOrdered, Ordered
  <2> QED BY <2>1, <1>2
    DEF drop_lists, TreeIInv, BorrowsRoot, StartListed, YieldsInOrder, NoneBehind, Open
<1>3. ASSUME NEW n \in Node, lookup_host(n) PROVE TreeIInv'
  <2>1. PICK P \in SUBSET member[Hosts] : Link(Hosts, n, P)
    BY <1>3 DEF lookup_host
  <2> QED BY <2>1, <1>3, TreeAssumption, LinkPreserves DEF lookup_host
<1>4. ASSUME NEW n \in Node, NEW l \in List, add_ctrl_lists(l, n) PROVE TreeIInv'
  <2>1. PICK P \in SUBSET member[l] : Link(l, n, P)
    BY <1>4 DEF add_ctrl_lists
  <2> QED BY <2>1, <1>4, LinkPreserves DEF add_ctrl_lists
<1>5. ASSUME NEW i \in Iter, DropIter(i) PROVE TreeIInv'
  <2>1. TreeTypeOK' /\ ListsOrdered'
    BY <1>5 DEF DropIter, TreeIInv, TreeTypeOK, ListsOrdered, Closed
  <2>2. Open' \subseteq Open /\ \A j \in Open' : iter'[j] = iter[j]
    BY <1>5 DEF DropIter, TreeIInv, TreeTypeOK, Open, Closed
  <2> QED BY <2>1, <2>2, <1>5
    DEF DropIter, TreeIInv, BorrowsRoot, StartListed, YieldsInOrder, NoneBehind
<1>6. CASE UNCHANGED treeVars
  BY <1>6 DEF treeVars, TreeIInv, TreeTypeOK, BorrowsRoot, ListsOrdered, StartListed, YieldsInOrder,
              NoneBehind, Open
<1> QED BY <1>1, <1>2, <1>3, <1>4, <1>5, <1>6, NewPreserves, NextPreserves DEF TreeNext

(* The strengthened invariant holds in every reachable state.              *)
THEOREM TreeInvariant == TreeSpec => []TreeIInv
BY InitIInv, StepIInv, PTL DEF TreeSpec

(* The variables keep their types.                                         *)
THEOREM TreeTypeCorrect == TreeSpec => []TreeTypeOK
<1>1. TreeIInv => TreeTypeOK
  BY DEF TreeIInv
<1> QED BY <1>1, TreeInvariant, PTL

(* Every iterator yields nodes of its own list, in list order and none     *)
(* twice, however the lists grow between two calls of next.                *)
THEOREM IteratorsYieldInOrder == TreeSpec => []YieldsInOrder
<1>1. TreeIInv => YieldsInOrder
  BY DEF TreeIInv
<1> QED BY <1>1, TreeInvariant, PTL

(* An iterator whose next returns None has yielded every node that was in  *)
(* its list when it was made.                                              *)
THEOREM IteratorsYieldAll == TreeSpec => []YieldsAll
<1>1. ASSUME TreeIInv, NEW i \in Open, iter[i].cursor = NULL, NEW n \in iter[i].start
      PROVE  n \in iter[i].seen
  <2>1. n \in Node
    BY <1>1 DEF TreeIInv, TreeTypeOK, Open
  <2> QED BY <2>1, <1>1, TreeAssumption DEF TreeIInv, NoneBehind
<1>2. TreeIInv => YieldsAll
  BY <1>1 DEF YieldsAll
<1> QED BY <1>2, TreeInvariant, PTL

(***************************************************************************)
(* The allocations of the crate and of libnvme.                            *)
(***************************************************************************)

(* Everything allocated is owned: by the tree of a Root, a log, the call   *)
(* in progress, or nobody since its Connect failed.                        *)
Owned ==
  \A o \in Allocated \ orphan :
    \/ root /\ heap[o] = "linked"
    \/ o \in logs
    \/ busy.op \in {"connect", "string"} /\ o = busy.obj

(* While nothing was lost before it had a descriptor, a controller object  *)
(* stands for the connection behind its descriptor, or behind its name.    *)
StandsFor(o) ==
  /\ ctrl[o].inst \in Inst /\ ctrl[o].conn \in Conn
  /\ o \notin late => IF ctrl[o].fd # NULL THEN ctrl[o].fd = ctrl[o].conn
                      ELSE kernel[ctrl[o].inst] = ctrl[o].conn

Meant == \A o \in Obj : heap[o] = "linked" => StandsFor(o)

IInv == TypeOK /\ NothingDangles /\ Owned /\ Meant

----------------------------------------------------------------------------
LEMMA Distinct == NULL \notin Obj /\ NULL \notin Inst /\ NULL \notin Conn /\ NULL \notin Nat
BY FabricsAssumption DEF Conn

LEMMA NextConn ==
  ASSUME TypeOK, conns < MaxConn
  PROVE  conns + 1 \in Conn /\ conns + 1 \in 0 .. MaxConn
BY FabricsAssumption DEF TypeOK, Conn

LEMMA Initial == Init => IInv
<1> SUFFICES ASSUME Init PROVE IInv
  OBVIOUS
<1>1. TypeOK
  <2>1. conns \in 0 .. MaxConn
    BY FabricsAssumption DEF Init
  <2>2. /\ heap \in [Obj -> HeapState]
        /\ ctrl \in [Obj -> [inst : Inst \cup {NULL}, conn : Conn \cup {NULL}, fd : Conn \cup {NULL}]]
    BY DEF Init, HeapState, NoCtrl
  <2> QED BY <2>1, <2>2 DEF Init, TypeOK
<1>2. NothingDangles
  BY DEF Init, NothingDangles, NotBusy, Held
<1>3. Owned /\ Meant
  BY DEF Init, Owned, Meant, Allocated
<1> QED BY <1>1, <1>2, <1>3 DEF IInv

(* A program step that allocates o and leaves controllers and kernel.      *)
LEMMA Malloc ==
  ASSUME IInv, NEW o \in Obj, NEW what \in {"unlinked", "log", "string"}, malloc(o, what)
  PROVE  /\ heap' \in [Obj -> HeapState] /\ heap[o] = "new" /\ heap'[o] = what
         /\ \A x \in Obj \ {o} : heap'[x] = heap[x]
BY DEF IInv, TypeOK, malloc, HeapState

LEMMA StringSteps ==
  ASSUME IInv, NEW o \in Obj, NEW utf8 \in BOOLEAN,
         generate_hostnqn(o) \/ take_owned_cstr(utf8)
  PROVE  IInv'
<1>1. CASE generate_hostnqn(o)
  <2>1. /\ heap' \in [Obj -> HeapState] /\ heap[o] = "new" /\ heap'[o] = "string"
        /\ \A x \in Obj \ {o} : heap'[x] = heap[x]
    BY <1>1, Malloc DEF generate_hostnqn
  <2>2. busy' = [op |-> "string", obj |-> o]
        /\ UNCHANGED <<root, ctrl, handle, logs, kernel, conns, orphan, late, sent>>
        /\ busy = NotBusy
    BY <1>1 DEF generate_hostnqn, KernelUnchanged, HistoryUnchanged, Idle
  <2>3. TypeOK'
    BY <2>1, <2>2 DEF IInv, TypeOK
  <2>4. NothingDangles'
    BY <2>1, <2>2 DEF IInv, TypeOK, NothingDangles, Held
  <2>5. Owned'
    BY <2>1, <2>2 DEF IInv, TypeOK, Owned, Allocated, NotBusy
  <2>6. Meant'
    BY <2>1, <2>2 DEF IInv, TypeOK, Meant, StandsFor
  <2> QED BY <2>3, <2>4, <2>5, <2>6 DEF IInv
<1>2. CASE take_owned_cstr(utf8)
  <2>1. /\ busy.op = "string" /\ busy.obj \in Obj /\ heap[busy.obj] = "string"
        /\ busy' = NotBusy
        /\ UNCHANGED <<root, ctrl, handle, logs, kernel, conns, orphan, late, sent>>
    BY <1>2 DEF take_owned_cstr, KernelUnchanged, HistoryUnchanged, IInv, TypeOK,
                NothingDangles, NotBusy
  <2>2. heap' = [heap EXCEPT ![busy.obj] = "freed"]
    BY <1>2, <2>1 DEF take_owned_cstr, free, Freed, IInv, TypeOK
  <2>3. TypeOK'
    BY <2>1, <2>2 DEF IInv, TypeOK, HeapState
  <2>4. NothingDangles'
    BY <2>1, <2>2 DEF IInv, TypeOK, NothingDangles, Held, NotBusy
  <2>5. Owned'
    BY <2>1, <2>2 DEF IInv, TypeOK, Owned, Allocated, NotBusy
  <2>6. Meant'
    BY <2>1, <2>2 DEF IInv, TypeOK, Meant, StandsFor
  <2> QED BY <2>3, <2>4, <2>5, <2>6 DEF IInv
<1> QED BY <1>1, <1>2

----------------------------------------------------------------------------
(* Root.                                                                   *)

LEMMA ScanStep ==
  ASSUME IInv, scan
  PROVE  IInv'
<1>1. PICK of \in [{ i \in Inst : kernel[i] # NULL } -> { o \in Obj : heap[o] = "new" }] :
        LET S == { of[i] : i \in DOMAIN of }
        IN  /\ heap' = [o \in Obj |-> IF o \in S THEN "linked" ELSE heap[o]]
            /\ ctrl' = [o \in Obj |->
                 IF o \in S
                 THEN LET i == CHOOSE j \in DOMAIN of : of[j] = o
                      IN  [inst |-> i, conn |-> kernel[i], fd |-> NULL]
                 ELSE ctrl[o]]
  BY DEF scan
<1> DEFINE S == { of[i] : i \in DOMAIN of }
           name(o) == CHOOSE j \in DOMAIN of : of[j] = o
<1>2. /\ heap' = [o \in Obj |-> IF o \in S THEN "linked" ELSE heap[o]]
      /\ ctrl' = [o \in Obj |-> IF o \in S
                                THEN [inst |-> name(o), conn |-> kernel[name(o)], fd |-> NULL]
                                ELSE ctrl[o]]
  BY <1>1
<1>3. \A o \in S : o \in Obj /\ heap[o] = "new"
  OBVIOUS
<1>4. \A o \in S : name(o) \in Inst /\ kernel[name(o)] \in Conn
  <2> TAKE o \in S
  <2>1. \E j \in DOMAIN of : of[j] = o
    OBVIOUS
  <2>2. name(o) \in DOMAIN of
    BY <2>1
  <2> QED BY <2>2 DEF IInv, TypeOK
<1> HIDE DEF S, name
<1>5. /\ root' = TRUE /\ ~root /\ busy = NotBusy
      /\ UNCHANGED <<handle, logs, busy, kernel, conns, orphan, late, sent>>
  BY DEF scan, KernelUnchanged, HistoryUnchanged, Idle
<1>6. TypeOK'
  <2>1. heap' \in [Obj -> HeapState]
    BY <1>2 DEF IInv, TypeOK, HeapState
  <2>2. ctrl' \in [Obj -> [inst : Inst \cup {NULL}, conn : Conn \cup {NULL}, fd : Conn \cup {NULL}]]
    BY <1>2, <1>4 DEF IInv, TypeOK
  <2> QED BY <1>5, <2>1, <2>2 DEF IInv, TypeOK
<1>7. NothingDangles'
  <2>1. \A o \in Held : heap[o] = "linked" /\ root
    BY DEF IInv, NothingDangles
  <2>2. Held' = {}
    BY <1>5, <2>1 DEF Held
  <2>3. \A o \in Obj : heap'[o] # heap[o] => o \in S /\ heap'[o] = "linked"
    BY <1>2 DEF IInv, TypeOK
  <2>4. \A o \in logs' : heap'[o] = "log"
    BY <1>3, <1>5, <2>3 DEF IInv, TypeOK, NothingDangles
  <2>5. \A o \in Obj : heap'[o] # "corrupt"
    BY <2>3 DEF IInv, NothingDangles
  <2> QED BY <1>5, <2>2, <2>4, <2>5 DEF NothingDangles, NotBusy
<1>8. Owned'
  BY <1>2, <1>3, <1>5 DEF IInv, TypeOK, Owned, Allocated, NotBusy
<1>9. Meant'
  <2> SUFFICES ASSUME NEW o \in Obj, heap'[o] = "linked" PROVE StandsFor(o)'
    BY DEF Meant
  <2>1. CASE o \in S
    BY <1>2, <1>4, <1>5, <2>1 DEF StandsFor
  <2>2. CASE o \notin S
    BY <1>2, <1>5, <2>2 DEF StandsFor, IInv, Meant
  <2> QED BY <2>1, <2>2
<1> QED BY <1>6, <1>7, <1>8, <1>9 DEF IInv

LEMMA DropStep ==
  ASSUME IInv, drop
  PROVE  IInv'
<1>1. /\ Held = {} /\ busy = NotBusy /\ root' = FALSE
      /\ ctrl' = [o \in Obj |-> IF heap[o] = "linked" THEN NoCtrl ELSE ctrl[o]]
      /\ UNCHANGED <<handle, logs, busy, kernel, conns, orphan, late, sent>>
  BY DEF drop, KernelUnchanged, HistoryUnchanged, Idle
<1>2. heap' = [o \in Obj |-> IF heap[o] = "linked" THEN "freed" ELSE heap[o]]
  BY DEF drop, free, Freed
<1>3. TypeOK'
  BY <1>1, <1>2 DEF IInv, TypeOK, HeapState, NoCtrl
<1>4. NothingDangles'
  BY <1>1, <1>2 DEF IInv, TypeOK, NothingDangles, Held, NotBusy
<1>5. Owned'
  BY <1>1, <1>2 DEF IInv, TypeOK, Owned, Allocated, NotBusy
<1>6. Meant'
  BY <1>2 DEF Meant
<1> QED BY <1>3, <1>4, <1>5, <1>6 DEF IInv

(* A step that changes which handles there are and nothing else.           *)
LEMMA HandleSteps ==
  ASSUME IInv, NEW h \in Handle, NEW o \in Obj, Controllers_next(h, o) \/ DropHandle(h)
  PROVE  IInv'
<1>1. PICK x \in {o, NULL} :
        /\ handle' = [handle EXCEPT ![h] = x]
        /\ x # NULL => heap[o] = "linked" /\ root
  BY DEF Controllers_next, DropHandle
<1>2. UNCHANGED <<root, heap, ctrl, logs, busy, kernel, conns, orphan, late, sent>>
  BY DEF Controllers_next, DropHandle, KernelUnchanged, HistoryUnchanged
<1>3. TypeOK' /\ Owned' /\ Meant'
  BY <1>1, <1>2 DEF IInv, TypeOK, Owned, Allocated, Meant, StandsFor
<1>4. NothingDangles'
  BY <1>1, <1>2 DEF IInv, TypeOK, NothingDangles, Held
<1> QED BY <1>3, <1>4 DEF IInv

----------------------------------------------------------------------------
(* Connect.                                                                *)

LEMMA CreateStep ==
  ASSUME IInv, NEW o \in Obj, create_ctrl(o)
  PROVE  IInv'
<1>1. /\ heap' \in [Obj -> HeapState] /\ heap[o] = "new" /\ heap'[o] = "unlinked"
      /\ \A x \in Obj \ {o} : heap'[x] = heap[x]
  BY Malloc DEF create_ctrl
<1>2. /\ busy' = [op |-> "connect", obj |-> o] /\ root /\ busy = NotBusy
      /\ UNCHANGED <<root, ctrl, handle, logs, kernel, conns, orphan, late, sent>>
  BY DEF create_ctrl, KernelUnchanged, HistoryUnchanged, Idle
<1>3. TypeOK'
  BY <1>1, <1>2 DEF IInv, TypeOK
<1>4. NothingDangles'
  BY <1>1, <1>2 DEF IInv, TypeOK, NothingDangles, Held
<1>5. Owned'
  BY <1>1, <1>2 DEF IInv, TypeOK, Owned, Allocated, NotBusy
<1>6. Meant'
  BY <1>1, <1>2 DEF IInv, TypeOK, Meant, StandsFor
<1> QED BY <1>3, <1>4, <1>5, <1>6 DEF IInv

(* A new connection takes a name that no controller object needs.          *)
LEMMA ConnectsMeant ==
  ASSUME IInv, NEW i \in Inst, Connects(i), NEW o \in Obj, heap[o] = "linked",
         ctrl'[o] = ctrl[o], late' = late
  PROVE  StandsFor(o)'
<1>1. StandsFor(o)
  BY DEF IInv, Meant
<1>2. ctrl[o].fd = NULL /\ o \notin late => ctrl[o].inst # i
  BY <1>1, Distinct DEF StandsFor, Connects
<1>3. \A j \in Inst \ {i} : kernel'[j] = kernel[j]
  BY DEF IInv, TypeOK, Connects
<1> QED BY <1>1, <1>2, <1>3 DEF StandsFor

LEMMA ConnectsType ==
  ASSUME IInv, NEW i \in Inst, Connects(i)
  PROVE  kernel' \in [Inst -> Conn \cup {NULL}] /\ conns' \in 0 .. MaxConn
         /\ conns + 1 \in Conn /\ kernel'[i] = conns + 1
BY NextConn DEF IInv, TypeOK, Connects

LEMMA AddStep ==
  ASSUME IInv, NEW h \in Handle, NEW i \in Inst, add_ctrl(h, i)
  PROVE  IInv'
<1> DEFINE o == busy.obj
<1>1. /\ busy.op = "connect" /\ o \in Obj /\ heap[o] = "unlinked" /\ root
  BY DEF add_ctrl, IInv, TypeOK, NothingDangles, NotBusy
<1> HIDE DEF o
<1>2. /\ Connects(i) /\ handle[h] = NULL /\ busy' = NotBusy
      /\ heap' = [heap EXCEPT ![o] = "linked"]
      /\ ctrl' = [ctrl EXCEPT ![o] = [inst |-> i, conn |-> conns + 1, fd |-> NULL]]
      /\ handle' = [handle EXCEPT ![h] = o]
      /\ UNCHANGED <<root, logs, orphan, late, sent>>
  BY DEF add_ctrl, HistoryUnchanged, o
<1>3. /\ kernel' \in [Inst -> Conn \cup {NULL}] /\ conns' \in 0 .. MaxConn
      /\ conns + 1 \in Conn /\ kernel'[i] = conns + 1
  BY <1>2, ConnectsType
<1>4. TypeOK'
  BY <1>1, <1>2, <1>3 DEF IInv, TypeOK, HeapState
<1>5. NothingDangles'
  BY <1>1, <1>2 DEF IInv, TypeOK, NothingDangles, Held, NotBusy
<1>6. Owned'
  <2>1. o = busy.obj
    BY DEF o
  <2> QED BY <1>1, <1>2, <2>1 DEF IInv, TypeOK, Owned, Allocated
<1>7. Meant'
  <2> SUFFICES ASSUME NEW x \in Obj, heap'[x] = "linked" PROVE StandsFor(x)'
    BY DEF Meant
  <2>1. CASE x = o
    <3>1. ctrl'[x] = [inst |-> i, conn |-> conns + 1, fd |-> NULL]
      BY <1>1, <1>2, <2>1 DEF IInv, TypeOK
    <3> QED BY <1>3, <3>1 DEF StandsFor
  <2>2. CASE x # o
    <3>1. heap[x] = "linked" /\ ctrl'[x] = ctrl[x]
      BY <1>2, <2>2 DEF IInv, TypeOK
    <3> QED BY <1>2, <3>1, ConnectsMeant
  <2> QED BY <2>1, <2>2
<1> QED BY <1>4, <1>5, <1>6, <1>7 DEF IInv

LEMMA AddFailsStep ==
  ASSUME IInv, add_ctrl_fails
  PROVE  IInv'
<1>1. /\ busy.op = "connect" /\ busy' = NotBusy /\ orphan' = orphan \cup {busy.obj}
      /\ busy.obj \in Obj
      /\ UNCHANGED <<root, heap, ctrl, handle, logs, late, sent>>
  BY DEF add_ctrl_fails, IInv, TypeOK, NotBusy
<1>2. (\E i \in Inst : Connects(i)) \/ UNCHANGED <<kernel, conns>>
  BY DEF add_ctrl_fails, KernelUnchanged
<1>3. kernel' \in [Inst -> Conn \cup {NULL}] /\ conns' \in 0 .. MaxConn
  BY <1>2, ConnectsType DEF IInv, TypeOK
<1>4. TypeOK'
  BY <1>1, <1>3 DEF IInv, TypeOK
<1>5. NothingDangles'
  BY <1>1 DEF IInv, NothingDangles, Held, NotBusy
<1>6. Owned'
  BY <1>1 DEF IInv, Owned, Allocated
<1>7. Meant'
  <2> SUFFICES ASSUME NEW x \in Obj, heap'[x] = "linked" PROVE StandsFor(x)'
    BY DEF Meant
  <2>1. CASE UNCHANGED <<kernel, conns>>
    BY <1>1, <2>1 DEF IInv, Meant, StandsFor
  <2>2. CASE \E i \in Inst : Connects(i)
    BY <1>1, <2>2, ConnectsMeant
  <2> QED BY <1>2, <2>1, <2>2
<1> QED BY <1>4, <1>5, <1>6, <1>7 DEF IInv

----------------------------------------------------------------------------
(* Use of a Controller, and the kernel.                                    *)

(* What a command reaches through an object that stands for a connection.  *)
LEMMA Opened ==
  ASSUME IInv, NEW o \in Obj, heap[o] = "linked"
  PROVE  /\ StandsFor(o)
         /\ open_fd(o) \in Conn \cup {NULL}
         /\ o \notin late => open_fd(o) = ctrl[o].conn
<1>1. StandsFor(o)
  BY DEF IInv, Meant
<1> QED BY <1>1, Distinct DEF IInv, TypeOK, StandsFor, open_fd

(* Sending leaves every object with the connection it stands for.          *)
LEMMA SendIs ==
  ASSUME IInv, NEW h \in Handle, Sends(handle[h]), UNCHANGED <<kernel, late>>
  PROVE  /\ ctrl' \in [Obj -> [inst : Inst \cup {NULL}, conn : Conn \cup {NULL},
                               fd : Conn \cup {NULL}]]
         /\ sent' \in [obj : Obj, conn : Conn \cup {NULL}]
         /\ \A x \in Obj : heap[x] = "linked" => StandsFor(x)'
<1> DEFINE o == handle[h]
<1>1. o \in Obj /\ heap[o] = "linked"
  BY DEF Sends, IInv, TypeOK, NothingDangles, Held
<1>2. StandsFor(o) /\ open_fd(o) \in Conn /\ (o \notin late => open_fd(o) = ctrl[o].conn)
  BY <1>1, Opened DEF Sends
<1>3. /\ ctrl' = [ctrl EXCEPT ![o].fd = open_fd(o)]
      /\ sent' \in [obj : {o}, conn : Conn \cup {NULL}]
  BY <1>2 DEF Sends
<1> HIDE DEF o
<1>4. ASSUME NEW x \in Obj, heap[x] = "linked" PROVE StandsFor(x)'
  <2>1. CASE x = o
    <3>1. ctrl'[x] = [inst |-> ctrl[o].inst, conn |-> ctrl[o].conn, fd |-> open_fd(o)]
      BY <1>1, <1>3, <2>1 DEF IInv, TypeOK
    <3> QED BY <1>2, <1>3, <2>1, <3>1, Distinct DEF StandsFor
  <2>2. CASE x # o
    BY <1>1, <1>3, <1>4, <2>2 DEF IInv, TypeOK, Meant, StandsFor
  <2> QED BY <2>1, <2>2
<1> QED BY <1>1, <1>2, <1>3, <1>4 DEF IInv, TypeOK

LEMMA SendOnly ==
  ASSUME IInv, NEW h \in Handle, Sends(handle[h]),
         UNCHANGED <<root, heap, handle, logs, busy, orphan, late, kernel, conns>>
  PROVE  IInv'
<1>1. /\ ctrl' \in [Obj -> [inst : Inst \cup {NULL}, conn : Conn \cup {NULL},
                            fd : Conn \cup {NULL}]]
      /\ sent' \in [obj : Obj, conn : Conn \cup {NULL}]
      /\ \A x \in Obj : heap[x] = "linked" => StandsFor(x)'
  BY SendIs
<1>2. TypeOK' /\ Meant'
  BY <1>1 DEF IInv, TypeOK, Meant
<1>3. NothingDangles' /\ Owned'
  BY DEF IInv, NothingDangles, Held, Owned, Allocated
<1> QED BY <1>2, <1>3 DEF IInv

LEMMA ResetStep ==
  ASSUME IInv, NEW h \in Handle, reset(h)
  PROVE  IInv'
BY SendOnly DEF reset, KernelUnchanged

(* The end of a connection spares the objects that do not stand for it.    *)
LEMMA EndsMeant ==
  ASSUME IInv, NEW i \in Inst, kernel[i] # NULL, Ends(i), UNCHANGED <<heap, ctrl>>
  PROVE  /\ Meant' /\ late' \subseteq Obj /\ kernel' \in [Inst -> Conn \cup {NULL}]
<1>1. kernel' = [kernel EXCEPT ![i] = NULL]
      /\ late' = late \cup { o \in Obj : /\ heap[o] = "linked"
                                         /\ ctrl[o].conn = kernel[i] /\ ctrl[o].fd = NULL }
  BY DEF Ends
<1>2. ASSUME NEW o \in Obj, heap'[o] = "linked"
      PROVE  StandsFor(o)'
  <2>1. StandsFor(o)
    BY <1>2 DEF IInv, Meant
  <2>2. ctrl[o].fd = NULL /\ o \notin late' => ctrl[o].inst # i
    BY <1>1, <1>2, <2>1 DEF StandsFor
  <2>3. \A j \in Inst \ {i} : kernel'[j] = kernel[j]
    BY <1>1 DEF IInv, TypeOK
  <2> QED BY <1>1, <2>1, <2>2, <2>3 DEF StandsFor
<1> QED BY <1>1, <1>2 DEF IInv, TypeOK, Meant

LEMMA DisconnectStep ==
  ASSUME IInv, NEW h \in Handle, disconnect(h)
  PROVE  IInv'
<1> DEFINE o == handle[h]
<1>1. o \in Obj /\ heap[o] = "linked" /\ ctrl[o].inst \in Inst
  BY Opened DEF disconnect, IInv, TypeOK, NothingDangles, Held, StandsFor
<1>2. /\ handle' = [handle EXCEPT ![h] = NULL]
      /\ UNCHANGED <<root, heap, ctrl, logs, conns, busy, orphan, sent>>
      /\ \/ UNCHANGED <<kernel, late>>
         \/ kernel[ctrl[o].inst] # NULL /\ Ends(ctrl[o].inst)
  BY Zenon DEF disconnect
<1>3. Meant' /\ late' \subseteq Obj /\ kernel' \in [Inst -> Conn \cup {NULL}]
  <2>1. CASE UNCHANGED <<kernel, late>>
    BY <1>2, <2>1 DEF IInv, TypeOK, Meant, StandsFor
  <2>2. CASE kernel[ctrl[o].inst] # NULL /\ Ends(ctrl[o].inst)
    BY <1>1, <1>2, <2>2, EndsMeant
  <2> QED BY <1>2, <2>1, <2>2
<1>4. TypeOK'
  BY <1>2, <1>3 DEF IInv, TypeOK
<1>5. NothingDangles' /\ Owned'
  BY <1>2 DEF IInv, TypeOK, NothingDangles, Held, Owned, Allocated
<1> QED BY <1>3, <1>4, <1>5 DEF IInv

LEMMA LogSteps ==
  ASSUME IInv, NEW o \in Obj, (\E h \in Handle : discovery_log(h, o)) \/ DiscoveryLog_drop(o)
  PROVE  IInv'
<1>1. ASSUME NEW h \in Handle, discovery_log(h, o)
      PROVE  IInv'
  <2>1. /\ Sends(handle[h]) /\ busy = NotBusy
        /\ UNCHANGED <<root, handle, busy, kernel, conns, orphan, late>>
    BY <1>1 DEF discovery_log, KernelUnchanged, Idle
  <2>2. CASE UNCHANGED <<heap, logs>>
    BY <2>1, <2>2, SendOnly
  <2>3. CASE malloc(o, "log") /\ logs' = logs \cup {o}
    <3>1. /\ heap' \in [Obj -> HeapState] /\ heap[o] = "new" /\ heap'[o] = "log"
          /\ \A x \in Obj \ {o} : heap'[x] = heap[x]
      BY <2>3, Malloc
    <3>2. /\ ctrl' \in [Obj -> [inst : Inst \cup {NULL}, conn : Conn \cup {NULL},
                                fd : Conn \cup {NULL}]]
          /\ sent' \in [obj : Obj, conn : Conn \cup {NULL}]
          /\ \A x \in Obj : heap[x] = "linked" => StandsFor(x)'
      BY <2>1, SendIs
    <3>3. TypeOK'
      BY <2>1, <2>3, <3>1, <3>2 DEF IInv, TypeOK
    <3>4. NothingDangles'
      BY <2>1, <2>3, <3>1 DEF IInv, TypeOK, NothingDangles, Held, NotBusy
    <3>5. Owned' /\ Meant'
      BY <2>1, <2>3, <3>1, <3>2 DEF IInv, TypeOK, Owned, Allocated, Meant
    <3> QED BY <3>3, <3>4, <3>5 DEF IInv
  <2> QED BY <1>1, <2>2, <2>3 DEF discovery_log
<1>2. CASE DiscoveryLog_drop(o)
  <2>1. /\ o \in logs /\ heap[o] = "log" /\ logs' = logs \ {o} /\ busy = NotBusy
        /\ UNCHANGED <<root, ctrl, handle, busy, kernel, conns, orphan, late, sent>>
    BY <1>2 DEF DiscoveryLog_drop, KernelUnchanged, HistoryUnchanged, IInv, NothingDangles, Idle
  <2>2. heap' = [heap EXCEPT ![o] = "freed"]
    BY <1>2, <2>1 DEF DiscoveryLog_drop, free, Freed, IInv, TypeOK
  <2>3. TypeOK'
    BY <2>1, <2>2 DEF IInv, TypeOK, HeapState
  <2>4. NothingDangles'
    BY <2>1, <2>2 DEF IInv, TypeOK, NothingDangles, Held, NotBusy
  <2>5. Owned' /\ Meant'
    BY <2>1, <2>2 DEF IInv, TypeOK, Owned, Allocated, Meant, StandsFor
  <2> QED BY <2>3, <2>4, <2>5 DEF IInv
<1> QED BY <1>1, <1>2

LEMMA KernelSteps ==
  ASSUME IInv, NEW i \in Inst, OtherConnects(i) \/ ConnectionLost(i)
  PROVE  IInv'
<1>1. UNCHANGED <<root, heap, ctrl, handle, logs, busy, orphan, sent>>
  BY DEF OtherConnects, ConnectionLost, HistoryUnchanged
<1>2. /\ Meant' /\ late' \subseteq Obj /\ kernel' \in [Inst -> Conn \cup {NULL}]
      /\ conns' \in 0 .. MaxConn
  <2>1. CASE OtherConnects(i)
    BY <1>1, <2>1, ConnectsType, ConnectsMeant
    DEF OtherConnects, HistoryUnchanged, Meant, IInv, TypeOK
  <2>2. CASE ConnectionLost(i)
    BY <1>1, <2>2, EndsMeant DEF ConnectionLost, IInv, TypeOK
  <2> QED BY <2>1, <2>2
<1>3. TypeOK'
  BY <1>1, <1>2 DEF IInv, TypeOK
<1>4. NothingDangles' /\ Owned'
  BY <1>1 DEF IInv, NothingDangles, Held, Owned, Allocated
<1> QED BY <1>2, <1>3, <1>4 DEF IInv

----------------------------------------------------------------------------
(* The theorems.                                                           *)

LEMMA Step == IInv /\ [Next]_vars => IInv'
<1> SUFFICES ASSUME IInv, [Next]_vars PROVE IInv'
  OBVIOUS
<1>1. CASE scan \/ drop \/ add_ctrl_fails
  BY <1>1, ScanStep, DropStep, AddFailsStep
<1>2. ASSUME NEW utf8 \in BOOLEAN, take_owned_cstr(utf8)
      PROVE  IInv'
  <2>1. busy.obj \in Obj
    BY <1>2 DEF take_owned_cstr, IInv, TypeOK, NotBusy
  <2> QED BY <1>2, <2>1, StringSteps
<1>3. ASSUME NEW o \in Obj, generate_hostnqn(o) \/ create_ctrl(o)
      PROVE  IInv'
  <2>1. TRUE \in BOOLEAN
    OBVIOUS
  <2> QED BY <1>3, <2>1, StringSteps, CreateStep
<1>4. ASSUME NEW o \in Obj, DiscoveryLog_drop(o)
      PROVE  IInv'
  BY <1>4, LogSteps
<1>5. ASSUME NEW h \in Handle, NEW o \in Obj, Controllers_next(h, o) \/ discovery_log(h, o)
      PROVE  IInv'
  BY <1>5, HandleSteps, LogSteps
<1>6. ASSUME NEW h \in Handle, DropHandle(h)
      PROVE  IInv'
  BY <1>6, HandleSteps DEF DropHandle, IInv, TypeOK
<1>7. ASSUME NEW h \in Handle, reset(h) \/ disconnect(h)
      PROVE  IInv'
  BY <1>7, ResetStep, DisconnectStep
<1>8. ASSUME NEW h \in Handle, NEW i \in Inst, add_ctrl(h, i)
      PROVE  IInv'
  BY <1>8, AddStep
<1>9. ASSUME NEW i \in Inst, OtherConnects(i) \/ ConnectionLost(i)
      PROVE  IInv'
  BY <1>9, KernelSteps
<1>10. CASE UNCHANGED vars
  BY <1>10 DEF vars, IInv, TypeOK, NothingDangles, Held, Owned, Allocated, Meant, StandsFor
<1> QED BY <1>1, <1>2, <1>3, <1>4, <1>5, <1>6, <1>7, <1>8, <1>9, <1>10 DEF Next

(* The objects, handles, logs and calls account for every allocation.      *)
THEOREM Inductive == Spec => []IInv
BY Initial, Step, PTL DEF Spec

(* The variables keep their types.                                         *)
THEOREM TypeCorrect == Spec => []TypeOK
BY Inductive, PTL DEF IInv

(* Nothing refers to freed memory, and nothing is freed twice.             *)
THEOREM NoDangling == Spec => []NothingDangles
BY Inductive, PTL DEF IInv

(* Between calls only the controller of a failed Connect is without owner. *)
THEOREM LeaksBounded == Spec => []LeaksOnlyByConnect
<1>1. IInv => LeaksOnlyByConnect
  BY DEF IInv, Owned, LeaksOnlyByConnect, Idle, NotBusy
<1> QED BY <1>1, Inductive, PTL

(* A command reaches the connection its controller object stands for.      *)
THEOREM CommandsReachTheirConnection == Spec => CommandsStayPut
<1>1. IInv /\ [Next]_vars =>
        [ sent' # sent /\ sent'.conn # NULL /\ sent'.obj \notin late =>
            sent'.conn = ctrl[sent'.obj].conn ]_vars
  <2> SUFFICES ASSUME IInv, Next, sent' # sent, sent'.conn # NULL, sent'.obj \notin late
               PROVE  sent'.conn = ctrl[sent'.obj].conn
    OBVIOUS
  <2>1. PICK h \in Handle : Sends(handle[h])
    BY DEF Next, reset, scan, drop, add_ctrl_fails, take_owned_cstr, generate_hostnqn, create_ctrl,
           DiscoveryLog_drop, Controllers_next, discovery_log, DropHandle, disconnect, add_ctrl,
           OtherConnects, ConnectionLost, HistoryUnchanged
  <2> DEFINE o == handle[h]
  <2>2. o \in Obj /\ heap[o] = "linked"
    BY <2>1 DEF Sends, IInv, TypeOK, NothingDangles, Held
  <2>3. sent' = [obj |-> o, conn |-> IF Live(open_fd(o)) THEN open_fd(o) ELSE NULL]
    BY <2>1 DEF Sends
  <2> QED BY <2>2, <2>3, Opened
<1> QED BY <1>1, Inductive, PTL DEF Spec, CommandsStayPut
=============================================================================
