----------------------------- MODULE HandleTree -----------------------------
(***************************************************************************)
(* The handle tree of one Root and the iterators over it (root.rs and the  *)
(* Hosts, Subsystems, Controllers, Namespaces and Paths iterators).        *)
(*                                                                         *)
(* libnvme keeps the children of every object in linked lists.  An         *)
(* iterator of the crate borrows the Root, so that the Root outlives it,   *)
(* but it does not stop the same thread from growing the lists meanwhile:  *)
(* lookup_host and default_host create hosts and Connect inserts           *)
(* controllers.  Where in its list libnvme puts a new node is left open.   *)
(*                                                                         *)
(* Every iterator fetches its next node one call ahead: cursor is already  *)
(* the node after the one last yielded.                                    *)
(***************************************************************************)
EXTENDS Pointer

CONSTANTS
  Node,       \* hosts, subsystems, controllers, namespaces and paths
  List,       \* the lists libnvme may keep in a tree
  Owner,      \* the node a list hangs off; Top for the list of hosts
  Hosts,      \* the list of hosts, one of List
  Top,        \* the root object
  Iter,       \* iterators a program may have open at once
  Topology    \* the trees a scan may find: lists of nodes, with their order

(* A strict order of the nodes of a list, from its head on.                *)
Ordered(S, lt) ==
  /\ lt \subseteq S \X S
  /\ \A x \in S : <<x, x>> \notin lt
  /\ \A x, y \in S : x = y \/ <<x, y>> \in lt \/ <<y, x>> \in lt
  /\ \A x, y, z \in S : <<x, y>> \in lt /\ <<y, z>> \in lt => <<x, z>> \in lt

ASSUME TreeAssumption ==
  /\ Hosts \in List
  /\ Owner \in [List -> Node \cup {Top}]
  /\ Owner[Hosts] = Top
  /\ Top \notin Node /\ NULL \notin Node
  /\ \A t \in Topology :
       /\ t.member \in [List -> SUBSET Node]
       /\ t.before \in [List -> SUBSET (Node \X Node)]
       /\ \A l \in List : Ordered(t.member[l], t.before[l])

VARIABLES
  scanned,  \* a Root exists
  member,   \* the nodes in each list
  before,   \* their order
  iter      \* the iterators; list is NULL in one that is not open

treeVars == <<scanned, member, before, iter>>

(* seen and start are history: the nodes yielded, and those in the list    *)
(* when the iterator was made.                                             *)
Closed == [list |-> NULL, cursor |-> NULL, seen |-> {}, start |-> {}]

Open == { i \in Iter : iter[i].list # NULL }

InTree(n) == n = Top \/ \E l \in List : n \in member[l]

----------------------------------------------------------------------------
(* libnvme's lists.                                                        *)

(* first(l): the head of list l, NULL if it is empty.                      *)
IsFirst(l, n) ==
  \/ n = NULL /\ member[l] = {}
  \/ n \in member[l] /\ \A m \in member[l] \ {n} : <<n, m>> \in before[l]

After(l, n) == { m \in member[l] : <<n, m>> \in before[l] }

(* next(l, n): the node after n, NULL if n is the last.                    *)
IsNext(l, n, m) ==
  \/ m = NULL /\ After(l, n) = {}
  \/ m \in After(l, n) /\ \A k \in After(l, n) \ {m} : <<m, k>> \in before[l]

(* Node n enters list l behind the nodes P.                                *)
Link(l, n, P) ==
  /\ \A x \in P, y \in member[l] \ P : <<x, y>> \in before[l]
  /\ member' = [member EXCEPT ![l] = @ \cup {n}]
  /\ before' = [before EXCEPT ![l] = @ \cup (P \X {n}) \cup ({n} \X (member[l] \ P))]

----------------------------------------------------------------------------
TreeInit ==
  /\ scanned = FALSE
  /\ member = [l \in List |-> {}]
  /\ before = [l \in List |-> {}]
  /\ iter = [i \in Iter |-> Closed]

(* Root::scan, as far as the lists go; it fails without effect if          *)
(* nvme_scan returns NULL.                                                 *)
scan_lists ==
  /\ ~scanned
  /\ \E t \in Topology : member' = t.member /\ before' = t.before
  /\ scanned' = TRUE
  /\ UNCHANGED iter

(* Root::lookup_host and default_host: a host that is not there is made.   *)
lookup_host(n) ==
  /\ scanned
  /\ n \notin member[Hosts]
  /\ \E P \in SUBSET member[Hosts] : Link(Hosts, n, P)
  /\ UNCHANGED <<scanned, iter>>

(* Connect::execute through nvmf_add_ctrl, one list at a time: the         *)
(* subsystem under its host, the controller, its namespaces and paths.     *)
add_ctrl_lists(l, n) ==
  /\ scanned
  /\ l # Hosts
  /\ InTree(Owner[l])
  /\ n \notin member[l]
  /\ \E P \in SUBSET member[l] : Link(l, n, P)
  /\ UNCHANGED <<scanned, iter>>

(* Hosts::new and its four likes: the cursor starts at the first node.     *)
new(i, l) ==
  /\ scanned
  /\ iter[i].list = NULL
  /\ InTree(Owner[l])
  /\ \E n \in Node \cup {NULL} :
       /\ IsFirst(l, n)
       /\ iter' = [iter EXCEPT ![i] = [list |-> l, cursor |-> n, seen |-> {},
                                       start |-> member[l]]]
  /\ UNCHANGED <<scanned, member, before>>

(* Mutant: next does not test the cursor for NULL.                         *)
next_YieldsNull(i) ==
  /\ iter[i].list # NULL
  /\ \E n \in Node \cup {NULL} :
       /\ IsNext(iter[i].list, iter[i].cursor, n)
       /\ iter' = [iter EXCEPT ![i].cursor = n, ![i].seen = @ \cup {iter[i].cursor}]
  /\ UNCHANGED <<scanned, member, before>>

(* Mutant: next yields the cursor and leaves it where it is.               *)
next_Stays(i) ==
  /\ iter[i].list # NULL
  /\ iter[i].cursor # NULL
  /\ iter' = [iter EXCEPT ![i].seen = @ \cup {iter[i].cursor}]
  /\ UNCHANGED <<scanned, member, before>>

(* Mutant: next moves on first and yields what it finds there.             *)
next_Skips(i) ==
  /\ iter[i].list # NULL
  /\ iter[i].cursor # NULL
  /\ \E n \in Node \cup {NULL} :
       /\ IsNext(iter[i].list, iter[i].cursor, n)
       /\ iter' = [iter EXCEPT ![i].cursor = n, ![i].seen = @ \cup ({n} \ {NULL})]
  /\ UNCHANGED <<scanned, member, before>>

(* Iterator::next: yields the cursor after moving it on.                   *)
next(i) ==
  /\ iter[i].list # NULL
  /\ iter[i].cursor # NULL
  /\ \E n \in Node \cup {NULL} :
       /\ IsNext(iter[i].list, iter[i].cursor, n)
       /\ iter' = [iter EXCEPT ![i].cursor = n, ![i].seen = @ \cup {iter[i].cursor}]
  /\ UNCHANGED <<scanned, member, before>>

(* The program leaves its loop, at the end of the list or before.          *)
DropIter(i) ==
  /\ iter[i].list # NULL
  /\ iter' = [iter EXCEPT ![i] = Closed]
  /\ UNCHANGED <<scanned, member, before>>

(* Root::drop frees the tree; no borrow of the Root can be left.           *)
drop_lists ==
  /\ scanned
  /\ Open = {}
  /\ scanned' = FALSE
  /\ member' = [l \in List |-> {}]
  /\ before' = [l \in List |-> {}]
  /\ UNCHANGED iter

TreeNext ==
  \/ scan_lists \/ drop_lists
  \/ \E n \in Node : lookup_host(n) \/ \E l \in List : add_ctrl_lists(l, n)
  \/ \E i \in Iter : (\E l \in List : new(i, l)) \/ next(i) \/ DropIter(i)

TreeSpec == TreeInit /\ [][TreeNext]_treeVars

(* A for loop keeps calling next.                                          *)
FairTreeSpec == TreeSpec /\ \A i \in Iter : WF_treeVars(next(i))

----------------------------------------------------------------------------
(* Properties.                                                             *)

TreeTypeOK ==
  /\ scanned \in BOOLEAN
  /\ member \in [List -> SUBSET Node]
  /\ before \in [List -> SUBSET (Node \X Node)]
  /\ iter \in [Iter -> [list : List \cup {NULL}, cursor : Node \cup {NULL},
                        seen : SUBSET Node, start : SUBSET Node]]

(* An iterator yields nodes of its own list, in list order and none twice, *)
(* however the list grows between two calls of next: whatever it yielded   *)
(* precedes the node it will yield next (the next of the five iterators).  *)
YieldsInOrder ==
  \A i \in Open :
    LET l == iter[i].list
    IN  /\ iter[i].seen \subseteq member[l]
        /\ iter[i].cursor # NULL =>
             /\ iter[i].cursor \in member[l]
             /\ \A n \in iter[i].seen : <<n, iter[i].cursor>> \in before[l]

(* A loop that runs to the end has yielded every node that was in the list *)
(* when it began.  (A node linked in behind the cursor, or after the last  *)
(* node once that has been fetched, is missed.)                            *)
YieldsAll ==
  \A i \in Open : iter[i].cursor = NULL => iter[i].start \subseteq iter[i].seen

(* A loop ends, as finitely many nodes can be linked in ahead of it.       *)
LoopEnds ==
  \A i \in Iter : iter[i].list # NULL ~> iter[i].cursor = NULL
=============================================================================
