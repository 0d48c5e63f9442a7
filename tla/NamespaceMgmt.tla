--------------------------- MODULE NamespaceMgmt ---------------------------
(***************************************************************************)
(* Namespace management (controller.rs: create_namespace, delete_namespace *)
(* and ns_attach_op) by several processes, against the Namespace handles   *)
(* they hold.                                                              *)
(*                                                                         *)
(* A namespace identifier is a number that the controller gives out again  *)
(* after a delete.  The model numbers the namespaces themselves (`made`),  *)
(* so that a handle or an answer can be told from the identifier it        *)
(* carries.                                                                *)
(***************************************************************************)
EXTENDS Ioctl, Sequences

CONSTANTS
  Process,  \* processes, each with a Controller handle
  User,     \* those that also have a Namespace handle
  Nsid,     \* namespace identifiers the controller can give out
  Cntlid,   \* controller identifiers; an unused list entry is 0
  MaxIds,   \* 2047: the entries of nvme_ctrl_list
  MaxMade,  \* bound: namespaces ever created
  Request   \* the calls processes make, see RequestType

RequestType ==
  [op : {"create", "delete", "attach", "detach"}, nsid : Nat, ids : Seq(Cntlid)]

ASSUME NamespaceMgmtAssumption ==
  /\ User \subseteq Process
  /\ Nsid \subseteq Nat \ {0}
  /\ 0 \in Cntlid /\ Cntlid \subseteq Nat
  /\ MaxIds \in Nat /\ MaxMade \in Nat
  /\ Request \subseteq RequestType

VARIABLES
  ns,        \* subsystem: the namespace behind each identifier, 0 if none
  attached,  \* subsystem: the controllers each identifier is attached to
  made,      \* subsystem: namespaces created so far
  fd,        \* libnvme: the processes whose controller descriptor is open
  call,      \* per process, the method in progress or last returned
  handle,    \* per process, its Namespace handle
  asked,     \* history: controllers an attach named for the namespace
  granted,   \* history: controllers whose attach was reported done
  mine,      \* history: per process, identifiers create gave it
  orphan     \* history: processes whose handle lost its namespace unopened

subsystem == <<ns, attached, made>>
history == <<asked, granted, mine, orphan>>
vars == <<subsystem, fd, call, handle, history>>

----------------------------------------------------------------------------
(* Encodings.                                                              *)

(* Mutant: the length of the list is not checked.                          *)
list_checks_Dropped(ids) == TRUE

list_checks(ids) == Len(ids) <= MaxIds

(* Mutant: the number of identifiers taken for 0's based.                  *)
ctrl_list_ZeroBased(ids) ==
  [num |-> Len(ids) - 1,
   identifier |-> [i \in 1 .. MaxIds |-> IF i <= Len(ids) THEN ids[i] ELSE 0]]

(* Mutant: the whole list is announced, its unused entries included.       *)
ctrl_list_Whole(ids) ==
  [num |-> MaxIds,
   identifier |-> [i \in 1 .. MaxIds |-> IF i <= Len(ids) THEN ids[i] ELSE 0]]

ctrl_list(ids) ==
  [num |-> Len(ids),
   identifier |-> [i \in 1 .. MaxIds |-> IF i <= Len(ids) THEN ids[i] ELSE 0]]

NoList == [num |-> 0, identifier |-> [i \in 1 .. MaxIds |-> 0]]

----------------------------------------------------------------------------
(* The host side.                                                          *)

Named(ids) == { ids[i] : i \in DOMAIN ids }

(* A Namespace handle: its identifier, the namespace it was scanned for,   *)
(* the one its descriptor is of, and the one its last command reached.     *)
NoHandle == [nsid |-> 0, of |-> 0, fd |-> 0, did |-> 0]

Idle == [st |-> "returned", req |-> [op |-> "none"],
         cmd |-> [sel |-> "none", nsid |-> 0, list |-> NoList],
         ret |-> 0, result |-> 0, sound |-> TRUE, reply |-> OsError]

Init ==
  /\ ns = [n \in Nsid |-> 0]
  /\ attached = [n \in Nsid |-> {}]
  /\ made = 0
  /\ fd = {}
  /\ call = [p \in Process |-> Idle]
  /\ handle = [p \in Process |-> NoHandle]
  /\ asked = [n \in Nsid |-> {}]
  /\ granted = [n \in Nsid |-> {}]
  /\ mine = [p \in Process |-> {}]
  /\ orphan = {}

ReturnEarly(p, req, reply) ==
  /\ call' = [call EXCEPT ![p] = [Idle EXCEPT !.req = req, !.reply = reply]]
  /\ UNCHANGED <<subsystem, fd, handle, history>>

(* A delete or a detach ends what others were told of the namespace, and a *)
(* call in progress that is about it will be told nothing lasting.         *)
Undermines(req, n) == req.op \in {"delete", "detach"} /\ req.nsid = n

(* open_fd, then the ioctl.  A create does not know its namespace yet.     *)
Issue(p, req, cmd) ==
  \/ /\ p \notin fd
     /\ ReturnEarly(p, req, OsError)
  \/ /\ fd' = fd \cup {p}
     /\ call' = [q \in Process |->
          IF q = p
          THEN [Idle EXCEPT !.st = "inflight", !.req = req, !.cmd = cmd,
                  !.sound = \A r \in Process \ {p} :
                    call[r].st # "returned" => ~Undermines(call[r].req, req.nsid)]
          ELSE [call[q] EXCEPT !.sound =
                  @ /\ (call[q].st = "returned" \/ ~\E n \in Nsid :
                          Undermines(req, n) /\ n \in {call[q].req.nsid, call[q].result})]]
     /\ asked' = IF req.op = "attach" /\ req.nsid \in Nsid
                 THEN [asked EXCEPT ![req.nsid] = @ \cup Named(req.ids)] ELSE asked
     /\ granted' = [n \in Nsid |-> IF Undermines(req, n) THEN {} ELSE granted[n]]
     /\ mine' = [q \in Process |->
                  IF req.op = "delete" THEN mine[q] \ {req.nsid} ELSE mine[q]]
     /\ UNCHANGED <<subsystem, handle, orphan>>

create_namespace(p, req) ==
  /\ call[p].st = "returned" /\ req.op = "create"
  /\ Issue(p, req, [sel |-> "create", nsid |-> 0, list |-> NoList])

delete_namespace(p, req) ==
  /\ call[p].st = "returned" /\ req.op = "delete"
  /\ Issue(p, req, [sel |-> "delete", nsid |-> req.nsid, list |-> NoList])

(* attach_namespace and detach_namespace.                                  *)
ns_attach_op(p, req) ==
  /\ call[p].st = "returned" /\ req.op \in {"attach", "detach"}
  /\ \/ ~list_checks(req.ids) /\ ReturnEarly(p, req, InvalidArgument)
     \/ /\ list_checks(req.ids)
        /\ Issue(p, req, [sel |-> req.op, nsid |-> req.nsid, list |-> ctrl_list(req.ids)])

(* check_ret decides; create returns the identifier libnvme stored.        *)
Return(p) ==
  LET reply == check_ret(call[p].ret)
      req == call[p].req
      told == reply.kind = "Ok" /\ call[p].sound
  IN  /\ call[p].st = "completed"
      /\ call' = [call EXCEPT ![p] = [Idle EXCEPT !.reply = reply]]
      /\ granted' = [n \in Nsid |->
           IF told /\ req.op = "attach" /\ req.nsid = n
           THEN granted[n] \cup Named(req.ids) ELSE granted[n]]
      /\ mine' = [mine EXCEPT ![p] =
           IF told /\ req.op = "create" THEN @ \cup {call[p].result} ELSE @]
      /\ UNCHANGED <<subsystem, fd, handle, asked, orphan>>

(* A scan finds an attached namespace; its device is not opened.           *)
Scan(p, n) ==
  /\ ns[n] # 0 /\ attached[n] # {}
  /\ handle' = [handle EXCEPT ![p] = [nsid |-> n, of |-> ns[n], fd |-> 0, did |-> 0]]
  /\ orphan' = orphan \ {p}
  /\ UNCHANGED <<subsystem, fd, call, asked, granted, mine>>

(* Mutant: ns_fd opens the device anew for each command.                   *)
ns_fd_Reopens(h) == ns[h.nsid]

(* The namespace behind the descriptor: the device is opened by name with  *)
(* the first command, and the descriptor is kept.                          *)
ns_fd(h) == IF h.fd # 0 THEN h.fd ELSE ns[h.nsid]

(* A command of io.rs through the handle: it reaches the namespace of its  *)
(* descriptor, if that still exists and is attached; else it fails, which  *)
(* changes nothing.                                                        *)
Command(p) ==
  LET h == handle[p]
      dev == ns_fd(h)
  IN  /\ h.nsid # 0
      /\ dev # 0 /\ attached[h.nsid] # {}
      /\ handle' = [handle EXCEPT ![p].fd = dev,
                                  ![p].did = IF ns[h.nsid] = dev THEN dev ELSE 0]
      /\ UNCHANGED <<subsystem, fd, call, history>>

----------------------------------------------------------------------------
(* The controller.                                                         *)

NoRoom          == 277
NotAttached     == 282
AlreadyAttached == 280
InvalidNs       == 11

(* The command of p completes; it is unsound for a create whose namespace  *)
(* somebody is deleting, which can only be known now.                      *)
Complete(p, ret, result) ==
  /\ call' = [call EXCEPT ![p].st = "completed", ![p].ret = ret, ![p].result = result,
       ![p].sound = @ /\ (result # 0 => \A q \in Process \ {p} :
                            call[q].st # "returned" => ~Undermines(call[q].req, result))]
  /\ UNCHANGED <<fd, handle>>

Exists(n) == n \in Nsid /\ ns[n] # 0

Serving(p, sel) == call[p].st = "inflight" /\ call[p].cmd.sel = sel

ServeCreate(p) ==
  /\ Serving(p, "create")
  /\ \/ /\ made < MaxMade
        /\ \E n \in Nsid :
             /\ ns[n] = 0
             /\ ns' = [ns EXCEPT ![n] = made + 1]
             /\ Complete(p, Success, n)
        /\ made' = made + 1
        /\ UNCHANGED <<attached, history>>
     \/ /\ Complete(p, NoRoom, 0)
        /\ UNCHANGED <<subsystem, history>>

(* Controllers that attach calls in flight name for an identifier: they    *)
(* may find another namespace behind it.                                   *)
Pending(n) ==
  UNION { Named(call[q].req.ids) : q \in { q \in Process : call[q].st = "inflight"
                                            /\ call[q].req.op = "attach"
                                            /\ call[q].req.nsid = n } }

ServeDelete(p) ==
  LET n == call[p].cmd.nsid IN
  /\ Serving(p, "delete")
  /\ \/ /\ Exists(n)
        /\ ns' = [ns EXCEPT ![n] = 0]
        /\ attached' = [attached EXCEPT ![n] = {}]
        /\ asked' = [asked EXCEPT ![n] = Pending(n)]
        /\ orphan' = orphan \cup { q \in Process : handle[q].nsid = n /\ handle[q].fd = 0 }
        /\ Complete(p, Success, 0)
        /\ UNCHANGED <<made, granted, mine>>
     \/ /\ ~(Exists(n) /\ attached[n] = {})
        /\ Complete(p, InvalidNs, 0)
        /\ UNCHANGED <<subsystem, history>>

(* The controllers a list names: its first `num` entries.                  *)
Listed(list) == { list.identifier[i] : i \in 1 .. list.num }

(* A controller that is attached already, or is not attached, makes the    *)
(* command fail, after some of the others may have been dealt with.        *)
ServeAttach(p) ==
  LET n == call[p].cmd.nsid
      C == Listed(call[p].cmd.list)
      sel == call[p].cmd.sel
  IN
  /\ Serving(p, "attach") \/ Serving(p, "detach")
  /\ \/ /\ Exists(n)
        /\ \/ sel = "attach" /\ C \cap attached[n] = {}
              /\ attached' = [attached EXCEPT ![n] = @ \cup C]
              /\ Complete(p, Success, 0)
           \/ sel = "detach" /\ C \subseteq attached[n]
              /\ attached' = [attached EXCEPT ![n] = @ \ C]
              /\ Complete(p, Success, 0)
           \/ sel = "attach" /\ C \cap attached[n] # {}
              /\ \E S \in SUBSET C : attached' = [attached EXCEPT ![n] = @ \cup S]
              /\ Complete(p, AlreadyAttached, 0)
           \/ sel = "detach" /\ ~(C \subseteq attached[n])
              /\ \E S \in SUBSET C : attached' = [attached EXCEPT ![n] = @ \ S]
              /\ Complete(p, NotAttached, 0)
     \/ /\ ~Exists(n)
        /\ Complete(p, InvalidNs, 0)
        /\ UNCHANGED attached
  /\ UNCHANGED <<ns, made, history>>

Timeout(p) ==
  /\ call[p].st \in {"inflight", "completed"}
  /\ Complete(p, -1, call[p].result)
  /\ UNCHANGED <<subsystem, history>>

----------------------------------------------------------------------------
Method(p, req) == create_namespace(p, req) \/ delete_namespace(p, req) \/ ns_attach_op(p, req)

Next ==
  \/ \E p \in Process :
       \/ \E req \in Request : Method(p, req)
       \/ ServeCreate(p) \/ ServeDelete(p) \/ ServeAttach(p) \/ Timeout(p) \/ Return(p)
  \/ \E p \in User : Command(p) \/ \E n \in Nsid : Scan(p, n)

Spec == Init /\ [][Next]_vars

----------------------------------------------------------------------------
(* Properties.                                                             *)

(* No controller is attached that no attach call for the namespace named:  *)
(* in particular not controller 0, with which lists are padded             *)
(* (controller.rs: ns_attach_op).                                          *)
OnlyAsked == \A n \in Nsid : attached[n] \subseteq asked[n]

(* An attach that returned Ok has attached every controller it lists, and  *)
(* they stay attached until somebody detaches or deletes the namespace     *)
(* (controller.rs: ns_attach_op).                                          *)
AttachLasts == \A n \in Nsid : granted[n] \subseteq attached[n]

(* The identifier create_namespace returns is that of a namespace that     *)
(* exists and that no other create was given, until somebody deletes it.   *)
CreatedIsOwn ==
  \A p \in Process :
    /\ mine[p] \subseteq { n \in Nsid : ns[n] # 0 }
    /\ \A q \in Process \ {p} : mine[p] \cap mine[q] = {}

(* Whatever others create and delete, the commands of a Namespace handle   *)
(* reach the namespace it was scanned for or fail, unless that was deleted *)
(* before the handle was first used: only then may the identifier, given   *)
(* out again, lead to another one (controller.rs: delete_namespace;        *)
(* io.rs: ns_fd, which opens the device late and keeps it).                *)
HandleKeepsNamespace ==
  \A p \in Process : handle[p].did \in {0, handle[p].of} \/ p \in orphan

CallType ==
  [st : {"returned", "inflight", "completed"}, req : Request \cup {Idle.req},
   cmd : [sel : {"none", "create", "delete", "attach", "detach"}, nsid : Nat,
          list : [num : 0 .. MaxIds, identifier : [1 .. MaxIds -> Cntlid]]],
   ret : Int, result : Nat, sound : BOOLEAN, reply : Reply]

(* Every variable has its type; a list announces no more entries than it   *)
(* has.                                                                    *)
TypeOK ==
  /\ ns \in [Nsid -> 0 .. made] /\ made \in 0 .. MaxMade
  /\ attached \in [Nsid -> SUBSET Cntlid]
  /\ fd \subseteq Process
  /\ call \in [Process -> CallType]
  /\ \A p \in Process : call[p].st # "returned" => p \in fd
  /\ handle \in [Process -> [nsid : Nsid \cup {0}, of : Nat, fd : Nat, did : Nat]]
  /\ asked \in [Nsid -> SUBSET Cntlid] /\ granted \in [Nsid -> SUBSET Cntlid]
  /\ mine \in [Process -> SUBSET Nat]
  /\ orphan \subseteq Process
=============================================================================
