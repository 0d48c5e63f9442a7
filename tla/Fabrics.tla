------------------------------ MODULE Fabrics ------------------------------
(***************************************************************************)
(* Fabrics controllers: what is allocated, who owns it, and which          *)
(* connection a Controller handle reaches (fabrics.rs, root.rs and the     *)
(* fabrics half of controller.rs).                                         *)
(*                                                                         *)
(* One process with at most one Root at a time, whose handles are all on   *)
(* one thread, and the kernel, in which other processes connect and        *)
(* disconnect controllers meanwhile.  The kernel names a connection by an  *)
(* instance (nvmeN) and gives the name of a lost one to a later one; a     *)
(* libnvme controller object keeps the name, and an open descriptor once   *)
(* there is one.                                                           *)
(***************************************************************************)
EXTENDS Pointer, Naturals, FiniteSets

CONSTANTS
  Obj,      \* allocations a run may make
  Handle,   \* Controller values the program may hold at once
  Inst,     \* instance names
  MaxConn   \* connections a run may see

ASSUME FabricsAssumption ==
  /\ MaxConn \in Nat
  /\ NULL \notin Obj \cup Inst \cup Nat

VARIABLES
  root,    \* a Root exists
  heap,    \* state of every allocation
  ctrl,    \* the controller objects: name, connection meant, descriptor
  handle,  \* the object of each Controller value, NULL if there is none
  logs,    \* the allocations of the DiscoveryLog values the program holds
  kernel,  \* the connection behind each instance name, NULL if there is none
  conns,   \* connections made so far
  busy,    \* the call in progress: an allocation it has not handed over yet
  orphan,  \* history: controllers whose Connect failed
  late,    \* history: objects whose connection ended before they had a descriptor
  sent     \* the last command: object and connection reached

vars == <<root, heap, ctrl, handle, logs, kernel, conns, busy, orphan, late, sent>>

HeapState == {"new", "unlinked", "linked", "log", "string", "freed", "corrupt"}
Allocated == { o \in Obj : heap[o] \in {"unlinked", "linked", "log", "string"} }

Conn == 1 .. MaxConn
NoCtrl == [inst |-> NULL, conn |-> NULL, fd |-> NULL]
NotBusy == [op |-> "none", obj |-> NULL]
NothingSent == [obj |-> NULL, conn |-> NULL]

Idle == busy = NotBusy
Held == { handle[h] : h \in Handle } \ {NULL}

Init ==
  /\ root = FALSE
  /\ heap = [o \in Obj |-> "new"]
  /\ ctrl = [o \in Obj |-> NoCtrl]
  /\ handle = [h \in Handle |-> NULL]
  /\ logs = {} /\ orphan = {} /\ late = {}
  /\ kernel = [i \in Inst |-> NULL]
  /\ conns = 0
  /\ busy = NotBusy
  /\ sent = NothingSent

----------------------------------------------------------------------------
(* Allocation.                                                             *)

malloc(o, what) == heap[o] = "new" /\ heap' = [heap EXCEPT ![o] = what]

Freed(state) == IF state \in {"new", "freed", "corrupt"} THEN "corrupt" ELSE "freed"
free(S) == heap' = [o \in Obj |-> IF o \in S THEN Freed(heap[o]) ELSE heap[o]]

HistoryUnchanged == UNCHANGED <<orphan, late, sent>>
KernelUnchanged == UNCHANGED <<kernel, conns>>

(* take_owned_cstr, called with what libnvme returned.  NULL is an error   *)
(* and leaves everything as it is.                                         *)
generate_hostnqn(o) ==
  /\ Idle
  /\ malloc(o, "string")
  /\ busy' = [op |-> "string", obj |-> o]
  /\ UNCHANGED <<root, ctrl, handle, logs>>
  /\ KernelUnchanged /\ HistoryUnchanged

(* Mutant: the UTF-8 check returns before the free.                        *)
take_owned_cstr_ChecksFirst(utf8) ==
  /\ busy.op = "string"
  /\ IF utf8 THEN free({busy.obj}) ELSE UNCHANGED heap
  /\ busy' = NotBusy
  /\ UNCHANGED <<root, ctrl, handle, logs>>
  /\ KernelUnchanged /\ HistoryUnchanged

(* Mutant: the freed pointer stays with the call.                          *)
take_owned_cstr_KeepsPtr(utf8) ==
  /\ busy.op = "string"
  /\ free({busy.obj})
  /\ busy' = [busy EXCEPT !.op = "none"]
  /\ UNCHANGED <<root, ctrl, handle, logs>>
  /\ KernelUnchanged /\ HistoryUnchanged

(* The bytes are copied, the original freed, and only then looked at:      *)
(* whether they are UTF-8 decides what is returned, not what is freed.     *)
take_owned_cstr(utf8) ==
  /\ busy.op = "string"
  /\ free({busy.obj})
  /\ busy' = NotBusy
  /\ UNCHANGED <<root, ctrl, handle, logs>>
  /\ KernelUnchanged /\ HistoryUnchanged

----------------------------------------------------------------------------
(* Root.                                                                   *)

(* Root::scan makes an object for every controller the kernel has.         *)
scan ==
  /\ Idle /\ ~root
  /\ root' = TRUE
  /\ \E of \in [{ i \in Inst : kernel[i] # NULL } -> { o \in Obj : heap[o] = "new" }] :
       LET S == { of[i] : i \in DOMAIN of }
       IN  /\ Cardinality(S) = Cardinality(DOMAIN of)
           /\ heap' = [o \in Obj |-> IF o \in S THEN "linked" ELSE heap[o]]
           /\ ctrl' = [o \in Obj |->
                IF o \in S
                THEN LET i == CHOOSE j \in DOMAIN of : of[j] = o
                     IN  [inst |-> i, conn |-> kernel[i], fd |-> NULL]
                ELSE ctrl[o]]
  /\ UNCHANGED <<handle, logs, busy>>
  /\ KernelUnchanged /\ HistoryUnchanged

(* Mutant: the tree is freed under a handle that is still there.           *)
drop_Unborrowed ==
  /\ Idle /\ root
  /\ free({ o \in Obj : heap[o] = "linked" })
  /\ root' = FALSE
  /\ ctrl' = [o \in Obj |-> IF heap[o] = "linked" THEN NoCtrl ELSE ctrl[o]]
  /\ UNCHANGED <<handle, logs, busy>>
  /\ KernelUnchanged /\ HistoryUnchanged

(* Root::drop: nvme_free_tree frees what is linked into the tree; handles  *)
(* borrow the Root, so that none is left.                                  *)
drop ==
  /\ Idle /\ root
  /\ Held = {}
  /\ free({ o \in Obj : heap[o] = "linked" })
  /\ root' = FALSE
  /\ ctrl' = [o \in Obj |-> IF heap[o] = "linked" THEN NoCtrl ELSE ctrl[o]]
  /\ UNCHANGED <<handle, logs, busy>>
  /\ KernelUnchanged /\ HistoryUnchanged

(* Controllers::next yields a handle to a linked object; the program may   *)
(* have another to the same object.                                        *)
Controllers_next(h, o) ==
  /\ Idle /\ root
  /\ handle[h] = NULL
  /\ heap[o] = "linked"
  /\ handle' = [handle EXCEPT ![h] = o]
  /\ UNCHANGED <<root, heap, ctrl, logs, busy>>
  /\ KernelUnchanged /\ HistoryUnchanged

DropHandle(h) ==
  /\ Idle
  /\ handle[h] # NULL
  /\ handle' = [handle EXCEPT ![h] = NULL]
  /\ UNCHANGED <<root, heap, ctrl, logs, busy>>
  /\ KernelUnchanged /\ HistoryUnchanged

----------------------------------------------------------------------------
(* Connect.                                                                *)

(* Connect::execute up to nvme_create_ctrl.  An argument with a NUL byte   *)
(* and a NULL result are errors that leave everything as it is.            *)
create_ctrl(o) ==
  /\ Idle /\ root
  /\ \E h \in Handle : handle[h] = NULL
  /\ malloc(o, "unlinked")
  /\ busy' = [op |-> "connect", obj |-> o]
  /\ UNCHANGED <<root, ctrl, handle, logs>>
  /\ KernelUnchanged /\ HistoryUnchanged

(* The kernel connects and picks a free name.                              *)
Connects(i) ==
  /\ kernel[i] = NULL
  /\ conns < MaxConn
  /\ conns' = conns + 1
  /\ kernel' = [kernel EXCEPT ![i] = conns + 1]

(* nvmf_add_ctrl succeeds: the object is linked into the tree and its      *)
(* handle returned.                                                        *)
add_ctrl(h, i) ==
  /\ busy.op = "connect"
  /\ handle[h] = NULL
  /\ Connects(i)
  /\ heap' = [heap EXCEPT ![busy.obj] = "linked"]
  /\ ctrl' = [ctrl EXCEPT ![busy.obj] = [inst |-> i, conn |-> conns + 1, fd |-> NULL]]
  /\ handle' = [handle EXCEPT ![h] = busy.obj]
  /\ busy' = NotBusy
  /\ UNCHANGED <<root, logs>>
  /\ HistoryUnchanged

(* nvmf_add_ctrl fails, before the kernel connected or while the object    *)
(* was to be linked: execute() returns the error and nothing else.         *)
add_ctrl_fails ==
  /\ busy.op = "connect"
  /\ \/ KernelUnchanged
     \/ \E i \in Inst : Connects(i)
  /\ orphan' = orphan \cup {busy.obj}
  /\ busy' = NotBusy
  /\ UNCHANGED <<root, heap, ctrl, handle, logs, late, sent>>

----------------------------------------------------------------------------
(* Use of a Controller.                                                    *)

(* Mutant: the device is opened by name for every command.                 *)
open_fd_Reopens(o) == IF ctrl[o].inst = NULL THEN NULL ELSE kernel[ctrl[o].inst]

(* A cached descriptor, or the device opened by its name, NULL if absent.  *)
open_fd(o) == IF ctrl[o].fd # NULL THEN ctrl[o].fd
              ELSE IF ctrl[o].inst = NULL THEN NULL ELSE kernel[ctrl[o].inst]

Live(conn) == \E i \in Inst : kernel[i] = conn

(* The device of o is opened, unless it is already, and a command sent,    *)
(* which reaches nothing once the connection has ended.                    *)
Sends(o) ==
  /\ o # NULL
  /\ open_fd(o) # NULL
  /\ ctrl' = [ctrl EXCEPT ![o].fd = open_fd(o)]
  /\ sent' = [obj |-> o, conn |-> IF Live(open_fd(o)) THEN open_fd(o) ELSE NULL]

(* reset, identify and every other command through open_fd.                *)
reset(h) ==
  /\ Idle
  /\ Sends(handle[h])
  /\ UNCHANGED <<root, heap, handle, logs, busy, orphan, late>>
  /\ KernelUnchanged

(* The connection behind name i ends.                                      *)
Ends(i) ==
  /\ kernel' = [kernel EXCEPT ![i] = NULL]
  /\ late' = late \cup { o \in Obj : /\ heap[o] = "linked"
                                     /\ ctrl[o].conn = kernel[i]
                                     /\ ctrl[o].fd = NULL }

(* Controller::disconnect consumes the handle whatever it returns; libnvme *)
(* finds the connection by its name.                                       *)
disconnect(h) ==
  LET o == handle[h]
  IN  /\ Idle
      /\ o # NULL
      /\ handle' = [handle EXCEPT ![h] = NULL]
      /\ \/ UNCHANGED <<kernel, late>>
         \/ /\ kernel[ctrl[o].inst] # NULL
            /\ Ends(ctrl[o].inst)
      /\ UNCHANGED <<root, heap, ctrl, logs, conns, busy, orphan, sent>>

(* Controller::discovery_log: nvmf_get_discovery_log opens the device and  *)
(* reads the log page; failing, it allocates nothing.                      *)
discovery_log(h, o) ==
  /\ Idle
  /\ Sends(handle[h])
  /\ \/ UNCHANGED <<heap, logs>>
     \/ /\ Live(open_fd(handle[h]))
        /\ malloc(o, "log")
        /\ logs' = logs \cup {o}
  /\ UNCHANGED <<root, handle, busy, orphan, late>>
  /\ KernelUnchanged

(* DiscoveryLog::drop; a log may outlive its Root.                         *)
DiscoveryLog_drop(o) ==
  /\ Idle
  /\ o \in logs
  /\ free({o})
  /\ logs' = logs \ {o}
  /\ UNCHANGED <<root, ctrl, handle, busy>>
  /\ KernelUnchanged /\ HistoryUnchanged

----------------------------------------------------------------------------
(* Other processes connect, and connections end.                           *)

OtherConnects(i) ==
  /\ Connects(i)
  /\ UNCHANGED <<root, heap, ctrl, handle, logs, busy>>
  /\ HistoryUnchanged

ConnectionLost(i) ==
  /\ kernel[i] # NULL
  /\ Ends(i)
  /\ UNCHANGED <<root, heap, ctrl, handle, logs, conns, busy, orphan, sent>>

Next ==
  \/ scan \/ drop \/ add_ctrl_fails
  \/ \E utf8 \in BOOLEAN : take_owned_cstr(utf8)
  \/ \E o \in Obj : generate_hostnqn(o) \/ create_ctrl(o) \/ DiscoveryLog_drop(o)
  \/ \E h \in Handle, o \in Obj : Controllers_next(h, o) \/ discovery_log(h, o)
  \/ \E h \in Handle : DropHandle(h) \/ reset(h) \/ disconnect(h)
                       \/ \E i \in Inst : add_ctrl(h, i)
  \/ \E i \in Inst : OtherConnects(i) \/ ConnectionLost(i)

Spec == Init /\ [][Next]_vars

----------------------------------------------------------------------------
(* Properties.                                                             *)

TypeOK ==
  /\ root \in BOOLEAN
  /\ heap \in [Obj -> HeapState]
  /\ ctrl \in [Obj -> [inst : Inst \cup {NULL}, conn : Conn \cup {NULL}, fd : Conn \cup {NULL}]]
  /\ handle \in [Handle -> Obj \cup {NULL}]
  /\ logs \subseteq Obj /\ orphan \subseteq Obj /\ late \subseteq Obj
  /\ kernel \in [Inst -> Conn \cup {NULL}]
  /\ conns \in 0 .. MaxConn
  /\ busy \in {NotBusy} \cup [op : {"connect", "string"}, obj : Obj]
  /\ sent \in {NothingSent} \cup [obj : Obj, conn : Conn \cup {NULL}]

(* No handle, log or call in progress refers to memory that was freed, and *)
(* nothing is freed twice (the lifetimes of Controller<'r>, DiscoveryLog   *)
(* and take_owned_cstr).                                                   *)
NothingDangles ==
  /\ \A o \in Held : heap[o] = "linked" /\ root
  /\ \A o \in logs : heap[o] = "log"
  /\ busy.op = "connect" => heap[busy.obj] = "unlinked" /\ root
  /\ busy.op = "string" => heap[busy.obj] = "string"
  /\ \A o \in Obj : heap[o] # "corrupt"

(* Between calls everything allocated is in the tree of a Root or in a     *)
(* DiscoveryLog the program holds, but for the controllers of Connects     *)
(* that failed (root.rs, fabrics.rs).                                      *)
LeaksOnlyByConnect ==
  Idle => \A o \in Allocated \ orphan :
            \/ root /\ heap[o] = "linked"
            \/ o \in logs

(* A command reaches the connection its controller object stands for, or   *)
(* none: whatever other processes do, the cached descriptor never moves to *)
(* a later connection of the same name.  The exception is an object whose  *)
(* connection ended before its first command (controller.rs: open_fd).     *)
CommandsStayPut ==
  [][ sent' # sent /\ sent'.conn # NULL /\ sent'.obj \notin late =>
      sent'.conn = ctrl[sent'.obj].conn ]_vars

(* "dropping the Root cascades-frees the entire tree" (lib.rs): without a  *)
(* Root, a call in progress or a DiscoveryLog nothing is allocated.        *)
AllFreed == ~root /\ Idle /\ logs = {} => Allocated = {}
=============================================================================
