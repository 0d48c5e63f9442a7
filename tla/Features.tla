------------------------------ MODULE Features ------------------------------
(***************************************************************************)
(* Get Features and Set Features (features/get.rs, features/set.rs), and   *)
(* Controller::reset, issued by several processes to one controller.       *)
(*                                                                         *)
(* The controller keeps a current and a saved value per feature, for some  *)
(* features one per namespace or NVM set.  The methods check nothing but   *)
(* the length of a host identifier; they open the device, block in the     *)
(* ioctl and return its result dword if check_ret lets them.  What is easy *)
(* to get wrong is which of the values a call reads or writes, and what of *)
(* it survives a reset by somebody else.                                   *)
(***************************************************************************)
EXTENDS Ioctl

CONSTANTS
  Client,      \* processes, each with a Controller handle
  Feature,     \* the features of the controller
  HostId,      \* the Host Identifier, whose value travels in a buffer
  Scope,       \* namespaces and NVM sets
  Unscoped,    \* the scope of a command that names none
  Scoped,      \* the features with a value per scope
  Saveable,    \* the features the controller can save
  Value,       \* values of features
  Factory,     \* the default value of each feature
  Supports,    \* the capabilities of each feature, as a dword
  Unknown,     \* no value
  Request      \* the calls processes make, see RequestType

(* The scopes a feature has values for.                                    *)
ScopesOf(f) == IF f \in Scoped THEN Scope ELSE {Unscoped}

Slot == { s \in Feature \X (Scope \cup {Unscoped}) : s[2] \in ScopesOf(s[1]) }

Select == {"Current", "Default", "Saved", "Supported"}

RequestType ==
  [op : {"set", "get", "reset"}, feat : Feature, scope : Scope \cup {Unscoped},
   val : Value, save : BOOLEAN, sel : Select, exhid : BOOLEAN, len : Nat]

ASSUME FeaturesAssumption ==
  /\ HostId \in Feature \ Scoped /\ Scoped \subseteq Feature /\ Saveable \subseteq Feature
  /\ Unscoped \notin Scope
  /\ Value \subseteq Nat \ {0}
  /\ Unknown \notin Value
  /\ Factory \in [Feature -> Value]
  /\ Supports \in [Feature -> Nat]
  /\ Request \subseteq RequestType
  /\ \A req \in Request : req.scope # Unscoped => req.feat \in Scoped

VARIABLES
  current,  \* controller: the value in effect of each slot
  saved,    \* controller: the value a reset restores
  fd,       \* libnvme: the clients whose descriptor is open
  call,     \* per client, the method in progress or last returned
  shown,    \* history: per client, what its Get could have seen so far
  promise   \* history: per slot, the last value set with nobody interfering

vars == <<current, saved, fd, call, shown, promise>>

NoPromise == [val |-> Unknown, save |-> FALSE]

----------------------------------------------------------------------------
(* Encodings.                                                              *)

as_raw(sel) ==
  CASE sel = "Current" -> 0 [] sel = "Default" -> 1
    [] sel = "Saved" -> 2 [] sel = "Supported" -> 3

(* The bytes of a host identifier.                                         *)
host_id_len(exhid) == IF exhid THEN 16 ELSE 8

host_id_checks(req) == req.len = host_id_len(req.exhid)

SetCmd(req, scope) ==
  [opc |-> "set", feat |-> req.feat, scope |-> scope, val |-> req.val,
   save |-> req.save, sel |-> 0, exhid |-> req.exhid]

GetCmd(req, scope) ==
  [opc |-> "get", feat |-> req.feat, scope |-> scope, val |-> Unknown,
   save |-> FALSE, sel |-> as_raw(req.sel), exhid |-> req.exhid]

ResetCmd(req) == [SetCmd(req, Unscoped) EXCEPT !.opc = "reset"]

----------------------------------------------------------------------------
(* History: what callers may expect.                                       *)

(* The slots a command may concern: which one a command without a scope    *)
(* means, for a feature that has several, is left to libnvme.              *)
Slots(cmd) ==
  { s \in Slot : s[1] = cmd.feat /\ (cmd.scope = Unscoped \/ s[2] = cmd.scope) }

(* The slots the caller means.                                             *)
Meant(req) ==
  { s \in Slot : s[1] = req.feat /\ (req.scope = Unscoped \/ s[2] = req.scope) }

(* The values a view of those slots has.                                   *)
View(sel, s, cur, sav) ==
  CASE sel = "Current" -> cur[s] [] sel = "Default" -> Factory[s[1]]
    [] sel = "Saved" -> sav[s]   [] sel = "Supported" -> Supports[s[1]]

Visible(req, cur, sav) == { View(req.sel, s, cur, sav) : s \in Meant(req) }

(* A Get sees what its view holds at one moment of the call.               *)
Watch ==
  shown' = [c \in Client |->
    IF call'[c].st = "returned" THEN shown[c]
    ELSE (IF call[c].st = "returned" THEN {} ELSE shown[c])
         \cup Visible(call'[c].req, current', saved')]

Overlap(req1, req2) == Meant(req1) \cap Meant(req2) # {}

InSet(c) == call[c].st # "returned" /\ call[c].req.op = "set"

(* A reset disturbs the calls that set a value until the next reset.       *)
Undisturbed(d) == call[d].alone /\ (InSet(d) => call[d].req.save)

(* Whether another process is setting what this call sets.                 *)
Contended(c, req) ==
  \E d \in Client \ {c} : InSet(d) /\ Overlap(req, call[d].req)

----------------------------------------------------------------------------
(* The host side.                                                          *)

Idle == [st |-> "returned", req |-> [op |-> "none"], cmd |-> [opc |-> "none"],
         ret |-> 0, result |-> 0, alone |-> FALSE, reply |-> OsError]

Init ==
  /\ current = [s \in Slot |-> Factory[s[1]]]
  /\ saved = current
  /\ fd = {}
  /\ call = [c \in Client |-> Idle]
  /\ shown = [c \in Client |-> {}]
  /\ promise = [s \in Slot |-> NoPromise]

ReturnEarly(c, reply) ==
  /\ call' = [call EXCEPT ![c] = [Idle EXCEPT !.reply = reply]]
  /\ UNCHANGED <<current, saved, fd, promise>>
  /\ Watch

(* Mutant: the -1 of an open that failed goes to the ioctl.                *)
Issue_Unopened(c, req, cmd) ==
  /\ call' = [call EXCEPT ![c] = [Idle EXCEPT !.st = "inflight", !.req = req, !.cmd = cmd]]
  /\ UNCHANGED <<current, saved, fd, promise>>
  /\ Watch

(* Features::fd, which is Controller::open_fd, and the ioctl.  The result  *)
(* dword starts as 0.  A Set ends what was promised about its slots.       *)
Issue(c, req, cmd) ==
  \/ /\ c \notin fd
     /\ ReturnEarly(c, OsError)
  \/ /\ fd' = fd \cup {c}
     /\ call' = [d \in Client |->
          IF d = c THEN [Idle EXCEPT !.st = "inflight", !.req = req, !.cmd = cmd,
                                     !.alone = ~Contended(c, req)]
          ELSE IF req.op = "set" /\ InSet(d) /\ Overlap(req, call[d].req)
          THEN [call[d] EXCEPT !.alone = FALSE]
          ELSE call[d]]
     /\ promise' = [s \in Slot |-> IF req.op = "set" /\ s \in Meant(req)
                                   THEN NoPromise ELSE promise[s]]
     /\ UNCHANGED <<current, saved>>
     /\ Watch

Execute(c, req, checks, cmd) ==
  /\ call[c].st = "returned"
  /\ \/ ~checks /\ ReturnEarly(c, OsError)
     \/ checks /\ Issue(c, req, cmd)

(* Mutant: `save` does not reach libnvme.                                  *)
set_feature_DropsSave(c, req) ==
  /\ req.op = "set" /\ req.feat \notin Scoped \cup {HostId}
  /\ Execute(c, req, TRUE, [SetCmd(req, Unscoped) EXCEPT !.save = FALSE])

(* A setter for the whole controller.                                      *)
set_feature(c, req) ==
  /\ req.op = "set" /\ req.feat \notin Scoped \cup {HostId}
  /\ Execute(c, req, TRUE, SetCmd(req, Unscoped))

(* Mutant: the scope does not reach libnvme.                               *)
set_scoped_DropsScope(c, req) ==
  /\ req.op = "set" /\ req.feat \in Scoped /\ req.scope # Unscoped
  /\ Execute(c, req, TRUE, SetCmd(req, Unscoped))

(* A setter that takes an nsid, nvmsetid or endgid.                        *)
set_scoped(c, req) ==
  /\ req.op = "set" /\ req.feat \in Scoped /\ req.scope # Unscoped
  /\ Execute(c, req, TRUE, SetCmd(req, req.scope))

(* The older setters of scoped features (set_resv_mask, set_write_protect) *)
(* name no scope.                                                          *)
set_unscoped(c, req) ==
  /\ req.op = "set" /\ req.feat \in Scoped /\ req.scope = Unscoped
  /\ Execute(c, req, TRUE, SetCmd(req, Unscoped))

set_host_id(c, req) ==
  /\ req.op = "set" /\ req.feat = HostId
  /\ Execute(c, req, host_id_checks(req), SetCmd(req, Unscoped))

get_feature(c, req) ==
  /\ req.op = "get" /\ req.feat \notin Scoped \cup {HostId}
  /\ Execute(c, req, TRUE, GetCmd(req, Unscoped))

(* Mutant: the scope does not reach libnvme.                               *)
get_scoped_DropsScope(c, req) ==
  /\ req.op = "get" /\ req.feat \in Scoped /\ req.scope # Unscoped
  /\ Execute(c, req, TRUE, GetCmd(req, Unscoped))

get_scoped(c, req) ==
  /\ req.op = "get" /\ req.feat \in Scoped /\ req.scope # Unscoped
  /\ Execute(c, req, TRUE, GetCmd(req, req.scope))

get_unscoped(c, req) ==
  /\ req.op = "get" /\ req.feat \in Scoped /\ req.scope = Unscoped
  /\ Execute(c, req, TRUE, GetCmd(req, Unscoped))

get_host_id(c, req) ==
  /\ req.op = "get" /\ req.feat = HostId
  /\ Execute(c, req, host_id_checks(req), GetCmd(req, Unscoped))

(* Controller::reset.                                                      *)
reset(c, req) ==
  /\ req.op = "reset"
  /\ Execute(c, req, TRUE, ResetCmd(req))

(* check_ret decides whether the result is returned; a Set that succeeded  *)
(* with nobody interfering makes a promise.  The answer of a Get is kept   *)
(* with its request, for GetTruthful.                                      *)
Return(c) ==
  LET reply == check_ret(call[c].ret)
      req == call[c].req
  IN  /\ call[c].st = "completed"
      /\ call' = [call EXCEPT ![c] =
           [Idle EXCEPT !.reply = reply, !.result = call[c].result,
                        !.req = IF req.op = "get" THEN req ELSE @]]
      /\ promise' = [s \in Slot |->
           IF /\ req.op = "set" /\ reply.kind = "Ok" /\ call[c].alone
              /\ Meant(req) = {s}
           THEN [val |-> req.val, save |-> req.save]
           ELSE promise[s]]
      /\ UNCHANGED <<current, saved, fd>>
      /\ Watch

----------------------------------------------------------------------------
(* The controller.                                                         *)

FeatureNotSaveable == 269

Complete(c, ret, result) ==
  /\ call' = [call EXCEPT ![c].st = "completed", ![c].ret = ret, ![c].result = result]
  /\ UNCHANGED fd

(* A reset restores what was saved.                                        *)
Restored == [s \in Slot |-> IF s[1] \in Saveable THEN saved[s] ELSE Factory[s[1]]]

(* ... and ends what was promised until then only.                         *)
Forgotten == [s \in Slot |-> IF promise[s].save THEN promise[s] ELSE NoPromise]

ServeSet(c) ==
  LET cmd == call[c].cmd IN
  /\ call[c].st = "inflight" /\ cmd.opc = "set"
  /\ \/ /\ cmd.save => cmd.feat \in Saveable
        /\ \E s \in Slots(cmd) :
             /\ current' = [current EXCEPT ![s] = cmd.val]
             /\ saved' = IF cmd.save THEN [saved EXCEPT ![s] = cmd.val] ELSE saved
        /\ Complete(c, Success, 0)
     \/ /\ cmd.save /\ cmd.feat \notin Saveable
        /\ Complete(c, FeatureNotSaveable, 0)
        /\ UNCHANGED <<current, saved>>
     \/ /\ cmd.scope = Unscoped /\ cmd.feat \in Scoped
        /\ Complete(c, InvalidField, 0)
        /\ UNCHANGED <<current, saved>>
  /\ UNCHANGED promise
  /\ Watch

RawView(raw, s) ==
  CASE raw = 0 -> current[s] [] raw = 1 -> Factory[s[1]]
    [] raw = 2 -> saved[s]   [] raw = 3 -> Supports[s[1]]

(* Capabilities are reported by controllers that know the select field.    *)
ServeGet(c) ==
  LET cmd == call[c].cmd IN
  /\ call[c].st = "inflight" /\ cmd.opc = "get"
  /\ \/ \E s \in Slots(cmd) : Complete(c, Success, RawView(cmd.sel, s))
     \/ /\ cmd.sel # 0 \/ (cmd.scope = Unscoped /\ cmd.feat \in Scoped)
        /\ Complete(c, InvalidField, 0)
  /\ UNCHANGED <<current, saved, promise>>
  /\ Watch

ServeReset(c) ==
  /\ call[c].st = "inflight" /\ call[c].cmd.opc = "reset"
  /\ current' = Restored
  /\ promise' = Forgotten
  /\ call' = [d \in Client |-> IF d = c THEN [call[c] EXCEPT !.st = "completed"]
                               ELSE [call[d] EXCEPT !.alone = Undisturbed(d)]]
  /\ UNCHANGED <<saved, fd>>
  /\ Watch

(* The command is aborted before it ran, or its completion is lost after.  *)
Timeout(c) ==
  /\ call[c].st \in {"inflight", "completed"}
  /\ Complete(c, -1, call[c].result)
  /\ UNCHANGED <<current, saved, promise>>
  /\ Watch

(* Commands in flight die with the controller's power.                     *)
PowerCycle ==
  /\ current' = Restored
  /\ promise' = Forgotten
  /\ call' = [c \in Client |-> IF call[c].st = "inflight"
                               THEN [call[c] EXCEPT !.st = "completed", !.ret = -1]
                               ELSE [call[c] EXCEPT !.alone = Undisturbed(c)]]
  /\ UNCHANGED <<saved, fd>>
  /\ Watch

----------------------------------------------------------------------------
Method(c, req) ==
  \/ set_feature(c, req) \/ set_scoped(c, req) \/ set_unscoped(c, req) \/ set_host_id(c, req)
  \/ get_feature(c, req) \/ get_scoped(c, req) \/ get_unscoped(c, req) \/ get_host_id(c, req)
  \/ reset(c, req)

Next ==
  \/ \E c \in Client :
       \/ \E req \in Request : Method(c, req)
       \/ ServeSet(c) \/ ServeGet(c) \/ ServeReset(c) \/ Timeout(c) \/ Return(c)
  \/ PowerCycle

Spec == Init /\ [][Next]_vars

----------------------------------------------------------------------------
(* Properties.                                                             *)

(* A Get that returns Ok returns a value that the view it asked for, of    *)
(* the scope it asked for, had while the call ran: never the 0 its result  *)
(* was initialised with, another view or another scope (get.rs,            *)
(* admin.rs FeatureSelect).                                                *)
GetTruthful ==
  \A c \in Client :
    /\ call[c].st = "returned" /\ call[c].req.op = "get" /\ call[c].reply.kind = "Ok"
    => call[c].result \in shown[c]

(* What a Set that returned Ok wrote is in effect until somebody sets the  *)
(* feature again, and if it was saved, resets and power cycles by anybody  *)
(* included (features/mod.rs: "optionally `save` it across resets").       *)
PromisesKept ==
  \A s \in Slot : promise[s] # NoPromise =>
    /\ current[s] = promise[s].val
    /\ promise[s].save => saved[s] = promise[s].val

(* A call on its way asked for this value of slot s.                       *)
AsksFor(c, s, val) ==
  /\ call[c].st = "inflight" /\ call[c].req.op = "set"
  /\ s \in Meant(call[c].req) /\ call[c].req.val = val

(* A value changes only as a Set on its way asks for that scope of that    *)
(* feature, or back to what a reset restores; what a reset restores only   *)
(* as a Set with `save` asks (set.rs, whose setters differ in whether they *)
(* name a namespace, an NVM set or an endurance group).                    *)
ChangesAskedFor ==
  [][ \A s \in Slot :
        /\ current'[s] # current[s] =>
             current' = Restored \/ \E c \in Client : AsksFor(c, s, current'[s])
        /\ saved'[s] # saved[s] =>
             \E c \in Client : AsksFor(c, s, saved'[s]) /\ call[c].req.save ]_vars

CallType ==
  [st : {"returned", "inflight", "completed"}, req : Request \cup {Idle.req},
   cmd : [opc : {"set", "get", "reset"}, feat : Feature, scope : Scope \cup {Unscoped},
          val : Value \cup {Unknown}, save : BOOLEAN, sel : 0 .. 3, exhid : BOOLEAN]
         \cup {Idle.cmd},
   ret : Int, result : Nat, alone : BOOLEAN, reply : Reply]

(* Every variable has its type; a call on the wire has an open descriptor. *)
TypeOK ==
  /\ current \in [Slot -> Value] /\ saved \in [Slot -> Value]
  /\ fd \subseteq Client
  /\ call \in [Client -> CallType]
  /\ \A c \in Client : call[c].st # "returned" => c \in fd /\ call[c].cmd # Idle.cmd
  /\ shown \in [Client -> SUBSET Nat]
  /\ promise \in [Slot -> [val : Value \cup {Unknown}, save : BOOLEAN]]
=============================================================================
