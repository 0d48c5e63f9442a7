--------------------------- MODULE FeaturesProofs ---------------------------
(***************************************************************************)
(* For every number of processes, every set of features with or without    *)
(* scopes and every set of calls: a Get returns a value its view had while *)
(* the call ran, and what a Set without interference wrote stays.          *)
(***************************************************************************)
EXTENDS Features, NvmeWords, TLAPS

(* The command that means what the caller asked for.                       *)
CmdOf(req) ==
  CASE req.op = "get" -> GetCmd(req, req.scope)
    [] req.op = "set" -> SetCmd(req, req.scope)
    [] OTHER          -> ResetCmd(req)

Marshalled ==
  \A c \in Client : call[c].st # "returned" =>
    /\ call[c].req \in Request /\ call[c].cmd = CmdOf(call[c].req)

(* A Get that is out has been shown what it may read, one that was served  *)
(* has read nothing else.                                                  *)
SeenOK ==
  \A c \in Client : call[c].req.op = "get" =>
    /\ call[c].st = "inflight" => Visible(call[c].req, current, saved) \subseteq shown[c]
    /\ call[c].st = "completed" /\ call[c].ret = 0 => call[c].result \in shown[c]

(* A Set that is alone has no other on its slots; under no Set on its way  *)
(* is anything promised.                                                   *)
ApartOK ==
  \A c, d \in Client : c # d /\ InSet(c) /\ InSet(d) /\ call[c].alone =>
    ~Overlap(call[c].req, call[d].req)

UnpromisedOK ==
  \A c \in Client : InSet(c) => \A s \in Meant(call[c].req) : promise[s] = NoPromise

(* What may be promised about slot s, holds.                               *)
Holds(s, val, save) ==
  current[s] = val /\ (save => saved[s] = val /\ s[1] \in Saveable)

DoneOK ==
  \A c \in Client, s \in Slot :
    /\ call[c].st = "completed" /\ call[c].ret = 0 /\ call[c].alone
    /\ InSet(c) /\ Meant(call[c].req) = {s}
    => Holds(s, call[c].req.val, call[c].req.save)

KeptOK ==
  \A s \in Slot : promise[s] # NoPromise => Holds(s, promise[s].val, promise[s].save)

Quiet == ApartOK /\ UnpromisedOK /\ DoneOK /\ KeptOK

Seen == SeenOK /\ GetTruthful

IInv == TypeOK /\ Marshalled /\ Seen /\ Quiet

CmdType ==
  [opc : {"set", "get", "reset"}, feat : Feature, scope : Scope \cup {Unscoped},
   val : Value \cup {Unknown}, save : BOOLEAN, sel : 0 .. 3, exhid : BOOLEAN]

----------------------------------------------------------------------------
(* Requests, commands and views.                                           *)

LEMMA RequestIs ==
  ASSUME NEW req \in Request
  PROVE  /\ req.op \in {"set", "get", "reset"} /\ req.feat \in Feature
         /\ req.scope \in Scope \cup {Unscoped} /\ req.val \in Value
         /\ req.save \in BOOLEAN /\ req.sel \in Select /\ req.exhid \in BOOLEAN
         /\ req.len \in Nat
         /\ req.scope # Unscoped => req.feat \in Scoped
BY FeaturesAssumption DEF RequestType

LEMMA CmdFields ==
  ASSUME NEW req \in Request
  PROVE  /\ CmdOf(req) \in CmdType /\ CmdOf(req) # Idle.cmd
         /\ CmdOf(req).opc = req.op /\ CmdOf(req).feat = req.feat
         /\ CmdOf(req).exhid = req.exhid
         /\ req.op = "set" => /\ CmdOf(req).val = req.val /\ CmdOf(req).save = req.save
                              /\ Slots(CmdOf(req)) = Meant(req)
         /\ req.op = "get" => /\ CmdOf(req).sel = as_raw(req.sel)
                              /\ Slots(CmdOf(req)) = Meant(req)
<1>1. Idle.cmd.opc = "none"
  BY DEF Idle
<1>2. as_raw(req.sel) \in 0 .. 3
  BY RequestIs DEF as_raw, Select
<1>3. CASE req.op = "get"
  <2>1. CmdOf(req) = GetCmd(req, req.scope)
    BY <1>3 DEF CmdOf
  <2> QED BY <1>1, <1>2, <1>3, <2>1, RequestIs DEF GetCmd, CmdType, Slots, Meant
<1>4. CASE req.op = "set"
  <2>1. CmdOf(req) = SetCmd(req, req.scope)
    BY <1>4 DEF CmdOf
  <2> QED BY <1>1, <1>4, <2>1, RequestIs DEF SetCmd, CmdType, Slots, Meant
<1>5. CASE req.op = "reset"
  <2>1. CmdOf(req) = ResetCmd(req)
    BY <1>5 DEF CmdOf
  <2>2. ResetCmd(req) = [opc |-> "reset", feat |-> req.feat, scope |-> Unscoped,
          val |-> req.val, save |-> req.save, sel |-> 0, exhid |-> req.exhid]
    BY DEF ResetCmd, SetCmd
  <2> QED BY <1>1, <1>5, <2>1, <2>2, RequestIs DEF CmdType
<1> QED BY <1>3, <1>4, <1>5, RequestIs

LEMMA MeantIs ==
  ASSUME NEW req \in Request, NEW s \in Meant(req)
  PROVE  s \in Slot /\ s[1] = req.feat /\ s[1] \in Feature
BY RequestIs DEF Meant

LEMMA ViewType ==
  ASSUME NEW req \in Request, NEW cur \in [Slot -> Value], NEW sav \in [Slot -> Value]
  PROVE  Visible(req, cur, sav) \in SUBSET Nat
<1> SUFFICES ASSUME NEW s \in Meant(req)
             PROVE  View(req.sel, s, cur, sav) \in Nat
  BY DEF Visible
<1>1. /\ s \in Slot /\ cur[s] \in Nat /\ sav[s] \in Nat
      /\ Factory[s[1]] \in Nat /\ Supports[s[1]] \in Nat
  BY MeantIs, FeaturesAssumption
<1> QED BY <1>1, RequestIs DEF View, Select

LEMMA IdleIs ==
  /\ Idle.st = "returned" /\ Idle.req.op = "none"
  /\ Idle.ret = 0 /\ Idle.result = 0 /\ Idle.alone = FALSE /\ Idle.reply = OsError
  /\ OsError \in Reply /\ OsError.kind = "Os"
BY DEF Idle, OsError, Reply, Errno

LEMMA NoCall ==
  /\ Idle.req = [op |-> "none"] /\ Idle.cmd = [opc |-> "none"]
  /\ Idle = [st |-> "returned", req |-> [op |-> "none"], cmd |-> [opc |-> "none"],
             ret |-> 0, result |-> 0, alone |-> FALSE, reply |-> OsError]
BY DEF Idle

LEMMA CallIs ==
  ASSUME NEW st \in {"returned", "inflight", "completed"},
         NEW req \in Request \cup {Idle.req}, NEW cmd \in CmdType \cup {Idle.cmd},
         NEW ret \in Int, NEW result \in Nat, NEW alone \in BOOLEAN, NEW reply \in Reply
  PROVE  [st |-> st, req |-> req, cmd |-> cmd, ret |-> ret, result |-> result,
          alone |-> alone, reply |-> reply] \in CallType
BY DEF CallType, CmdType

LEMMA IdleCall == Idle \in CallType
<1> DEFINE r == [op |-> "none"]
           k == [opc |-> "none"]
<1>1. r \in Request \cup {Idle.req} /\ k \in CmdType \cup {Idle.cmd}
  BY NoCall
<1>2. Idle = [st |-> "returned", req |-> r, cmd |-> k,
              ret |-> 0, result |-> 0, alone |-> FALSE, reply |-> OsError]
  BY NoCall
<1> HIDE DEF r, k
<1>3. [st |-> "returned", req |-> r, cmd |-> k,
       ret |-> 0, result |-> 0, alone |-> FALSE, reply |-> OsError] \in CallType
  <2>1. /\ "returned" \in {"returned", "inflight", "completed"}
        /\ 0 \in Int /\ 0 \in Nat /\ FALSE \in BOOLEAN /\ OsError \in Reply
    BY IdleIs
  <2> QED BY <1>1, <2>1, CallIs, Zenon
<1> QED BY <1>2, <1>3

LEMMA CheckRet ==
  ASSUME NEW ret \in Int
  PROVE  check_ret(ret) \in Reply /\ (check_ret(ret).kind = "Ok" <=> ret = 0)
BY DEF check_ret, Reply, Errno

----------------------------------------------------------------------------
(* What Watch does for every step.                                         *)

LEMMA WatchType ==
  ASSUME Watch, shown \in [Client -> SUBSET Nat],
         current' \in [Slot -> Value], saved' \in [Slot -> Value],
         \A c \in Client : call'[c].st # "returned" => call'[c].req \in Request
  PROVE  shown' \in [Client -> SUBSET Nat]
<1> SUFFICES ASSUME NEW c \in Client
             PROVE  (IF call'[c].st = "returned" THEN shown[c]
                     ELSE (IF call[c].st = "returned" THEN {} ELSE shown[c])
                          \cup Visible(call'[c].req, current', saved')) \in SUBSET Nat
  BY DEF Watch
<1>1. CASE call'[c].st = "returned"
  BY <1>1
<1>2. CASE call'[c].st # "returned"
  <2>1. Visible(call'[c].req, current', saved') \in SUBSET Nat
    BY <1>2, ViewType
  <2> QED BY <1>2, <2>1
<1> QED BY <1>1, <1>2

(* What a call may read it is shown, as long as it lasts.                  *)
LEMMA WatchSeen ==
  ASSUME Watch, NEW c \in Client
  PROVE  /\ call'[c].st = "returned" => shown'[c] = shown[c]
         /\ call'[c].st # "returned" => Visible(call'[c].req, current', saved') \subseteq shown'[c]
         /\ call[c].st # "returned" => shown[c] \subseteq shown'[c]
BY DEF Watch

LEMMA SeenStep ==
  ASSUME IInv, Watch, TypeOK',
         \A c \in Client : call'[c].req.op = "get" =>
           /\ call'[c].st = "returned" /\ call'[c].reply.kind = "Ok"
              => call'[c].result \in shown[c]
           /\ call'[c].st = "completed" /\ call'[c].ret = 0
              => call[c].st # "returned" /\ call'[c].result \in shown[c]
  PROVE  Seen'
<1>1. SeenOK'
  <2> SUFFICES ASSUME NEW c \in Client, (call[c].req.op = "get")'
               PROVE  /\ (call[c].st = "inflight" => Visible(call[c].req, current, saved) \subseteq shown[c])'
                      /\ (call[c].st = "completed" /\ call[c].ret = 0 => call[c].result \in shown[c])'
    BY DEF SeenOK
  <2> QED BY WatchSeen
<1>2. GetTruthful'
  BY WatchSeen DEF GetTruthful
<1> QED BY <1>1, <1>2 DEF Seen

----------------------------------------------------------------------------
(* The host side.                                                          *)

LEMMA Initial == Init => IInv
<1> SUFFICES ASSUME Init PROVE IInv
  OBVIOUS
<1>1. current \in [Slot -> Value] /\ saved \in [Slot -> Value]
  BY FeaturesAssumption DEF Init, Slot
<1>2. NoPromise \in [val : Value \cup {Unknown}, save : BOOLEAN]
  BY DEF NoPromise
<1>3. Idle \in CallType /\ \A c \in Client : call[c] = Idle
  BY IdleCall DEF Init
<1>4. TypeOK
  BY <1>1, <1>2, <1>3, IdleIs DEF Init, TypeOK
<1>5. Marshalled /\ Seen
  BY <1>3, IdleIs DEF Marshalled, Seen, SeenOK, GetTruthful
<1>6. Quiet
  BY <1>3, IdleIs DEF Init, Quiet, ApartOK, UnpromisedOK, DoneOK, KeptOK, InSet
<1> QED BY <1>4, <1>5, <1>6 DEF IInv

LEMMA EarlyStep ==
  ASSUME IInv, NEW c \in Client, NEW reply \in Reply, reply.kind # "Ok",
         ReturnEarly(c, reply)
  PROVE  IInv'
<1> DEFINE new == [Idle EXCEPT !.reply = reply]
<1>1. /\ call' = [call EXCEPT ![c] = new] /\ Watch
      /\ UNCHANGED <<current, saved, fd, promise>>
  BY DEF ReturnEarly
<1>2. /\ new.st = "returned" /\ new.req = Idle.req /\ new.req.op = "none"
      /\ new \in CallType
  BY IdleCall, IdleIs DEF CallType
<1> HIDE DEF new
<1>3. /\ call'[c] = new /\ call' \in [Client -> CallType]
      /\ \A d \in Client \ {c} : call'[d] = call[d]
  BY <1>1, <1>2 DEF IInv, TypeOK
<1>4. TypeOK'
  <2>1. shown' \in [Client -> SUBSET Nat]
    BY <1>1, <1>2, <1>3, WatchType DEF IInv, TypeOK, Marshalled
  <2> QED BY <1>1, <1>2, <1>3, <2>1 DEF IInv, TypeOK
<1>5. Marshalled'
  BY <1>1, <1>2, <1>3 DEF IInv, Marshalled
<1>6. Seen'
  BY <1>1, <1>2, <1>3, <1>4, SeenStep DEF IInv, Seen, SeenOK, GetTruthful
<1>7. Quiet'
  <2>1. \A d \in Client : InSet(d)' => d # c /\ InSet(d)
    BY <1>2, <1>3 DEF InSet
  <2> QED BY <1>1, <1>3, <2>1
      DEF IInv, Quiet, ApartOK, UnpromisedOK, DoneOK, KeptOK, Holds
<1> QED BY <1>4, <1>5, <1>6, <1>7 DEF IInv

(* A call goes out: a Set is not alone if another Set is on its slots, and *)
(* neither is that one any more.                                           *)
LEMMA IssueStep ==
  ASSUME IInv, NEW c \in Client, NEW req \in Request, call[c].st = "returned",
         Issue(c, req, CmdOf(req))
  PROVE  IInv'
<1>1. CASE ReturnEarly(c, OsError)
  BY <1>1, EarlyStep, IdleIs
<1>2. CASE ~ReturnEarly(c, OsError)
  <2> DEFINE cmd == CmdOf(req)
             quiet == ~Contended(c, req)
             hit(d) == req.op = "set" /\ InSet(d) /\ Overlap(req, call[d].req)
             new == [Idle EXCEPT !.st = "inflight", !.req = req, !.cmd = cmd, !.alone = quiet]
             old(d) == IF hit(d) THEN [call[d] EXCEPT !.alone = FALSE] ELSE call[d]
  <2>1. /\ fd' = fd \cup {c} /\ UNCHANGED <<current, saved>> /\ Watch
        /\ call' = [d \in Client |-> IF d = c THEN new ELSE old(d)]
        /\ promise' = [s \in Slot |-> IF req.op = "set" /\ s \in Meant(req)
                                      THEN NoPromise ELSE promise[s]]
    BY <1>2 DEF Issue
  <2>2. /\ new.st = "inflight" /\ new.req = req /\ new.cmd = cmd /\ new.alone = quiet
        /\ new \in CallType
    <3>1. cmd \in CmdType /\ quiet \in BOOLEAN
      BY CmdFields DEF Contended
    <3> HIDE DEF cmd, quiet
    <3> QED BY <3>1, IdleCall DEF CallType, CmdType
  <2>3. \A d \in Client : call[d] \in CallType
    BY DEF IInv, TypeOK
  <2>4. ASSUME NEW d \in Client \ {c}
        PROVE  /\ old(d) \in CallType /\ old(d).st = call[d].st /\ old(d).req = call[d].req
               /\ old(d).cmd = call[d].cmd /\ old(d).ret = call[d].ret
               /\ old(d).result = call[d].result /\ old(d).reply = call[d].reply
               /\ old(d).alone = (call[d].alone /\ ~hit(d))
    <3>1. CASE hit(d)
      <4>1. old(d) = [call[d] EXCEPT !.alone = FALSE]
        BY <3>1
      <4> HIDE DEF old, hit
      <4> QED BY <3>1, <4>1, <2>3 DEF CallType
    <3>2. CASE ~hit(d)
      <4>1. old(d) = call[d] /\ call[d].alone \in BOOLEAN
        BY <3>2, <2>3 DEF CallType
      <4> HIDE DEF old, hit
      <4> QED BY <3>2, <4>1, <2>3
    <3> QED BY <3>1, <3>2
  <2> HIDE DEF new, old, hit, cmd, quiet
  <2>5. /\ call'[c] = new /\ call' \in [Client -> CallType]
        /\ \A d \in Client \ {c} : call'[d] = old(d)
    BY <2>1, <2>2, <2>4
  <2>6. TypeOK'
    <3>1. shown' \in [Client -> SUBSET Nat]
      BY <2>1, <2>2, <2>4, <2>5, WatchType DEF IInv, TypeOK, Marshalled
    <3>2. promise' \in [Slot -> [val : Value \cup {Unknown}, save : BOOLEAN]]
      BY <2>1 DEF IInv, TypeOK, NoPromise
    <3>3. cmd # Idle.cmd
      BY CmdFields DEF cmd
    <3> QED BY <2>1, <2>2, <2>4, <2>5, <3>1, <3>2, <3>3 DEF IInv, TypeOK
  <2>7. Marshalled'
    BY <2>2, <2>4, <2>5 DEF IInv, Marshalled, cmd
  <2>8. Seen'
    BY <2>1, <2>2, <2>4, <2>5, <2>6, SeenStep DEF IInv, Seen, SeenOK, GetTruthful
  <2>9. \A d \in Client : /\ d # c => (InSet(d)' <=> InSet(d))
                          /\ InSet(c)' <=> req.op = "set"
                          /\ ~InSet(c)
    BY <2>2, <2>4, <2>5 DEF InSet
  <2>10. ApartOK'
    <3> SUFFICES ASSUME NEW a \in Client, NEW b \in Client, a # b, InSet(a)', InSet(b)',
                        call'[a].alone
                 PROVE  ~Overlap(call'[a].req, call'[b].req)
      BY DEF ApartOK
    <3>1. CASE a = c
      <4>1. /\ call'[a].req = req /\ call'[b].req = call[b].req /\ quiet
            /\ InSet(b) /\ b \in Client \ {c}
        BY <3>1, <2>2, <2>4, <2>5, <2>9
      <4> QED BY <4>1 DEF quiet, Contended
    <3>2. CASE b = c
      <4>1. /\ call'[b].req = req /\ call'[a].req = call[a].req /\ ~hit(a)
            /\ InSet(a) /\ req.op = "set"
        BY <3>2, <2>2, <2>4, <2>5, <2>9
      <4>2. ~Overlap(req, call[a].req)
        BY <4>1 DEF hit
      <4> QED BY <4>1, <4>2 DEF Overlap
    <3>3. CASE a # c /\ b # c
      <4>1. /\ call'[a].req = call[a].req /\ call'[b].req = call[b].req
            /\ call[a].alone /\ InSet(a) /\ InSet(b)
        BY <3>3, <2>4, <2>5, <2>9
      <4> QED BY <4>1 DEF IInv, Quiet, ApartOK
    <3> QED BY <3>1, <3>2, <3>3
  <2>11. UnpromisedOK'
    BY <2>1, <2>2, <2>4, <2>5, <2>9, MeantIs
    DEF IInv, Quiet, UnpromisedOK, Marshalled, InSet
  <2>12. DoneOK'
    <3> SUFFICES ASSUME NEW d \in Client, NEW s \in Slot, call'[d].st = "completed",
                        call'[d].ret = 0, call'[d].alone, InSet(d)', Meant(call'[d].req) = {s}
                 PROVE  Holds(s, call[d].req.val, call[d].req.save)'
      BY DEF DoneOK
    <3>1. /\ d # c /\ call[d].st = "completed" /\ call[d].ret = 0 /\ call[d].alone
          /\ InSet(d) /\ call'[d].req = call[d].req
      BY <2>2, <2>4, <2>5, <2>9
    <3>2. Holds(s, call[d].req.val, call[d].req.save)
      BY <3>1 DEF IInv, Quiet, DoneOK
    <3> QED BY <2>1, <3>1, <3>2 DEF Holds
  <2>13. KeptOK'
    BY <2>1 DEF IInv, Quiet, KeptOK, Holds
  <2> QED BY <2>6, <2>7, <2>8, <2>10, <2>11, <2>12, <2>13 DEF IInv, Quiet
<1> QED BY <1>1, <1>2

LEMMA MethodStep ==
  ASSUME IInv, NEW c \in Client, NEW req \in Request, Method(c, req)
  PROVE  IInv'
<1>1. /\ req.op = "get" => CmdOf(req) = GetCmd(req, req.scope)
      /\ req.op = "set" => CmdOf(req) = SetCmd(req, req.scope)
      /\ req.op = "reset" => CmdOf(req) = ResetCmd(req)
  BY DEF CmdOf
<1>2. ASSUME NEW checks, Execute(c, req, checks, CmdOf(req))
      PROVE  IInv'
  BY <1>2, EarlyStep, IssueStep, IdleIs DEF Execute
<1>3. CASE set_feature(c, req) \/ get_feature(c, req)
  <2>1. Execute(c, req, TRUE, CmdOf(req))
    BY <1>1, <1>3, RequestIs DEF set_feature, get_feature
  <2> QED BY <2>1, <1>2
<1>4. CASE \/ set_scoped(c, req) \/ set_unscoped(c, req)
           \/ get_scoped(c, req) \/ get_unscoped(c, req)
  <2>1. Execute(c, req, TRUE, CmdOf(req))
    BY <1>1, <1>4, FeaturesAssumption DEF set_scoped, set_unscoped, get_scoped, get_unscoped
  <2> QED BY <2>1, <1>2
<1>5. CASE set_host_id(c, req) \/ get_host_id(c, req)
  <2>1. Execute(c, req, host_id_checks(req), CmdOf(req))
    BY <1>1, <1>5, RequestIs, FeaturesAssumption DEF set_host_id, get_host_id
  <2> QED BY <2>1, <1>2
<1>6. CASE reset(c, req)
  <2>1. Execute(c, req, TRUE, CmdOf(req))
    BY <1>1, <1>6 DEF reset
  <2> QED BY <2>1, <1>2
<1> QED BY <1>3, <1>4, <1>5, <1>6 DEF Method

----------------------------------------------------------------------------
(* The controller, timeouts and the return.                                *)

(* What remains of a call that completes.                                  *)
LEMMA CompleteIs ==
  ASSUME TypeOK, NEW c \in Client, NEW ret \in Int, NEW result \in Nat, Complete(c, ret, result)
  PROVE  /\ call' \in [Client -> CallType] /\ fd' = fd
         /\ \A d \in Client \ {c} : call'[d] = call[d]
         /\ call'[c].st = "completed" /\ call'[c].ret = ret /\ call'[c].result = result
         /\ call'[c].req = call[c].req /\ call'[c].cmd = call[c].cmd
         /\ call'[c].alone = call[c].alone
<1>1. call \in [Client -> CallType] /\ call[c] \in CallType
  BY DEF TypeOK
<1>2. /\ call'[c] = [call[c] EXCEPT !.st = "completed", !.ret = ret, !.result = result]
      /\ DOMAIN call' = Client /\ \A d \in Client \ {c} : call'[d] = call[d]
      /\ call' = [d \in Client |-> call'[d]]
  BY <1>1 DEF Complete
<1>3. /\ call'[c] \in CallType /\ call'[c].st = "completed" /\ call'[c].ret = ret
      /\ call'[c].result = result /\ call'[c].req = call[c].req
      /\ call'[c].cmd = call[c].cmd /\ call'[c].alone = call[c].alone
  BY <1>1, <1>2 DEF CallType
<1> QED BY <1>1, <1>2, <1>3 DEF Complete

(* A call completes and changes nothing in the controller.                 *)
LEMMA CompleteStep ==
  ASSUME IInv, NEW c \in Client, NEW ret \in Int, NEW result \in Nat,
         call[c].st \in {"inflight", "completed"},
         Complete(c, ret, result), Watch, UNCHANGED <<current, saved, promise>>,
         call[c].req.op = "set" => ret # 0,
         call[c].req.op = "get" /\ ret = 0 => result \in shown[c]
  PROVE  IInv'
<1>1. /\ call' \in [Client -> CallType] /\ fd' = fd
      /\ \A d \in Client \ {c} : call'[d] = call[d]
      /\ call'[c].st = "completed" /\ call'[c].ret = ret /\ call'[c].result = result
      /\ call'[c].req = call[c].req /\ call'[c].cmd = call[c].cmd
      /\ call'[c].alone = call[c].alone
  BY CompleteIs DEF IInv
<1>2. TypeOK'
  <2>1. shown' \in [Client -> SUBSET Nat]
    BY <1>1, WatchType DEF IInv, TypeOK, Marshalled
  <2> QED BY <1>1, <2>1 DEF IInv, TypeOK
<1>3. Marshalled'
  BY <1>1 DEF IInv, Marshalled
<1>4. Seen'
  BY <1>1, <1>2, SeenStep DEF IInv, Seen, SeenOK, GetTruthful
<1>5. Quiet'
  <2>1. \A d \in Client : /\ InSet(d)' <=> InSet(d)
                          /\ call'[d].req = call[d].req /\ call'[d].alone = call[d].alone
    BY <1>1 DEF InSet
  <2>2. ApartOK' /\ UnpromisedOK' /\ KeptOK'
    BY <2>1 DEF IInv, Quiet, ApartOK, UnpromisedOK, KeptOK, Holds
  <2>3. \A d \in Client : InSet(d) /\ call'[d].st = "completed" /\ call'[d].ret = 0
          => call[d].st = "completed" /\ call[d].ret = 0
    BY <1>1 DEF InSet
  <2>4. DoneOK'
    BY <2>1, <2>3 DEF IInv, Quiet, DoneOK, Holds
  <2> QED BY <2>2, <2>4 DEF Quiet
<1> QED BY <1>2, <1>3, <1>4, <1>5 DEF IInv

(* A Set that takes effect writes one slot it means; nobody else who is    *)
(* alone, and no promise, is about that slot.                              *)
LEMMA WriteStep ==
  ASSUME IInv, NEW c \in Client, call[c].st = "inflight", call[c].req.op = "set",
         NEW s \in Meant(call[c].req),
         call[c].req.save => call[c].req.feat \in Saveable,
         current' = [current EXCEPT ![s] = call[c].req.val],
         saved' = IF call[c].req.save THEN [saved EXCEPT ![s] = call[c].req.val] ELSE saved,
         Complete(c, Success, 0), Watch, UNCHANGED promise
  PROVE  IInv'
<1> DEFINE req == call[c].req
<1>1. /\ req \in Request /\ req.op = "set" /\ req.val \in Value /\ req.save \in BOOLEAN
      /\ s \in Slot /\ s[1] = req.feat
  <2>1. req \in Request
    BY DEF IInv, Marshalled
  <2> QED BY <2>1, RequestIs, MeantIs
<1>2. /\ call' \in [Client -> CallType] /\ fd' = fd
      /\ \A d \in Client \ {c} : call'[d] = call[d]
      /\ call'[c].st = "completed" /\ call'[c].ret = 0 /\ call'[c].result = 0
      /\ call'[c].req = req /\ call'[c].cmd = call[c].cmd
      /\ call'[c].alone = call[c].alone
  BY CompleteIs DEF IInv, Success
<1>3. /\ current' \in [Slot -> Value] /\ saved' \in [Slot -> Value]
      /\ current'[s] = req.val /\ (req.save => saved'[s] = req.val)
      /\ \A t \in Slot \ {s} : current'[t] = current[t] /\ saved'[t] = saved[t]
  BY <1>1 DEF IInv, TypeOK
<1>4. TypeOK'
  <2>1. shown' \in [Client -> SUBSET Nat]
    BY <1>2, <1>3, WatchType DEF IInv, TypeOK, Marshalled
  <2> QED BY <1>2, <1>3, <2>1 DEF IInv, TypeOK
<1>5. Marshalled'
  BY <1>2 DEF IInv, Marshalled
<1>6. Seen'
  BY <1>1, <1>2, <1>4, SeenStep DEF IInv, Seen, SeenOK, GetTruthful
<1>7. \A d \in Client : /\ InSet(d)' <=> InSet(d)
                        /\ call'[d].req = call[d].req /\ call'[d].alone = call[d].alone
  BY <1>2 DEF InSet
<1>8. InSet(c)
  BY DEF InSet
<1>9. ApartOK' /\ UnpromisedOK'
  BY <1>7 DEF IInv, Quiet, ApartOK, UnpromisedOK
<1>10. KeptOK'
  <2> SUFFICES ASSUME NEW t \in Slot, promise[t] # NoPromise
               PROVE  Holds(t, promise[t].val, promise[t].save)'
    BY DEF KeptOK
  <2>1. t # s
    BY <1>8 DEF IInv, Quiet, UnpromisedOK
  <2> QED BY <1>3, <2>1 DEF IInv, Quiet, KeptOK, Holds
<1>11. DoneOK'
  <2> SUFFICES ASSUME NEW d \in Client, NEW t \in Slot, call'[d].st = "completed",
                      call'[d].ret = 0, call'[d].alone, InSet(d)', Meant(call'[d].req) = {t}
               PROVE  Holds(t, call[d].req.val, call[d].req.save)'
    BY <1>7 DEF DoneOK
  <2>1. CASE d = c
    <3>1. t = s
      BY <1>7, <2>1
    <3> QED BY <1>1, <1>2, <1>3, <2>1, <3>1 DEF Holds
  <2>2. CASE d # c
    <3>1. /\ call'[d] = call[d] /\ InSet(d) /\ ~Overlap(call[d].req, req)
      BY <1>2, <1>7, <1>8, <2>2 DEF IInv, Quiet, ApartOK
    <3>2. t # s
      BY <3>1 DEF Overlap
    <3>3. Holds(t, call[d].req.val, call[d].req.save)
      BY <3>1 DEF IInv, Quiet, DoneOK
    <3> QED BY <1>3, <3>1, <3>2, <3>3 DEF Holds
  <2> QED BY <2>1, <2>2
<1> QED BY <1>4, <1>5, <1>6, <1>9, <1>10, <1>11 DEF IInv, Quiet

LEMMA ServeSetStep == ASSUME IInv, NEW c \in Client, ServeSet(c) PROVE IInv'
<1> DEFINE req == call[c].req
           cmd == call[c].cmd
<1>1. /\ call[c].st = "inflight" /\ cmd.opc = "set" /\ Watch /\ UNCHANGED promise
      /\ req \in Request /\ cmd = CmdOf(req)
  BY DEF ServeSet, IInv, Marshalled
<1>2. /\ req.op = "set" /\ cmd.val = req.val /\ cmd.save = req.save /\ cmd.feat = req.feat
      /\ Slots(cmd) = Meant(req)
  <2> HIDE DEF req, cmd
  <2> QED BY <1>1, CmdFields
<1>3. CASE /\ cmd.save => cmd.feat \in Saveable
           /\ \E s \in Slots(cmd) :
                /\ current' = [current EXCEPT ![s] = cmd.val]
                /\ saved' = IF cmd.save THEN [saved EXCEPT ![s] = cmd.val] ELSE saved
           /\ Complete(c, Success, 0)
  BY <1>1, <1>2, <1>3, WriteStep
<1>4. ASSUME NEW ret \in {FeatureNotSaveable, InvalidField},
             Complete(c, ret, 0), UNCHANGED <<current, saved>>
      PROVE  IInv'
  <2>1. ret \in Int /\ ret # 0
    BY <1>4 DEF FeatureNotSaveable, InvalidField
  <2> QED BY <1>1, <1>2, <1>4, <2>1, CompleteStep
<1> QED BY <1>3, <1>4 DEF ServeSet

LEMMA ServeGetStep == ASSUME IInv, NEW c \in Client, ServeGet(c) PROVE IInv'
<1> DEFINE req == call[c].req
           cmd == call[c].cmd
<1>1. /\ call[c].st = "inflight" /\ cmd.opc = "get" /\ Watch
      /\ UNCHANGED <<current, saved, promise>>
      /\ req \in Request /\ cmd = CmdOf(req)
  BY DEF ServeGet, IInv, Marshalled
<1>2. req.op = "get" /\ cmd.sel = as_raw(req.sel) /\ Slots(cmd) = Meant(req)
  <2> HIDE DEF req, cmd
  <2> QED BY <1>1, CmdFields
<1>3. Visible(req, current, saved) \subseteq shown[c] /\ shown[c] \in SUBSET Nat
  BY <1>1, <1>2 DEF IInv, Seen, SeenOK, TypeOK
<1>4. ASSUME NEW s \in Slots(cmd), Complete(c, Success, RawView(cmd.sel, s)) PROVE IInv'
  <2>1. RawView(cmd.sel, s) = View(req.sel, s, current, saved)
    <3>1. req.sel \in Select
      BY <1>1, RequestIs
    <3> HIDE DEF req, cmd
    <3> QED BY <1>2, <3>1 DEF RawView, View, as_raw, Select
  <2>2. RawView(cmd.sel, s) \in shown[c] /\ RawView(cmd.sel, s) \in Nat
    BY <1>2, <1>3, <2>1 DEF Visible
  <2> QED BY <1>1, <1>2, <1>4, <2>2, CompleteStep DEF Success
<1>5. ASSUME Complete(c, InvalidField, 0) PROVE IInv'
  BY <1>1, <1>2, <1>5, CompleteStep DEF InvalidField
<1> QED BY <1>4, <1>5 DEF ServeGet

LEMMA TimeoutStep == ASSUME IInv, NEW c \in Client, Timeout(c) PROVE IInv'
<1>1. call[c].result \in Nat
  BY DEF IInv, TypeOK, CallType
<1> QED BY <1>1, CompleteStep DEF Timeout

(* The end of a call: a Set that was alone makes a promise that holds and  *)
(* that no other Set on its way is about.                                  *)
LEMMA ReturnStep == ASSUME IInv, NEW c \in Client, Return(c) PROVE IInv'
<1> DEFINE req == call[c].req
           reply == check_ret(call[c].ret)
           kept == IF req.op = "get" THEN req ELSE Idle.req
           res == call[c].result
           new == [Idle EXCEPT !.reply = reply, !.result = res, !.req = kept]
           tells(s) == /\ req.op = "set" /\ reply.kind = "Ok" /\ call[c].alone
                       /\ Meant(req) = {s}
<1>1. /\ call[c].st = "completed" /\ call' = [call EXCEPT ![c] = new]
      /\ promise' = [s \in Slot |-> IF tells(s) THEN [val |-> req.val, save |-> req.save]
                                    ELSE promise[s]]
      /\ UNCHANGED <<current, saved, fd>> /\ Watch
  BY DEF Return
<1>2. /\ req \in Request /\ call[c] \in CallType /\ call[c].ret \in Int
      /\ res \in Nat
  BY <1>1 DEF IInv, Marshalled, TypeOK, CallType
<1>3. reply \in Reply /\ (reply.kind = "Ok" <=> call[c].ret = 0)
  BY <1>2, CheckRet
<1>4. /\ kept \in Request \cup {Idle.req}
      /\ kept.op = "get" => req.op = "get"
      /\ kept.op # "set"
  BY <1>2, IdleIs
<1> HIDE DEF kept, reply
<1>5. /\ new \in CallType /\ new.st = "returned" /\ new.req = kept
      /\ new.result = res /\ new.reply = reply
  <2>1. Idle.st = "returned"
    BY IdleIs
  <2> HIDE DEF res
  <2> QED BY <1>2, <1>3, <1>4, <2>1, IdleCall DEF CallType
<1> HIDE DEF new
<1>6. /\ call'[c] = new /\ call' \in [Client -> CallType]
      /\ \A d \in Client \ {c} : call'[d] = call[d]
  BY <1>1, <1>5 DEF IInv, TypeOK
<1>7. TypeOK'
  <2>1. shown' \in [Client -> SUBSET Nat]
    BY <1>1, <1>5, <1>6, WatchType DEF IInv, TypeOK, Marshalled
  <2>2. promise' \in [Slot -> [val : Value \cup {Unknown}, save : BOOLEAN]]
    BY <1>1, <1>2, RequestIs DEF IInv, TypeOK
  <2> QED BY <1>1, <1>5, <1>6, <2>1, <2>2 DEF IInv, TypeOK
<1>8. Marshalled'
  BY <1>5, <1>6 DEF IInv, Marshalled
<1>9. Seen'
  BY <1>1, <1>3, <1>4, <1>5, <1>6, <1>7, SeenStep DEF IInv, Seen, SeenOK, GetTruthful
<1>10. \A d \in Client : InSet(d)' => d # c /\ InSet(d) /\ call'[d] = call[d]
  BY <1>5, <1>6 DEF InSet
<1>11. ApartOK' /\ DoneOK'
  BY <1>1, <1>10 DEF IInv, Quiet, ApartOK, DoneOK, Holds
<1>12. ASSUME NEW s \in Slot, tells(s)
       PROVE  /\ Holds(s, req.val, req.save) /\ promise'[s] = [val |-> req.val, save |-> req.save]
              /\ \A d \in Client : InSet(d)' => s \notin Meant(call'[d].req)
  <2>1. InSet(c) /\ call[c].alone /\ call[c].ret = 0
    BY <1>1, <1>3, <1>12 DEF InSet
  <2>2. Holds(s, req.val, req.save)
    BY <1>1, <1>12, <2>1 DEF IInv, Quiet, DoneOK
  <2>3. \A d \in Client : InSet(d)' => ~Overlap(req, call[d].req)
    BY <1>10, <2>1 DEF IInv, Quiet, ApartOK
  <2>4. \A d \in Client : InSet(d)' => s \notin Meant(call'[d].req)
    BY <1>10, <1>12, <2>3 DEF Overlap
  <2> QED BY <1>1, <1>12, <2>2, <2>4
<1>13. \A s \in Slot : ~tells(s) => promise'[s] = promise[s]
  BY <1>1
<1> HIDE DEF tells, req
<1>14. UnpromisedOK'
  <2> SUFFICES ASSUME NEW d \in Client, InSet(d)', NEW s \in Meant(call'[d].req)
               PROVE  promise'[s] = NoPromise
    BY DEF UnpromisedOK
  <2>1. d # c /\ InSet(d) /\ call'[d].req = call[d].req
    BY <1>10
  <2>2. s \in Slot /\ promise[s] = NoPromise
    BY <2>1, MeantIs DEF IInv, Quiet, UnpromisedOK, Marshalled, InSet
  <2> QED BY <1>12, <1>13, <2>2
<1>15. KeptOK'
  <2> SUFFICES ASSUME NEW s \in Slot, promise'[s] # NoPromise
               PROVE  Holds(s, promise[s].val, promise[s].save)'
    BY DEF KeptOK
  <2>1. CASE tells(s)
    BY <1>1, <1>12, <2>1 DEF Holds
  <2>2. CASE ~tells(s)
    BY <1>1, <1>13, <2>2 DEF IInv, Quiet, KeptOK, Holds
  <2> QED BY <2>1, <2>2
<1> QED BY <1>7, <1>8, <1>9, <1>11, <1>14, <1>15 DEF IInv, Quiet

----------------------------------------------------------------------------
(* Resets.                                                                 *)

(* A reset keeps what was saved, and no call believes in more than that.   *)
LEMMA RestoreStep ==
  ASSUME IInv, current' = Restored, promise' = Forgotten, UNCHANGED <<saved, fd>>, Watch,
         call' \in [Client -> CallType],
         \A d \in Client :
           /\ call'[d].req = call[d].req /\ call'[d].cmd = call[d].cmd
           /\ call'[d].reply = call[d].reply /\ call'[d].result = call[d].result
           /\ call'[d].st = "returned" <=> call[d].st = "returned"
           /\ call'[d].st = "inflight" => call[d].st = "inflight"
           /\ call'[d].alone => call[d].alone
           /\ call'[d].st = "completed" /\ call'[d].ret = 0 /\ call[d].req.op # "reset" =>
                /\ call[d].st = "completed" /\ call[d].ret = 0
                /\ call'[d].alone => Undisturbed(d)
  PROVE  IInv'
<1>1. /\ \A s \in Slot : current'[s] = IF s[1] \in Saveable THEN saved[s] ELSE Factory[s[1]]
      /\ \A s \in Slot : promise'[s] = IF promise[s].save THEN promise[s] ELSE NoPromise
  BY DEF Restored, Forgotten
<1>2. TypeOK'
  <2>1. current' \in [Slot -> Value]
    <3>1. \A s \in Slot : saved[s] \in Value /\ Factory[s[1]] \in Value
      BY FeaturesAssumption DEF IInv, TypeOK, Slot
    <3> QED BY <3>1 DEF Restored
  <2>2. promise' \in [Slot -> [val : Value \cup {Unknown}, save : BOOLEAN]]
    BY DEF IInv, TypeOK, Forgotten, NoPromise
  <2>3. shown' \in [Client -> SUBSET Nat]
    BY <2>1, WatchType DEF IInv, TypeOK, Marshalled
  <2> QED BY <2>1, <2>2, <2>3 DEF IInv, TypeOK
<1>3. Marshalled'
  BY DEF IInv, Marshalled
<1>4. Seen'
  BY <1>2, SeenStep DEF IInv, Seen, SeenOK, GetTruthful
<1>5. \A d \in Client : InSet(d)' <=> InSet(d)
  BY DEF InSet
<1>6. ApartOK' /\ UnpromisedOK'
  <2>1. ApartOK'
    BY <1>5 DEF IInv, Quiet, ApartOK
  <2>2. UnpromisedOK'
    <3> SUFFICES ASSUME NEW d \in Client, InSet(d)', NEW s \in Meant(call'[d].req)
                 PROVE  promise'[s] = NoPromise
      BY DEF UnpromisedOK
    <3>1. InSet(d) /\ call'[d].req = call[d].req
      BY <1>5
    <3>2. s \in Slot /\ promise[s] = NoPromise
      BY <3>1, MeantIs DEF IInv, Quiet, UnpromisedOK, Marshalled, InSet
    <3> QED BY <1>1, <3>2
  <2> QED BY <2>1, <2>2
<1>7. \A s \in Slot : s[1] \in Saveable => current'[s] = saved[s]
  BY <1>1
<1>8. DoneOK'
  <2> SUFFICES ASSUME NEW d \in Client, NEW s \in Slot, call'[d].st = "completed",
                      call'[d].ret = 0, call'[d].alone, InSet(d)', Meant(call'[d].req) = {s}
               PROVE  Holds(s, call[d].req.val, call[d].req.save)'
    BY DEF DoneOK
  <2>1. /\ InSet(d) /\ call'[d].req = call[d].req /\ call[d].req.op = "set"
    BY <1>5 DEF InSet
  <2>2. /\ call[d].st = "completed" /\ call[d].ret = 0 /\ call[d].alone /\ call[d].req.save
    BY <2>1 DEF Undisturbed
  <2>3. Holds(s, call[d].req.val, call[d].req.save)
    BY <2>1, <2>2 DEF IInv, Quiet, DoneOK
  <2> QED BY <1>7, <2>1, <2>2, <2>3 DEF Holds
<1>9. KeptOK'
  <2> SUFFICES ASSUME NEW s \in Slot, promise'[s] # NoPromise
               PROVE  Holds(s, promise[s].val, promise[s].save)'
    BY DEF KeptOK
  <2>1. promise'[s] = promise[s] /\ promise[s].save
    BY <1>1
  <2>2. Holds(s, promise[s].val, promise[s].save)
    BY <2>1 DEF IInv, Quiet, KeptOK
  <2> QED BY <1>7, <2>1, <2>2 DEF Holds
<1> QED BY <1>2, <1>3, <1>4, <1>6, <1>8, <1>9 DEF IInv, Quiet

LEMMA ServeResetStep == ASSUME IInv, NEW c \in Client, ServeReset(c) PROVE IInv'
<1>1. /\ call[c].st = "inflight" /\ call[c].req.op = "reset"
      /\ call \in [Client -> CallType]
  <2>1. call[c].st = "inflight" /\ call[c].req \in Request
        /\ CmdOf(call[c].req).opc = "reset"
    BY DEF ServeReset, IInv, Marshalled
  <2> QED BY <2>1, CmdFields DEF IInv, TypeOK
<1>2. call'[c] = [call[c] EXCEPT !.st = "completed"]
  BY DEF ServeReset
<1>3. ASSUME NEW d \in Client \ {c}
      PROVE  call'[d] = [call[d] EXCEPT !.alone = Undisturbed(d)]
  BY DEF ServeReset
<1>4. /\ call'[c] \in CallType /\ call'[c].st = "completed"
      /\ call'[c].req = call[c].req /\ call'[c].cmd = call[c].cmd
      /\ call'[c].reply = call[c].reply /\ call'[c].result = call[c].result
      /\ call'[c].alone = call[c].alone
  BY <1>1, <1>2 DEF CallType
<1>5. ASSUME NEW d \in Client \ {c}
      PROVE  /\ call'[d] \in CallType /\ call'[d].alone = Undisturbed(d)
             /\ call'[d].req = call[d].req /\ call'[d].cmd = call[d].cmd
             /\ call'[d].reply = call[d].reply /\ call'[d].result = call[d].result
             /\ call'[d].st = call[d].st /\ call'[d].ret = call[d].ret
  <2>1. Undisturbed(d) \in BOOLEAN /\ call[d] \in CallType
    BY <1>1 DEF Undisturbed, CallType
  <2> QED BY <1>3, <2>1 DEF CallType
<1>6. call' \in [Client -> CallType]
  <2>1. call' = [d \in Client |-> call'[d]]
    BY DEF ServeReset
  <2> QED BY <1>4, <1>5, <2>1
<1> QED BY <1>1, <1>4, <1>5, <1>6, RestoreStep DEF ServeReset, Undisturbed

LEMMA PowerStep == ASSUME IInv, PowerCycle PROVE IInv'
<1>1. call \in [Client -> CallType]
  BY DEF IInv, TypeOK
<1>2. ASSUME NEW d \in Client, call[d].st = "inflight"
      PROVE  /\ call'[d] \in CallType /\ call'[d].st = "completed" /\ call'[d].ret = -1
             /\ call'[d].req = call[d].req /\ call'[d].cmd = call[d].cmd
             /\ call'[d].reply = call[d].reply /\ call'[d].result = call[d].result
             /\ call'[d].alone = call[d].alone
  <2> DEFINE lost == -1
  <2>1. call'[d] = [call[d] EXCEPT !.st = "completed", !.ret = lost]
    BY <1>2 DEF PowerCycle
  <2>2. lost \in Int /\ call[d] \in CallType
    BY <1>1
  <2> HIDE DEF lost
  <2>3. /\ call'[d] \in CallType /\ call'[d].st = "completed" /\ call'[d].ret = lost
        /\ call'[d].req = call[d].req /\ call'[d].cmd = call[d].cmd
        /\ call'[d].reply = call[d].reply /\ call'[d].result = call[d].result
        /\ call'[d].alone = call[d].alone
    BY <2>1, <2>2 DEF CallType
  <2> QED BY <2>3 DEF lost
<1>3. ASSUME NEW d \in Client, call[d].st # "inflight"
      PROVE  /\ call'[d] \in CallType /\ call'[d].alone = Undisturbed(d)
             /\ call'[d].req = call[d].req /\ call'[d].cmd = call[d].cmd
             /\ call'[d].reply = call[d].reply /\ call'[d].result = call[d].result
             /\ call'[d].st = call[d].st /\ call'[d].ret = call[d].ret
  <2>1. call'[d] = [call[d] EXCEPT !.alone = Undisturbed(d)]
    BY <1>3 DEF PowerCycle
  <2>2. Undisturbed(d) \in BOOLEAN /\ call[d] \in CallType
    BY <1>1 DEF Undisturbed, CallType
  <2> QED BY <2>1, <2>2 DEF CallType
<1>4. call' \in [Client -> CallType]
  <2>1. call' = [d \in Client |-> call'[d]]
    BY DEF PowerCycle
  <2> QED BY <1>2, <1>3, <2>1
<1>5. current' = Restored /\ promise' = Forgotten /\ UNCHANGED <<saved, fd>> /\ Watch
  BY DEF PowerCycle
<1>6. ASSUME NEW d \in Client
      PROVE  /\ call'[d].req = call[d].req /\ call'[d].cmd = call[d].cmd
             /\ call'[d].reply = call[d].reply /\ call'[d].result = call[d].result
             /\ call'[d].st = "returned" <=> call[d].st = "returned"
             /\ call'[d].st = "inflight" => call[d].st = "inflight"
             /\ call'[d].alone => call[d].alone
             /\ call'[d].st = "completed" /\ call'[d].ret = 0 /\ call[d].req.op # "reset" =>
                  /\ call[d].st = "completed" /\ call[d].ret = 0
                  /\ call'[d].alone => Undisturbed(d)
  <2>1. CASE call[d].st = "inflight"
    BY <1>2, <2>1
  <2>2. CASE call[d].st # "inflight"
    BY <1>3, <2>2 DEF Undisturbed
  <2> QED BY <2>1, <2>2
<1> QED BY <1>4, <1>5, <1>6, RestoreStep

----------------------------------------------------------------------------
(* IInv is an inductive invariant of every method, the controller and its  *)
(* resets.                                                                 *)
THEOREM Inductive == Spec => []IInv
<1>1. Init => IInv
  BY Initial
<1>2. IInv /\ [Next]_vars => IInv'
  <2> SUFFICES ASSUME IInv, [Next]_vars PROVE IInv'
    OBVIOUS
  <2>1. ASSUME NEW c \in Client, NEW req \in Request, Method(c, req) PROVE IInv'
    BY <2>1, MethodStep
  <2>2. ASSUME NEW c \in Client,
               ServeSet(c) \/ ServeGet(c) \/ ServeReset(c) \/ Timeout(c) \/ Return(c)
        PROVE  IInv'
    BY <2>2, ServeSetStep, ServeGetStep, ServeResetStep, TimeoutStep, ReturnStep
  <2>3. CASE PowerCycle
    BY <2>3, PowerStep
  <2>4. CASE UNCHANGED vars
    BY <2>4 DEF vars, IInv, TypeOK, Marshalled, Seen, SeenOK, GetTruthful, Quiet, ApartOK,
                UnpromisedOK, DoneOK, KeptOK, Holds, InSet
  <2> QED BY <2>1, <2>2, <2>3, <2>4 DEF Next
<1> QED BY <1>1, <1>2, PTL DEF Spec

(* Every variable has its type, whatever the features, scopes and calls.   *)
THEOREM TypeCorrect == Spec => []TypeOK
<1>1. IInv => TypeOK
  BY DEF IInv
<1> QED BY <1>1, Inductive, PTL

(* A Get that returns Ok returns a value that the view and scope it asked  *)
(* for had while the call ran (get.rs).                                    *)
THEOREM GetsAreTrue == Spec => []GetTruthful
<1>1. IInv => GetTruthful
  BY DEF IInv, Seen
<1> QED BY <1>1, Inductive, PTL

(* What a Set that returned Ok wrote stays in effect until the next Set,   *)
(* across resets and power cycles if it was saved (features/mod.rs).       *)
THEOREM SetsLast == Spec => []PromisesKept
<1>1. IInv => PromisesKept
  BY DEF IInv, Quiet, KeptOK, Holds, PromisesKept
<1> QED BY <1>1, Inductive, PTL

(* A method changes neither what is in effect nor what is saved.           *)
LEMMA MethodsOnlySend ==
  ASSUME NEW c \in Client, NEW req \in Request, Method(c, req)
  PROVE  UNCHANGED <<current, saved>>
<1>1. ASSUME NEW checks, NEW cmd, Execute(c, req, checks, cmd)
      PROVE  UNCHANGED <<current, saved>>
  BY <1>1 DEF Execute, Issue, ReturnEarly
<1> QED
  BY <1>1 DEF Method, set_feature, set_scoped, set_unscoped, set_host_id,
              get_feature, get_scoped, get_unscoped, get_host_id, reset

(* A value changes only as a Set on its way asks for that scope of that    *)
(* feature, or by a reset (set.rs).                                        *)
THEOREM OnlyAskedChanges == Spec => ChangesAskedFor
<1> DEFINE Asked ==
      \A s \in Slot :
        /\ current'[s] # current[s] =>
             current' = Restored \/ \E c \in Client : AsksFor(c, s, current'[s])
        /\ saved'[s] # saved[s] =>
             \E c \in Client : AsksFor(c, s, saved'[s]) /\ call[c].req.save
<1>1. ASSUME UNCHANGED <<current, saved>> PROVE Asked
  BY <1>1
<1>2. ASSUME NEW c \in Client, IInv, ServeSet(c) PROVE Asked
  <2> DEFINE req == call[c].req
             cmd == call[c].cmd
  <2>1. CASE UNCHANGED <<current, saved>>
    BY <1>1, <2>1
  <2>2. CASE ~UNCHANGED <<current, saved>>
    <3>1. /\ call[c].st = "inflight" /\ cmd.opc = "set"
          /\ req \in Request /\ cmd = CmdOf(req)
          /\ current \in [Slot -> Value] /\ saved \in [Slot -> Value]
      BY <1>2 DEF ServeSet, IInv, Marshalled, TypeOK
    <3>2. PICK s \in Slots(cmd) :
            /\ current' = [current EXCEPT ![s] = cmd.val]
            /\ saved' = IF cmd.save THEN [saved EXCEPT ![s] = cmd.val] ELSE saved
      BY <1>2, <2>2 DEF ServeSet
    <3> HIDE DEF req, cmd
    <3>3. /\ req.op = "set" /\ cmd.val = req.val /\ cmd.save = req.save
          /\ s \in Meant(req) /\ s \in Slot
      BY <3>1, <3>2, CmdFields, MeantIs
    <3>4. \A t \in Slot \ {s} : current'[t] = current[t] /\ saved'[t] = saved[t]
      BY <3>1, <3>2
    <3>5. current'[s] = req.val /\ (saved'[s] # saved[s] => saved'[s] = req.val /\ req.save)
      BY <3>1, <3>2, <3>3
    <3>6. AsksFor(c, s, req.val)
      BY <3>1, <3>3 DEF AsksFor, req
    <3> QED BY <3>4, <3>5, <3>6 DEF req
  <2> QED BY <2>1, <2>2
<1>3. ASSUME [Next]_vars, IInv PROVE Asked
  <2>1. CASE \E c \in Client : ServeReset(c)
    BY <2>1 DEF ServeReset
  <2>2. CASE PowerCycle
    BY <2>2 DEF PowerCycle
  <2>3. CASE \E c \in Client : ServeGet(c) \/ Timeout(c) \/ Return(c)
    BY <1>1, <2>3 DEF ServeGet, Timeout, Return
  <2>4. CASE UNCHANGED vars
    BY <1>1, <2>4 DEF vars
  <2> HIDE DEF Asked
  <2> QED BY <1>1, <1>2, <1>3, <2>1, <2>2, <2>3, <2>4, MethodsOnlySend DEF Next
<1> QED BY <1>3, Inductive, PTL DEF Spec, ChangesAskedFor

(***************************************************************************)
(* The fields of a dword (NvmeWords), for every word: what a host packs    *)
(* into a feature is what it decodes, and where the two readings of FLBAS  *)
(* agree.                                                                  *)
(***************************************************************************)

(* Quotient and remainder are unique.                                      *)
LEMMA Division ==
  ASSUME NEW x \in Nat, NEW n \in Nat \ {0}, NEW q \in Nat, NEW r \in Nat,
         x = n * q + r, r < n
  PROVE  x \div n = q /\ x % n = r
  BY SMT

LEMMA Remainder ==
  ASSUME NEW x \in Nat, NEW n \in Nat \ {0}
  PROVE  /\ x \div n \in Nat /\ x % n \in 0..(n - 1)
         /\ x = n * (x \div n) + (x % n)
  BY SMT

(* What NVME_GET takes from a word, for every field: the middle of three   *)
(* parts, whatever lies below and above it.                                *)
LEMMA GetMiddle ==
  ASSUME NEW unit \in Nat \ {0}, NEW size \in Nat \ {0},
         NEW lo \in Nat, NEW x \in Nat, NEW hi \in Nat, lo < unit, x < size
  PROVE  NVME_GET(lo + unit * x + unit * size * hi, F(unit, size)) = x
<1> DEFINE w   == lo + unit * x + unit * size * hi
           top == x + size * hi
<1>1. w = unit * top + lo /\ w \in Nat /\ top \in Nat
  BY SMT
<1>2. w \div unit = top
  BY <1>1, Division
<1>3. top = size * hi + x
  BY SMT
<1>4. top % size = x
  BY <1>1, <1>3, Division
<1> QED
  BY <1>2, <1>4 DEF NVME_GET, F

(* A value that fits its field is only shifted.                            *)
LEMMA SetFits ==
  ASSUME NEW unit \in Nat \ {0}, NEW size \in Nat \ {0}, NEW x \in 0..(size - 1)
  PROVE  NVME_SET(x, F(unit, size)) = unit * x
<1>1. x \in Nat /\ x < size /\ x = size * 0 + x
  BY SMT
<1>2. x % size = x
  BY <1>1, Division
<1> QED
  BY <1>1, <1>2, SMT DEF NVME_SET, F

(* What NVME_GET takes has as many values as the mask allows.              *)
LEMMA FieldsFit ==
  ASSUME NEW value \in Nat, NEW unit \in Nat \ {0}, NEW size \in Nat \ {0}
  PROVE  NVME_GET(value, F(unit, size)) \in 0..(size - 1)
<1>1. value \div unit \in Nat
  BY Remainder
<1> QED
  BY <1>1, Remainder DEF NVME_GET, F

(***************************************************************************)
(* Fields packed side by side by NVME_SET come back from the decoder: the  *)
(* queue counts, thermal limits and intervals of Set Features are what Get *)
(* Features shows, for any widths of the two fields.                       *)
(***************************************************************************)
THEOREM PackedFieldsDecode ==
  ASSUME NEW s \in Nat \ {0}, NEW t \in Nat \ {0},
         NEW x \in 0..(s - 1), NEW y \in 0..(t - 1)
  PROVE  Decode(NVME_SET(x, F(1, s)) + NVME_SET(y, F(s, t)),
                [low |-> F(1, s), high |-> F(s, t)])
           = [low |-> x, high |-> y]
<1> DEFINE w == x + s * y
<1>1. NVME_SET(x, F(1, s)) = x /\ NVME_SET(y, F(s, t)) = s * y
  <2>1. NVME_SET(x, F(1, s)) = 1 * x
    BY SetFits
  <2>2. NVME_SET(y, F(s, t)) = s * y
    BY SetFits
  <2> QED
    BY <2>1, <2>2, SMT
<1>2. NVME_GET(w, F(1, s)) = x
  <2>1. w = 0 + 1 * x + 1 * s * y /\ x \in Nat /\ y \in Nat /\ x < s /\ 0 < 1
    BY SMT
  <2>2. 0 \in Nat /\ 1 \in Nat \ {0}
    OBVIOUS
  <2>3. NVME_GET(0 + 1 * x + 1 * s * y, F(1, s)) = x
    <3> HIDE DEF w
    <3> QED
      BY <2>1, <2>2, GetMiddle, Zenon
  <2> QED
    BY <2>1, <2>3
<1>3. NVME_GET(w, F(s, t)) = y
  <2>1. w = x + s * y + s * t * 0 /\ x \in Nat /\ y \in Nat /\ x < s /\ y < t
    BY SMT
  <2>2. NVME_GET(x + s * y + s * t * 0, F(s, t)) = y
    BY <2>1, GetMiddle
  <2> QED
    BY <2>1, <2>2
<1> QED
  BY <1>1, <1>2, <1>3 DEF Decode

(***************************************************************************)
(* identify.rs and util.h agree on the format in use exactly while the     *)
(* namespace uses one of the first sixteen (Identify Namespace, FLBAS).    *)
(***************************************************************************)
THEOREM FormatsAgree ==
  ASSUME NEW flbas \in Nat
  PROVE  current_index(flbas) = nvme_id_ns_flbas_to_lbaf_inuse(flbas)
           <=> NVME_GET(flbas, FLBAS.higher) = 0
<1> DEFINE f == Decode(flbas, FLBAS)
<1>1. f.lower = (flbas \div 1) % 16 /\ f.higher = NVME_GET(flbas, FLBAS.higher)
  BY DEF Decode, FLBAS, NVME_GET, F, Bit
<1>2. flbas \div 1 = flbas
  <2>1. flbas = 1 * flbas + 0
    BY SMT
  <2> QED
    BY <2>1, Division
<1>3. flbas % 16 \in Nat
  BY Remainder, SMT
<1>4. NVME_GET(flbas, FLBAS.higher) \in Nat
  <2>1. 32 \in Nat \ {0} /\ 4 \in Nat \ {0}
    OBVIOUS
  <2>2. NVME_GET(flbas, F(32, 4)) \in 0..(4 - 1)
    BY <2>1, FieldsFit, Zenon
  <2> QED
    BY <2>2, SMT DEF FLBAS
<1>5. nvme_id_ns_flbas_to_lbaf_inuse(flbas) = f.higher * 16 + f.lower
  BY DEF nvme_id_ns_flbas_to_lbaf_inuse
<1> HIDE DEF f
<1> QED
  BY <1>1, <1>2, <1>3, <1>4, <1>5, SMT DEF current_index

(***************************************************************************)
(* What nvme_pmr_throughput returns depends on the unit of the register    *)
(* alone: two throughputs in the same unit are the same to it, though the  *)
(* register has a field for the value (types.h, enum nvme_pmrswtp).        *)
(***************************************************************************)
THEOREM ThroughputIsItsUnit ==
  ASSUME NEW reg1 \in Nat, NEW reg2 \in Nat, reg1 % 16 = reg2 % 16
  PROVE  nvme_pmr_throughput(reg1) = nvme_pmr_throughput(reg2)
<1>1. \A reg \in Nat : reg \div 1 = reg
  <2>1. \A reg \in Nat : reg = 1 * reg + 0
    BY SMT
  <2> QED
    BY <2>1, Division
<1>2. Decode(reg1, PMRSWTP) = Decode(reg2, PMRSWTP)
  BY <1>1 DEF Decode, PMRSWTP, NVME_GET, F
<1> QED
  BY <1>2 DEF nvme_pmr_throughput
=============================================================================
