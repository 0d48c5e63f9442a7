------------------------ MODULE NamespaceMgmtProofs ------------------------
(***************************************************************************)
(* For every number of processes, identifiers and controllers and every    *)
(* set of calls: only controllers that were asked for get attached, what   *)
(* an attach or a create reported lasts until somebody undoes it, and a    *)
(* handle stays with the namespace it was scanned for.                     *)
(***************************************************************************)
EXTENDS NamespaceMgmt, TLAPS

(* The command of a call says what was asked for.                          *)
Marshalled ==
  \A p \in Process : call[p].st # "returned" =>
    LET req == call[p].req IN
    /\ req \in Request /\ call[p].cmd.sel = req.op
    /\ req.op # "create" => call[p].cmd.nsid = req.nsid
    /\ req.op \in {"attach", "detach"} => Listed(call[p].cmd.list) = Named(req.ids)

(* The controllers of an attach on its way were asked for.                 *)
AskedOK ==
  \A p \in Process :
    call[p].st = "inflight" /\ call[p].req.op = "attach" /\ call[p].req.nsid \in Nsid =>
      Named(call[p].req.ids) \subseteq asked[call[p].req.nsid]

(* p is about to be told of a success that lasts.                          *)
Telling(p, op) ==
  call[p].st = "completed" /\ call[p].ret = 0 /\ call[p].sound /\ call[p].req.op = op

GrantOK ==
  \A p \in Process : Telling(p, "attach") /\ call[p].req.nsid \in Nsid =>
    Named(call[p].req.ids) \subseteq attached[call[p].req.nsid]

CreateOK ==
  \A p \in Process : Telling(p, "create") =>
    /\ call[p].result \in Nsid /\ ns[call[p].result] # 0
    /\ \A q \in Process : call[p].result \notin mine[q]
    /\ \A q \in Process \ {p} : Telling(q, "create") => call[q].result # call[p].result

(* While a delete or detach for n is on its way nobody is told of n what   *)
(* it may undo.                                                            *)
UnderOK ==
  \A q \in Process, n \in Nsid :
    call[q].st = "inflight" /\ Undermines(call[q].req, n) =>
      /\ granted[n] = {}
      /\ \A p \in Process \ {q} :
           call[p].st # "returned" /\ call[p].req.nsid = n => ~call[p].sound
      /\ call[q].req.op = "delete" => \A p \in Process :
           /\ n \notin mine[p]
           /\ p # q /\ Telling(p, "create") => call[p].result # n

Lasting == OnlyAsked /\ AttachLasts /\ CreatedIsOwn

IInv == TypeOK /\ Lasting /\ Marshalled /\ AskedOK /\ GrantOK /\ CreateOK /\ UnderOK

HandleType == [nsid : Nsid \cup {0}, of : Nat, fd : Nat, did : Nat]

CmdType ==
  [sel : {"none", "create", "delete", "attach", "detach"}, nsid : Nat,
   list : [num : 0 .. MaxIds, identifier : [1 .. MaxIds -> Cntlid]]]

----------------------------------------------------------------------------
(* Lists and types.                                                        *)

(* The list names the controllers it was made from, without its padding.   *)
LEMMA ListIs ==
  ASSUME NEW ids \in Seq(Cntlid), list_checks(ids)
  PROVE  /\ Listed(ctrl_list(ids)) = Named(ids)
         /\ ctrl_list(ids) \in [num : 0 .. MaxIds, identifier : [1 .. MaxIds -> Cntlid]]
<1>1. /\ Len(ids) \in Nat /\ Len(ids) <= MaxIds /\ DOMAIN ids = 1 .. Len(ids)
      /\ MaxIds \in Nat /\ 0 \in Cntlid /\ \A i \in 1 .. Len(ids) : ids[i] \in Cntlid
  BY NamespaceMgmtAssumption DEF list_checks
<1> DEFINE entry == [i \in 1 .. MaxIds |-> IF i <= Len(ids) THEN ids[i] ELSE 0]
<1>2. entry \in [1 .. MaxIds -> Cntlid]
  <2>1. \A i \in 1 .. MaxIds : i <= Len(ids) => i \in 1 .. Len(ids)
    BY <1>1
  <2> QED BY <1>1, <2>1
<1>3. \A i \in 1 .. Len(ids) : entry[i] = ids[i]
  BY <1>1
<1>4. ctrl_list(ids).num = Len(ids) /\ ctrl_list(ids).identifier = entry
  BY DEF ctrl_list
<1>5. Listed(ctrl_list(ids)) = Named(ids)
  <2> HIDE DEF entry
  <2> QED BY <1>1, <1>3, <1>4 DEF Listed, Named
<1> QED BY <1>1, <1>2, <1>5 DEF ctrl_list

LEMMA NamedType ==
  ASSUME NEW req \in Request
  PROVE  /\ req.ids \in Seq(Cntlid) /\ Named(req.ids) \in SUBSET Cntlid
         /\ req.nsid \in Nat /\ req.op \in {"create", "delete", "attach", "detach"}
BY NamespaceMgmtAssumption DEF RequestType, Named

LEMMA NoListType == NoList \in [num : 0 .. MaxIds, identifier : [1 .. MaxIds -> Cntlid]]
BY NamespaceMgmtAssumption DEF NoList

LEMMA IdleType ==
  /\ Idle \in CallType /\ Idle.st = "returned"
  /\ InvalidArgument \in Reply /\ OsError \in Reply
<1>1. InvalidArgument \in Reply /\ OsError \in Reply
  BY DEF InvalidArgument, OsError, Reply, Errno
<1>2. [op |-> "none"] \in Request \cup {Idle.req}
  BY DEF Idle
<1>3. [sel |-> "none", nsid |-> 0, list |-> NoList] \in
        [sel : {"none", "create", "delete", "attach", "detach"}, nsid : Nat,
         list : [num : 0 .. MaxIds, identifier : [1 .. MaxIds -> Cntlid]]]
  BY NoListType
<1> QED BY <1>1, <1>2, <1>3 DEF Idle, CallType

LEMMA CheckRet ==
  ASSUME NEW ret \in Int
  PROVE  check_ret(ret) \in Reply /\ (check_ret(ret).kind = "Ok" <=> ret = 0)
BY DEF check_ret, Reply, Errno

----------------------------------------------------------------------------
(* The host side.                                                          *)

LEMMA Initial == Init => IInv
<1> SUFFICES ASSUME Init PROVE IInv
  OBVIOUS
<1>1. TypeOK
  BY IdleType, NamespaceMgmtAssumption DEF Init, TypeOK, NoHandle
<1>2. Lasting
  BY DEF Init, Lasting, OnlyAsked, AttachLasts, CreatedIsOwn
<1>3. \A p \in Process : call[p].st = "returned"
  BY IdleType DEF Init
<1> QED
  BY <1>1, <1>2, <1>3
  DEF IInv, Marshalled, AskedOK, GrantOK, CreateOK, UnderOK, Telling

LEMMA EarlyStep ==
  ASSUME IInv, NEW p \in Process, NEW req \in Request, NEW reply \in Reply,
         ReturnEarly(p, req, reply)
  PROVE  IInv'
<1>1. /\ call' = [call EXCEPT ![p] = [Idle EXCEPT !.req = req, !.reply = reply]]
      /\ UNCHANGED <<ns, attached, made, fd, handle, asked, granted, mine, orphan>>
  BY DEF ReturnEarly, subsystem, history
<1>2. [Idle EXCEPT !.req = req, !.reply = reply] \in CallType
  BY IdleType DEF CallType
<1>3. /\ call'[p].st = "returned" /\ call' \in [Process -> CallType]
      /\ \A q \in Process \ {p} : call'[q] = call[q]
  BY <1>1, <1>2, IdleType DEF IInv, TypeOK, CallType
<1>4. TypeOK'
  BY <1>1, <1>3 DEF IInv, TypeOK
<1>5. Lasting'
  BY <1>1 DEF IInv, Lasting, OnlyAsked, AttachLasts, CreatedIsOwn
<1>6. Marshalled' /\ AskedOK' /\ GrantOK'
  BY <1>1, <1>3 DEF IInv, Marshalled, AskedOK, GrantOK, Telling
<1>7. CreateOK' /\ UnderOK'
  BY <1>1, <1>3 DEF IInv, CreateOK, UnderOK, Telling
<1> QED BY <1>4, <1>5, <1>6, <1>7 DEF IInv

(* A call of p that goes out is not sound if another one undermines it,    *)
(* and makes those unsound that it undermines.                             *)
LEMMA IssueStep ==
  ASSUME IInv, NEW p \in Process, NEW req \in Request, NEW cmd \in CmdType,
         call[p].st = "returned", cmd.sel = req.op,
         req.op # "create" => cmd.nsid = req.nsid,
         req.op \in {"attach", "detach"} => Listed(cmd.list) = Named(req.ids),
         Issue(p, req, cmd)
  PROVE  IInv'
<1>1. CASE ReturnEarly(p, req, OsError)
  BY <1>1, EarlyStep, IdleType
<1>2. CASE ~ReturnEarly(p, req, OsError)
  <2> DEFINE quiet == \A r \in Process \ {p} :
               call[r].st # "returned" => ~Undermines(call[r].req, req.nsid)
             hit(q) == call[q].st # "returned" /\ \E n \in Nsid :
               Undermines(req, n) /\ n \in {call[q].req.nsid, call[q].result}
             new == [Idle EXCEPT !.st = "inflight", !.req = req, !.cmd = cmd, !.sound = quiet]
  <2>1. /\ fd' = fd \cup {p}
        /\ call' = [q \in Process |->
             IF q = p THEN new
             ELSE [call[q] EXCEPT !.sound =
                     @ /\ (call[q].st = "returned" \/ ~\E n \in Nsid :
                          Undermines(req, n) /\ n \in {call[q].req.nsid, call[q].result})]]
        /\ asked' = IF req.op = "attach" /\ req.nsid \in Nsid
                    THEN [asked EXCEPT ![req.nsid] = @ \cup Named(req.ids)] ELSE asked
        /\ granted' = [n \in Nsid |-> IF Undermines(req, n) THEN {} ELSE granted[n]]
        /\ mine' = [q \in Process |-> IF req.op = "delete" THEN mine[q] \ {req.nsid} ELSE mine[q]]
        /\ UNCHANGED <<ns, attached, made, handle, orphan>>
    BY <1>2 DEF Issue, subsystem
  <2>2. /\ new \in CallType /\ new.st = "inflight" /\ new.req = req /\ new.cmd = cmd
        /\ new.sound = quiet
    BY IdleType DEF CallType, CmdType
  <2> HIDE DEF new
  <2>3. call'[p] = new
    BY <2>1
  <2>4. ASSUME NEW q \in Process \ {p}
        PROVE  /\ call'[q] \in CallType
               /\ call'[q].st = call[q].st /\ call'[q].req = call[q].req
               /\ call'[q].cmd = call[q].cmd /\ call'[q].ret = call[q].ret
               /\ call'[q].result = call[q].result
               /\ call'[q].sound => call[q].sound /\ ~hit(q)
    <3> DEFINE b == call[q].sound /\ (call[q].st = "returned" \/ ~\E n \in Nsid :
                          Undermines(req, n) /\ n \in {call[q].req.nsid, call[q].result})
    <3>1. b \in BOOLEAN /\ (b => call[q].sound /\ ~hit(q)) /\ call[q] \in CallType
      BY DEF IInv, TypeOK, CallType
    <3>2. call'[q] = [call[q] EXCEPT !.sound = b]
      BY <2>1
    <3> HIDE DEF b
    <3> QED BY <3>1, <3>2 DEF CallType
  <2>5. TypeOK'
    <3>1. call' \in [Process -> CallType]
      <4>1. call' = [q \in Process |-> call'[q]]
        BY <2>1
      <4> QED BY <2>2, <2>3, <2>4, <4>1
    <3>2. asked' \in [Nsid -> SUBSET Cntlid] /\ granted' \in [Nsid -> SUBSET Cntlid]
          /\ mine' \in [Process -> SUBSET Nat]
      BY <2>1, NamedType DEF IInv, TypeOK
    <3>3. \A q \in Process : call'[q].st # "returned" => q \in fd'
      BY <2>1, <2>4 DEF IInv, TypeOK
    <3> QED BY <2>1, <3>1, <3>2, <3>3 DEF IInv, TypeOK
  <2>6. Lasting'
    BY <2>1 DEF IInv, TypeOK, Lasting, OnlyAsked, AttachLasts, CreatedIsOwn
  <2>7. Marshalled'
    BY <2>2, <2>3, <2>4 DEF IInv, Marshalled
  <2>8. AskedOK'
    <3>1. \A n \in Nsid : asked[n] \subseteq asked'[n]
      BY <2>1 DEF IInv, TypeOK
    <3>2. req.op = "attach" /\ req.nsid \in Nsid => Named(req.ids) \subseteq asked'[req.nsid]
      BY <2>1 DEF IInv, TypeOK
    <3> QED BY <2>2, <2>3, <2>4, <3>1, <3>2 DEF IInv, AskedOK
  <2>9. \A q \in Process, op \in {"attach", "create"} :
          Telling(q, op)' => q # p /\ Telling(q, op) /\ ~hit(q)
    BY <2>2, <2>3, <2>4 DEF Telling
  <2>10. GrantOK'
    BY <2>1, <2>4, <2>9 DEF IInv, GrantOK
  <2>11. CreateOK'
    BY <2>1, <2>4, <2>9 DEF IInv, CreateOK
  <2>12. UnderOK'
    <3> SUFFICES ASSUME NEW q \in Process, NEW n \in Nsid,
                        call'[q].st = "inflight", Undermines(call'[q].req, n)
                 PROVE  /\ granted'[n] = {}
                        /\ \A r \in Process \ {q} :
                             call'[r].st # "returned" /\ call'[r].req.nsid = n => ~call'[r].sound
                        /\ call'[q].req.op = "delete" => \A r \in Process :
                             /\ n \notin mine'[r]
                             /\ r # q /\ Telling(r, "create")' => call'[r].result # n
      BY DEF UnderOK
    <3>1. CASE q = p
      <4>1. Undermines(req, n)
        BY <2>2, <2>3, <3>1
      <4>2. granted'[n] = {}
        BY <2>1, <4>1
      <4>3. ASSUME NEW r \in Process \ {p}, call'[r].st # "returned", call'[r].req.nsid = n
            PROVE  ~call'[r].sound
        BY <2>4, <4>1, <4>3
      <4>4. req.op = "delete" => \A r \in Process :
              n \notin mine'[r] /\ (r # p /\ Telling(r, "create")' => call'[r].result # n)
        <5> SUFFICES ASSUME req.op = "delete", NEW r \in Process
                     PROVE  /\ n \notin mine'[r]
                            /\ r # p /\ Telling(r, "create")' => call'[r].result # n
          OBVIOUS
        <5>1. n \notin mine'[r]
          BY <2>1, <4>1 DEF Undermines
        <5>2. ASSUME r # p, Telling(r, "create")'
              PROVE  call'[r].result # n
          BY <2>4, <2>9, <4>1, <5>2 DEF Telling
        <5> QED BY <5>1, <5>2
      <4> QED BY <2>2, <2>3, <3>1, <4>2, <4>3, <4>4
    <3>2. CASE q # p
      <4>1. call[q].st = "inflight" /\ call[q].req = call'[q].req /\ Undermines(call[q].req, n)
        BY <2>4, <3>2
      <4>2. granted'[n] = {}
        BY <2>1, <4>1 DEF IInv, UnderOK
      <4>3. ASSUME NEW r \in Process \ {q}, call'[r].st # "returned", call'[r].req.nsid = n
            PROVE  ~call'[r].sound
        <5>1. CASE r = p
          BY <2>2, <2>3, <3>2, <4>1, <4>3, <5>1
        <5>2. CASE r # p
          BY <2>4, <4>1, <4>3, <5>2 DEF IInv, UnderOK
        <5> QED BY <5>1, <5>2
      <4>4. ASSUME call'[q].req.op = "delete", NEW r \in Process
            PROVE  /\ n \notin mine'[r]
                   /\ r # q /\ Telling(r, "create")' => call'[r].result # n
        <5>1. n \notin mine[r] /\ (r # q /\ Telling(r, "create") => call[r].result # n)
          BY <4>1, <4>4 DEF IInv, UnderOK
        <5>2. mine'[r] \subseteq mine[r]
          BY <2>1
        <5>3. Telling(r, "create")' => r # p /\ Telling(r, "create")
          BY <2>9
        <5> QED BY <2>4, <5>1, <5>2, <5>3
      <4> QED BY <4>2, <4>3, <4>4
    <3> QED BY <3>1, <3>2
  <2> QED BY <2>5, <2>6, <2>7, <2>8, <2>10, <2>11, <2>12 DEF IInv
<1> QED BY <1>1, <1>2

LEMMA MethodStep ==
  ASSUME IInv, NEW p \in Process, NEW req \in Request, Method(p, req)
  PROVE  IInv'
<1>1. req.ids \in Seq(Cntlid) /\ req.nsid \in Nat
  BY NamedType
<1>2. CASE create_namespace(p, req)
  <2>1. [sel |-> "create", nsid |-> 0, list |-> NoList] \in CmdType
    BY NoListType DEF CmdType
  <2> QED BY <1>2, <2>1, IssueStep DEF create_namespace
<1>3. CASE delete_namespace(p, req)
  <2>1. [sel |-> "delete", nsid |-> req.nsid, list |-> NoList] \in CmdType
    BY <1>1, NoListType DEF CmdType
  <2> QED BY <1>3, <2>1, IssueStep DEF delete_namespace
<1>4. CASE ns_attach_op(p, req)
  <2>1. CASE ReturnEarly(p, req, InvalidArgument)
    BY <2>1, EarlyStep, IdleType
  <2>2. CASE /\ list_checks(req.ids)
             /\ Issue(p, req, [sel |-> req.op, nsid |-> req.nsid, list |-> ctrl_list(req.ids)])
    <3>1. /\ Listed(ctrl_list(req.ids)) = Named(req.ids)
          /\ ctrl_list(req.ids) \in [num : 0 .. MaxIds, identifier : [1 .. MaxIds -> Cntlid]]
      BY <1>1, <2>2, ListIs
    <3>2. req.op \in {"attach", "detach"} /\ call[p].st = "returned"
      BY <1>4 DEF ns_attach_op
    <3>3. [sel |-> req.op, nsid |-> req.nsid, list |-> ctrl_list(req.ids)] \in CmdType
      BY <1>1, <3>1, <3>2 DEF CmdType
    <3> QED BY <2>2, <3>1, <3>2, <3>3, IssueStep
  <2> QED BY <1>4, <2>1, <2>2 DEF ns_attach_op
<1> QED BY <1>2, <1>3, <1>4 DEF Method

LEMMA ReturnStep ==
  ASSUME IInv, NEW p \in Process, Return(p)
  PROVE  IInv'
<1> DEFINE reply == check_ret(call[p].ret)
           req   == call[p].req
           told  == reply.kind = "Ok" /\ call[p].sound
<1>1. /\ call[p].st = "completed" /\ call[p] \in CallType /\ req \in Request
      /\ reply \in Reply /\ (told <=> call[p].ret = 0 /\ call[p].sound)
  BY CheckRet DEF Return, IInv, TypeOK, CallType, Marshalled
<1>2. /\ call' = [call EXCEPT ![p] = [Idle EXCEPT !.reply = reply]]
      /\ granted' = [n \in Nsid |-> IF told /\ req.op = "attach" /\ req.nsid = n
                                    THEN granted[n] \cup Named(req.ids) ELSE granted[n]]
      /\ mine' = [mine EXCEPT ![p] = IF told /\ req.op = "create"
                                     THEN @ \cup {call[p].result} ELSE @]
      /\ UNCHANGED <<ns, attached, made, fd, handle, asked, orphan>>
  BY DEF Return, subsystem
<1>3. [Idle EXCEPT !.reply = reply] \in CallType /\ [Idle EXCEPT !.reply = reply].st = "returned"
  BY <1>1, IdleType DEF CallType
<1>4. /\ told /\ req.op = "attach" <=> Telling(p, "attach")
      /\ told /\ req.op = "create" <=> Telling(p, "create")
  BY <1>1 DEF Telling
<1> HIDE DEF reply, told
<1>5. /\ call' \in [Process -> CallType] /\ call'[p].st = "returned"
      /\ \A q \in Process \ {p} : call'[q] = call[q]
  BY <1>2, <1>3 DEF IInv, TypeOK
<1>6. \A q \in Process, op \in {"attach", "create"} : Telling(q, op)' => q # p /\ Telling(q, op)
  BY <1>5 DEF Telling
<1>7. TypeOK'
  <2>1. granted' \in [Nsid -> SUBSET Cntlid]
    BY <1>1, <1>2, NamedType DEF IInv, TypeOK
  <2>2. mine' \in [Process -> SUBSET Nat]
    BY <1>1, <1>2 DEF IInv, TypeOK, CallType
  <2>3. \A q \in Process : call'[q].st # "returned" => q \in fd'
    BY <1>2, <1>5 DEF IInv, TypeOK
  <2> QED BY <1>2, <1>5, <2>1, <2>2, <2>3 DEF IInv, TypeOK
<1>8. OnlyAsked' /\ AttachLasts'
  BY <1>1, <1>2, <1>4 DEF IInv, Lasting, OnlyAsked, AttachLasts, GrantOK
<1>9. ASSUME Telling(p, "create")
      PROVE  /\ call[p].result \in Nsid /\ ns[call[p].result] # 0
             /\ \A q \in Process : call[p].result \notin mine[q]
             /\ \A q \in Process \ {p} : Telling(q, "create") => call[q].result # call[p].result
  BY <1>9 DEF IInv, CreateOK
<1>10. /\ \A q \in Process \ {p} : mine'[q] = mine[q]
       /\ mine'[p] = IF Telling(p, "create") THEN mine[p] \cup {call[p].result} ELSE mine[p]
  BY <1>2, <1>4 DEF IInv, TypeOK
<1>11. CreatedIsOwn'
  <2> SUFFICES ASSUME NEW q \in Process
               PROVE  /\ mine'[q] \subseteq { n \in Nsid : ns[n] # 0 }
                      /\ \A r \in Process \ {q} : mine'[q] \cap mine'[r] = {}
    BY <1>2 DEF CreatedIsOwn
  <2>1. /\ mine[q] \subseteq { n \in Nsid : ns[n] # 0 }
        /\ \A r \in Process \ {q} : mine[q] \cap mine[r] = {}
    BY DEF IInv, Lasting, CreatedIsOwn
  <2>2. CASE q = p
    BY <1>9, <1>10, <2>1, <2>2
  <2>3. CASE q # p
    BY <1>9, <1>10, <2>1, <2>3
  <2> QED BY <2>2, <2>3
<1>12. Marshalled' /\ AskedOK'
  BY <1>2, <1>5 DEF IInv, Marshalled, AskedOK
<1>13. GrantOK'
  BY <1>2, <1>5, <1>6 DEF IInv, GrantOK
<1>14. CreateOK'
  <2> SUFFICES ASSUME NEW q \in Process, Telling(q, "create")'
               PROVE  /\ call'[q].result \in Nsid /\ ns[call'[q].result] # 0
                      /\ \A r \in Process : call'[q].result \notin mine'[r]
                      /\ \A r \in Process \ {q} :
                           Telling(r, "create")' => call'[r].result # call'[q].result
    BY <1>2 DEF CreateOK
  <2>1. q # p /\ Telling(q, "create") /\ call'[q] = call[q]
    BY <1>5, <1>6
  <2> QED BY <1>5, <1>6, <1>9, <1>10, <2>1 DEF IInv, CreateOK
<1>15. UnderOK'
  <2> SUFFICES ASSUME NEW q \in Process, NEW n \in Nsid,
                      call'[q].st = "inflight", Undermines(call'[q].req, n)
               PROVE  /\ granted'[n] = {}
                      /\ \A r \in Process \ {q} :
                           call'[r].st # "returned" /\ call'[r].req.nsid = n => ~call'[r].sound
                      /\ call'[q].req.op = "delete" => \A r \in Process :
                           /\ n \notin mine'[r]
                           /\ r # q /\ Telling(r, "create")' => call'[r].result # n
    BY DEF UnderOK
  <2>1. q # p /\ call'[q] = call[q] /\ call[q].st = "inflight" /\ Undermines(call[q].req, n)
    BY <1>5
  <2>2. /\ granted[n] = {}
        /\ \A r \in Process \ {q} :
             call[r].st # "returned" /\ call[r].req.nsid = n => ~call[r].sound
        /\ call[q].req.op = "delete" => \A r \in Process :
             /\ n \notin mine[r]
             /\ r # q /\ Telling(r, "create") => call[r].result # n
    BY <2>1 DEF IInv, UnderOK
  <2>3. granted'[n] = {}
    BY <1>1, <1>2, <1>4, <2>1, <2>2 DEF Telling
  <2>4. \A r \in Process \ {q} :
          call'[r].st # "returned" /\ call'[r].req.nsid = n => ~call'[r].sound
    BY <1>5, <2>2
  <2>5. call'[q].req.op = "delete" => \A r \in Process :
          n \notin mine'[r] /\ (r # q /\ Telling(r, "create")' => call'[r].result # n)
    BY <1>5, <1>6, <1>10, <2>1, <2>2
  <2> QED BY <2>3, <2>4, <2>5
<1> QED BY <1>7, <1>8, <1>11, <1>12, <1>13, <1>14, <1>15 DEF IInv, Lasting

LEMMA HandleSteps ==
  ASSUME IInv, NEW p \in Process, Command(p) \/ \E n \in Nsid : Scan(p, n)
  PROVE  IInv'
<1>1. UNCHANGED <<ns, attached, made, fd, call, asked, granted, mine>>
  BY DEF Command, Scan, subsystem, history
<1>2. handle' \in [Process -> HandleType] /\ orphan' \subseteq Process
  <2>1. handle \in [Process -> HandleType] /\ orphan \subseteq Process /\ ns \in [Nsid -> Nat]
    BY DEF IInv, TypeOK, HandleType
  <2>2. CASE Command(p)
    <3>1. ns_fd(handle[p]) \in Nat
      BY <2>1, <2>2 DEF Command, ns_fd, HandleType
    <3> QED BY <2>1, <2>2, <3>1 DEF Command, HandleType, history
  <2>3. CASE \E n \in Nsid : Scan(p, n)
    BY <2>1, <2>3 DEF Scan, HandleType
  <2> QED BY <2>2, <2>3
<1>3. TypeOK'
  BY <1>1, <1>2 DEF IInv, TypeOK, HandleType
<1>4. Lasting' /\ Marshalled' /\ AskedOK' /\ GrantOK'
  BY <1>1
  DEF IInv, Lasting, OnlyAsked, AttachLasts, CreatedIsOwn, Marshalled, AskedOK, GrantOK, Telling
<1>5. CreateOK' /\ UnderOK'
  BY <1>1 DEF IInv, CreateOK, UnderOK, Telling
<1> QED BY <1>3, <1>4, <1>5 DEF IInv

----------------------------------------------------------------------------
(* The controller.                                                         *)

(* A completion changes what p is about to be told and nothing else.       *)
LEMMA Completion ==
  ASSUME IInv, NEW p \in Process, NEW ret \in Int, NEW result \in Nat,
         call[p].st \in {"inflight", "completed"}, Complete(p, ret, result)
  PROVE  /\ call' \in [Process -> CallType] /\ UNCHANGED <<fd, handle>>
         /\ \A q \in Process \ {p} : call'[q] = call[q]
         /\ call'[p].st = "completed" /\ call'[p].req = call[p].req
         /\ call'[p].cmd = call[p].cmd /\ call'[p].ret = ret /\ call'[p].result = result
         /\ call'[p].sound => call[p].sound /\ (result # 0 => \A q \in Process \ {p} :
              call[q].st # "returned" => ~Undermines(call[q].req, result))
         /\ \A q \in Process : call'[q].st # "returned" => q \in fd'
<1> DEFINE s == call[p].sound /\ (result # 0 => \A q \in Process \ {p} :
                  call[q].st # "returned" => ~Undermines(call[q].req, result))
<1>1. s \in BOOLEAN /\ call[p] \in CallType
  BY DEF IInv, TypeOK, CallType
<1>2. call'[p] = [call[p] EXCEPT !.st = "completed", !.ret = ret, !.result = result,
                                 !.sound = s]
  BY DEF Complete, IInv, TypeOK
<1>3. \A q \in Process \ {p} : call'[q] = call[q]
  BY DEF Complete, IInv, TypeOK
<1>4. s => call[p].sound /\ (result # 0 => \A q \in Process \ {p} :
              call[q].st # "returned" => ~Undermines(call[q].req, result))
  OBVIOUS
<1> HIDE DEF s
<1>5. call'[p] \in CallType
  BY <1>1, <1>2 DEF CallType
<1>6. call' = [q \in Process |-> call'[q]]
  BY DEF Complete, IInv, TypeOK
<1>7. call' \in [Process -> CallType]
  BY <1>3, <1>5, <1>6 DEF IInv, TypeOK
<1>8. fd' = fd /\ handle' = handle /\ p \in fd
  BY DEF Complete, IInv, TypeOK
<1>9. \A q \in Process : call'[q].st # "returned" => q \in fd'
  BY <1>3, <1>8 DEF IInv, TypeOK
<1> QED BY <1>1, <1>2, <1>3, <1>4, <1>7, <1>8, <1>9 DEF CallType

(* What a completion that leaves the subsystem, and is of a failure or of  *)
(* a command nobody is told lasting things about, keeps.                   *)
LEMMA CompletionKeeps ==
  ASSUME IInv, NEW p \in Process, NEW ret \in Int, NEW result \in Nat,
         call[p].st \in {"inflight", "completed"}, Complete(p, ret, result),
         UNCHANGED <<granted, mine>>
  PROVE  /\ Marshalled'
         /\ \A q \in Process \ {p}, op \in {"attach", "create"} :
              Telling(q, op)' <=> Telling(q, op)
         /\ \A q \in Process \ {p}, n \in Nsid :
              call'[q].st = "inflight" /\ Undermines(call'[q].req, n) =>
                call[q].st = "inflight" /\ Undermines(call[q].req, n)
         /\ ~Telling(p, "create")' => UnderOK'
<1>1. /\ \A q \in Process \ {p} : call'[q] = call[q]
      /\ call'[p].st = "completed" /\ call'[p].req = call[p].req
      /\ call'[p].cmd = call[p].cmd /\ (call'[p].sound => call[p].sound)
  BY Completion
<1>2. Marshalled'
  BY <1>1 DEF IInv, Marshalled
<1>3. /\ \A q \in Process \ {p}, op \in {"attach", "create"} :
           Telling(q, op)' <=> Telling(q, op)
      /\ \A q \in Process, n \in Nsid :
           call'[q].st = "inflight" /\ Undermines(call'[q].req, n) =>
             q # p /\ call[q].st = "inflight" /\ Undermines(call[q].req, n)
  BY <1>1 DEF Telling
<1>4. ASSUME ~Telling(p, "create")'
      PROVE  UnderOK'
  <2> SUFFICES ASSUME NEW q \in Process, NEW n \in Nsid,
                      call'[q].st = "inflight", Undermines(call'[q].req, n)
               PROVE  /\ granted'[n] = {}
                      /\ \A r \in Process \ {q} :
                           call'[r].st # "returned" /\ call'[r].req.nsid = n => ~call'[r].sound
                      /\ call'[q].req.op = "delete" => \A r \in Process :
                           /\ n \notin mine'[r]
                           /\ r # q /\ Telling(r, "create")' => call'[r].result # n
    BY DEF UnderOK
  <2>1. q # p /\ call'[q] = call[q] /\ call[q].st = "inflight" /\ Undermines(call[q].req, n)
    BY <1>1, <1>3
  <2>2. /\ granted[n] = {}
        /\ \A r \in Process \ {q} :
             call[r].st # "returned" /\ call[r].req.nsid = n => ~call[r].sound
        /\ call[q].req.op = "delete" => \A r \in Process :
             /\ n \notin mine[r]
             /\ r # q /\ Telling(r, "create") => call[r].result # n
    BY <2>1 DEF IInv, UnderOK
  <2>3. \A r \in Process \ {q} :
          call'[r].st # "returned" /\ call'[r].req.nsid = n => ~call'[r].sound
    BY <1>1, <2>2
  <2>4. call'[q].req.op = "delete" => \A r \in Process :
          n \notin mine'[r] /\ (r # q /\ Telling(r, "create")' => call'[r].result # n)
    BY <1>1, <1>3, <1>4, <2>1, <2>2
  <2> QED BY <2>2, <2>3, <2>4
<1> QED BY <1>2, <1>3, <1>4

(* A completion that is no success leaves the subsystem consistent with    *)
(* what others were told.                                                  *)
LEMMA FailureStep ==
  ASSUME IInv, NEW p \in Process, NEW ret \in Int \ {0}, NEW result \in Nat,
         call[p].st \in {"inflight", "completed"}, Complete(p, ret, result),
         UNCHANGED <<ns, attached, made, asked, granted, mine, orphan>>
  PROVE  IInv'
<1>1. /\ call' \in [Process -> CallType] /\ UNCHANGED <<fd, handle>>
      /\ \A q \in Process \ {p} : call'[q] = call[q]
      /\ call'[p].st = "completed" /\ call'[p].ret = ret /\ call'[p].req = call[p].req
      /\ \A q \in Process : call'[q].st # "returned" => q \in fd'
  BY Completion
<1>2. \A op : ~Telling(p, op)'
  BY <1>1 DEF Telling
<1>3. /\ Marshalled' /\ UnderOK'
      /\ \A q \in Process \ {p}, op \in {"attach", "create"} : Telling(q, op)' <=> Telling(q, op)
  BY <1>2, CompletionKeeps
<1>4. TypeOK' /\ Lasting'
  BY <1>1 DEF IInv, TypeOK, Lasting, OnlyAsked, AttachLasts, CreatedIsOwn
<1>5. AskedOK'
  BY <1>1 DEF IInv, AskedOK
<1>6. GrantOK'
  BY <1>1, <1>2, <1>3 DEF IInv, GrantOK
<1>7. CreateOK'
  BY <1>1, <1>2, <1>3 DEF IInv, CreateOK
<1> QED BY <1>3, <1>4, <1>5, <1>6, <1>7 DEF IInv

LEMMA ServeCreateStep ==
  ASSUME IInv, NEW p \in Process, ServeCreate(p)
  PROVE  IInv'
<1>1. call[p].st = "inflight" /\ call[p].req.op = "create" /\ call[p].req \in Request
  BY DEF ServeCreate, Serving, IInv, Marshalled
<1>2. CASE Complete(p, NoRoom, 0) /\ UNCHANGED <<subsystem, history>>
  <2>1. NoRoom \in Int \ {0}
    BY DEF NoRoom
  <2> QED BY <1>1, <1>2, <2>1, FailureStep DEF subsystem, history
<1>3. ASSUME NEW n \in Nsid, ns[n] = 0, ns' = [ns EXCEPT ![n] = made + 1],
             Complete(p, Success, n), made < MaxMade, made' = made + 1,
             UNCHANGED <<attached, history>>
      PROVE  IInv'
  <2>1. n \in Nat \ {0} /\ Success \in Int /\ Success = 0 /\ made \in Nat /\ MaxMade \in Nat
    BY NamespaceMgmtAssumption DEF Success, IInv, TypeOK
  <2>2. /\ call' \in [Process -> CallType] /\ UNCHANGED <<fd, handle>>
        /\ \A q \in Process \ {p} : call'[q] = call[q]
        /\ call'[p].st = "completed" /\ call'[p].req = call[p].req /\ call'[p].result = n
        /\ call'[p].sound => call[p].sound /\ (n # 0 => \A q \in Process \ {p} :
             call[q].st # "returned" => ~Undermines(call[q].req, n))
        /\ \A q \in Process : call'[q].st # "returned" => q \in fd'
    BY <1>1, <1>3, <2>1, Completion
  <2>3. UNCHANGED <<attached, asked, granted, mine, orphan>>
    BY <1>3 DEF history
  <2>4. TypeOK'
    <3>1. ns' \in [Nsid -> 0 .. made'] /\ made' \in 0 .. MaxMade
      <4>1. ns \in [Nsid -> 0 .. made]
        BY DEF IInv, TypeOK
      <4>2. \A m \in 0 .. made : m \in 0 .. made'
        BY <1>3, <2>1
      <4> QED BY <1>3, <2>1, <4>1, <4>2
    <3> QED BY <2>2, <2>3, <3>1 DEF IInv, TypeOK
  <2>5. \A m \in Nsid : ns[m] # 0 => m # n /\ ns'[m] # 0
    BY <1>3 DEF IInv, TypeOK
  <2>6. ns'[n] # 0
    BY <1>3, <2>1 DEF IInv, TypeOK
  <2>7. Lasting'
    BY <2>3, <2>5 DEF IInv, Lasting, OnlyAsked, AttachLasts, CreatedIsOwn
  <2>8. \A q \in Process : n \notin mine[q]
    BY <1>3 DEF IInv, Lasting, CreatedIsOwn
  <2>9. /\ Marshalled'
        /\ \A q \in Process \ {p}, op \in {"attach", "create"} :
             Telling(q, op)' <=> Telling(q, op)
    BY <1>1, <1>3, <2>1, <2>3, CompletionKeeps
  <2>10. AskedOK'
    BY <2>2, <2>3 DEF IInv, AskedOK
  <2>11. GrantOK'
    BY <1>1, <2>2, <2>3, <2>9 DEF IInv, GrantOK, Telling
  <2>12. CreateOK'
    <3> SUFFICES ASSUME NEW q \in Process, Telling(q, "create")'
                 PROVE  /\ call'[q].result \in Nsid /\ ns'[call'[q].result] # 0
                        /\ \A r \in Process : call'[q].result \notin mine'[r]
                        /\ \A r \in Process \ {q} :
                             Telling(r, "create")' => call'[r].result # call'[q].result
      BY DEF CreateOK
    <3>1. \A r \in Process \ {p} : Telling(r, "create")' =>
            /\ call[r].result \in Nsid /\ ns[call[r].result] # 0
            /\ call'[r].result = call[r].result /\ call[r].result # n
            /\ \A x \in Process : call[r].result \notin mine[x]
            /\ \A x \in Process \ {r, p} :
                 Telling(x, "create")' => call'[x].result # call[r].result
      BY <2>2, <2>5, <2>9 DEF IInv, CreateOK
    <3>2. CASE q = p
      BY <2>2, <2>3, <2>6, <2>8, <3>1, <3>2
    <3>3. CASE q # p
      BY <2>2, <2>3, <2>5, <3>1, <3>3
    <3> QED BY <3>2, <3>3
  <2>13. UnderOK'
    <3> SUFFICES ASSUME NEW q \in Process, NEW m \in Nsid,
                        call'[q].st = "inflight", Undermines(call'[q].req, m)
                 PROVE  /\ granted'[m] = {}
                        /\ \A r \in Process \ {q} :
                             call'[r].st # "returned" /\ call'[r].req.nsid = m => ~call'[r].sound
                        /\ call'[q].req.op = "delete" => \A r \in Process :
                             /\ m \notin mine'[r]
                             /\ r # q /\ Telling(r, "create")' => call'[r].result # m
      BY DEF UnderOK
    <3>1. q # p /\ call'[q] = call[q] /\ call[q].st = "inflight" /\ Undermines(call[q].req, m)
      BY <2>2
    <3>2. /\ granted[m] = {}
          /\ \A r \in Process \ {q} :
               call[r].st # "returned" /\ call[r].req.nsid = m => ~call[r].sound
          /\ call[q].req.op = "delete" => \A r \in Process :
               /\ m \notin mine[r]
               /\ r # q /\ Telling(r, "create") => call[r].result # m
      BY <3>1 DEF IInv, UnderOK
    <3>3. \A r \in Process \ {q} :
            call'[r].st # "returned" /\ call'[r].req.nsid = m => ~call'[r].sound
      BY <1>1, <2>2, <3>2
    <3>4. Telling(p, "create")' => n # m
      BY <2>1, <2>2, <3>1 DEF Telling
    <3>5. call'[q].req.op = "delete" => \A r \in Process :
            m \notin mine'[r] /\ (r # q /\ Telling(r, "create")' => call'[r].result # m)
      BY <2>2, <2>3, <2>9, <3>1, <3>2, <3>4
    <3> QED BY <2>3, <3>2, <3>3, <3>5
  <2> QED BY <2>4, <2>7, <2>9, <2>10, <2>11, <2>12, <2>13 DEF IInv
<1> QED BY <1>2, <1>3 DEF ServeCreate

LEMMA ServeDeleteStep ==
  ASSUME IInv, NEW p \in Process, ServeDelete(p)
  PROVE  IInv'
<1> DEFINE n == call[p].cmd.nsid
<1>1. /\ call[p].st = "inflight" /\ call[p].req.op = "delete" /\ call[p].req \in Request
      /\ n = call[p].req.nsid
  BY DEF ServeDelete, Serving, IInv, Marshalled
<1> HIDE DEF n
<1>2. CASE Complete(p, InvalidNs, 0) /\ UNCHANGED <<subsystem, history>>
  <2>1. InvalidNs \in Int \ {0}
    BY DEF InvalidNs
  <2> QED BY <1>1, <1>2, <2>1, FailureStep DEF subsystem, history
<1>3. ASSUME Exists(n), ns' = [ns EXCEPT ![n] = 0], attached' = [attached EXCEPT ![n] = {}],
             asked' = [asked EXCEPT ![n] = Pending(n)], Complete(p, Success, 0),
             orphan' = orphan \cup { q \in Process : handle[q].nsid = n /\ handle[q].fd = 0 },
             UNCHANGED <<made, granted, mine>>
      PROVE  IInv'
  <2>1. n \in Nsid /\ Success \in Int /\ Undermines(call[p].req, n)
    BY <1>1, <1>3 DEF Exists, Success, Undermines
  <2>2. /\ call' \in [Process -> CallType] /\ UNCHANGED <<fd, handle>>
        /\ \A q \in Process \ {p} : call'[q] = call[q]
        /\ call'[p].st = "completed" /\ call'[p].req = call[p].req
        /\ \A q \in Process : call'[q].st # "returned" => q \in fd'
    BY <1>1, <1>3, <2>1, Completion
  <2>3. \A op \in {"attach", "create"} : ~Telling(p, op)'
    BY <1>1, <2>2 DEF Telling
  <2>4. /\ Marshalled' /\ UnderOK'
        /\ \A q \in Process \ {p}, op \in {"attach", "create"} :
             Telling(q, op)' <=> Telling(q, op)
    BY <1>1, <1>3, <2>1, <2>3, CompletionKeeps
  <2>5. /\ granted[n] = {}
        /\ \A r \in Process \ {p} :
             call[r].st # "returned" /\ call[r].req.nsid = n => ~call[r].sound
        /\ \A r \in Process :
             n \notin mine[r] /\ (r # p /\ Telling(r, "create") => call[r].result # n)
    BY <1>1, <2>1 DEF IInv, UnderOK
  <2>6. Pending(n) \in SUBSET Cntlid
    BY NamedType DEF Pending, IInv, Marshalled
  <2>7. TypeOK'
    <3>1. /\ ns' \in [Nsid -> 0 .. made'] /\ attached' \in [Nsid -> SUBSET Cntlid]
          /\ asked' \in [Nsid -> SUBSET Cntlid]
      BY <1>3, <2>1, <2>6 DEF IInv, TypeOK
    <3> QED BY <1>3, <2>2, <3>1 DEF IInv, TypeOK
  <2>8. OnlyAsked' /\ AttachLasts' /\ CreatedIsOwn'
    BY <1>3, <2>1, <2>5 DEF IInv, TypeOK, Lasting, OnlyAsked, AttachLasts, CreatedIsOwn
  <2>9. AskedOK'
    <3> SUFFICES ASSUME NEW q \in Process, call'[q].st = "inflight",
                        call'[q].req.op = "attach", call'[q].req.nsid \in Nsid
                 PROVE  Named(call'[q].req.ids) \subseteq asked'[call'[q].req.nsid]
      BY DEF AskedOK
    <3>1. q # p /\ call'[q] = call[q]
      BY <2>2
    <3>2. CASE call[q].req.nsid = n
      <4>1. Named(call[q].req.ids) \subseteq Pending(n)
        BY <3>1, <3>2 DEF Pending
      <4> QED BY <1>3, <2>1, <3>1, <3>2, <4>1 DEF IInv, TypeOK
    <3>3. CASE call[q].req.nsid # n
      BY <1>3, <2>1, <3>1, <3>3 DEF IInv, TypeOK, AskedOK
    <3> QED BY <3>2, <3>3
  <2>10. GrantOK'
    <3> SUFFICES ASSUME NEW q \in Process, Telling(q, "attach")', call'[q].req.nsid \in Nsid
                 PROVE  Named(call'[q].req.ids) \subseteq attached'[call'[q].req.nsid]
      BY DEF GrantOK
    <3>1. q # p /\ call'[q] = call[q] /\ Telling(q, "attach")
      BY <2>2, <2>3, <2>4
    <3>2. call[q].req.nsid # n
      BY <2>5, <3>1 DEF Telling
    <3> QED BY <1>3, <2>1, <3>1, <3>2 DEF IInv, TypeOK, GrantOK
  <2>11. CreateOK'
    <3>1. \A q \in Process : Telling(q, "create")' =>
            q # p /\ call'[q] = call[q] /\ Telling(q, "create") /\ call[q].result # n
      BY <2>2, <2>3, <2>4, <2>5
    <3>2. \A m \in Nsid \ {n} : ns'[m] = ns[m]
      BY <1>3 DEF IInv, TypeOK
    <3> QED BY <1>3, <3>1, <3>2 DEF IInv, CreateOK
  <2> QED BY <2>4, <2>7, <2>8, <2>9, <2>10, <2>11 DEF IInv, Lasting
<1> QED BY <1>2, <1>3 DEF ServeDelete, n

LEMMA ServeAttachStep ==
  ASSUME IInv, NEW p \in Process, ServeAttach(p)
  PROVE  IInv'
<1> DEFINE n == call[p].cmd.nsid
           C == Listed(call[p].cmd.list)
           sel == call[p].cmd.sel
<1>1. /\ call[p].st = "inflight" /\ call[p].req.op = sel /\ call[p].req \in Request
      /\ n = call[p].req.nsid /\ sel \in {"attach", "detach"} /\ C = Named(call[p].req.ids)
  <2>1. call[p].st = "inflight" /\ sel \in {"attach", "detach"}
    BY DEF ServeAttach, Serving
  <2> QED BY <2>1 DEF IInv, Marshalled
<1>2. UNCHANGED <<ns, made, asked, granted, mine, orphan>>
  BY DEF ServeAttach, history
<1>3. CASE ~Exists(n) /\ Complete(p, InvalidNs, 0) /\ UNCHANGED attached
  <2>1. InvalidNs \in Int \ {0}
    BY DEF InvalidNs
  <2> QED BY <1>1, <1>2, <1>3, <2>1, FailureStep
<1>4. CASE Exists(n) /\ ~(~Exists(n) /\ Complete(p, InvalidNs, 0) /\ UNCHANGED attached)
  <2>1. PICK ret \in Int, S \in SUBSET C :
          /\ Complete(p, ret, 0)
          /\ attached' = IF sel = "attach" THEN [attached EXCEPT ![n] = @ \cup S]
                                           ELSE [attached EXCEPT ![n] = @ \ S]
          /\ sel = "attach" /\ ret = 0 => S = C
    <3>1. Success \in Int /\ AlreadyAttached \in Int \ {0} /\ NotAttached \in Int \ {0}
      BY DEF Success, AlreadyAttached, NotAttached
    <3>2. CASE /\ sel = "attach" /\ attached' = [attached EXCEPT ![n] = @ \cup C]
               /\ Complete(p, Success, 0)
      BY <3>1, <3>2
    <3>3. CASE /\ sel = "detach" /\ attached' = [attached EXCEPT ![n] = @ \ C]
               /\ Complete(p, Success, 0)
      BY <3>1, <3>3
    <3>4. CASE /\ sel = "attach" /\ Complete(p, AlreadyAttached, 0)
               /\ \E S \in SUBSET C : attached' = [attached EXCEPT ![n] = @ \cup S]
      BY <3>1, <3>4
    <3>5. CASE /\ sel = "detach" /\ Complete(p, NotAttached, 0)
               /\ \E S \in SUBSET C : attached' = [attached EXCEPT ![n] = @ \ S]
      BY <3>1, <3>5
    <3> QED BY <1>4, <3>2, <3>3, <3>4, <3>5 DEF ServeAttach
  <2> HIDE DEF n, C, sel
  <2>2. n \in Nsid /\ C \in SUBSET Cntlid
    BY <1>1, <1>4, NamedType DEF Exists
  <2>3. /\ call' \in [Process -> CallType] /\ UNCHANGED <<fd, handle>>
        /\ \A q \in Process \ {p} : call'[q] = call[q]
        /\ call'[p].st = "completed" /\ call'[p].req = call[p].req /\ call'[p].ret = ret
        /\ \A q \in Process : call'[q].st # "returned" => q \in fd'
    BY <1>1, <2>1, Completion
  <2>4. ~Telling(p, "create")'
    BY <1>1, <2>3 DEF Telling
  <2>5. /\ Marshalled' /\ UnderOK'
        /\ \A q \in Process \ {p}, op \in {"attach", "create"} :
             Telling(q, op)' <=> Telling(q, op)
    BY <1>1, <1>2, <2>1, <2>4, CompletionKeeps
  <2>6. /\ attached' \in [Nsid -> SUBSET Cntlid]
        /\ \A m \in Nsid \ {n} : attached'[m] = attached[m]
        /\ sel = "attach" => attached'[n] = attached[n] \cup S
        /\ sel = "detach" => attached'[n] \subseteq attached[n]
    BY <1>1, <2>1, <2>2 DEF IInv, TypeOK
  <2>7. sel = "detach" =>
          /\ granted[n] = {}
          /\ \A r \in Process \ {p} :
               call[r].st # "returned" /\ call[r].req.nsid = n => ~call[r].sound
    BY <1>1, <2>2 DEF IInv, UnderOK, Undermines
  <2>8. sel = "attach" => C \subseteq asked[n]
    BY <1>1, <2>2 DEF IInv, AskedOK
  <2>9. TypeOK'
    BY <1>2, <2>3, <2>6 DEF IInv, TypeOK
  <2>10. OnlyAsked'
    <3> SUFFICES ASSUME NEW m \in Nsid PROVE attached'[m] \subseteq asked[m]
      BY <1>2 DEF OnlyAsked
    <3> QED BY <1>1, <2>1, <2>6, <2>8 DEF IInv, Lasting, OnlyAsked
  <2>11. AttachLasts'
    <3> SUFFICES ASSUME NEW m \in Nsid PROVE granted[m] \subseteq attached'[m]
      BY <1>2 DEF AttachLasts
    <3> QED BY <1>1, <2>6, <2>7 DEF IInv, Lasting, AttachLasts
  <2>12. CreatedIsOwn'
    BY <1>2 DEF IInv, Lasting, CreatedIsOwn
  <2>13. AskedOK'
    BY <1>2, <2>3 DEF IInv, AskedOK
  <2>14. GrantOK'
    <3> SUFFICES ASSUME NEW q \in Process, Telling(q, "attach")', call'[q].req.nsid \in Nsid
                 PROVE  Named(call'[q].req.ids) \subseteq attached'[call'[q].req.nsid]
      BY DEF GrantOK
    <3>1. CASE q = p
      <4>1. sel = "attach" /\ ret = 0
        BY <1>1, <2>3, <3>1 DEF Telling
      <4> QED BY <1>1, <2>1, <2>3, <2>6, <3>1, <4>1
    <3>2. CASE q # p
      <4>1. call'[q] = call[q] /\ Telling(q, "attach")
        BY <2>3, <2>5, <3>2
      <4>2. Named(call[q].req.ids) \subseteq attached[call[q].req.nsid]
        BY <4>1 DEF IInv, GrantOK
      <4>3. sel = "detach" => call[q].req.nsid # n
        BY <2>7, <3>2, <4>1 DEF Telling
      <4> QED BY <1>1, <2>6, <4>1, <4>2, <4>3
    <3> QED BY <3>1, <3>2
  <2>15. CreateOK'
    BY <1>2, <2>3, <2>4, <2>5 DEF IInv, CreateOK
  <2> QED BY <2>5, <2>9, <2>10, <2>11, <2>12, <2>13, <2>14, <2>15 DEF IInv, Lasting
<1> QED BY <1>3, <1>4 DEF ServeAttach

LEMMA TimeoutStep ==
  ASSUME IInv, NEW p \in Process, Timeout(p)
  PROVE  IInv'
<1>1. call[p].result \in Nat /\ -1 \in Int \ {0}
  BY DEF IInv, TypeOK, CallType
<1> QED BY <1>1, FailureStep DEF Timeout, subsystem, history

----------------------------------------------------------------------------
(* The theorems.                                                           *)

LEMMA Step == IInv /\ [Next]_vars => IInv'
<1> SUFFICES ASSUME IInv, [Next]_vars PROVE IInv'
  OBVIOUS
<1>1. ASSUME NEW p \in Process, NEW req \in Request, Method(p, req)
      PROVE  IInv'
  BY <1>1, MethodStep
<1>2. ASSUME NEW p \in Process,
             ServeCreate(p) \/ ServeDelete(p) \/ ServeAttach(p) \/ Timeout(p) \/ Return(p)
      PROVE  IInv'
  BY <1>2, ServeCreateStep, ServeDeleteStep, ServeAttachStep, TimeoutStep, ReturnStep
<1>3. ASSUME NEW p \in User, Command(p) \/ \E n \in Nsid : Scan(p, n)
      PROVE  IInv'
  BY <1>3, HandleSteps, NamespaceMgmtAssumption
<1>4. CASE UNCHANGED vars
  <2>1. UNCHANGED <<ns, attached, made, fd, call, handle, asked, granted, mine, orphan>>
    BY <1>4 DEF vars, subsystem, history
  <2>2. TypeOK' /\ Lasting' /\ Marshalled' /\ AskedOK'
    BY <2>1
    DEF IInv, TypeOK, Lasting, OnlyAsked, AttachLasts, CreatedIsOwn, Marshalled, AskedOK
  <2>3. GrantOK' /\ CreateOK' /\ UnderOK'
    BY <2>1 DEF IInv, GrantOK, CreateOK, UnderOK, Telling
  <2> QED BY <2>2, <2>3 DEF IInv
<1> QED BY <1>1, <1>2, <1>3, <1>4 DEF Next

THEOREM Inductive == Spec => []IInv
BY Initial, Step, PTL DEF Spec

(* The variables keep their types, and a list announces no more entries    *)
(* than it has (controller.rs: ns_attach_op).                              *)
THEOREM TypeCorrect == Spec => []TypeOK
BY Inductive, PTL DEF IInv

(* No controller gets attached that no attach named.                       *)
THEOREM OnlyAskedAttached == Spec => []OnlyAsked
BY Inductive, PTL DEF IInv, Lasting

(* What an attach reported done lasts until somebody undoes it.            *)
THEOREM AttachesLast == Spec => []AttachLasts
BY Inductive, PTL DEF IInv, Lasting

(* An identifier that create returned is of a namespace that exists and    *)
(* that no other create was given.                                         *)
THEOREM CreatesAreOwn == Spec => []CreatedIsOwn
BY Inductive, PTL DEF IInv, Lasting

(* A handle that is no orphan has its namespace behind its descriptor, or  *)
(* behind its identifier while it has none.                                *)
HandleOK ==
  \A p \in Process :
    LET h == handle[p] IN
    /\ h.nsid # 0 => h.of # 0
    /\ h.did \in {0, h.fd}
    /\ p \notin orphan /\ h.fd # 0 => h.fd = h.of
    /\ p \notin orphan /\ h.fd = 0 /\ h.nsid # 0 => ns[h.nsid] = h.of

(* No method of Controller touches a Namespace handle.                     *)
LEMMA HandlesUntouched ==
  ASSUME NEW p \in Process,
         (\E req \in Request : Method(p, req)) \/ ServeAttach(p) \/ Timeout(p) \/ Return(p)
  PROVE  UNCHANGED <<ns, handle, orphan>>
<1>1. ASSUME NEW req, NEW reply, ReturnEarly(p, req, reply) PROVE UNCHANGED <<ns, handle, orphan>>
  BY <1>1 DEF ReturnEarly, subsystem, history
<1>2. ASSUME NEW req, NEW cmd, Issue(p, req, cmd) PROVE UNCHANGED <<ns, handle, orphan>>
  BY <1>1, <1>2 DEF Issue, subsystem
<1>3. ASSUME NEW req \in Request, Method(p, req) PROVE UNCHANGED <<ns, handle, orphan>>
  <2>1. CASE create_namespace(p, req)
    BY <1>2, <2>1 DEF create_namespace
  <2>2. CASE delete_namespace(p, req)
    BY <1>2, <2>2 DEF delete_namespace
  <2>3. CASE ns_attach_op(p, req)
    BY <1>1, <1>2, <2>3 DEF ns_attach_op
  <2> QED BY <1>3, <2>1, <2>2, <2>3 DEF Method
<1>4. CASE ServeAttach(p)
  <2>1. \E ret : Complete(p, ret, 0)
    BY <1>4 DEF ServeAttach
  <2> QED BY <1>4, <2>1 DEF ServeAttach, Complete, history
<1>5. CASE Timeout(p) \/ Return(p)
  BY <1>5 DEF Timeout, Return, Complete, subsystem, history
<1> QED BY <1>3, <1>4, <1>5

LEMMA HandleOKStep == IInv /\ HandleOK /\ [Next]_vars => HandleOK'
<1> SUFFICES ASSUME IInv, HandleOK, [Next]_vars PROVE HandleOK'
  OBVIOUS
<1>0. /\ handle \in [Process -> HandleType] /\ ns \in [Nsid -> Nat] /\ 0 \notin Nsid
      /\ User \subseteq Process
  BY NamespaceMgmtAssumption DEF IInv, TypeOK, HandleType
<1>1. CASE UNCHANGED <<ns, handle, orphan>>
  BY <1>1 DEF HandleOK
<1>2. ASSUME NEW p \in Process, ServeCreate(p) PROVE HandleOK'
  <2>1. CASE UNCHANGED <<ns, handle, orphan>>
    BY <1>1, <2>1
  <2>2. CASE ~UNCHANGED <<ns, handle, orphan>>
    <3>1. UNCHANGED <<handle, orphan>>
      BY <1>2 DEF ServeCreate, Complete, history
    <3>2. PICK n \in Nsid : ns[n] = 0 /\ ns' = [ns EXCEPT ![n] = made + 1]
      BY <1>2, <2>2, <3>1 DEF ServeCreate, subsystem
    <3>3. \A m \in Nsid : ns[m] # 0 => ns'[m] = ns[m]
      BY <1>0, <3>2
    <3> QED BY <1>0, <3>1, <3>3 DEF HandleOK, HandleType
  <2> QED BY <2>1, <2>2
<1>3. ASSUME NEW p \in Process, ServeDelete(p) PROVE HandleOK'
  <2> DEFINE n == call[p].cmd.nsid
  <2>1. CASE UNCHANGED <<subsystem, history>>
    BY <1>1, <1>3, <2>1 DEF ServeDelete, Complete, subsystem, history
  <2>2. CASE ~UNCHANGED <<subsystem, history>>
    <3>1. /\ ns' = [ns EXCEPT ![n] = 0] /\ handle' = handle
          /\ orphan' = orphan \cup { q \in Process : handle[q].nsid = n /\ handle[q].fd = 0 }
      BY <1>3, <2>2 DEF ServeDelete, Complete
    <3> HIDE DEF n
    <3>2. \A m \in Nsid : m # n => ns'[m] = ns[m]
      BY <1>0, <3>1
    <3> QED BY <1>0, <3>1, <3>2 DEF HandleOK, HandleType
  <2> QED BY <2>1, <2>2
<1>4. ASSUME NEW p \in User, NEW n \in Nsid, Scan(p, n) PROVE HandleOK'
  <2>1. /\ handle' = [handle EXCEPT ![p] = [nsid |-> n, of |-> ns[n], fd |-> 0, did |-> 0]]
        /\ ns' = ns /\ ns[n] # 0 /\ orphan' = orphan \ {p}
    BY <1>4 DEF Scan, subsystem
  <2> QED BY <1>0, <2>1 DEF HandleOK
<1>5. ASSUME NEW p \in User, Command(p) PROVE HandleOK'
  <2> DEFINE h   == handle[p]
             dev == ns_fd(h)
  <2>1. /\ handle' = [handle EXCEPT ![p].fd = dev, ![p].did = IF ns[h.nsid] = dev THEN dev ELSE 0]
        /\ ns' = ns /\ orphan' = orphan /\ h.nsid # 0 /\ dev # 0
    BY <1>5 DEF Command, subsystem, history
  <2>2. dev = IF h.fd # 0 THEN h.fd ELSE ns[h.nsid]
    BY DEF ns_fd
  <2> HIDE DEF dev
  <2>3. /\ handle'[p].nsid = h.nsid /\ handle'[p].of = h.of /\ handle'[p].fd = dev
        /\ handle'[p].did \in {0, dev}
        /\ \A q \in Process \ {p} : handle'[q] = handle[q]
    BY <1>0, <2>1 DEF HandleType
  <2>4. p \notin orphan => dev = h.of
    BY <1>0, <2>1, <2>2 DEF HandleOK
  <2> QED BY <1>0, <2>1, <2>3, <2>4 DEF HandleOK
<1>6. CASE UNCHANGED vars
  BY <1>1, <1>6 DEF vars, subsystem, history
<1> QED BY <1>0, <1>1, <1>2, <1>3, <1>4, <1>5, <1>6, HandlesUntouched DEF Next

(* Whatever others create and delete, a Namespace handle reaches the       *)
(* namespace it was scanned for or fails, unless that was deleted before   *)
(* the handle was first used (io.rs: ns_fd).                               *)
THEOREM HandlesKeepTheirs == Spec => []HandleKeepsNamespace
<1>1. Init => HandleOK
  BY DEF Init, HandleOK, NoHandle
<1>2. IInv /\ HandleOK => HandleKeepsNamespace
  BY DEF HandleOK, HandleKeepsNamespace
<1> QED BY <1>1, <1>2, Inductive, HandleOKStep, PTL DEF Spec
=============================================================================
