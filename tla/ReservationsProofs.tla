------------------------- MODULE ReservationsProofs -------------------------
(***************************************************************************)
(* For every finite number of hosts, any keys and every set of calls: what *)
(* a host was told it has, it has until it is deposed, and a report shows  *)
(* the registrants of one moment.                                          *)
(***************************************************************************)
EXTENDS Reservations, FiniteSetTheorems, TLAPS

CmdType ==
  [opc : {"none", "acquire", "register", "release", "report"}, act : Nat,
   crkey : Key \cup {NoKey}, nrkey : Key \cup {NoKey}, rtype : 0 .. 6, iekey : BOOLEAN,
   cptpl : Nat, eds : BOOLEAN, len : Nat]

CallType ==
  [st : {"returned", "inflight", "completed"}, req : RequestType \cup {Idle.req},
   cmd : CmdType, ret : Int,
   data : [count : Int, shows : SUBSET (Host \X (Key \cup {NoKey}))],
   sound : BOOLEAN, reply : Reply]

(* The namespace: whoever holds the reservation is registered.             *)
DeviceOK ==
  /\ reg \in [Host -> Key \cup {NoKey}]
  /\ holder \in Host \cup {NoHost} /\ rtype \in 0 .. 6
  /\ (rtype = 0) <=> (holder = NoHost)
  /\ rtype # 0 => \E h \in Host : reg[h] # NoKey /\ Holds(h)
  /\ ptpl \in BOOLEAN /\ persist = ptpl

Shape == call \in [Host -> CallType]

(* The command on the wire is what the host asked for.                     *)
ArgsOf(req, cmd) ==
  /\ req \in RequestType /\ req.action \in Actions[req.op] /\ cmd.opc = req.op
  /\ req.op = "acquire" => /\ cmd.rtype = as_raw(req.rtype)
                           /\ cmd.act = Acquire_action_raw(req.action)
  /\ req.op = "register" => /\ cmd.nrkey = req.nrkey
                            /\ cmd.act = Register_action_raw(req.action)
                            /\ cmd.cptpl = Ptpl_raw(req.cptpl)
  /\ req.op = "release" => cmd.act = Release_action_raw(req.action)
  /\ req.op = "report" => /\ cmd.len = req.len % U32 /\ cmd.eds = req.eds
                          /\ report_checks(req)

Marshalled ==
  \A h \in Host : call[h].st # "returned" => ArgsOf(call[h].req, call[h].cmd)

(* A report is one of those asked for, or has the buffer of the Vec form.  *)
Asked ==
  \A h \in Host : call[h].req.op = "report" =>
    \E r \in Request : call[h].req.len \in {r.len, VecLen}

(* While a host changes its key or the reservation, it claims neither.     *)
SilentOK ==
  \A h \in Host : call[h].st # "returned" /\ call[h].req.op # "report" =>
    /\ claim[h].type = None
    /\ call[h].req.op = "register" \/ call[h].req.action = "Clear" => claim[h].key = None

(* h is about to be told of a success that it was not deposed from.        *)
Telling(h, op) ==
  call[h].st = "completed" /\ call[h].ret = 0 /\ call[h].sound /\ call[h].req.op = op

HoldOK ==
  \A h \in Host : Telling(h, "acquire") /\ call[h].req.action = "Acquire" =>
    Holds(h) /\ TypeName[rtype] = call[h].req.rtype

KeyOK ==
  \A h \in Host : Telling(h, "register") /\ call[h].req.action # "Unregister" =>
    reg[h] = call[h].req.nrkey

(* What the answer of a report has to be, for a buffer of len bytes.       *)
Truthful(data, room, S) ==
  \E r \in S :
    /\ data.count = Cardinality(Registrants(r))
    /\ \A e \in data.shows : r[e[1]] = e[2] /\ e[2] # NoKey
    /\ data.count <= room => Cardinality(data.shows) = data.count
    /\ data.count > room => Cardinality(data.shows) = room

ReportOK ==
  \A h \in Host : call[h].req.op = "report" /\ call[h].req.len < U32 =>
    /\ call[h].st = "inflight" => reg \in views[h]
    /\ \/ call[h].st = "completed" /\ call[h].ret = 0
       \/ call[h].st = "returned" /\ call[h].reply.kind = "Ok"
       => Truthful(call[h].data, Room(call[h].req.len, call[h].req.eds), views[h])

Informed == HolderInformed /\ RegistrantInformed

IInv ==
  /\ TypeOK /\ Shape /\ Marshalled /\ Asked /\ SilentOK /\ HoldOK /\ KeyOK /\ ReportOK
  /\ Informed

----------------------------------------------------------------------------
(* Requests and commands.                                                  *)

LEMMA RequestIs ==
  ASSUME NEW req \in RequestType
  PROVE  /\ req.op \in {"acquire", "register", "release", "report"}
         /\ req.crkey \in Key \cup {NoKey} /\ req.nrkey \in Key \cup {NoKey}
         /\ req.rtype \in Types /\ req.iekey \in BOOLEAN /\ req.eds \in BOOLEAN
         /\ req.cptpl \in {"NoChange", "Clear", "Persist"} /\ req.len \in Int
         /\ Idle.req.op = "none"
BY DEF RequestType, Actions, Idle

LEMMA RawType ==
  ASSUME NEW t \in Types
  PROVE  as_raw(t) \in 1 .. 6 /\ TypeName[as_raw(t)] = t
BY DEF Types, as_raw, TypeName

LEMMA NoCommandType == NoCommand \in CmdType
BY DEF NoCommand, CmdType

LEMMA ActionsAre ==
  /\ Actions["acquire"] = {"Acquire", "Preempt", "PreemptAndAbort"}
  /\ Actions["register"] = {"Register", "Unregister", "Replace"}
  /\ Actions["release"] = {"Release", "Clear"}
  /\ Actions["report"] = {"Report"}
BY DEF Actions

LEMMA AcquireArgs ==
  ASSUME NEW req \in RequestType, req.op = "acquire", req.action \in Actions[req.op]
  PROVE  acquire_args(req) \in CmdType /\ ArgsOf(req, acquire_args(req))
<1>1. Acquire_action_raw(req.action) \in Nat
  BY ActionsAre DEF Acquire_action_raw
<1>2. as_raw(req.rtype) \in 0 .. 6
  BY RequestIs, RawType
<1> DEFINE act == Acquire_action_raw(req.action)
           t == as_raw(req.rtype)
           cmd == acquire_args(req)
<1>3. /\ cmd \in CmdType /\ cmd.opc = "acquire" /\ cmd.act = act /\ cmd.rtype = t
  <2>1. act \in Nat /\ t \in 0 .. 6
    BY <1>1, <1>2
  <2>2. cmd = [NoCommand EXCEPT !.opc = "acquire", !.act = act, !.crkey = req.crkey,
                 !.nrkey = req.nrkey, !.rtype = t, !.iekey = req.iekey]
    BY DEF acquire_args
  <2> HIDE DEF act, t
  <2> QED BY <2>1, RequestIs, NoCommandType DEF CmdType, acquire_args, act, t
<1> QED BY <1>3 DEF ArgsOf

LEMMA RegisterArgs ==
  ASSUME NEW req \in RequestType, req.op = "register", req.action \in Actions[req.op]
  PROVE  register_args(req) \in CmdType /\ ArgsOf(req, register_args(req))
<1>1. Register_action_raw(req.action) \in Nat /\ Ptpl_raw(req.cptpl) \in Nat
  BY ActionsAre, RequestIs DEF Register_action_raw, Ptpl_raw
<1> DEFINE cmd == register_args(req)
<1>2. /\ cmd \in CmdType /\ cmd.opc = "register" /\ cmd.nrkey = req.nrkey
      /\ cmd.act = Register_action_raw(req.action) /\ cmd.cptpl = Ptpl_raw(req.cptpl)
  BY <1>1, RequestIs, NoCommandType DEF CmdType, register_args
<1> QED BY <1>2 DEF ArgsOf

LEMMA ReleaseArgs ==
  ASSUME NEW req \in RequestType, req.op = "release", req.action \in Actions[req.op]
  PROVE  release_args(req) \in CmdType /\ ArgsOf(req, release_args(req))
<1>1. Release_action_raw(req.action) \in Nat /\ as_raw(req.rtype) \in 0 .. 6
  BY ActionsAre, RequestIs, RawType DEF Release_action_raw
<1> DEFINE cmd == release_args(req)
<1>2. /\ cmd \in CmdType /\ cmd.opc = "release"
      /\ cmd.act = Release_action_raw(req.action)
  BY <1>1, RequestIs, NoCommandType DEF CmdType, release_args
<1> QED BY <1>2 DEF ArgsOf

LEMMA ReportArgs ==
  ASSUME NEW req \in RequestType, req.op = "report", req.action \in Actions[req.op],
         report_checks(req)
  PROVE  report_args(req) \in CmdType /\ ArgsOf(req, report_args(req))
<1> DEFINE cmd == report_args(req)
           len == req.len % U32
<1>1. len \in Nat
  BY RequestIs, ReservationsAssumption
<1>2. /\ cmd \in CmdType /\ cmd.opc = "report" /\ cmd.len = len /\ cmd.eds = req.eds
  <2>1. cmd = [NoCommand EXCEPT !.opc = "report", !.len = len, !.eds = req.eds]
    BY DEF report_args
  <2> HIDE DEF len
  <2> QED BY <1>1, RequestIs, NoCommandType DEF CmdType, report_args, len
<1> QED BY <1>2 DEF ArgsOf

LEMMA CheckRet ==
  ASSUME NEW ret \in Int
  PROVE  check_ret(ret) \in Reply /\ (check_ret(ret).kind = "Ok" <=> ret = 0)
BY DEF check_ret, Reply, Errno

LEMMA IdleIs ==
  /\ Idle.st = "returned" /\ Idle.req.op = "none" /\ Idle.ret = 0 /\ Idle.sound = TRUE
  /\ Idle.cmd = NoCommand /\ Idle.data = NoReport /\ Idle.reply = OsError
  /\ Idle = [st |-> "returned", req |-> [op |-> "none"], cmd |-> NoCommand, ret |-> 0,
             data |-> NoReport, sound |-> TRUE, reply |-> OsError]
  /\ Idle.req = [op |-> "none"]
  /\ OsError \in Reply /\ InvalidArgument \in Reply
  /\ OsError.kind # "Ok" /\ InvalidArgument.kind # "Ok"
BY DEF Idle, OsError, InvalidArgument, Reply, Errno

LEMMA NoReportType == NoReport \in [count : Int, shows : SUBSET (Host \X (Key \cup {NoKey}))]
BY DEF NoReport

LEMMA IdleCall == Idle \in CallType
<1> DEFINE r == [op |-> "none"]
<1>1. r \in RequestType \cup {Idle.req}
  BY IdleIs
<1>2. Idle = [st |-> "returned", req |-> r, cmd |-> NoCommand, ret |-> 0,
              data |-> NoReport, sound |-> TRUE, reply |-> OsError]
  BY IdleIs
<1>3. "returned" \in {"returned", "inflight", "completed"} /\ 0 \in Int /\ TRUE \in BOOLEAN
      /\ OsError \in Reply
  BY IdleIs
<1> HIDE DEF r
<1> QED BY <1>1, <1>2, <1>3, NoCommandType, NoReportType DEF CallType

LEMMA TypeIs ==
  TypeOK <=>
    /\ DeviceOK /\ fd \subseteq Host
    /\ claim \in [Host -> [key : Key \cup {NoKey, None}, type : Types \cup {None}]]
    /\ views \in [Host -> SUBSET [Host -> Key \cup {NoKey}]]
    /\ \A h \in Host : call[h].st # "returned" => h \in fd /\ call[h].req \in RequestType
BY DEF TypeOK, DeviceOK

----------------------------------------------------------------------------
(* What Watch does for every step.                                         *)

LEMMA WatchType ==
  ASSUME Watch, views \in [Host -> SUBSET [Host -> Key \cup {NoKey}]],
         reg' \in [Host -> Key \cup {NoKey}]
  PROVE  views' \in [Host -> SUBSET [Host -> Key \cup {NoKey}]]
BY DEF Watch

LEMMA WatchSeen ==
  ASSUME Watch, NEW h \in Host
  PROVE  /\ call'[h].st = "returned" => views'[h] = views[h]
         /\ call'[h].st # "returned" /\ call'[h].req.op = "report" =>
              /\ reg' \in views'[h]
              /\ call[h].st # "returned" => views[h] \subseteq views'[h]
BY DEF Watch

LEMMA TruthfulMore ==
  ASSUME NEW data, NEW room, NEW S, NEW T, S \subseteq T, Truthful(data, room, S)
  PROVE  Truthful(data, room, T)
BY DEF Truthful

(* The reports of a step that serves none.                                 *)
LEMMA ReportStep ==
  ASSUME ReportOK, Watch,
         \A h \in Host : call'[h].req.op = "report" =>
           /\ call'[h].st = "completed" /\ call'[h].ret = 0 =>
                \/ /\ call[h].st = "completed" /\ call[h].ret = 0
                   /\ call'[h].req = call[h].req /\ call'[h].data = call[h].data
                \/ call'[h].req.len < U32 =>
                     Truthful(call'[h].data, Room(call'[h].req.len, call'[h].req.eds), views'[h])
           /\ call'[h].st = "returned" /\ call'[h].reply.kind = "Ok" =>
                /\ \/ call[h].st = "completed" /\ call[h].ret = 0
                   \/ call[h].st = "returned" /\ call[h].reply.kind = "Ok"
                /\ call'[h].req = call[h].req /\ call'[h].data = call[h].data
  PROVE  ReportOK'
<1> SUFFICES ASSUME NEW h \in Host, call'[h].req.op = "report", call'[h].req.len < U32
             PROVE  /\ call'[h].st = "inflight" => reg' \in views'[h]
                    /\ \/ call'[h].st = "completed" /\ call'[h].ret = 0
                       \/ call'[h].st = "returned" /\ call'[h].reply.kind = "Ok"
                       => Truthful(call'[h].data,
                                   Room(call'[h].req.len, call'[h].req.eds), views'[h])
  BY DEF ReportOK
<1>1. call'[h].st = "inflight" => reg' \in views'[h]
  BY WatchSeen
<1>2. ASSUME call'[h].st = "completed", call'[h].ret = 0
      PROVE  Truthful(call'[h].data, Room(call'[h].req.len, call'[h].req.eds), views'[h])
  <2>1. CASE /\ call[h].st = "completed" /\ call[h].ret = 0
             /\ call'[h].req = call[h].req /\ call'[h].data = call[h].data
    <3>1. views[h] \subseteq views'[h]
      BY <1>2, <2>1, WatchSeen
    <3>2. Truthful(call[h].data, Room(call[h].req.len, call[h].req.eds), views[h])
      BY <2>1 DEF ReportOK
    <3> QED BY <2>1, <3>1, <3>2, TruthfulMore
  <2> QED BY <1>2, <2>1
<1>3. ASSUME call'[h].st = "returned", call'[h].reply.kind = "Ok"
      PROVE  Truthful(call'[h].data, Room(call'[h].req.len, call'[h].req.eds), views'[h])
  <2>1. views'[h] = views[h]
    BY <1>3, WatchSeen
  <2>2. Truthful(call[h].data, Room(call[h].req.len, call[h].req.eds), views[h])
    BY <1>3 DEF ReportOK
  <2> QED BY <1>3, <2>1, <2>2
<1> QED BY <1>1, <1>2, <1>3

----------------------------------------------------------------------------
(* The host side.                                                          *)

LEMMA Initial == Init => IInv
<1> SUFFICES ASSUME Init PROVE IInv
  OBVIOUS
<1>1. /\ reg = [h \in Host |-> NoKey] /\ holder = NoHost /\ rtype = 0 /\ ptpl = FALSE /\ persist = FALSE
      /\ fd = {} /\ call = [h \in Host |-> Idle]
      /\ claim = [h \in Host |-> NoClaim] /\ views = [h \in Host |-> {}]
  BY DEF Init
<1>2. TypeOK
  <2>1. DeviceOK
    <3>1. ptpl \in BOOLEAN /\ persist = ptpl /\ reg \in [Host -> Key \cup {NoKey}]
      BY <1>1
    <3>2. rtype \in 0 .. 6 /\ ~(rtype # 0)
      BY <1>1
    <3> QED BY <1>1, <3>1, <3>2, Zenon DEF DeviceOK
  <2>2. NoClaim \in [key : Key \cup {NoKey, None}, type : Types \cup {None}]
    BY DEF NoClaim
  <2> QED BY <1>1, <2>1, <2>2, IdleIs, TypeIs
<1>3. Shape
  BY <1>1, IdleCall DEF Shape
<1>4. \A h \in Host : /\ call[h].st = "returned" /\ call[h].req.op = "none"
                      /\ claim[h].type = None /\ claim[h].key = None
  BY <1>1, IdleIs DEF NoClaim
<1> QED BY <1>2, <1>3, <1>4
    DEF IInv, Marshalled, Asked, SilentOK, HoldOK, KeyOK, ReportOK, Telling,
        Informed, HolderInformed, RegistrantInformed

LEMMA EarlyStep ==
  ASSUME IInv, NEW h \in Host, NEW reply \in {OsError, InvalidArgument},
         call[h].st = "returned", ReturnEarly(h, reply)
  PROVE  IInv'
<1> DEFINE new == [Idle EXCEPT !.reply = reply]
<1>1. /\ call' = [call EXCEPT ![h] = new] /\ Watch
      /\ UNCHANGED <<reg, holder, rtype, ptpl, persist, fd, claim>>
  BY DEF ReturnEarly, device
<1>2. /\ new \in CallType /\ new.st = "returned" /\ new.req.op = "none"
      /\ new.reply.kind # "Ok"
  BY IdleCall, IdleIs DEF CallType
<1> HIDE DEF new
<1>3. /\ call'[h] = new /\ call' \in [Host -> CallType]
      /\ \A g \in Host \ {h} : call'[g] = call[g]
  BY <1>1, <1>2 DEF IInv, Shape
<1>4. TypeOK'
  BY <1>1, <1>2, <1>3, WatchType DEF IInv, TypeOK, Holds
<1>5. Shape' /\ Marshalled' /\ Asked' /\ SilentOK'
  BY <1>1, <1>2, <1>3 DEF IInv, Shape, Marshalled, Asked, SilentOK
<1>6. HoldOK' /\ KeyOK' /\ Informed'
  BY <1>1, <1>2, <1>3
  DEF IInv, HoldOK, KeyOK, Informed, HolderInformed, RegistrantInformed, Telling, Holds
<1>7. ReportOK'
  BY <1>1, <1>2, <1>3, ReportStep DEF IInv, ReportOK
<1> QED BY <1>4, <1>5, <1>6, <1>7 DEF IInv

LEMMA IssueStep ==
  ASSUME IInv, NEW h \in Host, NEW req \in RequestType, NEW cmd \in CmdType,
         call[h].st = "returned", ArgsOf(req, cmd),
         req.op = "report" => \E r \in Request : req.len \in {r.len, VecLen},
         Issue(h, req, cmd)
  PROVE  IInv'
<1>1. CASE ReturnEarly(h, OsError)
  BY <1>1, EarlyStep
<1>2. CASE ~ReturnEarly(h, OsError)
  <2> DEFINE new == [Idle EXCEPT !.st = "inflight", !.req = req, !.cmd = cmd]
             cl == Reconsidered(h, req)
  <2>1. /\ fd' = fd \cup {h} /\ call' = [call EXCEPT ![h] = new] /\ Watch
        /\ claim' = [claim EXCEPT ![h] = cl]
        /\ UNCHANGED <<reg, holder, rtype, ptpl, persist>>
    BY <1>2 DEF Issue, device
  <2>2. /\ new \in CallType /\ new.st = "inflight" /\ new.req = req /\ new.cmd = cmd
        /\ new.ret = 0
    BY IdleCall, IdleIs DEF CallType
  <2>3. /\ cl \in [key : Key \cup {NoKey, None}, type : Types \cup {None}]
        /\ cl.key \in {None, claim[h].key} /\ cl.type \in {None, claim[h].type}
        /\ req.op # "report" => cl.type = None
        /\ req.op = "register" \/ req.action = "Clear" => cl.key = None
    <3>1. claim[h] \in [key : Key \cup {NoKey, None}, type : Types \cup {None}]
      BY DEF IInv, TypeOK
    <3>2. CASE req.op = "register" \/ req.action = "Clear"
      <4>1. cl = NoClaim
        <5>1. req.op # "report"
          BY <3>2, ActionsAre DEF ArgsOf
        <5> QED BY <3>2, <5>1 DEF Reconsidered
      <4> HIDE DEF cl
      <4> QED BY <4>1, <3>1 DEF NoClaim
    <3>3. CASE req.op = "report" /\ req.action # "Clear"
      <4>1. cl = claim[h]
        BY <3>3 DEF Reconsidered
      <4> HIDE DEF cl
      <4> QED BY <4>1, <3>1, <3>3
    <3>4. CASE req.op \notin {"register", "report"} /\ req.action # "Clear"
      <4>1. cl = [claim[h] EXCEPT !.type = None]
        BY <3>4 DEF Reconsidered
      <4> HIDE DEF cl
      <4> QED BY <4>1, <3>1, <3>4
    <3> QED BY <3>2, <3>3, <3>4
  <2> HIDE DEF new, cl
  <2>4. /\ call'[h] = new /\ call' \in [Host -> CallType]
        /\ \A g \in Host \ {h} : call'[g] = call[g] /\ claim'[g] = claim[g]
        /\ claim'[h] = cl
    BY <2>1, <2>2 DEF IInv, Shape, TypeOK
  <2>5. TypeOK'
    <3>1. DeviceOK'
      BY <2>1, TypeIs DEF IInv, DeviceOK, Holds
    <3>2. claim' \in [Host -> [key : Key \cup {NoKey, None}, type : Types \cup {None}]]
      BY <2>1, <2>3 DEF IInv, TypeOK
    <3> QED BY <2>1, <2>2, <2>4, <3>1, <3>2, WatchType DEF IInv, TypeOK, DeviceOK
  <2>6. Shape' /\ Marshalled' /\ Asked'
    BY <2>2, <2>4 DEF IInv, Shape, Marshalled, Asked
  <2>7. SilentOK'
    BY <2>2, <2>3, <2>4 DEF IInv, SilentOK
  <2>8. HoldOK' /\ KeyOK'
    BY <2>1, <2>2, <2>4 DEF IInv, HoldOK, KeyOK, Telling, Holds
  <2>9. Informed'
    BY <2>1, <2>3, <2>4 DEF IInv, Informed, HolderInformed, RegistrantInformed, Holds
  <2>10. ReportOK'
    BY <2>1, <2>2, <2>4, ReportStep DEF IInv, ReportOK
  <2> QED BY <2>5, <2>6, <2>7, <2>8, <2>9, <2>10 DEF IInv
<1> QED BY <1>1, <1>2

LEMMA ExecuteStep ==
  ASSUME IInv, NEW h \in Host, NEW req \in Request, Execute(h, req)
  PROVE  IInv'
<1>1. req \in RequestType /\ req.action \in Actions[req.op]
  BY ReservationsAssumption
<1>2. CASE Acquire(h, req)
  BY <1>1, <1>2, AcquireArgs, IssueStep DEF Acquire
<1>3. CASE Register(h, req)
  BY <1>1, <1>3, RegisterArgs, IssueStep DEF Register
<1>4. CASE Release(h, req)
  BY <1>1, <1>4, ReleaseArgs, IssueStep DEF Release
<1>5. ASSUME NEW q \in RequestType, q.action \in Actions[q.op], Report(h, q),
             \E r \in Request : q.len \in {r.len, VecLen}
      PROVE  IInv'
  BY <1>5, ReportArgs, IssueStep, EarlyStep DEF Report
<1>6. CASE Report(h, req)
  BY <1>1, <1>5, <1>6
<1>7. CASE execute_to_vec(h, req)
  <2> DEFINE q == [req EXCEPT !.len = VecLen]
  <2>1. q \in RequestType /\ q.action = req.action /\ q.op = req.op /\ q.len = VecLen
    BY <1>1, ReservationsAssumption DEF RequestType
  <2>2. Report(h, q)
    BY <1>7 DEF execute_to_vec
  <2> HIDE DEF q
  <2> QED BY <1>1, <1>5, <2>1, <2>2
<1> QED BY <1>2, <1>3, <1>4, <1>6, <1>7 DEF Execute

----------------------------------------------------------------------------
(* The namespace.                                                          *)

LEMMA DeposeIs ==
  ASSUME TypeOK, NEW S \in SUBSET Host, Depose(S)
  PROVE  /\ claim' \in [Host -> [key : Key \cup {NoKey, None}, type : Types \cup {None}]]
         /\ \A g \in Host : /\ claim'[g].key \in {None, claim[g].key}
                            /\ claim'[g].type \in {None, claim[g].type}
         /\ \A g \in S : /\ claim'[g].key # None => ~LosesKey(g)
                         /\ claim'[g].type # None => ~LosesHold(g)
<1> DEFINE key(g) == IF g \in S /\ LosesKey(g) THEN None ELSE claim[g].key
           type(g) == IF g \in S /\ LosesHold(g) THEN None ELSE claim[g].type
<1>1. claim' = [g \in Host |-> [key |-> key(g), type |-> type(g)]]
  BY DEF Depose
<1>2. \A g \in Host : /\ key(g) \in {None, claim[g].key} /\ key(g) \in Key \cup {NoKey, None}
                      /\ type(g) \in {None, claim[g].type} /\ type(g) \in Types \cup {None}
  BY DEF TypeOK
<1>3. \A g \in S : /\ key(g) # None => ~LosesKey(g)
                   /\ type(g) # None => ~LosesHold(g)
  OBVIOUS
<1> HIDE DEF key, type
<1> QED BY <1>1, <1>2, <1>3

LEMMA CompleteIs ==
  ASSUME TypeOK, Shape, NEW h \in Host, NEW ret \in Int, Complete(h, ret)
  PROVE  /\ call' \in [Host -> CallType] /\ fd' = fd
         /\ call'[h].st = "completed" /\ call'[h].ret = ret /\ call'[h].req = call[h].req
         /\ call'[h].cmd = call[h].cmd /\ call'[h].data = call[h].data
         /\ \A g \in Host \ {h} :
              /\ call'[g].st = call[g].st /\ call'[g].ret = call[g].ret
              /\ call'[g].req = call[g].req /\ call'[g].cmd = call[g].cmd
              /\ call'[g].data = call[g].data /\ call'[g].reply = call[g].reply
              /\ call'[g].sound => call[g].sound /\ ~Deposed(g)
<1>1. /\ call' = [g \in Host |-> call'[g]] /\ fd' = fd
      /\ call'[h] = [call[h] EXCEPT !.st = "completed", !.ret = ret]
      /\ \A g \in Host : call[g] \in CallType
  BY DEF Complete, Shape
<1>2. /\ call'[h] \in CallType
      /\ call'[h].st = "completed" /\ call'[h].ret = ret /\ call'[h].req = call[h].req
      /\ call'[h].cmd = call[h].cmd /\ call'[h].data = call[h].data
  BY <1>1 DEF CallType
<1>3. ASSUME NEW g \in Host \ {h}
      PROVE  /\ call'[g] \in CallType
             /\ call'[g].st = call[g].st /\ call'[g].ret = call[g].ret
             /\ call'[g].req = call[g].req /\ call'[g].cmd = call[g].cmd
             /\ call'[g].data = call[g].data /\ call'[g].reply = call[g].reply
             /\ call'[g].sound => call[g].sound /\ ~Deposed(g)
  <2> DEFINE b == call[g].sound /\ ~Deposed(g)
  <2>1. call'[g] = [call[g] EXCEPT !.sound = b] /\ b \in BOOLEAN
    BY <1>1 DEF Complete, Deposed, CallType
  <2>2. b => call[g].sound /\ ~Deposed(g)
    OBVIOUS
  <2> HIDE DEF b
  <2> QED BY <1>1, <2>1, <2>2 DEF CallType
<1>4. call' \in [Host -> CallType]
  BY <1>1, <1>2, <1>3
<1> QED BY <1>1, <1>2, <1>3, <1>4

(* A step takes keys and the reservation from other hosts and gives them   *)
(* none; whoever keeps the reservation keeps its type.                     *)
Keeps(g) ==
  /\ reg'[g] \in {reg[g], NoKey}
  /\ Holds(g) /\ HoldsIn(g, reg', holder', rtype') => rtype' = rtype

OthersKeep(h) == \A g \in Host \ {h} : Keeps(g)

(* A step for h does what its answer says.                                 *)
Delivers(h, ret) ==
  LET req == call[h].req IN
  /\ req.op = "register" \/ req.action = "Clear" \/ reg'[h] = reg[h]
  /\ ret = 0 /\ req.op = "register" /\ req.action # "Unregister" => reg'[h] = req.nrkey
  /\ ret = 0 /\ req.op = "acquire" /\ req.action = "Acquire" =>
       HoldsIn(h, reg', holder', rtype') /\ TypeName[rtype'] = req.rtype

(* What holds of the hosts a step deposes, or leaves alone.                *)
LEMMA OthersStep ==
  ASSUME IInv, DeviceOK', NEW g \in Host, Keeps(g),
         claim'[g].key \in {None, claim[g].key}, claim'[g].type \in {None, claim[g].type},
         claim'[g].key # None => ~LosesKey(g),
         claim'[g].type # None => ~LosesHold(g)
  PROVE  /\ claim'[g].type # None =>
              HoldsIn(g, reg', holder', rtype') /\ TypeName[rtype'] = claim'[g].type
         /\ claim'[g].key # None => reg'[g] = claim'[g].key
<1>1. ASSUME claim'[g].type # None
      PROVE  HoldsIn(g, reg', holder', rtype') /\ TypeName[rtype'] = claim'[g].type
  <2>1. claim'[g].type = claim[g].type /\ Holds(g) /\ TypeName[rtype] = claim[g].type
    BY <1>1 DEF IInv, Informed, HolderInformed
  <2>2. HoldsIn(g, reg', holder', rtype')
    BY <1>1, <2>1 DEF LosesHold
  <2> QED BY <2>1, <2>2 DEF Keeps
<1>2. ASSUME claim'[g].key # None PROVE reg'[g] = claim'[g].key
  <2>1. claim'[g].key = claim[g].key /\ reg[g] = claim[g].key
    BY <1>2 DEF IInv, Informed, RegistrantInformed
  <2>2. reg'[g] = reg[g]
    BY <1>2 DEF LosesKey, Keeps
  <2> QED BY <2>1, <2>2
<1> QED BY <1>1, <1>2

(* The same of those who are about to be told of a success.                *)
LEMMA TellingStep ==
  ASSUME IInv, DeviceOK', NEW g \in Host, Keeps(g),
         call[g].st = "completed", call[g].ret = 0, call[g].sound, ~Deposed(g)
  PROVE  /\ call[g].req.op = "acquire" /\ call[g].req.action = "Acquire" =>
              HoldsIn(g, reg', holder', rtype') /\ TypeName[rtype'] = call[g].req.rtype
         /\ call[g].req.op = "register" /\ call[g].req.action # "Unregister" =>
              reg'[g] = call[g].req.nrkey
<1>1. ASSUME call[g].req.op = "acquire", call[g].req.action = "Acquire"
      PROVE  HoldsIn(g, reg', holder', rtype') /\ TypeName[rtype'] = call[g].req.rtype
  <2>1. Holds(g) /\ TypeName[rtype] = call[g].req.rtype
    BY <1>1 DEF IInv, HoldOK, Telling
  <2>2. HoldsIn(g, reg', holder', rtype')
    BY <2>1 DEF Deposed, LosesHold
  <2> QED BY <2>1, <2>2 DEF Keeps
<1>2. ASSUME call[g].req.op = "register", call[g].req.action # "Unregister"
      PROVE  reg'[g] = call[g].req.nrkey
  <2>1. reg[g] = call[g].req.nrkey
    BY <1>2 DEF IInv, KeyOK, Telling
  <2> QED BY <2>1 DEF Deposed, LosesKey, Keeps
<1> QED BY <1>1, <1>2

LEMMA DeviceStep ==
  ASSUME IInv, NEW h \in Host, NEW ret \in Int,
         call[h].st = "inflight", call[h].req.op # "report",
         Complete(h, ret), Watch, DeviceOK', OthersKeep(h), Delivers(h, ret)
  PROVE  IInv'
<1> DEFINE req == call[h].req
<1>1. /\ call' \in [Host -> CallType] /\ fd' = fd
      /\ call'[h].st = "completed" /\ call'[h].ret = ret /\ call'[h].req = req
      /\ call'[h].cmd = call[h].cmd /\ call'[h].data = call[h].data
      /\ \A g \in Host \ {h} :
           /\ call'[g].st = call[g].st /\ call'[g].ret = call[g].ret
           /\ call'[g].req = call[g].req /\ call'[g].cmd = call[g].cmd
           /\ call'[g].data = call[g].data /\ call'[g].reply = call[g].reply
           /\ call'[g].sound => call[g].sound /\ ~Deposed(g)
  BY CompleteIs DEF IInv
<1>2. /\ claim' \in [Host -> [key : Key \cup {NoKey, None}, type : Types \cup {None}]]
      /\ \A g \in Host : /\ claim'[g].key \in {None, claim[g].key}
                         /\ claim'[g].type \in {None, claim[g].type}
      /\ \A g \in Host \ {h} : /\ claim'[g].key # None => ~LosesKey(g)
                               /\ claim'[g].type # None => ~LosesHold(g)
  BY DeposeIs DEF IInv, Complete
<1>3. TypeOK'
  <2>1. views' \in [Host -> SUBSET [Host -> Key \cup {NoKey}]]
    BY WatchType DEF IInv, TypeOK, DeviceOK
  <2>2. \A g \in Host : call'[g].st # "returned" => g \in fd' /\ call'[g].req \in RequestType
    BY <1>1 DEF IInv, TypeOK
  <2> QED BY <1>1, <1>2, <2>1, <2>2 DEF IInv, TypeOK, DeviceOK
<1>4. Shape' /\ Marshalled' /\ Asked'
  BY <1>1 DEF IInv, Shape, Marshalled, Asked
<1>5. SilentOK'
  BY <1>1, <1>2 DEF IInv, SilentOK
<1>6. HoldOK'
  <2> SUFFICES ASSUME NEW g \in Host, Telling(g, "acquire")', call'[g].req.action = "Acquire"
               PROVE  HoldsIn(g, reg', holder', rtype') /\ TypeName[rtype'] = call'[g].req.rtype
    BY DEF HoldOK, Holds
  <2>1. CASE g = h
    BY <1>1, <2>1 DEF Telling, Delivers
  <2>2. CASE g # h
    BY <1>1, <2>2, TellingStep DEF Telling, OthersKeep
  <2> QED BY <2>1, <2>2
<1>7. KeyOK'
  <2> SUFFICES ASSUME NEW g \in Host, Telling(g, "register")', call'[g].req.action # "Unregister"
               PROVE  reg'[g] = call'[g].req.nrkey
    BY DEF KeyOK
  <2>1. CASE g = h
    BY <1>1, <2>1 DEF Telling, Delivers
  <2>2. CASE g # h
    BY <1>1, <2>2, TellingStep DEF Telling, OthersKeep
  <2> QED BY <2>1, <2>2
<1>8. Informed'
  <2>1. HolderInformed'
    <3> SUFFICES ASSUME NEW g \in Host, claim'[g].type # None
                 PROVE  HoldsIn(g, reg', holder', rtype') /\ TypeName[rtype'] = claim'[g].type
      BY DEF HolderInformed, Holds
    <3>1. g # h
      BY <1>2 DEF IInv, SilentOK
    <3> QED BY <1>2, <3>1, OthersStep DEF OthersKeep
  <2>2. RegistrantInformed'
    <3> SUFFICES ASSUME NEW g \in Host, claim'[g].key # None PROVE reg'[g] = claim'[g].key
      BY DEF RegistrantInformed
    <3>1. CASE g = h
      BY <1>2, <3>1 DEF IInv, SilentOK, Informed, RegistrantInformed, Delivers
    <3>2. CASE g # h
      BY <1>2, <3>2, OthersStep DEF OthersKeep
    <3> QED BY <3>1, <3>2
  <2> QED BY <2>1, <2>2 DEF Informed
<1>9. ReportOK'
  BY <1>1, ReportStep DEF IInv, ReportOK
<1> QED BY <1>3, <1>4, <1>5, <1>6, <1>7, <1>8, <1>9 DEF IInv

(* Whoever holds a reservation that not all registrants hold is the        *)
(* holder, and is registered.                                              *)
LEMMA HolderIs ==
  ASSUME DeviceOK, rtype # 0, rtype \notin AllRegistrants
  PROVE  holder \in Host /\ reg[holder] # NoKey
BY DEF DeviceOK, Holds, HoldsIn

LEMMA ServingIs ==
  ASSUME IInv, NEW h \in Host, NEW opc, Serving(h, opc)
  PROVE  /\ call[h].st = "inflight" /\ call[h].req.op = opc
         /\ call[h].req \in RequestType /\ ArgsOf(call[h].req, call[h].cmd)
         /\ call[h].req.action \in Actions[opc] /\ call[h].cmd \in CmdType
         /\ DeviceOK
BY TypeIs DEF Serving, IInv, Marshalled, ArgsOf, Shape, CallType

LEMMA RejectStep ==
  ASSUME IInv, NEW h \in Host, NEW ret \in Int, call[h].st = "inflight",
         call[h].req.op # "report", ret # 0 \/ call[h].req.op = "release",
         Reject(h, ret), Watch
  PROVE  IInv'
<1>1. /\ UNCHANGED <<reg, holder, rtype, ptpl, persist>> /\ Complete(h, ret)
  BY DEF Reject, device
<1>2. DeviceOK'
  BY <1>1, TypeIs DEF IInv, DeviceOK, Holds
<1>3. OthersKeep(h) /\ Delivers(h, ret)
  BY <1>1 DEF OthersKeep, Keeps, Delivers
<1> QED BY <1>1, <1>2, <1>3, DeviceStep

(* A registration that changes keys of h only leaves the reservation or    *)
(* releases it.                                                            *)
LEMMA RemainsIs ==
  ASSUME DeviceOK, NEW h \in Host, NEW r \in [Host -> Key \cup {NoKey}],
         \A g \in Host \ {h} : r[g] = reg[g], Remains(r), ptpl' \in BOOLEAN, persist' = ptpl'
  PROVE  DeviceOK' /\ OthersKeep(h) /\ reg' = r
<1> DEFINE kept == rtype # 0 /\ (IF rtype \in AllRegistrants
                                 THEN \E g \in Host : r[g] # NoKey ELSE r[holder] # NoKey)
<1>1. /\ reg' = r
      /\ holder' = IF kept THEN holder ELSE NoHost
      /\ rtype' = IF kept THEN rtype ELSE 0
  BY DEF Remains
<1>2. CASE kept
  <2>1. holder' = holder /\ rtype' = rtype /\ rtype # 0
    BY <1>1, <1>2
  <2>2. \E g \in Host : reg'[g] # NoKey /\ HoldsIn(g, reg', holder', rtype')
    <3>1. CASE rtype \in AllRegistrants
      BY <1>1, <1>2, <2>1, <3>1 DEF HoldsIn
    <3>2. CASE rtype \notin AllRegistrants
      BY <1>1, <1>2, <2>1, <3>2, HolderIs DEF HoldsIn
    <3> QED BY <3>1, <3>2
  <2>3. DeviceOK'
    BY <1>1, <2>1, <2>2 DEF DeviceOK, Holds
  <2> QED BY <1>1, <2>1, <2>3 DEF OthersKeep, Keeps
<1>3. CASE ~kept
  <2>1. holder' = NoHost /\ rtype' = 0
    BY <1>1, <1>3
  <2>2. DeviceOK'
    BY <1>1, <2>1 DEF DeviceOK
  <2>3. \A g : ~HoldsIn(g, reg', holder', rtype')
    BY <2>1 DEF HoldsIn
  <2> QED BY <1>1, <2>2, <2>3 DEF OthersKeep, Keeps
<1> QED BY <1>2, <1>3

LEMMA ServeRegisterStep == ASSUME IInv, NEW h \in Host, ServeRegister(h) PROVE IInv'
<1> DEFINE req == call[h].req
           cmd == call[h].cmd
<1>1. /\ call[h].st = "inflight" /\ req.op = "register" /\ DeviceOK /\ Watch
      /\ req.action \in {"Register", "Unregister", "Replace"}
      /\ cmd \in CmdType /\ cmd.nrkey = req.nrkey
      /\ cmd.act = Register_action_raw(req.action) /\ cmd.cptpl = Ptpl_raw(req.cptpl)
      /\ req.cptpl \in {"NoChange", "Clear", "Persist"}
  BY ServingIs, ActionsAre, RequestIs DEF ServeRegister, ArgsOf
<1>2. /\ req.action = "Register" => cmd.act = 0
      /\ req.action = "Unregister" => cmd.act = 1
      /\ req.action = "Replace" => cmd.act = 2
  BY <1>1 DEF Register_action_raw
<1>3. ASSUME NEW key \in Key \cup {NoKey}, Remains([reg EXCEPT ![h] = key]),
             Persist(h), Complete(h, Success),
             req.action # "Unregister" => key = req.nrkey
      PROVE  IInv'
  <2> DEFINE r == [reg EXCEPT ![h] = key]
  <2>1. /\ r \in [Host -> Key \cup {NoKey}] /\ r[h] = key
        /\ \A g \in Host \ {h} : r[g] = reg[g]
    BY <1>1 DEF DeviceOK
  <2>2. ptpl' \in BOOLEAN /\ persist' = ptpl'
    <3>1. /\ req.cptpl = "NoChange" => cmd.cptpl = 0
          /\ req.cptpl = "Clear" => cmd.cptpl = 2
          /\ req.cptpl = "Persist" => cmd.cptpl = 3
      BY <1>1 DEF Ptpl_raw
    <3>2. /\ ptpl' = NewPtpl(cmd) /\ ptpl \in BOOLEAN /\ persist = ptpl
          /\ req.cptpl = "Clear" => persist' = FALSE
          /\ req.cptpl = "Persist" => persist' = TRUE
          /\ req.cptpl = "NoChange" => persist' = persist
      BY <1>1, <1>3, Zenon DEF Persist, DeviceOK
    <3>3. /\ cmd.cptpl = 2 => NewPtpl(cmd) = FALSE
          /\ cmd.cptpl = 3 => NewPtpl(cmd) = TRUE
          /\ cmd.cptpl = 0 => NewPtpl(cmd) = ptpl
      <4>1. 2 # 3 /\ 0 # 2 /\ 0 # 3
        OBVIOUS
      <4> QED BY <4>1, Zenon DEF NewPtpl
    <3> QED BY <1>1, <3>1, <3>2, <3>3
  <2> HIDE DEF r
  <2>3. DeviceOK' /\ OthersKeep(h) /\ reg' = r
    BY <1>1, <1>3, <2>1, <2>2, RemainsIs DEF r
  <2>4. Delivers(h, 0)
    BY <1>1, <1>3, <2>1, <2>3 DEF Delivers
  <2> QED BY <1>1, <1>3, <2>3, <2>4, DeviceStep DEF Success
<1>4. ASSUME Reject(h, Conflict) PROVE IInv'
  BY <1>1, <1>4, RejectStep DEF Conflict
<1>5. cmd.nrkey \in Key \cup {NoKey} /\ NoKey \in Key \cup {NoKey}
  BY <1>1 DEF CmdType
<1>6. CASE /\ cmd.act \in {0, 2} /\ Remains([reg EXCEPT ![h] = cmd.nrkey])
           /\ Persist(h) /\ Complete(h, Success)
  BY <1>1, <1>3, <1>5, <1>6
<1>7. CASE /\ cmd.act = 1 /\ Remains([reg EXCEPT ![h] = NoKey])
           /\ Persist(h) /\ Complete(h, Success)
  <2>1. req.action = "Unregister"
    BY <1>1, <1>2, <1>7
  <2> QED BY <1>3, <1>5, <1>7, <2>1
<1> HIDE DEF req, cmd
<1> QED BY <1>4, <1>6, <1>7 DEF ServeRegister, cmd

LEMMA ServeAcquireStep == ASSUME IInv, NEW h \in Host, ServeAcquire(h) PROVE IInv'
<1> DEFINE req == call[h].req
           cmd == call[h].cmd
           V == Victims(h, cmd)
<1>1. /\ call[h].st = "inflight" /\ req.op = "acquire" /\ DeviceOK /\ Watch
      /\ req \in RequestType /\ req.action \in {"Acquire", "Preempt", "PreemptAndAbort"}
      /\ cmd.rtype = as_raw(req.rtype) /\ cmd.act = Acquire_action_raw(req.action)
  BY ServingIs, ActionsAre DEF ServeAcquire, ArgsOf
<1>2. /\ req.action = "Acquire" => cmd.act = 0
      /\ req.action = "Preempt" => cmd.act = 1
      /\ req.action = "PreemptAndAbort" => cmd.act = 2
  BY <1>1 DEF Acquire_action_raw
<1>3. cmd.rtype \in 1 .. 6 /\ TypeName[cmd.rtype] = req.rtype
  BY <1>1, RequestIs, RawType
<1>4. ASSUME NEW ret \in {Conflict, InvalidField}, Reject(h, ret) PROVE IInv'
  <2>1. ret \in Int /\ ret # 0
    BY DEF Conflict, InvalidField
  <2> QED BY <1>1, <1>4, <2>1, RejectStep
<1>5. ASSUME Authorised(h), cmd.act = 0, rtype = 0 \/ (Holds(h) /\ rtype = cmd.rtype),
             holder' = h, rtype' = cmd.rtype, UNCHANGED <<reg, ptpl, persist>>, Complete(h, Success)
      PROVE  IInv'
  <2>1. reg[h] # NoKey /\ HoldsIn(h, reg', holder', rtype')
    BY <1>3, <1>5 DEF Authorised, HoldsIn
  <2>2. DeviceOK'
    BY <1>1, <1>3, <1>5, <2>1, ReservationsAssumption DEF DeviceOK, Holds
  <2>3. OthersKeep(h)
    BY <1>5 DEF OthersKeep, Keeps, Holds, HoldsIn
  <2>4. Delivers(h, 0)
    BY <1>1, <1>3, <1>5, <2>1 DEF Delivers
  <2> QED BY <1>1, <1>5, <2>2, <2>3, <2>4, DeviceStep DEF Success
<1>6. ASSUME Authorised(h), cmd.act \in {1, 2},
             reg' = [g \in Host |-> IF g \in V THEN NoKey ELSE reg[g]],
             IF rtype # 0 /\ rtype \notin AllRegistrants /\ holder \in V
             THEN holder' = h /\ rtype' = cmd.rtype ELSE UNCHANGED <<holder, rtype>>,
             UNCHANGED <<ptpl, persist>>, Complete(h, Success)
      PROVE  IInv'
  <2>1. /\ h \notin V /\ reg'[h] = reg[h] /\ reg[h] # NoKey
        /\ reg' \in [Host -> Key \cup {NoKey}] /\ V \subseteq Host
    BY <1>1, <1>6 DEF Victims, Authorised, DeviceOK
  <2>2. req.action # "Acquire"
    BY <1>2, <1>6
  <2>3. Delivers(h, 0)
    BY <1>1, <2>1, <2>2 DEF Delivers
  <2>4. CASE rtype # 0 /\ rtype \notin AllRegistrants /\ holder \in V
    <3>1. holder' = h /\ rtype' = cmd.rtype /\ HoldsIn(h, reg', holder', rtype')
      BY <1>3, <1>6, <2>1, <2>4 DEF HoldsIn
    <3>2. DeviceOK'
      <4>1. ptpl' \in BOOLEAN /\ persist' = ptpl' /\ rtype' \in 0 .. 6 /\ rtype' # 0
        BY <1>1, <1>3, <1>6, <3>1 DEF DeviceOK
      <4>2. holder' \in Host \cup {NoHost} /\ holder' # NoHost
        BY <3>1, ReservationsAssumption
      <4> QED BY <2>1, <3>1, <4>1, <4>2 DEF DeviceOK, Holds
    <3>3. OthersKeep(h)
      <4> SUFFICES ASSUME NEW g \in Host \ {h}
                   PROVE  /\ reg'[g] \in {reg[g], NoKey}
                          /\ ~(Holds(g) /\ HoldsIn(g, reg', holder', rtype'))
        BY DEF OthersKeep, Keeps
      <4>1. Holds(g) => g = holder
        BY <2>4 DEF Holds, HoldsIn
      <4>2. g = holder => reg'[g] = NoKey
        BY <1>6, <2>4
      <4> QED BY <1>6, <3>1, <4>1, <4>2 DEF HoldsIn
    <3> QED BY <1>1, <1>6, <2>3, <3>2, <3>3, DeviceStep DEF Success
  <2>5. CASE ~(rtype # 0 /\ rtype \notin AllRegistrants /\ holder \in V)
    <3>1. holder' = holder /\ rtype' = rtype
      BY <1>6, <2>5
    <3>2. rtype # 0 => \E g \in Host : reg'[g] # NoKey /\ HoldsIn(g, reg', holder', rtype')
      <4>1. CASE rtype \in AllRegistrants
        BY <2>1, <3>1, <4>1 DEF HoldsIn
      <4>2. CASE rtype # 0 /\ rtype \notin AllRegistrants
        BY <1>1, <1>6, <2>5, <3>1, <4>2, HolderIs DEF HoldsIn
      <4> QED BY <4>1, <4>2
    <3>3. DeviceOK'
      BY <1>1, <1>6, <2>1, <3>1, <3>2 DEF DeviceOK, Holds
    <3>4. OthersKeep(h)
      BY <1>6, <3>1 DEF OthersKeep, Keeps
    <3> QED BY <1>1, <1>6, <2>3, <3>3, <3>4, DeviceStep DEF Success
  <2> QED BY <2>4, <2>5
<1> HIDE DEF req, cmd, V
<1> QED BY <1>4, <1>5, <1>6 DEF ServeAcquire, cmd, V

LEMMA ServeReleaseStep == ASSUME IInv, NEW h \in Host, ServeRelease(h) PROVE IInv'
<1> DEFINE req == call[h].req
           cmd == call[h].cmd
<1>1. /\ call[h].st = "inflight" /\ req.op = "release" /\ DeviceOK /\ Watch
      /\ req.action \in {"Release", "Clear"} /\ cmd.act = Release_action_raw(req.action)
  BY ServingIs, ActionsAre DEF ServeRelease, ArgsOf
<1>2. cmd.act = 1 => req.action = "Clear"
  BY <1>1 DEF Release_action_raw
<1>3. ASSUME NEW ret \in {Success, Conflict, InvalidField}, Reject(h, ret) PROVE IInv'
  <2>1. ret \in Int
    BY DEF Success, Conflict, InvalidField
  <2> QED BY <1>1, <1>3, <2>1, RejectStep
<1>4. ASSUME holder' = NoHost, rtype' = 0, UNCHANGED <<ptpl, persist>>, Complete(h, Success),
             \/ reg' = reg
             \/ req.action = "Clear" /\ reg' = [g \in Host |-> NoKey]
      PROVE  IInv'
  <2>1. reg' \in [Host -> Key \cup {NoKey}] /\ \A g \in Host : reg'[g] \in {reg[g], NoKey}
    BY <1>1, <1>4 DEF DeviceOK
  <2>2. DeviceOK'
    BY <1>1, <1>4, <2>1 DEF DeviceOK
  <2>3. OthersKeep(h)
    BY <1>4, <2>1 DEF OthersKeep, Keeps, HoldsIn
  <2>4. Delivers(h, 0)
    BY <1>1, <1>4 DEF Delivers
  <2> QED BY <1>1, <1>4, <2>2, <2>3, <2>4, DeviceStep DEF Success
<1>5. CASE /\ Authorised(h) /\ cmd.act = 0 /\ Holds(h) /\ cmd.rtype = rtype
           /\ holder' = NoHost /\ rtype' = 0
           /\ UNCHANGED <<reg, ptpl, persist>>
           /\ Complete(h, Success)
  BY <1>4, <1>5
<1>6. CASE /\ Authorised(h) /\ cmd.act = 1
           /\ reg' = [g \in Host |-> NoKey]
           /\ holder' = NoHost /\ rtype' = 0
           /\ UNCHANGED <<ptpl, persist>>
           /\ Complete(h, Success)
  BY <1>2, <1>4, <1>6
<1> HIDE DEF req, cmd
<1> QED BY <1>3, <1>5, <1>6 DEF ServeRelease, cmd

(* As many entries as there are registrants among those shown.             *)
LEMMA ShownIs ==
  ASSUME NEW S \in SUBSET Host, NEW r
  PROVE  Cardinality({ <<g, r[g]>> : g \in S }) = Cardinality(S)
<1> DEFINE T == { <<g, r[g]>> : g \in S }
           f == [g \in S |-> <<g, r[g]>>]
<1>1. IsFiniteSet(S)
  BY FS_Subset, ReservationsAssumption
<1>2. f \in Bijection(S, T)
  <2>1. f \in [S -> T]
    OBVIOUS
  <2>2. \A a, b \in S : f[a] = f[b] => a = b
    OBVIOUS
  <2>3. \A t \in T : \E g \in S : f[g] = t
    OBVIOUS
  <2> HIDE DEF f, T
  <2> QED BY <2>1, <2>2, <2>3 DEF Bijection, Injection, Surjection, IsInjective
<1>3. ExistsBijection(S, T)
  BY <1>2 DEF ExistsBijection
<1> QED BY <1>1, <1>3, FS_Bijection

(* The answer of the namespace to a report of a length that fits the wire. *)
LEMMA AnswerIs ==
  ASSUME NEW len \in Int, NEW eds \in BOOLEAN, len >= StatusSize, len < U32,
         NEW S \in SUBSET Registrants(reg),
         Cardinality(S) = IF Cardinality(Registrants(reg)) <= Room(len % U32, eds)
                          THEN Cardinality(Registrants(reg)) ELSE Room(len % U32, eds),
         NEW V, reg \in V
  PROVE  Truthful([count |-> IF len % U32 < HeaderSize[eds] THEN -1
                             ELSE Cardinality(Registrants(reg)),
                   shows |-> { <<g, reg[g]>> : g \in S }], Room(len, eds), V)
<1> DEFINE count == Cardinality(Registrants(reg))
           shows == { <<g, reg[g]>> : g \in S }
           room == Room(len, eds)
<1>1. len % U32 = len /\ ~(len < HeaderSize[eds])
  BY ReservationsAssumption
<1>2. room \in Int
  <2>1. EntrySize[eds] \in Nat \ {0} /\ HeaderSize[eds] \in Nat
    BY ReservationsAssumption
  <2> QED BY <1>1, <2>1 DEF Room
<1>3. count \in Nat
  BY FS_Subset, FS_CardinalityType, ReservationsAssumption DEF Registrants
<1>4. /\ Cardinality(shows) = Cardinality(S)
      /\ \A e \in shows : reg[e[1]] = e[2] /\ e[2] # NoKey
  BY ShownIs DEF Registrants
<1>5. Cardinality(S) = IF count <= room THEN count ELSE room
  BY <1>1
<1> HIDE DEF count, shows, room
<1>6. Truthful([count |-> count, shows |-> shows], room, V)
  <2>1. /\ count <= room => Cardinality(shows) = count
        /\ count > room => Cardinality(shows) = room
    BY <1>2, <1>3, <1>4, <1>5
  <2> QED BY <1>4, <2>1 DEF Truthful, count
<1> QED BY <1>1, <1>6 DEF count, shows, room

LEMMA ServeReportStep == ASSUME IInv, NEW h \in Host, ServeReport(h) PROVE IInv'
<1> DEFINE req == call[h].req
           cmd == call[h].cmd
           R == Registrants(reg)
<1>1. /\ call[h].st = "inflight" /\ req.op = "report" /\ Watch
      /\ req \in RequestType /\ cmd.len = req.len % U32 /\ cmd.eds = req.eds
      /\ report_checks(req)
      /\ UNCHANGED <<reg, holder, rtype, ptpl, persist, fd, claim>>
  BY ServingIs DEF ServeReport, ArgsOf, device
<1>2. PICK S \in SUBSET R :
        /\ Cardinality(S) = IF Cardinality(R) <= Room(cmd.len, cmd.eds) THEN Cardinality(R)
                            ELSE Room(cmd.len, cmd.eds)
        /\ call' = [call EXCEPT ![h].st = "completed",
             ![h].data = [count |-> IF cmd.len < HeaderSize[cmd.eds] THEN -1 ELSE Cardinality(R),
                          shows |-> { <<g, reg[g]>> : g \in S }]]
  BY DEF ServeReport
<1> DEFINE data == [count |-> IF cmd.len < HeaderSize[cmd.eds] THEN -1 ELSE Cardinality(R),
                    shows |-> { <<g, reg[g]>> : g \in S }]
<1>3. data \in [count : Int, shows : SUBSET (Host \X (Key \cup {NoKey}))]
  <2>1. Cardinality(R) \in Int
    BY FS_Subset, FS_CardinalityType, ReservationsAssumption DEF Registrants
  <2>2. { <<g, reg[g]>> : g \in S } \in SUBSET (Host \X (Key \cup {NoKey}))
    BY DEF IInv, TypeOK, Registrants
  <2> DEFINE n == IF cmd.len < HeaderSize[cmd.eds] THEN -1 ELSE Cardinality(R)
             shows == { <<g, reg[g]>> : g \in S }
  <2>3. n \in Int
    BY <2>1
  <2> HIDE DEF n
  <2>4. [count |-> n, shows |-> shows] \in [count : Int, shows : SUBSET (Host \X (Key \cup {NoKey}))]
    BY <2>2, <2>3
  <2> QED BY <2>4 DEF n
<1>4. req.len < U32 /\ reg \in views[h] => Truthful(data, Room(req.len, req.eds), views[h])
  <2>1. req.len \in Int /\ req.eds \in BOOLEAN /\ req.len >= StatusSize
    BY <1>1, RequestIs DEF report_checks
  <2> HIDE DEF req, cmd
  <2> QED BY <1>1, <1>2, <2>1, AnswerIs
<1> HIDE DEF data
<1>5. /\ call' \in [Host -> CallType] /\ \A g \in Host \ {h} : call'[g] = call[g]
      /\ call'[h].st = "completed" /\ call'[h].req = req /\ call'[h].cmd = cmd
      /\ call'[h].data = data
  <2>1. /\ call'[h] = [call[h] EXCEPT !.st = "completed", !.data = data]
        /\ call' = [g \in Host |-> call'[g]]
        /\ \A g \in Host \ {h} : call'[g] = call[g]
    BY <1>2 DEF IInv, Shape, data
  <2>2. call[h] \in CallType
    BY DEF IInv, Shape
  <2>3. /\ call'[h] \in CallType
        /\ call'[h].st = "completed" /\ call'[h].req = req /\ call'[h].cmd = cmd
        /\ call'[h].data = data
    BY <1>3, <2>1, <2>2 DEF CallType
  <2> QED BY <2>1, <2>3 DEF IInv, Shape
<1>6. TypeOK'
  BY <1>1, <1>5, WatchType DEF IInv, TypeOK, Holds
<1>7. Shape' /\ Marshalled' /\ Asked' /\ SilentOK'
  BY <1>1, <1>5 DEF IInv, Shape, Marshalled, Asked, SilentOK
<1>8. HoldOK' /\ KeyOK' /\ Informed'
  <2>1. \A g \in Host, op \in {"acquire", "register"} :
          Telling(g, op)' => Telling(g, op) /\ call'[g] = call[g]
    BY <1>1, <1>5 DEF Telling
  <2> QED BY <1>1, <2>1
      DEF IInv, HoldOK, KeyOK, Informed, HolderInformed, RegistrantInformed, Holds
<1>9. ReportOK'
  <2>1. req.len < U32 => Truthful(data, Room(req.len, req.eds), views'[h])
    <3>1. req.len < U32 => reg \in views[h]
      BY <1>1 DEF IInv, ReportOK
    <3>2. views[h] \subseteq views'[h]
      BY <1>1, <1>5, WatchSeen
    <3> HIDE DEF req, cmd
    <3> QED BY <1>4, <3>1, <3>2, TruthfulMore
  <2> QED BY <1>1, <1>5, <2>1, ReportStep DEF IInv
<1> QED BY <1>6, <1>7, <1>8, <1>9 DEF IInv

----------------------------------------------------------------------------
(* The return, timeouts and power losses.                                  *)

(* What a host claims after the return of a call it was not deposed from.  *)
LEMMA ClaimedIs ==
  ASSUME IInv, NEW h \in Host, call[h].st = "completed", call[h].ret = 0, call[h].sound
  PROVE  /\ Claimed(h) \in [key : Key \cup {NoKey, None}, type : Types \cup {None}]
         /\ Claimed(h).type # None => Holds(h) /\ TypeName[rtype] = Claimed(h).type
         /\ Claimed(h).key # None => reg[h] = Claimed(h).key
<1> DEFINE req == call[h].req
           old == claim[h]
<1>1. /\ req \in RequestType /\ req.rtype \in Types /\ req.nrkey \in Key \cup {NoKey}
      /\ old \in [key : Key \cup {NoKey, None}, type : Types \cup {None}]
      /\ old.type # None => Holds(h) /\ TypeName[rtype] = old.type
      /\ old.key # None => reg[h] = old.key
  BY RequestIs DEF IInv, TypeOK, Informed, HolderInformed, RegistrantInformed
<1>2. CASE req.op = "register" /\ req.action # "Unregister"
  <2>1. Claimed(h) = [old EXCEPT !.key = req.nrkey] /\ reg[h] = req.nrkey
    BY <1>2 DEF Claimed, IInv, KeyOK, Telling
  <2> HIDE DEF old
  <2> QED BY <1>1, <2>1
<1>3. CASE req.op = "acquire" /\ req.action = "Acquire"
  <2>1. /\ Claimed(h) = [old EXCEPT !.type = req.rtype]
        /\ Holds(h) /\ TypeName[rtype] = req.rtype
    BY <1>3 DEF Claimed, IInv, HoldOK, Telling
  <2> HIDE DEF old
  <2> QED BY <1>1, <2>1
<1>4. CASE ~(req.op = "register" /\ req.action # "Unregister")
           /\ ~(req.op = "acquire" /\ req.action = "Acquire")
  <2>1. Claimed(h) = old
    BY <1>4 DEF Claimed
  <2> HIDE DEF old
  <2> QED BY <1>1, <2>1
<1> QED BY <1>2, <1>3, <1>4

LEMMA ReturnStep == ASSUME IInv, NEW h \in Host, Return(h) PROVE IInv'
<1> DEFINE reply == check_ret(call[h].ret)
           data == call[h].data
           kept == IF call[h].req.op = "report" THEN call[h].req ELSE Idle.req
           new == [Idle EXCEPT !.reply = reply, !.data = data, !.req = kept]
           cl == IF reply.kind = "Ok" /\ call[h].sound THEN Claimed(h) ELSE claim[h]
<1>1. /\ call[h].st = "completed" /\ call' = [call EXCEPT ![h] = new]
      /\ claim' = [claim EXCEPT ![h] = cl] /\ Watch
      /\ UNCHANGED <<reg, holder, rtype, ptpl, persist, fd>>
  BY DEF Return, device
<1>2. call[h] \in CallType /\ call[h].ret \in Int /\ call[h].req \in RequestType
  BY <1>1 DEF IInv, Shape, TypeOK, CallType
<1>3. /\ reply \in Reply /\ (reply.kind = "Ok" <=> call[h].ret = 0)
      /\ data \in [count : Int, shows : SUBSET (Host \X (Key \cup {NoKey}))]
  BY <1>2, CheckRet DEF CallType
<1>4. /\ kept \in RequestType \cup {Idle.req}
      /\ kept.op = "report" => call[h].req.op = "report" /\ kept = call[h].req
  BY <1>2, IdleIs
<1>5. /\ cl \in [key : Key \cup {NoKey, None}, type : Types \cup {None}]
      /\ cl.type # None => Holds(h) /\ TypeName[rtype] = cl.type
      /\ cl.key # None => reg[h] = cl.key
  <2>1. CASE reply.kind = "Ok" /\ call[h].sound
    BY <1>1, <1>3, <2>1, ClaimedIs
  <2>2. CASE ~(reply.kind = "Ok" /\ call[h].sound)
    <3>1. cl = claim[h]
      BY <2>2
    <3> HIDE DEF cl
    <3> QED BY <3>1 DEF IInv, TypeOK, Informed, HolderInformed, RegistrantInformed
  <2> QED BY <2>1, <2>2
<1> HIDE DEF reply, data, kept, cl
<1>6. /\ new \in CallType /\ new.st = "returned" /\ new.req = kept
      /\ new.data = data /\ new.reply = reply
  <2>1. Idle.st = "returned"
    BY IdleIs
  <2> QED BY <1>3, <1>4, <2>1, IdleCall DEF CallType
<1> HIDE DEF new
<1>7. /\ call'[h] = new /\ call' \in [Host -> CallType] /\ claim'[h] = cl
      /\ \A g \in Host \ {h} : call'[g] = call[g] /\ claim'[g] = claim[g]
  BY <1>1, <1>6 DEF IInv, Shape, TypeOK
<1>8. TypeOK'
  <2>1. claim' \in [Host -> [key : Key \cup {NoKey, None}, type : Types \cup {None}]]
    BY <1>1, <1>5 DEF IInv, TypeOK
  <2>2. DeviceOK'
    BY <1>1, TypeIs DEF IInv, DeviceOK, Holds
  <2> QED BY <1>1, <1>6, <1>7, <2>1, <2>2, WatchType DEF IInv, TypeOK, DeviceOK
<1>9. Shape' /\ Marshalled' /\ Asked'
  BY <1>4, <1>6, <1>7 DEF IInv, Shape, Marshalled, Asked
<1>10. SilentOK' /\ HoldOK' /\ KeyOK'
  BY <1>1, <1>6, <1>7 DEF IInv, SilentOK, HoldOK, KeyOK, Telling, Holds
<1>11. Informed'
  BY <1>1, <1>5, <1>7 DEF IInv, Informed, HolderInformed, RegistrantInformed, Holds
<1>12. ReportOK'
  BY <1>1, <1>3, <1>4, <1>6, <1>7, ReportStep DEF IInv, ReportOK, data
<1> QED BY <1>8, <1>9, <1>10, <1>11, <1>12 DEF IInv

LEMMA TimeoutStep == ASSUME IInv, NEW h \in Host, Timeout(h) PROVE IInv'
<1> DEFINE lost == -1
<1>1. /\ call[h].st \in {"inflight", "completed"} /\ Watch
      /\ UNCHANGED <<reg, holder, rtype, ptpl, persist, fd, claim>>
      /\ call[h] \in CallType /\ call \in [Host -> CallType]
  BY DEF Timeout, device, IInv, Shape
<1>2. lost \in Int /\ lost # 0
  OBVIOUS
<1>3. /\ call'[h] = [call[h] EXCEPT !.st = "completed", !.ret = lost, !.data = NoReport]
      /\ call' = [g \in Host |-> call'[g]]
      /\ \A g \in Host \ {h} : call'[g] = call[g]
  BY <1>1 DEF Timeout
<1> HIDE DEF lost
<1>4. /\ call'[h] \in CallType /\ call'[h].st = "completed" /\ call'[h].ret = lost
      /\ call'[h].req = call[h].req /\ call'[h].cmd = call[h].cmd
  BY <1>1, <1>2, <1>3, NoReportType DEF CallType
<1>5. call' \in [Host -> CallType]
  BY <1>1, <1>3, <1>4
<1>6. TypeOK'
  BY <1>1, <1>3, <1>4, WatchType DEF IInv, TypeOK, Holds
<1>7. Shape' /\ Marshalled' /\ Asked' /\ SilentOK'
  <2>1. \A g \in Host :
          /\ call'[g].st = "returned" <=> call[g].st = "returned"
          /\ call'[g].req = call[g].req /\ call'[g].cmd = call[g].cmd
    BY <1>1, <1>3, <1>4
  <2> QED BY <1>1, <1>5, <2>1 DEF IInv, Shape, Marshalled, Asked, SilentOK
<1>8. HoldOK' /\ KeyOK' /\ Informed'
  <2>1. \A g \in Host, op \in {"acquire", "register"} :
          Telling(g, op)' => Telling(g, op) /\ call'[g] = call[g]
    BY <1>2, <1>3, <1>4 DEF Telling
  <2> QED BY <1>1, <2>1
      DEF IInv, HoldOK, KeyOK, Informed, HolderInformed, RegistrantInformed, Holds
<1>9. ReportOK'
  <2>1. \A g \in Host :
          /\ call'[g].st = "returned" => call'[g] = call[g]
          /\ call'[g].st = "completed" /\ call'[g].ret = 0 => call'[g] = call[g]
    BY <1>2, <1>3, <1>4
  <2>2. ASSUME NEW g \in Host
        PROVE  /\ call'[g].st = "completed" /\ call'[g].ret = 0 =>
                    /\ call[g].st = "completed" /\ call[g].ret = 0
                    /\ call'[g].req = call[g].req /\ call'[g].data = call[g].data
               /\ call'[g].st = "returned" /\ call'[g].reply.kind = "Ok" =>
                    /\ call[g].st = "returned" /\ call[g].reply.kind = "Ok"
                    /\ call'[g].req = call[g].req /\ call'[g].data = call[g].data
    BY <2>1
  <2> QED BY <1>1, <2>2, ReportStep DEF IInv
<1> QED BY <1>5, <1>6, <1>7, <1>8, <1>9 DEF IInv

(* Without persistence through power loss everybody is deposed; with it    *)
(* the namespace, which was told so, keeps everything.                     *)
LEMMA PowerStep == ASSUME IInv, PowerLoss PROVE IInv'
<1>1. /\ Depose(Exposed) /\ Exposed \subseteq Host /\ fd' = fd /\ Watch /\ DeviceOK
      /\ \A g \in Host : call[g] \in CallType
  BY TypeIs DEF PowerLoss, IInv, Shape, Exposed
<1>2. DeviceOK' /\ \A g \in Host : Keeps(g)
  <2>1. CASE ptpl
    <3>1. UNCHANGED <<reg, holder, rtype, ptpl, persist>>
      BY <2>1 DEF PowerLoss, device
    <3> QED BY <1>1, <3>1 DEF DeviceOK, Keeps, Holds
  <2>2. CASE ~ptpl
    <3>1. /\ reg' = [h \in Host |-> NoKey] /\ holder' = NoHost /\ rtype' = 0
          /\ ptpl' = ptpl /\ persist' = persist
      BY <2>2 DEF PowerLoss
    <3>2. reg' \in [Host -> Key \cup {NoKey}] /\ ~(rtype' # 0) /\ rtype' \in 0 .. 6
      BY <3>1
    <3>3. DeviceOK'
      BY <1>1, <3>1, <3>2 DEF DeviceOK
    <3> QED BY <3>1, <3>3 DEF Keeps, HoldsIn
  <2> QED BY <2>1, <2>2
<1>14. ASSUME NEW g \in Host, g \notin Exposed PROVE ~LosesKey(g) /\ ~LosesHold(g)
  <2>1. UNCHANGED <<reg, holder, rtype>>
    BY <1>1, <1>14 DEF Exposed, DeviceOK, PowerLoss, device
  <2> QED BY <2>1 DEF LosesKey, LosesHold, Holds
<1>3. /\ claim' \in [Host -> [key : Key \cup {NoKey, None}, type : Types \cup {None}]]
      /\ \A g \in Host : /\ claim'[g].key \in {None, claim[g].key}
                         /\ claim'[g].type \in {None, claim[g].type}
                         /\ claim'[g].key # None => ~LosesKey(g)
                         /\ claim'[g].type # None => ~LosesHold(g)
  BY <1>1, <1>14, DeposeIs DEF IInv
<1>4. ASSUME NEW g \in Host
      PROVE  /\ call'[g] \in CallType /\ call'[g].req = call[g].req
             /\ call'[g].cmd = call[g].cmd /\ call'[g].data = call[g].data
             /\ call'[g].reply = call[g].reply
             /\ call'[g].st = "returned" <=> call[g].st = "returned"
             /\ call'[g].st # "inflight"
             /\ call'[g].st = "completed" /\ call'[g].ret = 0 =>
                  /\ call[g].st = "completed" /\ call[g].ret = 0
                  /\ call'[g].sound => call[g].sound /\ ~Deposed(g)
  <2>1. CASE call[g].st = "inflight"
    <3> DEFINE lost == -1
    <3>1. call'[g] = [call[g] EXCEPT !.st = "completed", !.ret = lost]
      BY <2>1 DEF PowerLoss
    <3>2. lost \in Int /\ lost # 0
      OBVIOUS
    <3> HIDE DEF lost
    <3> QED BY <1>1, <2>1, <3>1, <3>2 DEF CallType
  <2>2. CASE call[g].st # "inflight"
    <3> DEFINE b == call[g].sound /\ ~(g \in Exposed /\ Deposed(g))
    <3>1. call'[g] = [call[g] EXCEPT !.sound = b] /\ b \in BOOLEAN
      BY <1>1, <2>2 DEF PowerLoss, Deposed, CallType
    <3>2. b => call[g].sound /\ ~Deposed(g)
      BY <1>14 DEF Deposed
    <3> HIDE DEF b
    <3> QED BY <1>1, <2>2, <3>1, <3>2 DEF CallType
  <2> QED BY <2>1, <2>2
<1>5. call' \in [Host -> CallType]
  <2>1. call' = [g \in Host |-> call'[g]]
    BY DEF PowerLoss
  <2> QED BY <1>4, <2>1
<1>6. TypeOK'
  <2>1. views' \in [Host -> SUBSET [Host -> Key \cup {NoKey}]]
    BY <1>1, <1>2, WatchType DEF IInv, TypeOK, DeviceOK
  <2>2. \A g \in Host : call'[g].st # "returned" => g \in fd' /\ call'[g].req \in RequestType
    BY <1>1, <1>4 DEF IInv, TypeOK
  <2> QED BY <1>1, <1>2, <1>3, <2>1, <2>2 DEF IInv, TypeOK, DeviceOK
<1>7. Shape' /\ Marshalled' /\ Asked'
  BY <1>4, <1>5 DEF IInv, Shape, Marshalled, Asked
<1>8. SilentOK'
  BY <1>3, <1>4 DEF IInv, SilentOK
<1>9. ASSUME NEW g \in Host, NEW op, Telling(g, op)'
      PROVE  /\ call[g].st = "completed" /\ call[g].ret = 0 /\ call[g].sound
             /\ ~Deposed(g) /\ call[g].req.op = op /\ call'[g].req = call[g].req
  BY <1>4, <1>9 DEF Telling
<1>10. HoldOK'
  BY <1>2, <1>9, TellingStep DEF HoldOK, Holds
<1>11. KeyOK'
  BY <1>2, <1>9, TellingStep DEF KeyOK
<1>12. Informed'
  BY <1>2, <1>3, OthersStep DEF Informed, HolderInformed, RegistrantInformed, Holds
<1>13. ReportOK'
  <2>1. ASSUME NEW g \in Host
        PROVE  /\ call'[g].st = "completed" /\ call'[g].ret = 0 =>
                    /\ call[g].st = "completed" /\ call[g].ret = 0
                    /\ call'[g].req = call[g].req /\ call'[g].data = call[g].data
               /\ call'[g].st = "returned" /\ call'[g].reply.kind = "Ok" =>
                    /\ call[g].st = "returned" /\ call[g].reply.kind = "Ok"
                    /\ call'[g].req = call[g].req /\ call'[g].data = call[g].data
    BY <1>4
  <2> QED BY <1>1, <2>1, ReportStep DEF IInv
<1> QED BY <1>6, <1>7, <1>8, <1>10, <1>11, <1>12, <1>13, <1>5 DEF IInv

----------------------------------------------------------------------------
(* IInv is an inductive invariant of the hosts, the namespace and its      *)
(* power losses.                                                           *)
THEOREM Inductive == Spec => []IInv
<1>1. Init => IInv
  BY Initial
<1>2. IInv /\ [Next]_vars => IInv'
  <2> SUFFICES ASSUME IInv, [Next]_vars PROVE IInv'
    OBVIOUS
  <2>1. ASSUME NEW h \in Host, NEW req \in Request, Execute(h, req) PROVE IInv'
    BY <2>1, ExecuteStep
  <2>2. ASSUME NEW h \in Host, Serve(h) \/ Timeout(h) \/ Return(h) PROVE IInv'
    BY <2>2, ServeAcquireStep, ServeRegisterStep, ServeReleaseStep, ServeReportStep,
       TimeoutStep, ReturnStep DEF Serve
  <2>3. CASE PowerLoss
    BY <2>3, PowerStep
  <2>4. CASE UNCHANGED vars
    BY <2>4 DEF vars, device, IInv, TypeOK, Shape, Marshalled, Asked, SilentOK, HoldOK, KeyOK,
                ReportOK, Informed, HolderInformed, RegistrantInformed, Telling, Holds
  <2> QED BY <2>1, <2>2, <2>3, <2>4 DEF Next
<1> QED BY <1>1, <1>2, PTL DEF Spec

(* Every variable has its type and whoever holds the reservation is        *)
(* registered, for any number of hosts and any keys.                       *)
THEOREM TypeCorrect == Spec => []TypeOK
<1>1. IInv => TypeOK
  BY DEF IInv
<1> QED BY <1>1, Inductive, PTL

(* Whoever was told by an Acquire that it holds the reservation does, with *)
(* the type it asked for, until it is deposed (ReservationAcquire).        *)
THEOREM HoldersKnow == Spec => []HolderInformed
<1>1. IInv => HolderInformed
  BY DEF IInv, Informed
<1> QED BY <1>1, Inductive, PTL

(* Whoever was told by a Register that it is registered is, with the new   *)
(* key, until it is deposed (ReservationRegister).                         *)
THEOREM RegistrantsKnow == Spec => []RegistrantInformed
<1>1. IInv => RegistrantInformed
  BY DEF IInv, Informed
<1> QED BY <1>1, Inductive, PTL

(* No two hosts were told of a reservation that excludes one of them       *)
(* (ReservationType).                                                      *)
THEOREM ClaimsAgree == Spec => []ClaimsCompatible
<1>1. IInv => ClaimsCompatible
  <2> SUFFICES ASSUME IInv, NEW g \in Host, NEW h \in Host, g # h,
                      claim[g].type # None, claim[h].type # None
               PROVE  /\ claim[g].type = claim[h].type
                      /\ claim[g].type \in {"WriteExclusiveAllRegistrants",
                                            "ExclusiveAccessAllRegistrants"}
    BY DEF ClaimsCompatible
  <2>1. /\ Holds(g) /\ Holds(h) /\ TypeName[rtype] = claim[g].type
        /\ TypeName[rtype] = claim[h].type
    BY DEF IInv, Informed, HolderInformed
  <2>2. rtype \in {5, 6}
    BY <2>1 DEF Holds, HoldsIn, AllRegistrants
  <2>3. TypeName[rtype] \in {"WriteExclusiveAllRegistrants", "ExclusiveAccessAllRegistrants"}
    BY <2>2 DEF TypeName
  <2> QED BY <2>1, <2>3
<1> QED BY <1>1, Inductive, PTL

(* A report shows the registrants of one moment of the call, all of them   *)
(* if there is room, as long as no buffer is so long that the cast to u32  *)
(* cuts its length (ReservationReport).                                    *)
THEOREM ReportsAreTrue ==
  ASSUME \A req \in Request : req.len < U32
  PROVE  Spec => []ReportTruthful
<1>1. IInv => ReportTruthful
  <2> SUFFICES ASSUME IInv, NEW h \in Host, call[h].st = "returned",
                      call[h].req.op = "report", call[h].reply.kind = "Ok"
               PROVE  Truthful(call[h].data, Room(call[h].req.len, call[h].req.eds), views[h])
    BY DEF ReportTruthful, Truthful
  <2>1. call[h].req.len < U32
    BY ReservationsAssumption DEF IInv, Asked
  <2> QED BY <2>1 DEF IInv, ReportOK
<1> QED BY <1>1, Inductive, PTL
=============================================================================
