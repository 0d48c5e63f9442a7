---------------------------- MODULE Reservations ----------------------------
(***************************************************************************)
(* The reservation commands (reservations.rs): several hosts share a       *)
(* namespace, register keys with it and compete for a reservation.         *)
(*                                                                         *)
(* The commands check nothing but the buffer of a report: each opens the   *)
(* device, marshals keys, type and action, and blocks in the ioctl while   *)
(* other hosts preempt, clear and register.  A host acts on what it was    *)
(* told, so the question is when the answer of execute() may be believed.  *)
(***************************************************************************)
EXTENDS Ioctl, FiniteSets

CONSTANTS
  Host,        \* hosts, each a process with a Namespace handle
  Key,         \* reservation keys
  NoKey,       \* the key 0, which registers nobody
  NoHost,      \* nobody holds the reservation
  None,        \* no claim
  StatusSize,  \* size_of::<nvme_resv_status>(), 64
  VecLen,      \* 4096: the buffer of execute_to_vec
  EntrySize,   \* bytes per registrant: 24, or 64 in the extended structure
  HeaderSize,  \* bytes before the first registrant: 24, or 64
  U32,         \* 2^32: the values of the 32-bit len field
  Request      \* the calls hosts make, see RequestType

Types ==
  {"WriteExclusive", "ExclusiveAccess", "WriteExclusiveRegistrantsOnly",
   "ExclusiveAccessRegistrantsOnly", "WriteExclusiveAllRegistrants",
   "ExclusiveAccessAllRegistrants"}

Actions ==
  [acquire  |-> {"Acquire", "Preempt", "PreemptAndAbort"},
   register |-> {"Register", "Unregister", "Replace"},
   release  |-> {"Release", "Clear"},
   report   |-> {"Report"}]

(* `len` is the length of a report's buffer, -1 if it has none.            *)
RequestType ==
  [op : DOMAIN Actions, action : UNION { Actions[op] : op \in DOMAIN Actions },
   crkey : Key \cup {NoKey}, nrkey : Key \cup {NoKey}, rtype : Types, iekey : BOOLEAN,
   cptpl : {"NoChange", "Clear", "Persist"}, eds : BOOLEAN, len : Int]

ASSUME ReservationsAssumption ==
  /\ NoKey \notin Key /\ NoHost \notin Host /\ None \notin Key \cup Types
  /\ IsFiniteSet(Host)
  /\ StatusSize \in Nat /\ VecLen \in Nat /\ VecLen >= StatusSize
  /\ EntrySize \in [BOOLEAN -> Nat \ {0}] /\ HeaderSize \in [BOOLEAN -> Nat]
  /\ \A eds \in BOOLEAN : HeaderSize[eds] <= StatusSize
  /\ U32 \in Nat /\ VecLen < U32
  /\ Request \subseteq RequestType
  /\ \A req \in Request : req.action \in Actions[req.op]

VARIABLES
  reg,     \* namespace: the key of each host
  holder,  \* namespace: who holds the reservation
  rtype,   \* namespace: its type on the wire, 0 if there is none
  ptpl,    \* namespace: whether all this survives a power loss
  persist, \* history: what the hosts last asked it to do at a power loss
  fd,      \* libnvme: the hosts whose descriptor is open
  call,    \* per host, the execute() in progress or last returned
  claim,   \* history: the key and the type each host was told it has
  views    \* history: per host, what its report could have seen so far

device == <<reg, holder, rtype, ptpl, persist>>
vars == <<device, fd, call, claim, views>>

----------------------------------------------------------------------------
(* Encodings.                                                              *)

(* Mutant: discriminants that start at 0.                                  *)
as_raw_ZeroBased(t) ==
  CASE t = "WriteExclusive" -> 0 [] t = "ExclusiveAccess" -> 1
    [] t = "WriteExclusiveRegistrantsOnly" -> 2
    [] t = "ExclusiveAccessRegistrantsOnly" -> 3
    [] t = "WriteExclusiveAllRegistrants" -> 4
    [] t = "ExclusiveAccessAllRegistrants" -> 5

as_raw(t) ==
  CASE t = "WriteExclusive" -> 1 [] t = "ExclusiveAccess" -> 2
    [] t = "WriteExclusiveRegistrantsOnly" -> 3
    [] t = "ExclusiveAccessRegistrantsOnly" -> 4
    [] t = "WriteExclusiveAllRegistrants" -> 5
    [] t = "ExclusiveAccessAllRegistrants" -> 6

AllRegistrants == {5, 6}

Acquire_action_raw(a) ==
  CASE a = "Acquire" -> 0 [] a = "Preempt" -> 1 [] a = "PreemptAndAbort" -> 2

Register_action_raw(a) ==
  CASE a = "Register" -> 0 [] a = "Unregister" -> 1 [] a = "Replace" -> 2

Release_action_raw(a) == CASE a = "Release" -> 0 [] a = "Clear" -> 1

Ptpl_raw(p) == CASE p = "NoChange" -> 0 [] p = "Clear" -> 2 [] p = "Persist" -> 3

NoCommand == [opc |-> "none", act |-> 0, crkey |-> NoKey, nrkey |-> NoKey, rtype |-> 0,
              iekey |-> FALSE, cptpl |-> 0, eds |-> FALSE, len |-> 0]

acquire_args(req) ==
  [NoCommand EXCEPT !.opc = "acquire", !.act = Acquire_action_raw(req.action),
                    !.crkey = req.crkey, !.nrkey = req.nrkey,
                    !.rtype = as_raw(req.rtype), !.iekey = req.iekey]

(* Mutant: key() sets the new key too.                                     *)
register_args_OneKey(req) ==
  [NoCommand EXCEPT !.opc = "register", !.act = Register_action_raw(req.action),
                    !.crkey = req.crkey,
                    !.nrkey = IF req.crkey = NoKey THEN req.nrkey ELSE req.crkey,
                    !.cptpl = Ptpl_raw(req.cptpl), !.iekey = req.iekey]

register_args(req) ==
  [NoCommand EXCEPT !.opc = "register", !.act = Register_action_raw(req.action),
                    !.crkey = req.crkey, !.nrkey = req.nrkey,
                    !.cptpl = Ptpl_raw(req.cptpl), !.iekey = req.iekey]

release_args(req) ==
  [NoCommand EXCEPT !.opc = "release", !.act = Release_action_raw(req.action),
                    !.crkey = req.crkey, !.rtype = as_raw(req.rtype), !.iekey = req.iekey]

(* Mutant: a buffer of any size will do.                                   *)
report_checks_AnySize(req) == req.len # -1

report_checks(req) == req.len # -1 /\ req.len >= StatusSize

report_args(req) ==
  [NoCommand EXCEPT !.opc = "report", !.len = req.len % U32, !.eds = req.eds]

----------------------------------------------------------------------------
(* History: what a host was told.                                          *)

NoClaim == [key |-> None, type |-> None]

HoldsIn(h, r, hd, t) == t # 0 /\ (IF t \in AllRegistrants THEN r[h] # NoKey ELSE hd = h)

Holds(h) == HoldsIn(h, reg, holder, rtype)

(* The hosts whom a step of the namespace costs the key, or the            *)
(* reservation.                                                            *)
LosesKey(h) == reg[h] # NoKey /\ reg'[h] = NoKey
LosesHold(h) == Holds(h) /\ ~HoldsIn(h, reg', holder', rtype')

(* What the hosts of S lose by a step that is not their own is no longer   *)
(* their claim, and a call of theirs in progress will claim nothing.       *)
Depose(S) ==
  claim' = [h \in Host |->
    [key  |-> IF h \in S /\ LosesKey(h) THEN None ELSE claim[h].key,
     type |-> IF h \in S /\ LosesHold(h) THEN None ELSE claim[h].type]]

Deposed(h) == LosesKey(h) \/ LosesHold(h)

(* A host may expect to lose by a power loss what nobody asked to persist. *)
Exposed == IF persist THEN {} ELSE Host

Watch ==
  views' = [h \in Host |->
    IF call'[h].st = "returned" THEN views[h]
    ELSE IF call'[h].req.op # "report" THEN {}
    ELSE (IF call[h].st = "returned" THEN {} ELSE views[h]) \cup {reg'}]

----------------------------------------------------------------------------
(* The host side.                                                          *)

NoReport == [count |-> -1, shows |-> {}]

Idle == [st |-> "returned", req |-> [op |-> "none"], cmd |-> NoCommand, ret |-> 0,
         data |-> NoReport, sound |-> TRUE, reply |-> OsError]

Init ==
  /\ reg = [h \in Host |-> NoKey]
  /\ holder = NoHost /\ rtype = 0
  /\ ptpl = FALSE /\ persist = FALSE
  /\ fd = {}
  /\ call = [h \in Host |-> Idle]
  /\ claim = [h \in Host |-> NoClaim]
  /\ views = [h \in Host |-> {}]

ReturnEarly(h, reply) ==
  /\ call' = [call EXCEPT ![h] = [Idle EXCEPT !.reply = reply]]
  /\ UNCHANGED <<device, fd, claim>>
  /\ Watch

(* A host that asks for a change no longer claims what it asks to change.  *)
Reconsidered(h, req) ==
  CASE req.op = "register" \/ req.action = "Clear" -> NoClaim
    [] req.op = "report" -> claim[h]
    [] OTHER -> [claim[h] EXCEPT !.type = None]

(* Mutant: the -1 of an open that failed goes to the ioctl.                *)
Issue_Unopened(h, req, cmd) ==
  /\ call' = [call EXCEPT ![h] = [Idle EXCEPT !.st = "inflight", !.req = req, !.cmd = cmd]]
  /\ claim' = [claim EXCEPT ![h] = Reconsidered(h, req)]
  /\ UNCHANGED <<device, fd>>
  /\ Watch

(* ns_fd, then the ioctl.                                                  *)
Issue(h, req, cmd) ==
  \/ /\ h \notin fd
     /\ ReturnEarly(h, OsError)
  \/ /\ fd' = fd \cup {h}
     /\ call' = [call EXCEPT ![h] = [Idle EXCEPT !.st = "inflight", !.req = req, !.cmd = cmd]]
     /\ claim' = [claim EXCEPT ![h] = Reconsidered(h, req)]
     /\ UNCHANGED device
     /\ Watch

Acquire(h, req) ==
  /\ call[h].st = "returned" /\ req.op = "acquire"
  /\ Issue(h, req, acquire_args(req))

Register(h, req) ==
  /\ call[h].st = "returned" /\ req.op = "register"
  /\ Issue(h, req, register_args(req))

Release(h, req) ==
  /\ call[h].st = "returned" /\ req.op = "release"
  /\ Issue(h, req, release_args(req))

Report(h, req) ==
  /\ call[h].st = "returned" /\ req.op = "report"
  /\ \/ ~report_checks(req) /\ ReturnEarly(h, InvalidArgument)
     \/ report_checks(req) /\ Issue(h, req, report_args(req))

(* ReservationReport::execute_to_vec replaces the buffer.                  *)
execute_to_vec(h, req) == Report(h, [req EXCEPT !.len = VecLen])

(* What an Ok entitles the host to claim.                                  *)
Claimed(h) ==
  LET req == call[h].req IN
  CASE req.op = "register" /\ req.action # "Unregister" -> [claim[h] EXCEPT !.key = req.nrkey]
    [] req.op = "acquire" /\ req.action = "Acquire" -> [claim[h] EXCEPT !.type = req.rtype]
    [] OTHER -> claim[h]

(* The answer of a report is kept with its request, for ReportTruthful.    *)
Return(h) ==
  /\ call[h].st = "completed"
  /\ call' = [call EXCEPT ![h] =
       [Idle EXCEPT !.reply = check_ret(call[h].ret), !.data = call[h].data,
                    !.req = IF call[h].req.op = "report" THEN call[h].req ELSE @]]
  /\ claim' = [claim EXCEPT ![h] =
       IF check_ret(call[h].ret).kind = "Ok" /\ call[h].sound THEN Claimed(h) ELSE @]
  /\ UNCHANGED <<device, fd>>
  /\ Watch

----------------------------------------------------------------------------
(* The namespace, in terms of what is on the wire.                         *)

Conflict == 131

(* The types the namespace knows, in the order of their codes 1 .. 6.      *)
TypeName ==
  <<"WriteExclusive", "ExclusiveAccess", "WriteExclusiveRegistrantsOnly",
    "ExclusiveAccessRegistrantsOnly", "WriteExclusiveAllRegistrants",
    "ExclusiveAccessAllRegistrants">>

(* The command of h completes with ret.                                    *)
Complete(h, ret) ==
  /\ call' = [g \in Host |->
       IF g = h THEN [call[h] EXCEPT !.st = "completed", !.ret = ret]
       ELSE [call[g] EXCEPT !.sound = @ /\ ~Deposed(g)]]
  /\ Depose(Host \ {h})
  /\ UNCHANGED fd

Reject(h, ret) == UNCHANGED device /\ Complete(h, ret)

Serving(h, opc) == call[h].st = "inflight" /\ call[h].cmd.opc = opc

(* A host must be registered and show its key, unless it asks not to.      *)
Authorised(h) == reg[h] # NoKey /\ (call[h].cmd.iekey \/ call[h].cmd.crkey = reg[h])

(* The reservation after the hosts with keys r remain: one whose holder    *)
(* has left, or whose last registrant has, is released.                    *)
Remains(r) ==
  /\ reg' = r
  /\ LET kept == rtype # 0 /\ (IF rtype \in AllRegistrants
                               THEN \E g \in Host : r[g] # NoKey ELSE r[holder] # NoKey)
     IN  /\ holder' = IF kept THEN holder ELSE NoHost
         /\ rtype' = IF kept THEN rtype ELSE 0

NewPtpl(cmd) == CASE cmd.cptpl = 2 -> FALSE [] cmd.cptpl = 3 -> TRUE [] OTHER -> ptpl

(* A registration of h that succeeds also sets the persistence.            *)
Persist(h) ==
  /\ ptpl' = NewPtpl(call[h].cmd)
  /\ persist' = CASE call[h].req.cptpl = "Clear" -> FALSE
                  [] call[h].req.cptpl = "Persist" -> TRUE
                  [] OTHER -> persist

ServeRegister(h) ==
  LET cmd == call[h].cmd IN
  /\ Serving(h, "register")
  /\ \/ /\ cmd.act = 0 /\ cmd.nrkey # NoKey /\ reg[h] \in {NoKey, cmd.nrkey}
        /\ Remains([reg EXCEPT ![h] = cmd.nrkey])
        /\ Persist(h)
        /\ Complete(h, Success)
     \/ /\ cmd.act = 1 /\ Authorised(h)
        /\ Remains([reg EXCEPT ![h] = NoKey])
        /\ Persist(h)
        /\ Complete(h, Success)
     \/ /\ cmd.act = 2 /\ Authorised(h) /\ cmd.nrkey # NoKey
        /\ Remains([reg EXCEPT ![h] = cmd.nrkey])
        /\ Persist(h)
        /\ Complete(h, Success)
     \/ /\ \/ cmd.act = 0 /\ (cmd.nrkey = NoKey \/ reg[h] \notin {NoKey, cmd.nrkey})
           \/ cmd.act = 1 /\ ~Authorised(h)
           \/ cmd.act = 2 /\ (~Authorised(h) \/ cmd.nrkey = NoKey)
        /\ Reject(h, Conflict)
  /\ Watch

(* A preemption removes the registrants with the given key and, if the     *)
(* holder is one of them, hands over the reservation.                      *)
Victims(h, cmd) == { g \in Host \ {h} : reg[g] = cmd.nrkey /\ reg[g] # NoKey }

ServeAcquire(h) ==
  LET cmd == call[h].cmd
      V == Victims(h, cmd)
  IN
  /\ Serving(h, "acquire")
  /\ \/ ~Authorised(h) /\ Reject(h, Conflict)
     \/ cmd.rtype \notin 1 .. 6 /\ Reject(h, InvalidField)
     \/ /\ Authorised(h) /\ cmd.rtype \in 1 .. 6 /\ cmd.act = 0
        /\ rtype = 0 \/ (Holds(h) /\ rtype = cmd.rtype)
        /\ holder' = h /\ rtype' = cmd.rtype
        /\ UNCHANGED <<reg, ptpl, persist>>
        /\ Complete(h, Success)
     \/ /\ Authorised(h) /\ cmd.act = 0
        /\ rtype # 0 /\ ~(Holds(h) /\ rtype = cmd.rtype)
        /\ Reject(h, Conflict)
     \/ /\ Authorised(h) /\ cmd.rtype \in 1 .. 6 /\ cmd.act \in {1, 2}
        /\ \/ V = {} /\ Reject(h, Conflict)
           \/ /\ V # {}
              /\ reg' = [g \in Host |-> IF g \in V THEN NoKey ELSE reg[g]]
              /\ IF rtype # 0 /\ rtype \notin AllRegistrants /\ holder \in V
                 THEN holder' = h /\ rtype' = cmd.rtype
                 ELSE UNCHANGED <<holder, rtype>>
              /\ UNCHANGED <<ptpl, persist>>
              /\ Complete(h, Success)
  /\ Watch

ServeRelease(h) ==
  LET cmd == call[h].cmd IN
  /\ Serving(h, "release")
  /\ \/ ~Authorised(h) /\ Reject(h, Conflict)
     \/ Authorised(h) /\ cmd.act = 0 /\ ~Holds(h) /\ Reject(h, Success)
     \/ /\ Authorised(h) /\ cmd.act = 0 /\ Holds(h) /\ cmd.rtype # rtype
        /\ Reject(h, InvalidField)
     \/ /\ Authorised(h) /\ cmd.act = 0 /\ Holds(h) /\ cmd.rtype = rtype
        /\ holder' = NoHost /\ rtype' = 0
        /\ UNCHANGED <<reg, ptpl, persist>>
        /\ Complete(h, Success)
     \/ /\ Authorised(h) /\ cmd.act = 1
        /\ reg' = [g \in Host |-> NoKey]
        /\ holder' = NoHost /\ rtype' = 0
        /\ UNCHANGED <<ptpl, persist>>
        /\ Complete(h, Success)
  /\ Watch

Registrants(r) == { h \in Host : r[h] # NoKey }

Room(len, eds) == IF len < HeaderSize[eds] THEN 0 ELSE (len - HeaderSize[eds]) \div EntrySize[eds]

(* The header with the number of registrants, and as many of their entries *)
(* as fit the length on the wire.                                          *)
ServeReport(h) ==
  LET cmd == call[h].cmd
      R == Registrants(reg)
      n == IF Cardinality(R) <= Room(cmd.len, cmd.eds) THEN Cardinality(R)
           ELSE Room(cmd.len, cmd.eds)
  IN  /\ Serving(h, "report")
      /\ \E S \in SUBSET R :
           /\ Cardinality(S) = n
           /\ call' = [call EXCEPT ![h].st = "completed",
                ![h].data = [count |-> IF cmd.len < HeaderSize[cmd.eds] THEN -1
                                       ELSE Cardinality(R),
                             shows |-> { <<g, reg[g]>> : g \in S }]]
      /\ UNCHANGED <<device, fd, claim>>
      /\ Watch

Timeout(h) ==
  /\ call[h].st \in {"inflight", "completed"}
  /\ call' = [call EXCEPT ![h].st = "completed", ![h].ret = -1, ![h].data = NoReport]
  /\ UNCHANGED <<device, fd, claim>>
  /\ Watch

PowerLoss ==
  /\ IF ptpl THEN UNCHANGED device
     ELSE /\ reg' = [h \in Host |-> NoKey]
          /\ holder' = NoHost /\ rtype' = 0
          /\ UNCHANGED <<ptpl, persist>>
  /\ call' = [h \in Host |->
       IF call[h].st = "inflight" THEN [call[h] EXCEPT !.st = "completed", !.ret = -1]
       ELSE [call[h] EXCEPT !.sound = @ /\ ~(h \in Exposed /\ Deposed(h))]]
  /\ Depose(Exposed)
  /\ UNCHANGED fd
  /\ Watch

----------------------------------------------------------------------------
Execute(h, req) ==
  \/ Acquire(h, req) \/ Register(h, req) \/ Release(h, req)
  \/ Report(h, req) \/ execute_to_vec(h, req)

Serve(h) == ServeAcquire(h) \/ ServeRegister(h) \/ ServeRelease(h) \/ ServeReport(h)

Next ==
  \/ \E h \in Host :
       \/ \E req \in Request : Execute(h, req)
       \/ Serve(h) \/ Timeout(h) \/ Return(h)
  \/ PowerLoss

Spec == Init /\ [][Next]_vars

----------------------------------------------------------------------------
(* Properties.                                                             *)

(* A host whose Acquire returned Ok holds the reservation, with the type   *)
(* it asked for, until it asks for a change, or loses it to another host,  *)
(* or to a power loss while the last registration to say so did not ask    *)
(* for persistence (reservations.rs: ReservationAcquire::execute, Ptpl).   *)
HolderInformed ==
  \A h \in Host : claim[h].type # None => Holds(h) /\ TypeName[rtype] = claim[h].type

(* A host whose Register or Replace returned Ok is registered with the new *)
(* key, until it asks for a change, or another host removes it, or a power *)
(* loss does and no persistence was asked for                              *)
(* (ReservationRegister::execute).                                         *)
RegistrantInformed ==
  \A h \in Host : claim[h].key # None => reg[h] = claim[h].key

(* Two hosts that were told they hold the reservation, and have not lost   *)
(* it, hold it as all registrants do: no two hosts believe in an exclusive *)
(* reservation (reservations.rs: ReservationType).                         *)
ClaimsCompatible ==
  \A g, h \in Host : g # h /\ claim[g].type # None /\ claim[h].type # None =>
    /\ claim[g].type = claim[h].type
    /\ claim[g].type \in {"WriteExclusiveAllRegistrants", "ExclusiveAccessAllRegistrants"}

(* A report that returns Ok has its whole header in the buffer, shows      *)
(* registrants of one moment of the call, and omits some only for lack of  *)
(* room (ReservationReport::execute, execute_to_vec).                      *)
ReportTruthful ==
  \A h \in Host :
    /\ call[h].st = "returned" /\ call[h].req.op = "report" /\ call[h].reply.kind = "Ok"
    => LET data == call[h].data
           room == Room(call[h].req.len, call[h].req.eds)
       IN  \E r \in views[h] :
             /\ data.count = Cardinality(Registrants(r))
             /\ \A e \in data.shows : r[e[1]] = e[2] /\ e[2] # NoKey
             /\ data.count <= room => Cardinality(data.shows) = data.count
             /\ data.count > room => Cardinality(data.shows) = room

(* Every variable has its type; a type is on record exactly while there is *)
(* a reservation, whoever holds it is registered, and the namespace        *)
(* persists when it was asked to.                                          *)
TypeOK ==
  /\ reg \in [Host -> Key \cup {NoKey}]
  /\ holder \in Host \cup {NoHost} /\ rtype \in 0 .. 6
  /\ (rtype = 0) <=> (holder = NoHost)
  /\ rtype # 0 => \E h \in Host : reg[h] # NoKey /\ Holds(h)
  /\ ptpl \in BOOLEAN /\ persist = ptpl /\ fd \subseteq Host
  /\ claim \in [Host -> [key : Key \cup {NoKey, None}, type : Types \cup {None}]]
  /\ views \in [Host -> SUBSET [Host -> Key \cup {NoKey}]]
  /\ \A h \in Host : call[h].st # "returned" => h \in fd /\ call[h].req \in RequestType
=============================================================================
