-------------------------------- MODULE Zns --------------------------------
(***************************************************************************)
(* Zone Append, Zone Management Send and Zone Management Receive (zns.rs)  *)
(* by several callers on the zones of one namespace.  The controller picks *)
(* where appended blocks go; it opens, closes and wears out zones by       *)
(* itself.                                                                 *)
(***************************************************************************)
EXTENDS IoctlHelpers, Ioctl, Sequences, FiniteSets

CONSTANTS
  Caller,
  Request,     \* Request[c]: what c asks for
  ZoneSize,    \* blocks from the start of a zone to that of the next one
  ZoneCap,     \* blocks that can be written to it
  Zones,       \* number of zones
  NlbMax,      \* 65536, as many blocks as the 0-based field of 16 bits counts
  LbaSize,     \* bytes in a block
  ExtSize,     \* bytes in a zone descriptor extension
  MaxAppends,  \* bound on the appends
  None

ASSUME ZnsAssumption ==
  /\ ZoneSize \in Nat \ {0} /\ ZoneCap \in 1 .. ZoneSize
  /\ Zones \in Nat \ {0} /\ NlbMax \in Nat \ {0} /\ LbaSize \in Nat \ {0}
  /\ ExtSize \in Nat /\ MaxAppends \in Nat

ZoneSendAction ==
  [Close |-> 1, Finish |-> 2, Open |-> 3, Reset |-> 4, Offline |-> 5,
   SetDescriptorExtension |-> 16, ZrwaFlush |-> 17]

ZoneRecvAction == [Report |-> 0, ExtendedReport |-> 1]

ZoneReportFilter ==
  [All |-> 0, Empty |-> 1, ImplicitlyOpened |-> 2, ExplicitlyOpened |-> 3,
   Closed |-> 4, Full |-> 5, ReadOnly |-> 6, Offline |-> 7]

(* enum nvme_zns_zs.                                                       *)
ZoneState ==
  [Empty |-> 1, ImplicitlyOpened |-> 2, ExplicitlyOpened |-> 3, Closed |-> 4,
   ReadOnly |-> 13, Full |-> 14, Offline |-> 15]

ZnsRequest ==
  [op : {"append"}, zslba : Nat, nlb : Nat, len : Nat]
  \cup [op : {"send"}, slba : Nat, action : DOMAIN ZoneSendAction, select_all : BOOLEAN]
  \cup [op : {"recv"}, slba : Nat, action : DOMAIN ZoneRecvAction,
        filter : DOMAIN ZoneReportFilter, partial : BOOLEAN, len : {None} \cup Nat]

ASSUME RequestAssumption == \A c \in Caller : Request[c] \subseteq ZnsRequest

nvme_zns_desc    == 4 + 4 + 3 * 8 + 32
nvme_zone_report == 8 + 56

VARIABLES
  zone,     \* zone[z]: its state, and the append each written block is of
  phase,    \* phase[c] \in {"idle", "sends", "done"}
  call,     \* call[c]: the request of c, what was sent, and the answer
  kept,     \* kept[c]: no zone that c was told about has lost data since
  appends   \* number of appends so far
vars == <<zone, phase, call, kept, appends>>

Zone     == 0 .. Zones - 1
Start(z) == z * ZoneSize

-----------------------------------------------------------------------------
(* What the builders check and pass on.                                    *)

append_checks(r) ==
  /\ r.nlb # 0 /\ r.nlb <= NlbMax
  /\ r.len = r.nlb * LbaSize

(* Mutant: passes the count of blocks on as it is.                         *)
append_args_OneBased(r) ==
  [zslba |-> r.zslba, nlb |-> r.nlb % NlbMax, data_len |-> r.len % U32]

append_args(r) ==
  [zslba |-> r.zslba, nlb |-> (r.nlb - 1) % NlbMax, data_len |-> r.len % U32]

(* Mutant: every action is for all zones.                                  *)
send_args_SelectsAll(r) ==
  [slba |-> r.slba, zsa |-> ZoneSendAction[r.action], select_all |-> TRUE]

send_args(r) ==
  [slba |-> r.slba, zsa |-> ZoneSendAction[r.action],
   select_all |-> r.select_all]

(* Mutant: asks for the number of all zones where the partial one was      *)
(* asked for.                                                              *)
recv_args_NeverPartial(r) ==
  [nvme_zns_mgmt_recv_args EXCEPT
     !.slba = r.slba, !.nsid = 1, !.zra = ZoneRecvAction[r.action],
     !.data_len = r.len % U32, !.zrasf = ZoneReportFilter[r.filter]]

recv_args(r) ==
  [nvme_zns_mgmt_recv_args EXCEPT
     !.slba = r.slba, !.nsid = 1, !.zra = ZoneRecvAction[r.action],
     !.data_len = r.len % U32, !.zrasf = ZoneReportFilter[r.filter],
     !.zras_feat = r.partial]

(* What execute refuses before any command; a receive needs a buffer, of   *)
(* whatever length (None is no buffer).                                    *)
Refused(r) ==
  \/ r.op = "append" /\ ~append_checks(r)
  \/ r.op = "recv" /\ r.len = None

-----------------------------------------------------------------------------
(* The controller (external).                                              *)

Opened   == {ZoneState.ImplicitlyOpened, ZoneState.ExplicitlyOpened}
Writable == Opened \cup {ZoneState.Empty, ZoneState.Closed}

(* The blocks of append n behind the others of the zone.                   *)
Appended(zn, n, count) ==
  LET blocks == zn.blocks \o [i \in 1 .. count |-> n] IN
  [blocks |-> blocks,
   zs |-> IF Len(blocks) = ZoneCap THEN ZoneState.Full
          ELSE IF zn.zs \in Opened THEN zn.zs ELSE ZoneState.ImplicitlyOpened]

(* States an action applies to, for one zone and for all zones, and what   *)
(* it makes of a zone.  No zone has a random write area to flush.          *)
From(zsa, all) ==
  CASE zsa = ZoneSendAction.Close  -> Opened
    [] zsa = ZoneSendAction.Finish ->
         Opened \cup {ZoneState.Closed} \cup (IF all THEN {} ELSE {ZoneState.Empty})
    [] zsa = ZoneSendAction.Open   ->
         {ZoneState.Closed} \cup
         (IF all THEN {} ELSE {ZoneState.Empty, ZoneState.ImplicitlyOpened})
    [] zsa = ZoneSendAction.Reset  -> Opened \cup {ZoneState.Closed, ZoneState.Full}
    [] zsa = ZoneSendAction.Offline -> {ZoneState.ReadOnly}
    [] zsa = ZoneSendAction.SetDescriptorExtension ->
         IF all THEN {} ELSE {ZoneState.Empty}
    [] OTHER -> {}

Acted(zsa, zn) ==
  CASE zsa = ZoneSendAction.Close ->
         [zn EXCEPT !.zs = IF zn.blocks = <<>> THEN ZoneState.Empty ELSE ZoneState.Closed]
    [] zsa = ZoneSendAction.Finish  -> [zn EXCEPT !.zs = ZoneState.Full]
    [] zsa = ZoneSendAction.Open    -> [zn EXCEPT !.zs = ZoneState.ExplicitlyOpened]
    [] zsa = ZoneSendAction.Reset   -> [zs |-> ZoneState.Empty, blocks |-> <<>>]
    [] zsa = ZoneSendAction.Offline -> [zs |-> ZoneState.Offline, blocks |-> <<>>]
    [] zsa = ZoneSendAction.SetDescriptorExtension ->
         [zn EXCEPT !.zs = ZoneState.Closed]

Targets(a) ==
  { z \in Zone : (a.select_all \/ Start(z) = a.slba)
                   /\ zone[z].zs \in From(a.zsa, a.select_all) }

(* Zones listed by a report: from the one of slba on, filtered by state.   *)
Listed(a) ==
  { z \in Zone :
      /\ Start(z) + ZoneSize > a.slba
      /\ a.zrasf = ZoneReportFilter.All \/
           \E f \in DOMAIN ZoneState :
             ZoneReportFilter[f] = a.zrasf /\ ZoneState[f] = zone[z].zs }
Fits(len, zra) ==
  LET entry == IF zra = ZoneRecvAction.ExtendedReport
               THEN nvme_zns_desc + ExtSize ELSE nvme_zns_desc
  IN  IF len < nvme_zone_report THEN 0 ELSE (len - nvme_zone_report) \div entry

FirstOf(S, n) == { z \in S : Cardinality({ y \in S : y < z }) < n }

(* nr_zones and the zones described in the buffer.                         *)
Report(a) ==
  LET described == FirstOf(Listed(a), Fits(a.data_len, a.zra)) IN
  [described |-> described,
   nr_zones  |-> Cardinality(IF a.zras_feat THEN described ELSE Listed(a))]

(* The zones after a command, and what it answers.                         *)
AppendResults(a) ==
  { [zone   |-> [zone EXCEPT ![z] = Appended(@, appends + 1, a.nlb + 1)],
     answer |-> Start(z) + Len(zone[z].blocks)] :
      z \in { y \in Zone : /\ Start(y) = a.zslba
                           /\ zone[y].zs \in Writable
                           /\ Len(zone[y].blocks) + a.nlb + 1 <= ZoneCap } }
SendResults(a) ==
  IF Targets(a) = {} /\ ~a.select_all THEN {}
  ELSE { [zone |-> [z \in Zone |-> IF z \in Targets(a) THEN Acted(a.zsa, zone[z])
                                                       ELSE zone[z]],
          answer |-> 0] }
RecvResults(a) == { [zone |-> zone, answer |-> Report(a)] }

Results(r) ==
  CASE r.op = "append" -> AppendResults(append_args(r))
    [] r.op = "send"   -> SendResults(send_args(r))
    [] r.op = "recv"   -> RecvResults(recv_args(r))

-----------------------------------------------------------------------------
Init ==
  /\ zone = [z \in Zone |-> [zs |-> ZoneState.Empty, blocks |-> <<>>]]
  /\ phase = [c \in Caller |-> "idle"]
  /\ call = [c \in Caller |-> None]
  /\ kept = [c \in Caller |-> FALSE]
  /\ appends = 0

Grows(old, new) == Len(old) <= Len(new) /\ SubSeq(new, 1, Len(old)) = old

(* Whether what c was told about the zones still holds when they become    *)
(* new: blocks that were appended stay until their zone loses them, a      *)
(* report is outdated by any change.                                       *)
Holds(c, new) ==
  IF call[c].request.op = "append"
  THEN LET z == call[c].answer \div ZoneSize IN Grows(zone[z].blocks, new[z].blocks)
  ELSE new = zone
Keeps(new) == [c \in Caller |-> kept[c] /\ Holds(c, new)]

Starts(c, r, next, reply) ==
  /\ phase[c] = "idle"
  /\ phase' = [phase EXCEPT ![c] = next]
  /\ call' = [call EXCEPT ![c] = [request |-> r, n |-> 0, answer |-> None,
                                  reply |-> reply]]
  /\ UNCHANGED <<zone, kept, appends>>

Begin(c) ==
  \E r \in Request[c] : ~Refused(r) /\ Starts(c, r, "sends", check_ret(0))

(* Refused by execute, or the namespace cannot be opened.                  *)
Refuse(c) ==
  \E r \in Request[c] :
    Starts(c, r, "done", IF Refused(r) THEN InvalidArgument ELSE OsError)

Counts(r) == r.op = "append" => appends < MaxAppends

Take(c) ==
  LET r == call[c].request IN
  /\ phase[c] = "sends" /\ Counts(r)
  /\ phase' = [phase EXCEPT ![c] = "done"]
  /\ \E res \in Results(r) :
       /\ zone' = res.zone
       /\ call' = [call EXCEPT ![c].answer = res.answer, ![c].n = appends + 1]
       /\ kept' = [Keeps(res.zone) EXCEPT ![c] = TRUE]
  /\ appends' = IF r.op = "append" THEN appends + 1 ELSE appends

Fails(c, ret) ==
  /\ phase[c] = "sends"
  /\ phase' = [phase EXCEPT ![c] = "done"]
  /\ call' = [call EXCEPT ![c].reply = check_ret(ret)]

(* Any status code: the zone is full, at its boundary, in another state.   *)
Reject(c) == Fails(c, InvalidField) /\ UNCHANGED <<zone, kept, appends>>

(* Timed out, with or without effect.                                      *)
TimeOut(c) ==
  LET r == call[c].request IN
  /\ Fails(c, -1)
  /\ \/ UNCHANGED <<zone, kept, appends>>
     \/ /\ Counts(r)
        /\ \E res \in Results(r) : zone' = res.zone /\ kept' = Keeps(res.zone)
        /\ appends' = IF r.op = "append" THEN appends + 1 ELSE appends

Return(c) ==
  /\ phase[c] = "done"
  /\ phase' = [phase EXCEPT ![c] = "idle"]
  /\ call' = [call EXCEPT ![c] = None]
  /\ kept' = [kept EXCEPT ![c] = FALSE]
  /\ UNCHANGED <<zone, appends>>

(* The controller closes a zone it opened by itself, finishes one, or      *)
(* finds that it cannot write to it any more.                              *)
Wear(z) ==
  /\ \E zs \in {ZoneState.Closed, ZoneState.Full, ZoneState.ReadOnly} :
       /\ zs = ZoneState.Closed => zone[z].zs = ZoneState.ImplicitlyOpened
       /\ zone[z].zs \in Writable
       /\ zone' = [zone EXCEPT ![z].zs = zs]
  /\ kept' = Keeps(zone')
  /\ UNCHANGED <<phase, call, appends>>

Next ==
  \/ \E c \in Caller :
       Begin(c) \/ Refuse(c) \/ Take(c) \/ Reject(c) \/ TimeOut(c) \/ Return(c)
  \/ \E z \in Zone : Wear(z)

Spec == Init /\ [][Next]_vars

-----------------------------------------------------------------------------
TypeOK ==
  /\ \A z \in Zone : /\ zone[z].zs \in { ZoneState[s] : s \in DOMAIN ZoneState }
                     /\ zone[z].blocks \in Seq(1 .. MaxAppends)
                     /\ Len(zone[z].blocks) <= ZoneCap
  /\ phase \in [Caller -> {"idle", "sends", "done"}]
  /\ kept \in [Caller -> BOOLEAN]
  /\ appends \in 0 .. MaxAppends

Answered(c, op) ==
  /\ phase[c] = "done" /\ call[c].request.op = op
  /\ call[c].reply = check_ret(0) /\ kept[c]

(* The blocks of an append that returned Ok (ZnsAppend::execute) are those *)
(* from the address that was returned on, as many as asked for, in the     *)
(* zone that was asked for, whatever other callers append, until the zone  *)
(* is reset or put offline.                                                *)
AppendsStay ==
  \A c \in Caller : Answered(c, "append") =>
    LET r     == call[c].request
        z     == call[c].answer \div ZoneSize
        first == call[c].answer % ZoneSize
    IN  /\ Start(z) = r.zslba
        /\ { i \in DOMAIN zone[z].blocks : zone[z].blocks[i] = call[c].n }
             = first + 1 .. first + r.nlb

(* A report (ZnsMgmtRecv::execute) describes zones that were asked for and *)
(* leaves one out only for want of room; with partial it counts the        *)
(* descriptors in the buffer, without all zones asked for.  A buffer of    *)
(* 2^32 bytes or more is taken for a shorter one.                          *)
ReportTruthful ==
  \A c \in Caller : Answered(c, "recv") =>
    LET r         == call[c].request
        wanted    == { z \in Zone :
                         /\ Start(z) + ZoneSize > r.slba
                         /\ r.filter # "All" => zone[z].zs = ZoneState[r.filter] }
        described == call[c].answer.described
    IN  /\ described \subseteq wanted
        /\ described # wanted =>
             Cardinality(wanted) > Fits(r.len, ZoneRecvAction[r.action]) \/ r.len >= U32
        /\ call[c].answer.nr_zones =
             Cardinality(IF r.partial THEN described ELSE wanted)

(* Data that was written is lost only by the reset of its zone, or by      *)
(* taking a zone offline that cannot be written to, and only where a       *)
(* caller asked for it: for this zone or for all of them                   *)
(* (ZnsMgmtSend::execute).                                                 *)
LostOnlyAsRequested ==
  [][\A z \in Zone : ~Grows(zone[z].blocks, zone'[z].blocks) =>
       \E c \in Caller :
         LET r == call[c].request IN
         /\ phase[c] = "sends" /\ phase'[c] = "done"
         /\ r.op = "send" /\ r.action \in {"Reset", "Offline"}
         /\ r.select_all \/ r.slba = Start(z)]_vars
=============================================================================
