----------------------------- MODULE ZnsProofs -----------------------------
(***************************************************************************)
(* For every number of callers and zones and every set of requests: the    *)
(* variables keep their types, appended blocks stay where their caller was *)
(* told, a report says what the zones are, and data is lost only where     *)
(* that was asked for.                                                     *)
(***************************************************************************)
EXTENDS Zns, FiniteSetTheorems, TLAPS

ZoneType == [zs : { ZoneState[s] : s \in DOMAIN ZoneState }, blocks : Seq(Nat)]

Reports == [described : SUBSET Zone, nr_zones : Nat]

CallType ==
  [request : ZnsRequest, n : Nat, answer : {None} \cup Nat \cup Reports, reply : Reply]

(* Every zone holds blocks of appends that were taken, no more than fit.   *)
ZonesOK ==
  /\ zone \in [Zone -> ZoneType]
  /\ \A z \in Zone : /\ zone[z].blocks \in Seq(1 .. appends)
                     /\ Len(zone[z].blocks) <= ZoneCap

(* A call under way asks for something the builder let through.            *)
CallsOK ==
  /\ phase \in [Caller -> {"idle", "sends", "done"}]
  /\ call \in [Caller -> {None} \cup CallType]
  /\ \A c \in Caller : phase[c] # "idle" => call[c] \in CallType
  /\ \A c \in Caller : phase[c] = "sends" => ~Refused(call[c].request)

Blocks(z, n) == { i \in DOMAIN zone[z].blocks : zone[z].blocks[i] = n }

(* Only a call that was taken tells its caller something: an address in a  *)
(* zone for an append, the present zones for a report.                     *)
Told(c) ==
  /\ phase[c] = "done" /\ ~Refused(call[c].request)
  /\ call[c].request.op = "append" =>
       /\ call[c].answer \in Nat /\ call[c].answer \div ZoneSize \in Zone
       /\ call[c].n \in 1 .. appends
  /\ call[c].request.op = "recv" => call[c].answer = Report(recv_args(call[c].request))

(* The blocks of an append are where its caller was told.                  *)
Placed(c) ==
  call[c].request.op = "append" =>
    LET r     == call[c].request
        z     == call[c].answer \div ZoneSize
        first == call[c].answer % ZoneSize
    IN  /\ Start(z) = r.zslba
        /\ Blocks(z, call[c].n) = first + 1 .. first + r.nlb

ToldOK ==
  /\ kept \in [Caller -> BOOLEAN]
  /\ \A c \in Caller : kept[c] => Told(c) /\ Placed(c)

IInv ==
  ZonesOK /\ CallsOK /\ ToldOK /\ appends \in 0 .. MaxAppends

----------------------------------------------------------------------------
(* The encodings.                                                          *)

(* Zone Management Receive as the crate builds it is the report of zones   *)
(* of libnvme (nvme_zns_report_zones, ioctl.h).                            *)
THEOREM RecvIsReport ==
  ASSUME NEW r \in ZnsRequest, r.op = "recv",
         NEW extended \in BOOLEAN, extended <=> r.action = "ExtendedReport"
  PROVE  recv_args(r) =
           nvme_zns_report_zones(1, r.slba, ZoneReportFilter[r.filter], extended,
                                 r.partial, r.len % U32)
<1>1. r.filter \in DOMAIN ZoneReportFilter /\ r.action \in DOMAIN ZoneRecvAction
  BY DEF ZnsRequest
<1>2. ZoneReportFilter[r.filter] = U16(ZoneReportFilter[r.filter])
  BY <1>1 DEF ZoneReportFilter, U16
<1>3. ZoneRecvAction[r.action] = report_action(extended)
  BY <1>1 DEF ZoneRecvAction, NVME_ZNS_ZRA, report_action
<1> DEFINE Args(zra, zrasf) ==
      [nvme_zns_mgmt_recv_args EXCEPT
         !.slba = r.slba, !.nsid = 1, !.zra = zra, !.data_len = r.len % U32,
         !.zrasf = zrasf, !.zras_feat = r.partial]
<1>4. recv_args(r) = Args(ZoneRecvAction[r.action], ZoneReportFilter[r.filter])
  BY Zenon DEF recv_args
<1>5. nvme_zns_report_zones(1, r.slba, ZoneReportFilter[r.filter], extended, r.partial,
                            r.len % U32)
        = Args(report_action(extended), U16(ZoneReportFilter[r.filter]))
  BY Zenon DEF nvme_zns_report_zones
<1> HIDE DEF Args
<1>6. Args(ZoneRecvAction[r.action], ZoneReportFilter[r.filter])
        = Args(report_action(extended), U16(ZoneReportFilter[r.filter]))
  BY <1>2, <1>3, Zenon
<1> QED
  BY <1>4, <1>5, <1>6, Zenon

----------------------------------------------------------------------------
(* Addresses and sets.                                                     *)

LEMMA Division ==
  ASSUME NEW n \in Nat \ {0}, NEW q \in Nat, NEW r \in Nat, r < n
  PROVE  q * n + r \in Nat /\ (q * n + r) \div n = q /\ (q * n + r) % n = r
<1>1. q * n \in Nat
  BY SMT
<1> QED BY <1>1, SMT

LEMMA ZoneFinite ==
  ASSUME NEW S \in SUBSET Zone
  PROVE  IsFiniteSet(S) /\ Cardinality(S) \in Nat
<1>1. Zone \in SUBSET Int /\ IsFiniteSet(Zone)
  BY ZnsAssumption, FS_Interval DEF Zone
<1> QED BY <1>1, FS_Subset, FS_CardinalityType

(* A buffer with room for n zones holds all of them if they are no more.   *)
LEMMA FirstOfAll ==
  ASSUME NEW S \in SUBSET Zone, NEW n \in Int
  PROVE  /\ FirstOf(S, n) \subseteq S
         /\ Cardinality(S) <= n => FirstOf(S, n) = S
<1>1. ASSUME Cardinality(S) <= n, NEW z \in S
      PROVE  Cardinality({ y \in S : y < z }) < n
  <2> DEFINE T == { y \in S : y < z }
  <2>1. T # S /\ T \in SUBSET S /\ T \in SUBSET Zone
    <3>1. z \in Int /\ ~(z < z)
      BY ZnsAssumption, <1>1 DEF Zone
    <3>2. z \notin T
      BY <3>1
    <3> QED BY <3>2, <1>1
  <2>2. IsFiniteSet(S) /\ Cardinality(S) \in Nat /\ Cardinality(T) \in Nat
    BY <2>1, ZoneFinite
  <2>3. Cardinality(T) <= Cardinality(S) /\ Cardinality(T) # Cardinality(S)
    BY <2>1, <2>2, FS_Subset
  <2> QED BY <1>1, <2>2, <2>3
<1> QED BY <1>1 DEF FirstOf

LEMMA FitsType ==
  ASSUME NEW len \in Nat, NEW zra
  PROVE  Fits(len, zra) \in Nat
<1> DEFINE entry == IF zra = ZoneRecvAction.ExtendedReport
                    THEN nvme_zns_desc + ExtSize ELSE nvme_zns_desc
<1>1. entry \in Nat \ {0} /\ nvme_zone_report \in Nat
  BY ZnsAssumption DEF nvme_zns_desc, nvme_zone_report
<1> HIDE DEF entry
<1>2. len >= nvme_zone_report => (len - nvme_zone_report) \div entry \in Nat
  BY <1>1, SMT
<1> QED BY <1>1, <1>2 DEF Fits, entry

LEMMA Concat ==
  ASSUME NEW s \in Seq(Nat), NEW t \in Seq(Nat)
  PROVE  /\ s \o t \in Seq(Nat) /\ Len(s \o t) = Len(s) + Len(t)
         /\ \A i \in 1 .. Len(s \o t) :
              (s \o t)[i] = IF i <= Len(s) THEN s[i] ELSE t[i - Len(s)]
OBVIOUS

(* What is appended lies behind what was there.                            *)
LEMMA AppendedIs ==
  ASSUME NEW zn \in ZoneType, NEW n \in Nat, NEW count \in Nat
  PROVE  LET new == Appended(zn, n, count) IN
         /\ new \in ZoneType
         /\ new.blocks = zn.blocks \o [i \in 1 .. count |-> n]
<1>1. [i \in 1 .. count |-> n] \in Seq(Nat)
  OBVIOUS
<1>2. zn.blocks \o [i \in 1 .. count |-> n] \in Seq(Nat)
  BY <1>1 DEF ZoneType
<1> QED BY <1>2 DEF Appended, ZoneType, ZoneState

----------------------------------------------------------------------------
(* What the controller does to the blocks of the zones.                    *)

(* A command for op leaves the blocks of a zone, drops them, or, if it is  *)
(* an append, puts its own behind them.                                    *)
Moved(new, op) ==
  /\ new \in [Zone -> ZoneType]
  /\ \A z \in Zone :
       /\ Len(new[z].blocks) <= ZoneCap
       /\ \/ new[z].blocks \in {zone[z].blocks, <<>>}
          \/ op = "append" /\ \E k \in Nat :
               new[z].blocks = zone[z].blocks \o [i \in 1 .. k |-> appends + 1]

LEMMA AppendStep ==
  ASSUME ZonesOK, NEW r \in ZnsRequest, r.op = "append", ~Refused(r),
         NEW res \in AppendResults(append_args(r))
  PROVE  \E z \in Zone :
           /\ Start(z) = r.zslba /\ r.nlb \in Nat
           /\ res.zone = [zone EXCEPT ![z] = Appended(zone[z], appends + 1, r.nlb)]
           /\ res.answer = Start(z) + Len(zone[z].blocks)
           /\ Len(zone[z].blocks) + r.nlb <= ZoneCap
<1>1. r.nlb \in 1 .. NlbMax
  BY ZnsAssumption DEF Refused, append_checks, ZnsRequest
<1>2. append_args(r).nlb + 1 = r.nlb /\ append_args(r).zslba = r.zslba
  <2>1. (r.nlb - 1) % NlbMax = r.nlb - 1
    BY <1>1, ZnsAssumption
  <2> QED BY <2>1, <1>1, ZnsAssumption DEF append_args
<1> DEFINE a == append_args(r)
<1> HIDE DEF a
<1>3. PICK z \in Zone :
        /\ Start(z) = a.zslba /\ Len(zone[z].blocks) + a.nlb + 1 <= ZoneCap
        /\ res = [zone   |-> [zone EXCEPT ![z] = Appended(@, appends + 1, a.nlb + 1)],
                  answer |-> Start(z) + Len(zone[z].blocks)]
  BY DEF AppendResults, a
<1>4. a.nlb \in Int /\ Len(zone[z].blocks) \in Nat
  <2>1. a.nlb = r.nlb - 1
    BY <1>1, ZnsAssumption DEF a, append_args
  <2> QED BY <1>1, <2>1 DEF ZonesOK, ZoneType
<1>5. a.nlb + 1 = r.nlb /\ a.zslba = r.zslba
  BY <1>2 DEF a
<1>6. Len(zone[z].blocks) + r.nlb <= ZoneCap
  BY <1>3, <1>4, <1>5, ZnsAssumption
<1>7. /\ res.zone = [zone EXCEPT ![z] = Appended(zone[z], appends + 1, r.nlb)]
      /\ res.answer = Start(z) + Len(zone[z].blocks)
  BY <1>3, <1>5
<1>8. Start(z) = r.zslba /\ r.nlb \in Nat
  BY <1>1, <1>3, <1>5, ZnsAssumption
<1> HIDE DEF a
<1> QED BY <1>6, <1>7, <1>8, Zenon

LEMMA AppendMoves ==
  ASSUME ZonesOK, appends \in Nat, NEW r \in ZnsRequest, r.op = "append", ~Refused(r),
         NEW res \in AppendResults(append_args(r))
  PROVE  Moved(res.zone, "append")
<1>1. PICK y \in Zone :
        /\ r.nlb \in Nat
        /\ res.zone = [zone EXCEPT ![y] = Appended(zone[y], appends + 1, r.nlb)]
        /\ Len(zone[y].blocks) + r.nlb <= ZoneCap
  BY AppendStep
<1> DEFINE new == Appended(zone[y], appends + 1, r.nlb)
<1>2. zone \in [Zone -> ZoneType] /\ zone[y] \in ZoneType
  BY DEF ZonesOK
<1>3. /\ new \in ZoneType
      /\ new.blocks = zone[y].blocks \o [i \in 1 .. r.nlb |-> appends + 1]
  <2>1. appends + 1 \in Nat
    OBVIOUS
  <2> QED BY <1>1, <1>2, <2>1, AppendedIs
<1> HIDE DEF new
<1>4. Len(new.blocks) = Len(zone[y].blocks) + r.nlb
  <2>1. [i \in 1 .. r.nlb |-> appends + 1] \in Seq(Nat) /\ zone[y].blocks \in Seq(Nat)
    BY <1>1, <1>2 DEF ZoneType
  <2>2. Len([i \in 1 .. r.nlb |-> appends + 1]) = r.nlb
    BY <1>1
  <2> QED BY <1>3, <2>1, <2>2, Concat
<1>5. res.zone = [zone EXCEPT ![y] = new]
  BY <1>1 DEF new
<1>6. res.zone \in [Zone -> ZoneType]
  BY <1>2, <1>3, <1>5
<1>7. ASSUME NEW z \in Zone
      PROVE  /\ Len(res.zone[z].blocks) <= ZoneCap
             /\ \/ res.zone[z].blocks \in {zone[z].blocks, <<>>}
                \/ \E k \in Nat :
                     res.zone[z].blocks = zone[z].blocks \o [i \in 1 .. k |-> appends + 1]
  <2>1. CASE z = y
    BY <2>1, <1>1, <1>2, <1>3, <1>4, <1>5
  <2>2. CASE z # y
    <3>1. res.zone[z] = zone[z]
      BY <2>2, <1>2, <1>5
    <3> QED BY <3>1 DEF ZonesOK
  <2> QED BY <2>1, <2>2
<1> QED BY <1>6, <1>7 DEF Moved

LEMMA SendMoves ==
  ASSUME ZonesOK, NEW a, NEW res \in SendResults(a)
  PROVE  Moved(res.zone, "send")
<1>1. res.zone = [z \in Zone |-> IF z \in Targets(a) THEN Acted(a.zsa, zone[z])
                                                      ELSE zone[z]]
  BY DEF SendResults
<1>2. ASSUME NEW z \in Zone, z \in Targets(a)
      PROVE  /\ Acted(a.zsa, zone[z]) \in ZoneType
             /\ Acted(a.zsa, zone[z]).blocks \in {zone[z].blocks, <<>>}
  <2>1. zone[z] \in ZoneType /\ <<>> \in Seq(Nat)
    BY DEF ZonesOK
  <2>2. a.zsa \in { ZoneSendAction[n] : n \in DOMAIN ZoneSendAction } \ {ZoneSendAction.ZrwaFlush}
    BY <1>2 DEF Targets, From, ZoneSendAction
  <2> QED BY <2>1, <2>2 DEF Acted, ZoneType, ZoneSendAction, ZoneState
<1>3. res.zone \in [Zone -> ZoneType]
  BY <1>1, <1>2 DEF ZonesOK
<1>4. ASSUME NEW z \in Zone
      PROVE  /\ res.zone[z].blocks \in {zone[z].blocks, <<>>}
             /\ Len(res.zone[z].blocks) <= ZoneCap
  <2>1. res.zone[z].blocks \in {zone[z].blocks, <<>>}
    BY <1>1, <1>2
  <2>2. Len(<<>>) = 0 /\ Len(zone[z].blocks) <= ZoneCap /\ 0 <= ZoneCap
    BY ZnsAssumption DEF ZonesOK
  <2> QED BY <2>1, <2>2
<1> QED BY <1>3, <1>4 DEF Moved

LEMMA ResultMoves ==
  ASSUME ZonesOK, appends \in Nat, NEW r \in ZnsRequest, ~Refused(r), NEW res \in Results(r)
  PROVE  Moved(res.zone, r.op) /\ (r.op = "recv" => res.zone = zone)
<1>1. CASE r.op = "append"
  <2>1. res \in AppendResults(append_args(r))
    BY <1>1 DEF Results
  <2> QED BY <1>1, <2>1, AppendMoves
<1>2. CASE r.op = "send"
  <2>1. res \in SendResults(send_args(r))
    BY <1>2 DEF Results
  <2> QED BY <1>2, <2>1, SendMoves
<1>3. CASE r.op = "recv"
  <2>1. res \in RecvResults(recv_args(r))
    BY <1>3 DEF Results
  <2>2. res.zone = zone
    BY <2>1 DEF RecvResults
  <2> QED BY <1>3, <2>2 DEF Moved, ZonesOK
<1> QED BY <1>1, <1>2, <1>3 DEF ZnsRequest

----------------------------------------------------------------------------
(* What callers were told survives the commands of others.                 *)

LEMMA MovedZones ==
  ASSUME ZonesOK, appends \in Nat, NEW new, NEW op \in {"append", "send", "recv"},
         Moved(new, op), NEW n \in Nat, n = IF op = "append" THEN appends + 1 ELSE appends
  PROVE  \A z \in Zone : new[z].blocks \in Seq(1 .. n) /\ Len(new[z].blocks) <= ZoneCap
<1> TAKE z \in Zone
<1>1. zone[z].blocks \in Seq(1 .. n)
  <2>1. zone[z].blocks \in Seq(1 .. appends) /\ appends <= n
    BY DEF ZonesOK
  <2> QED BY <2>1
<1>2. CASE new[z].blocks \in {zone[z].blocks, <<>>}
  <2>1. <<>> \in Seq(1 .. n)
    OBVIOUS
  <2> QED BY <1>1, <1>2, <2>1 DEF Moved
<1>3. ASSUME op = "append", NEW k \in Nat,
             new[z].blocks = zone[z].blocks \o [i \in 1 .. k |-> appends + 1]
      PROVE  new[z].blocks \in Seq(1 .. n)
  <2>1. [i \in 1 .. k |-> appends + 1] \in Seq(1 .. n)
    BY <1>3
  <2> QED BY <1>1, <1>3, <2>1
<1> QED BY <1>2, <1>3 DEF Moved

(* Where the zone of an append has not lost data, its blocks are where     *)
(* they were: what is put behind them is of a later append.                *)
LEMMA MovedBlocks ==
  ASSUME ZonesOK, appends \in Nat, NEW new, NEW op, Moved(new, op), NEW z \in Zone,
         Grows(zone[z].blocks, new[z].blocks), NEW n \in 1 .. appends
  PROVE  { i \in DOMAIN new[z].blocks : new[z].blocks[i] = n } = Blocks(z, n)
<1> DEFINE old == zone[z].blocks
           now == new[z].blocks
<1>1. old \in Seq(Nat) /\ now \in Seq(Nat)
  BY DEF ZonesOK, Moved, ZoneType
<1>2. Len(old) <= Len(now)
  BY DEF Grows
<1>3. CASE now = old
  BY <1>3 DEF Blocks
<1>4. CASE now = <<>>
  <2>1. Len(old) = 0
    BY <1>1, <1>2, <1>4
  <2>2. old = <<>>
    BY <1>1, <2>1
  <2> QED BY <1>4, <2>2 DEF Blocks
<1>5. ASSUME NEW k \in Nat, now = old \o [i \in 1 .. k |-> appends + 1]
      PROVE  { i \in DOMAIN now : now[i] = n } = { i \in DOMAIN old : old[i] = n }
  <2> DEFINE added == [i \in 1 .. k |-> appends + 1]
  <2>1. added \in Seq(Nat) /\ Len(added) = k /\ \A i \in 1 .. k : added[i] # n
    OBVIOUS
  <2> HIDE DEF added
  <2>2. now = old \o added
    BY <1>5 DEF added
  <2> HIDE DEF now, old
  <2>3. /\ Len(now) = Len(old) + k
        /\ \A i \in 1 .. Len(now) :
             now[i] = IF i <= Len(old) THEN old[i] ELSE added[i - Len(old)]
    BY <1>1, <2>1, <2>2, Concat
  <2>4. DOMAIN now = 1 .. Len(now) /\ DOMAIN old = 1 .. Len(old)
    BY <1>1
  <2>5. ASSUME NEW i \in DOMAIN now
        PROVE  now[i] = n <=> i \in DOMAIN old /\ old[i] = n
    <3>1. i \in 1 .. Len(now) /\ i \in Nat /\ Len(old) \in Nat
      BY <1>1, <2>4
    <3>2. CASE i <= Len(old)
      BY <2>3, <2>4, <3>1, <3>2
    <3>3. CASE i > Len(old)
      <4>1. i - Len(old) \in 1 .. k /\ i \notin DOMAIN old /\ ~(i <= Len(old))
        BY <2>3, <2>4, <3>1, <3>3
      <4> QED BY <2>1, <2>3, <3>1, <4>1, Zenon
    <3> QED BY <3>1, <3>2, <3>3
  <2>6. DOMAIN old \subseteq DOMAIN now
    BY <1>1, <2>1, <2>3, <2>4
  <2> QED BY <2>5, <2>6
<1> QED BY <1>3, <1>4, <1>5 DEF Moved, Blocks

(* The blocks of an append itself, once it was taken.                      *)
LEMMA AppendPlaced ==
  ASSUME ZonesOK, appends \in Nat, NEW r \in ZnsRequest, r.op = "append", ~Refused(r),
         NEW res \in AppendResults(append_args(r))
  PROVE  LET z     == res.answer \div ZoneSize
             first == res.answer % ZoneSize
         IN  /\ res.answer \in Nat /\ z \in Zone /\ Start(z) = r.zslba
             /\ { i \in DOMAIN res.zone[z].blocks : res.zone[z].blocks[i] = appends + 1 }
                  = first + 1 .. first + r.nlb
<1>1. PICK y \in Zone :
        /\ Start(y) = r.zslba /\ r.nlb \in Nat
        /\ res.zone = [zone EXCEPT ![y] = Appended(zone[y], appends + 1, r.nlb)]
        /\ res.answer = Start(y) + Len(zone[y].blocks)
        /\ Len(zone[y].blocks) + r.nlb <= ZoneCap
  BY AppendStep
<1> DEFINE old   == zone[y].blocks
           now   == res.zone[y].blocks
           added == [i \in 1 .. r.nlb |-> appends + 1]
<1>2. /\ zone[y] \in ZoneType /\ old \in Seq(Nat) /\ Len(old) \in Nat /\ y \in Nat
      /\ DOMAIN old = 1 .. Len(old) /\ \A i \in 1 .. Len(old) : old[i] # appends + 1
  BY ZnsAssumption DEF ZonesOK, ZoneType, Zone
<1>3. r.nlb # 0 /\ r.nlb \in Nat
  BY <1>1 DEF Refused, append_checks
<1>4. res.answer \in Nat /\ res.answer \div ZoneSize = y /\ res.answer % ZoneSize = Len(old)
  <2>1. Len(old) < ZoneSize
    BY <1>1, <1>2, <1>3, ZnsAssumption
  <2>2. res.answer = y * ZoneSize + Len(old)
    BY <1>1 DEF Start
  <2>3. /\ y * ZoneSize + Len(old) \in Nat
        /\ (y * ZoneSize + Len(old)) \div ZoneSize = y
        /\ (y * ZoneSize + Len(old)) % ZoneSize = Len(old)
    BY <1>2, <2>1, ZnsAssumption, Division, Zenon
  <2> QED BY <2>2, <2>3, Zenon
<1>5. now = old \o added
  <2>1. appends + 1 \in Nat
    OBVIOUS
  <2>2. Appended(zone[y], appends + 1, r.nlb).blocks = old \o added
    BY <1>2, <1>3, <2>1, AppendedIs
  <2>3. now = Appended(zone[y], appends + 1, r.nlb).blocks
    BY <1>1 DEF ZonesOK
  <2> QED BY <2>2, <2>3
<1>6. added \in Seq(Nat) /\ Len(added) = r.nlb /\ \A i \in 1 .. r.nlb : added[i] = appends + 1
  BY <1>3
<1> HIDE DEF old, now, added
<1>7. /\ now \in Seq(Nat) /\ Len(now) = Len(old) + r.nlb
      /\ \A i \in 1 .. Len(now) :
           now[i] = IF i <= Len(old) THEN old[i] ELSE added[i - Len(old)]
  BY <1>2, <1>5, <1>6, Concat
<1>8. { i \in DOMAIN now : now[i] = appends + 1 } = Len(old) + 1 .. Len(old) + r.nlb
  <2>1. DOMAIN now = 1 .. Len(old) + r.nlb
    BY <1>7
  <2>2. \A i \in DOMAIN now : now[i] = appends + 1 <=> i > Len(old)
    BY <1>2, <1>3, <1>6, <1>7, <2>1
  <2>3. \A i : i \in DOMAIN now /\ i > Len(old) <=> i \in Len(old) + 1 .. Len(old) + r.nlb
    BY <1>2, <1>3, <2>1
  <2> QED BY <2>2, <2>3
<1> QED BY <1>1, <1>4, <1>8 DEF now

----------------------------------------------------------------------------
(* The steps.                                                              *)

Op == {"append", "send", "recv"}

Counted(op) == IF op = "append" THEN appends + 1 ELSE appends

LEMMA ZonesNext ==
  ASSUME ZonesOK, appends \in Nat, NEW op \in Op, Moved(zone', op), appends' = Counted(op)
  PROVE  ZonesOK'
<1>1. appends' \in Nat
  BY DEF Counted
<1>2. \A z \in Zone : zone'[z].blocks \in Seq(1 .. appends') /\ Len(zone'[z].blocks) <= ZoneCap
  BY <1>1, MovedZones DEF Op, Counted
<1> QED BY <1>2 DEF ZonesOK, Moved

LEMMA SameReport ==
  ASSUME zone' = zone, NEW c \in Caller, call'[c] = call[c]
  PROVE  Report(recv_args(call[c].request))' = Report(recv_args(call[c].request))
BY DEF Report, Listed

(* What another caller was told stays true as long as the model says that  *)
(* it is kept.                                                             *)
LEMMA Others ==
  ASSUME ZonesOK, ToldOK, appends \in Nat, NEW op \in Op, Moved(zone', op),
         appends' = Counted(op), NEW c \in Caller, kept[c], Holds(c, zone'),
         call'[c] = call[c], phase'[c] = phase[c]
  PROVE  Told(c)' /\ Placed(c)'
<1>1. Told(c) /\ Placed(c) /\ appends' \in Nat /\ appends <= appends'
  BY DEF ToldOK, Counted
<1>2. CASE call[c].request.op = "append"
  <2> DEFINE z == call[c].answer \div ZoneSize
             n == call[c].n
  <2>1. z \in Zone /\ n \in 1 .. appends /\ Grows(zone[z].blocks, zone'[z].blocks)
    BY <1>1, <1>2 DEF Told, Holds
  <2>2. { i \in DOMAIN zone'[z].blocks : zone'[z].blocks[i] = n } = Blocks(z, n)
    BY <2>1, MovedBlocks
  <2>3. Blocks(z, n)' = Blocks(z, n)
    BY <2>2 DEF Blocks
  <2>4. Placed(c)'
    BY <1>1, <1>2, <2>3 DEF Placed
  <2>5. Told(c)'
    BY <1>1, <1>2, <2>1 DEF Told
  <2> QED BY <2>4, <2>5
<1>3. CASE call[c].request.op # "append"
  <2>1. zone' = zone
    BY <1>3 DEF Holds
  <2>2. Told(c)'
    BY <1>1, <1>3, <2>1, SameReport DEF Told
  <2> QED BY <1>3, <2>2 DEF Placed
<1> QED BY <1>2, <1>3

(* A step of d that keeps what it keeps of the others.                     *)
LEMMA ToldNext ==
  ASSUME ZonesOK, CallsOK, ToldOK, appends \in Nat, NEW op \in Op, Moved(zone', op),
         appends' = Counted(op), NEW d,
         kept' \in [Caller -> BOOLEAN],
         \A c \in Caller \ {d} : kept'[c] => kept[c] /\ Holds(c, zone'),
         \A c \in Caller \ {d} : call'[c] = call[c] /\ phase'[c] = phase[c],
         d \in Caller /\ kept'[d] => Told(d)' /\ Placed(d)'
  PROVE  ToldOK'
<1>1. ASSUME NEW c \in Caller, kept'[c]
      PROVE  Told(c)' /\ Placed(c)'
  BY <1>1, Others
<1> QED BY <1>1 DEF ToldOK

LEMMA StayMoved ==
  ASSUME ZonesOK, zone' = zone
  PROVE  /\ Moved(zone', "send")
         /\ appends' = appends => appends' = Counted("send")
         /\ \A c \in Caller : call[c].request.op = "append" =>
              (call[c].answer \div ZoneSize \in Zone => Holds(c, zone'))
         /\ \A c \in Caller : call[c].request.op # "append" => Holds(c, zone')
<1>1. \A z \in Zone : Grows(zone[z].blocks, zone[z].blocks)
  <2> TAKE z \in Zone
  <2>1. zone[z].blocks \in Seq(Nat)
    BY DEF ZonesOK, ZoneType
  <2>2. SubSeq(zone[z].blocks, 1, Len(zone[z].blocks)) = zone[z].blocks
    BY <2>1
  <2> QED BY <2>1, <2>2 DEF Grows
<1> QED BY <1>1 DEF Moved, ZonesOK, Counted, Holds

LEMMA ReplyType == \A ret \in Int : check_ret(ret) \in Reply
BY DEF check_ret, Reply, Errno

LEMMA AnswerType ==
  ASSUME ZonesOK, appends \in Nat, NEW r \in ZnsRequest, ~Refused(r), NEW res \in Results(r)
  PROVE  res.answer \in Nat \cup Reports
<1>1. CASE r.op = "append"
  <2>1. res \in AppendResults(append_args(r))
    BY <1>1 DEF Results
  <2> QED BY <1>1, <2>1, AppendPlaced
<1>2. CASE r.op = "send"
  BY <1>2 DEF Results, SendResults
<1>3. CASE r.op = "recv"
  <2> DEFINE a == recv_args(r)
             described == FirstOf(Listed(a), Fits(a.data_len, a.zra))
  <2>1. res.answer = Report(a)
    BY <1>3 DEF Results, RecvResults
  <2>2. Listed(a) \in SUBSET Zone /\ described \in SUBSET Zone
    BY DEF Listed, FirstOf
  <2>3. Cardinality(Listed(a)) \in Nat /\ Cardinality(described) \in Nat
    BY <2>2, ZoneFinite
  <2> QED BY <2>1, <2>2, <2>3 DEF Report, Reports
<1> QED BY <1>1, <1>2, <1>3 DEF ZnsRequest

(* A step that leaves the zones, by a caller who is told nothing.          *)
LEMMA HostStep ==
  ASSUME IInv, NEW d \in Caller, zone' = zone, appends' = appends,
         kept' \in [Caller -> BOOLEAN], ~kept'[d],
         \A c \in Caller \ {d} : kept'[c] = kept[c] /\ call'[c] = call[c] /\ phase'[c] = phase[c]
  PROVE  ZonesOK' /\ ToldOK' /\ appends' \in 0 .. MaxAppends
<1>1. ZonesOK /\ CallsOK /\ ToldOK /\ appends \in Nat /\ appends \in 0 .. MaxAppends
  BY ZnsAssumption DEF IInv
<1>2. Moved(zone', "send") /\ appends' = Counted("send") /\ "send" \in Op
  BY <1>1, StayMoved DEF Op
<1>3. ASSUME NEW c \in Caller \ {d}, kept'[c]
      PROVE  kept[c] /\ Holds(c, zone')
  <2>1. kept[c] /\ Told(c)
    BY <1>1, <1>3 DEF ToldOK
  <2> QED BY <1>1, <2>1, StayMoved DEF Told
<1>4. ToldOK'
  BY <1>1, <1>2, <1>3, ToldNext
<1> QED BY <1>1, <1>2, <1>4, ZonesNext

LEMMA StartsStep ==
  ASSUME IInv, NEW d \in Caller, NEW r \in Request[d], NEW next \in {"sends", "done"},
         NEW reply \in Reply, next = "sends" => ~Refused(r), Starts(d, r, next, reply)
  PROVE  IInv'
<1>1. CallsOK /\ ToldOK /\ phase[d] = "idle" /\ r \in ZnsRequest
  BY RequestAssumption DEF IInv, Starts
<1>2. ~kept[d]
  BY <1>1 DEF ToldOK, Told
<1>3. ZonesOK' /\ ToldOK' /\ appends' \in 0 .. MaxAppends
  <2>1. /\ zone' = zone /\ appends' = appends /\ kept' = kept
        /\ \A c \in Caller \ {d} : call'[c] = call[c] /\ phase'[c] = phase[c]
    BY <1>1 DEF Starts, CallsOK
  <2> QED BY <1>1, <1>2, <2>1, HostStep DEF ToldOK
<1>4. CallsOK'
  <2>1. [request |-> r, n |-> 0, answer |-> None, reply |-> reply] \in CallType
    BY <1>1 DEF CallType
  <2> QED BY <1>1, <2>1 DEF CallsOK, Starts
<1> QED BY <1>3, <1>4 DEF IInv

(* A command that was taken, whether its answer reaches the caller or not. *)
LEMMA TakenStep ==
  ASSUME IInv, NEW d \in Caller, phase[d] = "sends", Counts(call[d].request),
         NEW res \in Results(call[d].request), zone' = res.zone,
         appends' = IF call[d].request.op = "append" THEN appends + 1 ELSE appends,
         kept' \in [Caller -> BOOLEAN],
         \A c \in Caller \ {d} : kept'[c] = Keeps(res.zone)[c],
         \A c \in Caller \ {d} : call'[c] = call[c] /\ phase'[c] = phase[c],
         kept'[d] => /\ phase'[d] = "done"
                     /\ call'[d].request = call[d].request
                     /\ call'[d].answer = res.answer /\ call'[d].n = appends + 1
  PROVE  ZonesOK' /\ ToldOK' /\ appends' \in 0 .. MaxAppends
<1> DEFINE r == call[d].request
<1>1. /\ ZonesOK /\ CallsOK /\ ToldOK /\ appends \in Nat /\ appends \in 0 .. MaxAppends
      /\ MaxAppends \in Nat /\ r \in ZnsRequest /\ ~Refused(r)
  BY ZnsAssumption DEF IInv, CallsOK, CallType
<1>2. r.op \in Op
  BY <1>1 DEF ZnsRequest, Op
<1>3. Moved(zone', r.op) /\ (r.op = "recv" => zone' = zone)
  BY <1>1, ResultMoves
<1>4. appends' = Counted(r.op)
  BY DEF Counted
<1>5. ASSUME NEW c \in Caller \ {d}, kept'[c]
      PROVE  kept[c] /\ Holds(c, zone')
  BY <1>5 DEF Keeps
<1>6. ASSUME kept'[d]
      PROVE  Told(d)' /\ Placed(d)'
  <2>1. CASE r.op = "append"
    <3>1. res \in AppendResults(append_args(r))
      BY <2>1 DEF Results
    <3> DEFINE z     == res.answer \div ZoneSize
               first == res.answer % ZoneSize
    <3>2. /\ res.answer \in Nat /\ z \in Zone /\ Start(z) = r.zslba
          /\ { i \in DOMAIN res.zone[z].blocks : res.zone[z].blocks[i] = appends + 1 }
               = first + 1 .. first + r.nlb
      BY <1>1, <2>1, <3>1, AppendPlaced
    <3>3. Told(d)'
      BY <1>1, <1>6, <2>1, <3>2 DEF Told
    <3>4. Placed(d)'
      BY <1>6, <3>2 DEF Placed, Blocks
    <3> QED BY <3>3, <3>4
  <2>2. CASE r.op = "send"
    BY <1>1, <1>6, <2>2 DEF Told, Placed
  <2>3. CASE r.op = "recv"
    <3>1. res.answer = Report(recv_args(r)) /\ zone' = zone
      BY <1>3, <2>3 DEF Results, RecvResults
    <3>2. Report(recv_args(call[d].request))' = Report(recv_args(r))
      <4>1. zone' = zone /\ call'[d].request = r
        BY <1>6, <3>1
      <4> HIDE DEF r
      <4> QED BY <4>1 DEF Report, Listed
    <3>3. Told(d)'
      BY <1>1, <1>6, <2>3, <3>1, <3>2 DEF Told
    <3> QED BY <1>6, <2>3, <3>3 DEF Placed
  <2> QED BY <1>2, <2>1, <2>2, <2>3 DEF Op
<1>7. ToldOK'
  BY <1>1, <1>2, <1>3, <1>4, <1>5, <1>6, ToldNext
<1>8. ZonesOK'
  BY <1>1, <1>2, <1>3, <1>4, ZonesNext
<1>9. appends' \in 0 .. MaxAppends
  BY <1>1 DEF Counts
<1> QED BY <1>7, <1>8, <1>9

LEMMA TakeStep ==
  ASSUME IInv, NEW d \in Caller, Take(d) \/ TimeOut(d) \/ Reject(d)
  PROVE  IInv'
<1> DEFINE r == call[d].request
<1>1. /\ ZonesOK /\ CallsOK /\ ToldOK /\ appends \in Nat /\ phase[d] = "sends"
      /\ call[d] \in CallType /\ r \in ZnsRequest /\ ~Refused(r) /\ ~kept[d]
  <2>1. ZonesOK /\ CallsOK /\ ToldOK /\ appends \in Nat /\ phase[d] = "sends"
    BY ZnsAssumption DEF IInv, Take, TimeOut, Reject, Fails
  <2>2. call[d] \in CallType /\ ~Refused(r)
    BY <2>1 DEF CallsOK
  <2> QED BY <2>1, <2>2 DEF CallType, ToldOK, Told
<1> HIDE DEF r
<1>2. CASE Take(d)
  <2>1. PICK res \in Results(r) :
          /\ zone' = res.zone
          /\ call' = [call EXCEPT ![d].answer = res.answer, ![d].n = appends + 1]
          /\ kept' = [Keeps(res.zone) EXCEPT ![d] = TRUE]
    BY <1>2 DEF Take, r
  <2>2. Keeps(res.zone) \in [Caller -> BOOLEAN]
    BY <1>1 DEF Keeps, ToldOK, Holds
  <2>3. /\ call'[d] = [call[d] EXCEPT !.answer = res.answer, !.n = appends + 1]
        /\ \A c \in Caller \ {d} : call'[c] = call[c]
        /\ DOMAIN call' = Caller /\ call' = [c \in Caller |-> call'[c]]
    BY <1>1, <2>1 DEF CallsOK
  <2>4. res.answer \in Nat \cup Reports
    BY <1>1, AnswerType
  <2>5. /\ call'[d] \in CallType /\ call'[d].request = r
        /\ call'[d].answer = res.answer /\ call'[d].n = appends + 1
    <3>1. /\ appends + 1 \in Nat /\ res.answer \in {None} \cup Nat \cup Reports
          /\ r = call[d].request
      BY <1>1, <2>4 DEF r
    <3>2. call'[d] = [request |-> call[d].request, n |-> appends + 1,
                      answer |-> res.answer, reply |-> call[d].reply]
      BY <1>1, <2>3 DEF CallType
    <3>3. call[d].request \in ZnsRequest /\ call[d].reply \in Reply
      BY <1>1 DEF CallType
    <3>4. call'[d] \in CallType
      BY <3>1, <3>2, <3>3 DEF CallType
    <3> QED BY <3>1, <3>2, <3>4
  <2>6. phase' = [phase EXCEPT ![d] = "done"] /\ Counts(r)
        /\ appends' = IF r.op = "append" THEN appends + 1 ELSE appends
    BY <1>2 DEF Take, r
  <2>7. CallsOK'
    BY <1>1, <2>3, <2>5, <2>6 DEF CallsOK
  <2>8. kept' \in [Caller -> BOOLEAN] /\ \A c \in Caller \ {d} : kept'[c] = Keeps(res.zone)[c]
    BY <2>1, <2>2
  <2>9. phase'[d] = "done" /\ \A c \in Caller \ {d} : phase'[c] = phase[c]
    BY <1>1, <2>6 DEF CallsOK
  <2>10. ZonesOK' /\ ToldOK' /\ appends' \in 0 .. MaxAppends
    <3>1. r = call[d].request
      BY DEF r
    <3>2. res \in Results(r) /\ zone' = res.zone
      BY <2>1
    <3>3. \A c \in Caller \ {d} : call'[c] = call[c] /\ phase'[c] = phase[c]
      BY <2>3, <2>9
    <3>4. call'[d].request = r /\ call'[d].answer = res.answer /\ call'[d].n = appends + 1
      BY <2>5
    <3> QED BY <1>1, <2>6, <2>8, <2>9, <3>1, <3>2, <3>3, <3>4, TakenStep
  <2> QED BY <2>7, <2>10 DEF IInv
<1>3. ASSUME NEW ret \in Int, Fails(d, ret)
      PROVE  /\ CallsOK'
             /\ \A c \in Caller \ {d} : call'[c] = call[c] /\ phase'[c] = phase[c]
  <2>1. check_ret(ret) \in Reply
    BY ReplyType
  <2>2. /\ call' = [call EXCEPT ![d].reply = check_ret(ret)]
        /\ phase' = [phase EXCEPT ![d] = "done"]
    BY <1>3 DEF Fails
  <2>3. call'[d] = [call[d] EXCEPT !.reply = check_ret(ret)]
    BY <1>1, <2>2 DEF CallsOK
  <2>4. call'[d] \in CallType
    BY <1>1, <2>1, <2>3 DEF CallType
  <2> QED BY <1>1, <2>2, <2>4 DEF CallsOK
<1>4. CASE Reject(d)
  <2>1. Fails(d, InvalidField) /\ InvalidField \in Int
        /\ zone' = zone /\ appends' = appends /\ kept' = kept
    BY <1>4 DEF Reject, InvalidField
  <2>2. CallsOK' /\ \A c \in Caller \ {d} : call'[c] = call[c] /\ phase'[c] = phase[c]
    BY <1>3, <2>1
  <2>3. ZonesOK' /\ ToldOK' /\ appends' \in 0 .. MaxAppends
    BY <1>1, <2>1, <2>2, HostStep DEF ToldOK
  <2> QED BY <2>2, <2>3 DEF IInv
<1>5. CASE TimeOut(d)
  <2>1. Fails(d, -1) /\ -1 \in Int
    BY <1>5 DEF TimeOut
  <2>2. CallsOK' /\ \A c \in Caller \ {d} : call'[c] = call[c] /\ phase'[c] = phase[c]
    BY <1>3, <2>1
  <2>3. CASE UNCHANGED <<zone, kept, appends>>
    <3>1. ZonesOK' /\ ToldOK' /\ appends' \in 0 .. MaxAppends
      BY <1>1, <2>2, <2>3, HostStep DEF ToldOK
    <3> QED BY <2>2, <3>1 DEF IInv
  <2>4. CASE ~UNCHANGED <<zone, kept, appends>>
    <3>1. PICK res \in Results(r) : zone' = res.zone /\ kept' = Keeps(res.zone)
      BY <1>5, <2>4 DEF TimeOut, r
    <3>2. Counts(r) /\ appends' = IF r.op = "append" THEN appends + 1 ELSE appends
      BY <1>5, <2>4 DEF TimeOut, r
    <3>3. kept' \in [Caller -> BOOLEAN] /\ ~kept'[d]
      BY <1>1, <3>1 DEF Keeps, ToldOK, Holds
    <3>4. ZonesOK' /\ ToldOK' /\ appends' \in 0 .. MaxAppends
      BY <1>1, <2>2, <3>1, <3>2, <3>3, TakenStep DEF r
    <3> QED BY <2>2, <3>4 DEF IInv
  <2> QED BY <2>3, <2>4
<1> QED BY <1>2, <1>4, <1>5

LEMMA ReturnStep ==
  ASSUME IInv, NEW d \in Caller, Return(d)
  PROVE  IInv'
<1>1. CallsOK /\ ToldOK
  BY DEF IInv
<1>2. /\ zone' = zone /\ appends' = appends
      /\ phase' = [phase EXCEPT ![d] = "idle"] /\ call' = [call EXCEPT ![d] = None]
      /\ kept' = [kept EXCEPT ![d] = FALSE]
  BY DEF Return
<1>3. CallsOK'
  BY <1>1, <1>2 DEF CallsOK
<1>4. /\ kept' \in [Caller -> BOOLEAN] /\ ~kept'[d]
      /\ \A c \in Caller \ {d} : kept'[c] = kept[c] /\ call'[c] = call[c] /\ phase'[c] = phase[c]
  BY <1>1, <1>2 DEF ToldOK, CallsOK
<1>5. ZonesOK' /\ ToldOK' /\ appends' \in 0 .. MaxAppends
  BY <1>2, <1>4, HostStep
<1> QED BY <1>3, <1>5 DEF IInv

LEMMA WearStep ==
  ASSUME IInv, NEW y \in Zone, Wear(y)
  PROVE  IInv'
<1>1. ZonesOK /\ CallsOK /\ ToldOK /\ appends \in Nat /\ appends \in 0 .. MaxAppends
  BY ZnsAssumption DEF IInv
<1>2. PICK zs \in {ZoneState.Closed, ZoneState.Full, ZoneState.ReadOnly} :
        zone' = [zone EXCEPT ![y].zs = zs]
  BY DEF Wear
<1>3. kept' = Keeps(zone') /\ phase' = phase /\ call' = call /\ appends' = appends
  BY DEF Wear
<1>4. Moved(zone', "send")
  <2>1. zs \in { ZoneState[s] : s \in DOMAIN ZoneState }
    BY <1>2 DEF ZoneState
  <2>2. zone' \in [Zone -> ZoneType] /\ \A z \in Zone : zone'[z].blocks = zone[z].blocks
    BY <1>1, <1>2, <2>1 DEF ZonesOK, ZoneType
  <2> QED BY <1>1, <2>2 DEF Moved, ZonesOK
<1>5. appends' = Counted("send") /\ "send" \in Op
  BY <1>3 DEF Counted, Op
<1>6. kept' \in [Caller -> BOOLEAN] /\ \A c \in Caller : kept'[c] => kept[c] /\ Holds(c, zone')
  BY <1>1, <1>3 DEF Keeps, ToldOK, Holds
<1>7. ASSUME NEW c \in Caller, kept'[c]
      PROVE  Told(c)' /\ Placed(c)'
  BY <1>1, <1>3, <1>4, <1>5, <1>6, <1>7, Others
<1>8. ToldOK'
  BY <1>6, <1>7 DEF ToldOK
<1>9. ZonesOK'
  BY <1>1, <1>4, <1>5, ZonesNext
<1>10. CallsOK'
  BY <1>1, <1>3 DEF CallsOK
<1> QED BY <1>1, <1>3, <1>8, <1>9, <1>10 DEF IInv

----------------------------------------------------------------------------
(* The theorems.                                                           *)

LEMMA Initial == Init => IInv
<1> SUFFICES ASSUME Init PROVE IInv
  OBVIOUS
<1>1. ZonesOK
  <2>1. <<>> \in Seq(Nat) /\ <<>> \in Seq(1 .. appends) /\ Len(<<>>) <= ZoneCap
    BY ZnsAssumption DEF Init
  <2> QED BY <2>1 DEF Init, ZonesOK, ZoneType, ZoneState
<1>2. CallsOK
  BY DEF Init, CallsOK
<1>3. ToldOK
  BY DEF Init, ToldOK
<1>4. appends \in 0 .. MaxAppends
  BY ZnsAssumption DEF Init
<1> QED BY <1>1, <1>2, <1>3, <1>4 DEF IInv

LEMMA Step == IInv /\ [Next]_vars => IInv'
<1> SUFFICES ASSUME IInv, [Next]_vars PROVE IInv'
  OBVIOUS
<1>1. ASSUME NEW c \in Caller, Begin(c) \/ Refuse(c)
      PROVE  IInv'
  <2>1. check_ret(0) \in Reply /\ InvalidArgument \in Reply /\ OsError \in Reply
    BY ReplyType DEF InvalidArgument, OsError, Reply, Errno
  <2>2. ASSUME Begin(c) PROVE IInv'
    <3>1. PICK r \in Request[c] : ~Refused(r) /\ Starts(c, r, "sends", check_ret(0))
      BY <2>2 DEF Begin
    <3> QED BY <2>1, <3>1, StartsStep
  <2>3. ASSUME Refuse(c) PROVE IInv'
    <3>1. PICK r \in Request[c] :
            Starts(c, r, "done", IF Refused(r) THEN InvalidArgument ELSE OsError)
      BY <2>3 DEF Refuse
    <3> DEFINE reply == IF Refused(r) THEN InvalidArgument ELSE OsError
    <3>2. reply \in Reply
      BY <2>1
    <3>3. Starts(c, r, "done", reply)
      BY <3>1
    <3> HIDE DEF reply
    <3> QED BY <3>2, <3>3, StartsStep
  <2> QED BY <1>1, <2>2, <2>3
<1>2. ASSUME NEW c \in Caller, Take(c) \/ TimeOut(c) \/ Reject(c)
      PROVE  IInv'
  BY <1>2, TakeStep
<1>3. ASSUME NEW c \in Caller, Return(c)
      PROVE  IInv'
  BY <1>3, ReturnStep
<1>4. ASSUME NEW z \in Zone, Wear(z)
      PROVE  IInv'
  BY <1>4, WearStep
<1>5. ASSUME UNCHANGED vars
      PROVE  IInv'
  <2>1. /\ zone' = zone /\ phase' = phase /\ call' = call /\ kept' = kept
        /\ appends' = appends
    BY <1>5 DEF vars
  <2>2. ZonesOK' /\ CallsOK' /\ appends' \in 0 .. MaxAppends
    BY <2>1 DEF IInv, ZonesOK, CallsOK
  <2>3. ASSUME NEW c \in Caller, kept'[c]
        PROVE  Told(c)' /\ Placed(c)'
    <3>1. Told(c) /\ Placed(c)
      BY <2>1, <2>3 DEF IInv, ToldOK
    <3>2. Told(c)'
      BY <2>1, <3>1, SameReport DEF Told
    <3> QED BY <2>1, <3>1, <3>2 DEF Placed, Blocks
  <2>4. ToldOK'
    BY <2>1, <2>3 DEF IInv, ToldOK
  <2> QED BY <2>2, <2>4 DEF IInv
<1> QED BY <1>1, <1>2, <1>3, <1>4, <1>5 DEF Next

THEOREM Inductive == Spec => []IInv
BY Initial, Step, PTL DEF Spec

(* The variables keep their types.                                         *)
THEOREM TypeCorrect == Spec => []TypeOK
<1>1. IInv => TypeOK
  <2> SUFFICES ASSUME IInv PROVE TypeOK
    OBVIOUS
  <2>1. \A z \in Zone : zone[z].blocks \in Seq(1 .. MaxAppends)
    <3> TAKE z \in Zone
    <3>1. zone[z].blocks \in Seq(1 .. appends) /\ appends <= MaxAppends
          /\ appends \in Nat /\ MaxAppends \in Nat
      BY ZnsAssumption DEF IInv, ZonesOK
    <3> QED BY <3>1
  <2> QED BY <2>1 DEF IInv, ZonesOK, CallsOK, ToldOK, TypeOK, ZoneType
<1> QED BY <1>1, Inductive, PTL

(* Whatever others append, the blocks of an append stay where its caller   *)
(* was told (ZnsAppend::execute).                                          *)
THEOREM AppendsStayPut == Spec => []AppendsStay
<1>1. IInv => AppendsStay
  BY DEF IInv, ToldOK, Placed, AppendsStay, Answered, Blocks
<1> QED BY <1>1, Inductive, PTL

(* A report describes zones that were asked for, and leaves one out only   *)
(* for want of room (ZnsMgmtRecv::execute).                                *)
THEOREM ReportsTrue == Spec => []ReportTruthful
<1>1. IInv => ReportTruthful
  <2> SUFFICES ASSUME IInv, NEW c \in Caller, Answered(c, "recv")
               PROVE  LET r         == call[c].request
                          wanted    == { z \in Zone :
                                           /\ Start(z) + ZoneSize > r.slba
                                           /\ r.filter # "All" => zone[z].zs = ZoneState[r.filter] }
                          described == call[c].answer.described
                      IN  /\ described \subseteq wanted
                          /\ described # wanted =>
                               Cardinality(wanted) > Fits(r.len, ZoneRecvAction[r.action])
                                 \/ r.len >= U32
                          /\ call[c].answer.nr_zones =
                               Cardinality(IF r.partial THEN described ELSE wanted)
    BY DEF ReportTruthful
  <2> DEFINE r      == call[c].request
             a      == recv_args(r)
             wanted == { z \in Zone :
                           /\ Start(z) + ZoneSize > r.slba
                           /\ r.filter # "All" => zone[z].zs = ZoneState[r.filter] }
  <2>1. /\ phase[c] = "done" /\ r.op = "recv" /\ r \in ZnsRequest /\ r.len \in Nat
        /\ call[c].answer = Report(a)
    <3>1. kept[c] /\ phase[c] = "done" /\ r.op = "recv" /\ call[c] \in CallType
      BY DEF Answered, IInv, CallsOK
    <3>2. ~Refused(r) /\ call[c].answer = Report(a) /\ r \in ZnsRequest
      BY <3>1 DEF IInv, ToldOK, Told, CallType
    <3> QED BY <3>1, <3>2 DEF Refused, ZnsRequest
  <2>2. /\ a.slba = r.slba /\ a.zra = ZoneRecvAction[r.action]
        /\ a.zrasf = ZoneReportFilter[r.filter] /\ a.zras_feat = r.partial
        /\ a.data_len = r.len % U32
    BY DEF recv_args, nvme_zns_mgmt_recv_args
  <2>3. r.filter \in DOMAIN ZoneReportFilter
    BY <2>1 DEF ZnsRequest
  <2> HIDE DEF a, r
  <2>4. Listed(a) = wanted
    <3>1. ASSUME NEW z \in Zone
          PROVE  (a.zrasf = ZoneReportFilter.All \/
                    \E f \in DOMAIN ZoneState :
                      ZoneReportFilter[f] = a.zrasf /\ ZoneState[f] = zone[z].zs)
                 <=> (r.filter # "All" => zone[z].zs = ZoneState[r.filter])
      BY <2>2, <2>3 DEF ZoneReportFilter, ZoneState
    <3> QED BY <2>2, <3>1 DEF Listed
  <2> DEFINE room      == Fits(a.data_len, a.zra)
             described == FirstOf(wanted, room)
  <2>5. /\ call[c].answer.described = described
        /\ call[c].answer.nr_zones = Cardinality(IF r.partial THEN described ELSE wanted)
    BY <2>1, <2>2, <2>4 DEF Report
  <2>6. r.len < U32 => room = Fits(r.len, ZoneRecvAction[r.action])
    <3>1. r.len < U32 => r.len % U32 = r.len
      BY <2>1, U32Assumption
    <3> QED BY <2>2, <3>1
  <2>7. r.len % U32 \in Nat
    BY <2>1, U32Assumption
  <2>8. room \in Nat /\ U32 \in Nat /\ r.len \in Nat
    BY <2>1, <2>2, <2>7, FitsType, U32Assumption
  <2>9. wanted \in SUBSET Zone /\ Cardinality(wanted) \in Nat
    BY ZoneFinite
  <2> HIDE DEF room, wanted
  <2>10. described \subseteq wanted /\ (Cardinality(wanted) <= room => described = wanted)
    BY <2>8, <2>9, FirstOfAll
  <2> HIDE DEF described
  <2>11. described # wanted =>
           Cardinality(wanted) > Fits(r.len, ZoneRecvAction[r.action]) \/ r.len >= U32
    BY <2>6, <2>8, <2>9, <2>10
  <2> QED BY <2>5, <2>10, <2>11 DEF r, wanted
<1> QED BY <1>1, Inductive, PTL

(* Data is lost only where a caller asked for the reset of the zone, or    *)
(* for taking it offline (ZnsMgmtSend::execute).                           *)
THEOREM LossesAskedFor == Spec => LostOnlyAsRequested
<1> DEFINE Lost(z) == ~Grows(zone[z].blocks, zone'[z].blocks)
           Asked(z) == \E c \in Caller :
             LET r == call[c].request IN
             /\ phase[c] = "sends" /\ phase'[c] = "done"
             /\ r.op = "send" /\ r.action \in {"Reset", "Offline"}
             /\ r.select_all \/ r.slba = Start(z)
<1>1. ASSUME IInv, NEW old \in Seq(Nat), NEW k \in Nat, NEW n \in Nat
      PROVE  Grows(old, old) /\ Grows(old, old \o [i \in 1 .. k |-> n])
  <2>1. Grows(old, old)
    BY DEF Grows
  <2> DEFINE added == [i \in 1 .. k |-> n]
             new   == old \o added
  <2>2. added \in Seq(Nat)
    OBVIOUS
  <2> HIDE DEF added
  <2>3. /\ new \in Seq(Nat) /\ Len(old) <= Len(new) /\ Len(old) \in Nat
        /\ \A i \in 1 .. Len(old) : new[i] = old[i]
    BY <2>2, Concat
  <2> HIDE DEF new
  <2>4. SubSeq(new, 1, Len(old)) = old
    BY <2>3
  <2> QED BY <2>1, <2>3, <2>4 DEF Grows, new, added
<1>2. ASSUME IInv, Next, NEW z \in Zone, Lost(z)
      PROVE  Asked(z)
  <2>1. ZonesOK /\ CallsOK /\ appends \in Nat /\ zone[z].blocks \in Seq(Nat)
    BY <1>2, ZnsAssumption DEF IInv, ZonesOK, ZoneType
  <2>2. zone'[z].blocks # zone[z].blocks
    BY <1>1, <1>2, <2>1
  <2>3. PICK d \in Caller : Take(d) \/ TimeOut(d)
    <3>1. ASSUME NEW y \in Zone, Wear(y)
          PROVE  zone'[z].blocks = zone[z].blocks
      BY <2>1, <3>1 DEF Wear, ZonesOK, ZoneType
    <3> QED BY <1>2, <2>2, <3>1 DEF Next, Begin, Refuse, Starts, Reject, Return
  <2> DEFINE r == call[d].request
  <2>4. PICK res \in Results(r) : zone' = res.zone
    BY <2>2, <2>3 DEF Take, TimeOut
  <2>5. phase[d] = "sends" /\ phase'[d] = "done" /\ r \in ZnsRequest /\ ~Refused(r)
    BY <2>1, <2>3 DEF Take, TimeOut, Fails, CallsOK, CallType
  <2>6. r.op = "send"
    <3>1. CASE r.op = "append"
      <4>1. res \in AppendResults(append_args(r))
        BY <2>4, <3>1 DEF Results
      <4>2. PICK y \in Zone :
              /\ r.nlb \in Nat
              /\ res.zone = [zone EXCEPT ![y] = Appended(zone[y], appends + 1, r.nlb)]
        BY <2>1, <2>5, <3>1, <4>1, AppendStep
      <4>3. y = z
        BY <2>1, <2>2, <2>4, <4>2 DEF ZonesOK
      <4>4. zone[z] \in ZoneType /\ appends + 1 \in Nat
        BY <2>1 DEF ZonesOK
      <4>5. zone'[z].blocks = zone[z].blocks \o [i \in 1 .. r.nlb |-> appends + 1]
        <5>1. zone'[z] = Appended(zone[z], appends + 1, r.nlb)
          BY <2>1, <2>4, <4>2, <4>3 DEF ZonesOK
        <5>2. Appended(zone[z], appends + 1, r.nlb).blocks
                = zone[z].blocks \o [i \in 1 .. r.nlb |-> appends + 1]
          BY <4>2, <4>4, AppendedIs
        <5> QED BY <5>1, <5>2
      <4>6. Grows(zone[z].blocks, zone'[z].blocks)
        <5> DEFINE k == r.nlb
        <5>1. k \in Nat /\ zone'[z].blocks = zone[z].blocks \o [i \in 1 .. k |-> appends + 1]
          BY <4>2, <4>5
        <5> HIDE DEF k
        <5>2. Grows(zone[z].blocks, zone[z].blocks \o [i \in 1 .. k |-> appends + 1])
          BY <1>1, <1>2, <2>1, <4>4, <5>1, Zenon
        <5> QED BY <5>1, <5>2, Zenon
      <4> QED BY <1>2, <4>6
    <3>2. CASE r.op = "recv"
      BY <2>2, <2>4, <3>2 DEF Results, RecvResults
    <3> QED BY <2>5, <3>1, <3>2 DEF ZnsRequest
  <2> DEFINE a == send_args(r)
  <2>7. z \in Targets(a) /\ zone'[z] = Acted(a.zsa, zone[z])
    <3>1. res.zone = [y \in Zone |-> IF y \in Targets(a) THEN Acted(a.zsa, zone[y])
                                                          ELSE zone[y]]
      BY <2>4, <2>6 DEF Results, SendResults
    <3> QED BY <2>2, <2>4, <3>1
  <2>8. /\ a.slba = r.slba /\ a.zsa = ZoneSendAction[r.action]
        /\ a.select_all = r.select_all
    BY DEF send_args
  <2>9. r.action \in DOMAIN ZoneSendAction
    BY <2>5, <2>6 DEF ZnsRequest
  <2> HIDE DEF a, r
  <2>10. r.action \in {"Reset", "Offline"}
    <3>1. zone[z] \in ZoneType
      BY <2>1 DEF ZonesOK
    <3>2. a.zsa \in {ZoneSendAction.Reset, ZoneSendAction.Offline}
      BY <2>2, <2>7, <2>8, <2>9, <3>1 DEF Acted, Targets, From, ZoneType, ZoneSendAction
    <3> QED BY <2>8, <2>9, <3>2 DEF ZoneSendAction
  <2>11. r.select_all \/ r.slba = Start(z)
    BY <2>7, <2>8 DEF Targets
  <2> QED BY <2>5, <2>6, <2>10, <2>11 DEF r
<1>3. ASSUME IInv, UNCHANGED vars, NEW z \in Zone
      PROVE  ~Lost(z)
  <2>1. zone[z].blocks \in Seq(Nat)
    BY <1>3 DEF IInv, ZonesOK, ZoneType
  <2> QED BY <1>1, <1>3, <2>1 DEF vars
<1>4. IInv /\ [Next]_vars => [\A z \in Zone : Lost(z) => Asked(z)]_vars
  BY <1>2, <1>3
<1> QED BY <1>4, Inductive, PTL DEF Spec, LostOnlyAsRequested
=============================================================================
