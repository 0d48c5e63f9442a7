--------------------------- MODULE MCReservations ---------------------------
(***************************************************************************)
(* Instances of Reservations for TLC: two hosts with a key each, and a     *)
(* buffer of execute_to_vec with room for one extended entry, so that two  *)
(* registrants overflow it as 64 overflow 4096 bytes.                      *)
(***************************************************************************)
EXTENDS Reservations, TLC

CONSTANTS k1, k2,  \* keys
          h1, h2   \* hosts

MCKey        == {k1, k2}
MCHost       == {h1, h2}
Symmetry     == Permutations(MCHost)
MCEntrySize  == [eds \in BOOLEAN |-> IF eds THEN 64 ELSE 24]
MCHeaderSize == [eds \in BOOLEAN |-> IF eds THEN 64 ELSE 24]

Base == [op |-> "report", action |-> "Report", crkey |-> NoKey, nrkey |-> NoKey,
         rtype |-> "WriteExclusive", iekey |-> FALSE, cptpl |-> "NoChange",
         eds |-> FALSE, len |-> -1]

Regs(action, crs, nrs, ptpls) ==
  { [Base EXCEPT !.op = "register", !.action = action, !.crkey = c, !.nrkey = n, !.cptpl = p] :
    c \in crs, n \in nrs, p \in ptpls }
Acqs(action, crs, nrs, types) ==
  { [Base EXCEPT !.op = "acquire", !.action = action, !.crkey = c, !.nrkey = n, !.rtype = t] :
    c \in crs, n \in nrs, t \in types }
Rels(action, crs, types) ==
  { [Base EXCEPT !.op = "release", !.action = action, !.crkey = c, !.rtype = t] :
    c \in crs, t \in types }
Reports(lens, edss) ==
  { [Base EXCEPT !.len = l, !.eds = e] : l \in lens, e \in edss }
Ignoring(reqs) == { [r EXCEPT !.iekey = TRUE] : r \in reqs }

(* Two hosts register, compete for the reservation and report.  A report   *)
(* that execute() refuses as too short is one that execute_to_vec makes.   *)
MCRequests ==
  Regs("Register", {NoKey}, {k1}, {"NoChange"})
  \cup Regs("Replace", {k1}, {k2}, {"Persist"})
  \cup Ignoring(Regs("Unregister", {NoKey}, {NoKey}, {"Clear"}))
  \cup Acqs("Acquire", {k1}, {NoKey}, {"WriteExclusive", "ExclusiveAccessAllRegistrants"})
  \cup Acqs("Preempt", {k1}, {k2}, {"ExclusiveAccess"})
  \cup Rels("Release", {k1}, {"WriteExclusive"})
  \cup Rels("Clear", {k2}, {"WriteExclusive"})
  \cup Reports({32}, {TRUE})
=============================================================================
