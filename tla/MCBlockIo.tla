----------------------------- MODULE MCBlockIo -----------------------------
(***************************************************************************)
(* Instances of BlockIo for TLC: a namespace of two small blocks, or with  *)
(* LBA format 1 of one large block (of two where capacity does not limit   *)
(* it), and at most two blocks per command.                                *)
(***************************************************************************)
EXTENDS BlockIo

CONSTANT a  \* the one value hosts write

MCLba      == 0 .. 1
MCFormat   == 0 .. 1
MCLbaSize  == [f \in MCFormat |-> f + 1]
MCLbaCount == [f \in MCFormat |-> 2 - f]
MCTwoEach  == [f \in MCFormat |-> 2]
MCValue    == {a, Zero}

With(op) == [NoRequest EXCEPT !.op = op]

(* A buffer has the right length for one of the formats, or one byte.      *)
Data(op, slbas, counts, fuas) ==
  { [With(op) EXCEPT !.slba = s, !.nlb = n, !.len = l, !.val = a, !.fua = f] :
    s \in slbas, n \in counts, l \in 0 .. 2 * (MaxNlb + 1), f \in fuas }
  \cap { r \in RequestType : r.len \in {1, r.nlb, 2 * r.nlb} }

NoData(op, slbas, counts, fuas) ==
  { [With(op) EXCEPT !.slba = s, !.nlb = n, !.fua = f] : s \in slbas, n \in counts, f \in fuas }

(* No range, one, two, and one list that is too long.                      *)
Lists ==
  {<<>>} \cup [1 .. 1 -> [slba : Lba, nlb : 0 .. 2]]
  \cup [1 .. 2 -> [slba : Lba, nlb : 1 .. 1]]
  \cup [1 .. 3 -> [slba : {0}, nlb : {0}]]

Ranged(op, slbas, fuas) ==
  { [With(op) EXCEPT !.slba = s, !.ranges = r, !.fua = f] :
    s \in slbas, r \in Lists, f \in fuas }

(* Every command, with counts from one too few to one too many and lists   *)
(* of zero to three ranges.                                                *)
CommandRequests ==
  LET counts == 0 .. MaxNlb + 1
  IN  Data("read", {0}, counts, {FALSE}) \cup Data("read", {1}, {2}, {FALSE})
      \cup Data("write", {0}, counts, {TRUE}) \cup Data("write", {1}, {1}, {FALSE})
      \cup Data("compare", {0}, counts, {FALSE}) \cup NoData("verify", {1}, counts, {FALSE})
      \cup NoData("write_zeroes", {1}, counts, {TRUE}) \cup NoData("write_uncor", {0}, counts, {FALSE})
      \cup {With("flush"), [With("format") EXCEPT !.lbaf = 2]}
      \cup Ranged("dsm", {0}, {FALSE}) \cup Ranged("copy", {0}, {FALSE})
      \cup { r \in Ranged("copy", {1}, {TRUE}) : Len(r.ranges) = 2 }

(* Commands with a list of ranges, and writes for them to move.            *)
ListRequests ==
  Ranged("dsm", {0}, {FALSE}) \cup Ranged("copy", Lba, {FALSE})
  \cup { r \in Data("write", Lba, {1}, {FALSE}) : r.len = 1 }

(* Two processes write, read and flush, and format under each other's feet.*)
SharedRequests ==
  { r \in Data("read", {0}, {1}, {FALSE}) : r.len \in {1, 2} }
  \cup { r \in Data("write", {0}, 1 .. 2, {FALSE}) : r.len = 2 }
  \cup { r \in Data("write", {1}, {1}, {TRUE}) : r.len = 1 }
  \cup {With("flush")}
  \cup { [With("format") EXCEPT !.lbaf = f] : f \in LbaFormat }
=============================================================================
