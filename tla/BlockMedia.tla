---------------------------- MODULE BlockMedia ----------------------------
(***************************************************************************)
(* What a namespace does with the logical blocks a command names.  The     *)
(* controller is not part of the repository: these operators say only what *)
(* the crate's doc comments and the vendored libnvme headers promise of    *)
(* it.  They take plain sets and sequences of LBAs, so that the caller's   *)
(* view (BlockStore) and the wire view (BlockIo) can both be written with  *)
(* them.                                                                   *)
(***************************************************************************)
EXTENDS Ioctl, Sequences

CONSTANTS
  Lba,        \* the addresses of the largest format, 0 .. n-1
  Value,      \* contents a host can write to a block
  Zero,       \* the value Write Zeroes and Format leave
  Uncor,      \* a block marked by Write Uncorrectable
  Torn,       \* a block whose transfer did not match the host's buffer
  LbaFormat,  \* the LBA formats of the namespace
  LbaSize,    \* bytes per block of each format
  LbaCount    \* blocks of the namespace under each format

ASSUME MediaAssumption ==
  /\ Lba \subseteq Nat
  /\ Zero \in Value
  /\ Uncor \notin Value /\ Torn \notin Value /\ Uncor # Torn
  /\ LbaSize \in [LbaFormat -> Nat \ {0}]
  /\ LbaCount \in [LbaFormat -> Nat]
  /\ \A f \in LbaFormat : 0 .. LbaCount[f] - 1 \subseteq Lba

Cell == Value \cup {Uncor, Torn}

DataOps   == {"read", "write", "compare"}
NoDataOps == {"verify", "write_zeroes", "write_uncor"}

Blocks(slba, n) == slba .. slba + n - 1

(* The blocks a format with that many of them has.                         *)
Valid(f) == 0 .. LbaCount[f] - 1

(* Writes land in a volatile cache; Force Unit Access and Flush make the   *)
(* blocks S they cover survive a power loss.                               *)
Persist(durable, now, S) == [b \in Lba |-> IF b \in S THEN now[b] ELSE durable[b]]

Fill(old, S, x) == [b \in Lba |-> IF b \in S THEN x ELSE old[b]]

(* The status codes of block commands.                                     *)
LbaOutOfRange   == 128
UnrecoveredRead == 641
CompareFailure  == 645

(* The contents a range command may leave, given the ones it found.        *)
RangeOutcomes(op, S, v, old) ==
  CASE op = "write"        -> {Fill(old, S, v)}
    [] op = "write_zeroes" -> {Fill(old, S, Zero)}
    [] op = "write_uncor"  -> {Fill(old, S, Uncor)}
    [] OTHER               -> {old}

(* The status it completes with.                                           *)
RangeStatus(op, S, v, old) ==
  CASE op \in {"read", "verify", "compare"} /\ \E b \in S : old[b] = Uncor
         -> UnrecoveredRead
    [] op = "compare" /\ \E b \in S : old[b] # v
         -> CompareFailure
    [] OTHER -> Success

(* Deallocation is advice: each named block reads back as zeroes or as it  *)
(* was.                                                                    *)
DeallocOutcomes(S, old) == { Fill(old, D, Zero) : D \in SUBSET S }

(* Copy concatenates the source blocks, range after range, from sdlba on.  *)
(* A source range is a record with the fields slba and n, a block count.   *)
CopyStart(ranges) ==
  LET start[i \in 1 .. Len(ranges) + 1] ==
        IF i = 1 THEN 0 ELSE start[i - 1] + ranges[i - 1].n
  IN  start

CopyLength(ranges) == CopyStart(ranges)[Len(ranges) + 1]

CopySource(ranges, k) ==
  LET start == CopyStart(ranges)
      i == CHOOSE j \in 1 .. Len(ranges) : start[j] <= k /\ k < start[j + 1]
  IN  ranges[i].slba + (k - start[i])

CopyInRange(sdlba, ranges, count) ==
  \A k \in 0 .. CopyLength(ranges) - 1 :
    /\ CopySource(ranges, k) \in 0 .. count - 1
    /\ sdlba + k < count

CopyStatus(ranges, old) ==
  IF \E k \in 0 .. CopyLength(ranges) - 1 : old[CopySource(ranges, k)] = Uncor
  THEN UnrecoveredRead ELSE Success

CopyOutcome(sdlba, ranges, old) ==
  LET copied == 0 .. CopyLength(ranges) - 1
  IN  [b \in Lba |-> IF \E k \in copied : b = sdlba + k
                     THEN old[CopySource(ranges, CHOOSE k \in copied : b = sdlba + k)]
                     ELSE old[b]]
=============================================================================
