---------------------------- MODULE BlockStore ----------------------------
(***************************************************************************)
(* What the block I/O half of the crate promises its callers, in their own *)
(* terms: 1-based block counts, a buffer of nlb * lba_size bytes, Force    *)
(* Unit Access.  A call that is not well formed is refused and does        *)
(* nothing; any other takes effect at most once, atomically, between its   *)
(* invocation and its return, on exactly the blocks it names.              *)
(*                                                                         *)
(* With CopyShort = DsmShort = 0 this is the promise of the documentation. *)
(* With 1 and 1 every Copy leaves out the last of its ranges and every     *)
(* range of a Dsm the last of its blocks.  BlockIo, which is translated    *)
(* from the code, implements this module for 1 and 1, and for 0 and 0 as   *)
(* long as nobody calls Copy or Dsm.                                       *)
(***************************************************************************)
EXTENDS BlockMedia

CONSTANTS
  Client,        \* processes, each with a Namespace handle of its own Root
  Request,       \* the calls they make
  MaxNlb,        \* most blocks of one command (65,536)
  MaxDsmRanges,  \* most ranges of one Dsm call (256)
  MaxCopyRanges, \* most ranges of one Copy call (128)
  U32,           \* 2^32: lengths from here on are not promised anything
  CopyShort,     \* how many of its ranges a Copy leaves out
  DsmShort       \* how many of its blocks a range of a Dsm leaves out

VARIABLES
  cur,     \* what a read of each block returns
  stable,  \* what it would return after a power loss
  fmt,     \* the format of the namespace
  geo,     \* the format each client's handle was scanned under
  call     \* each client's current call: stage, request, reply

vars == <<cur, stable, fmt, geo, call>>

IoErr   == [kind |-> "Os", code |-> 110]
Refused == [kind |-> "InvalidArgument", code |-> 0]
Replied(code) == [kind |-> IF code = Success THEN "Ok" ELSE "Nvme", code |-> code]

NoRequest == [op |-> "none", slba |-> 0, nlb |-> 0, len |-> 0, val |-> Zero,
              fua |-> FALSE, ranges |-> <<>>, lbaf |-> 0]
Idle == [st |-> "returned", req |-> NoRequest, reply |-> Replied(Success), data |-> <<>>]

WellFormed(req, f) ==
  /\ req.op \in DataOps \cup NoDataOps => req.nlb \in 1 .. MaxNlb
  /\ req.op \in DataOps => req.len = req.nlb * LbaSize[f]
  /\ req.op = "dsm"  => Len(req.ranges) \in 1 .. MaxDsmRanges
  /\ req.op = "copy" => Len(req.ranges) \in 1 .. MaxCopyRanges

(* A range of zero blocks stands for one block.                            *)
AtLeastOne(n) == IF n = 0 THEN 1 ELSE n

(* The blocks a Dsm deallocates and the source ranges of a Copy.           *)
Named(req) == UNION { Blocks(req.ranges[i].slba, AtLeastOne(req.ranges[i].nlb) - DsmShort) :
                      i \in DOMAIN req.ranges }
Sources(req) == [i \in 1 .. Len(req.ranges) - CopyShort |->
                  [slba |-> req.ranges[i].slba, n |-> AtLeastOne(req.ranges[i].nlb)]]

Init ==
  /\ cur = [b \in Lba |-> Zero]
  /\ stable = cur
  /\ fmt \in LbaFormat
  /\ geo = [c \in Client |-> fmt]
  /\ call = [c \in Client |-> Idle]

Invoke(c, req) ==
  /\ call[c].st = "returned"
  /\ WellFormed(req, geo[c])
  /\ call' = [call EXCEPT ![c] = [Idle EXCEPT !.st = "open", !.req = req]]
  /\ UNCHANGED <<cur, stable, fmt, geo>>

(* Refused as malformed, or because the device cannot be opened.           *)
Refuse(c, why) ==
  /\ call[c].st = "returned"
  /\ call' = [call EXCEPT ![c] = [Idle EXCEPT !.reply = why]]
  /\ UNCHANGED <<cur, stable, fmt, geo>>

(* A step of the device that completes the open call of client c.          *)
Completes(c, code, data) ==
  /\ call[c].st = "open"
  /\ call' = [call EXCEPT ![c].st = "applied", ![c].reply = Replied(code),
                          ![c].data = data]
  /\ UNCHANGED geo

NoEffect == UNCHANGED <<cur, stable, fmt>>

ApplyRange(c) ==
  LET req == call[c].req
      S == Blocks(req.slba, req.nlb)
  IN  /\ req.op \in DataOps \cup NoDataOps
      /\ \/ /\ ~(S \subseteq Valid(fmt))
            /\ Completes(c, LbaOutOfRange, <<>>)
            /\ NoEffect
         \/ /\ S \subseteq Valid(fmt)
            /\ Completes(c, RangeStatus(req.op, S, req.val, cur),
                         IF req.op = "read" /\ RangeStatus("read", S, Zero, cur) = Success
                         THEN [i \in 1 .. req.nlb |-> cur[req.slba + i - 1]] ELSE <<>>)
            /\ cur' \in RangeOutcomes(req.op, S, req.val, cur)
            /\ stable' = IF req.fua THEN Persist(stable, cur', S) ELSE stable
            /\ UNCHANGED fmt

(* Nothing is promised of a transfer through a handle that was scanned     *)
(* under another block size, or of 2^32 bytes and more, but that it leaves *)
(* the other blocks alone.                                                 *)
ApplyMisfit(c) ==
  LET req == call[c].req
      S == Blocks(req.slba, req.nlb)
  IN  /\ req.op \in DataOps
      /\ LbaSize[geo[c]] # LbaSize[fmt] \/ req.len >= U32
      /\ S \subseteq Valid(fmt)
      /\ \/ Completes(c, InvalidField, <<>>) /\ NoEffect
         \/ /\ Completes(c, Success, <<Torn>>)
            /\ cur' = IF req.op = "write" THEN Fill(cur, S, Torn) ELSE cur
            /\ stable' = IF req.fua THEN Persist(stable, cur', S) ELSE stable
            /\ UNCHANGED fmt

(* Deallocation is advice, so it may skip blocks; it never reaches one     *)
(* that is not named.                                                      *)
ApplyDsm(c) ==
  LET S == Named(call[c].req)
  IN  /\ call[c].req.op = "dsm"
      /\ \/ /\ ~(S \subseteq Valid(fmt))
            /\ Completes(c, LbaOutOfRange, <<>>)
            /\ NoEffect
         \/ /\ S \subseteq Valid(fmt)
            /\ Completes(c, Success, <<>>)
            /\ cur' \in DeallocOutcomes(S, cur)
            /\ UNCHANGED <<stable, fmt>>

(* All the sources are copied, in order, or none: what a Copy of no source *)
(* returns is open.                                                        *)
ApplyCopy(c) ==
  LET req == call[c].req
      src == Sources(req)
  IN  /\ req.op = "copy"
      /\ \/ src = <<>> /\ Completes(c, InvalidField, <<>>) /\ NoEffect
         \/ /\ ~CopyInRange(req.slba, src, LbaCount[fmt])
            /\ Completes(c, LbaOutOfRange, <<>>)
            /\ NoEffect
         \/ /\ CopyInRange(req.slba, src, LbaCount[fmt])
            /\ CopyStatus(src, cur) # Success
            /\ Completes(c, UnrecoveredRead, <<>>)
            /\ NoEffect
         \/ /\ CopyInRange(req.slba, src, LbaCount[fmt])
            /\ CopyStatus(src, cur) = Success
            /\ Completes(c, Success, <<>>)
            /\ cur' = CopyOutcome(req.slba, src, cur)
            /\ stable' = IF req.fua
                         THEN Persist(stable, cur', Blocks(req.slba, CopyLength(src)))
                         ELSE stable
            /\ UNCHANGED fmt

ApplyFlush(c) ==
  /\ call[c].req.op = "flush"
  /\ Completes(c, Success, <<>>)
  /\ stable' = cur
  /\ UNCHANGED <<cur, fmt>>

ApplyFormat(c) ==
  /\ call[c].req.op = "format"
  /\ IF call[c].req.lbaf \in LbaFormat
     THEN /\ Completes(c, Success, <<>>)
          /\ fmt' = call[c].req.lbaf
          /\ cur' = [b \in Lba |-> Zero]
          /\ stable' = [b \in Lba |-> Zero]
     ELSE /\ Completes(c, InvalidField, <<>>)
          /\ NoEffect

(* The reply is lost: an open call then never takes effect, and one that   *)
(* has is reported as failed all the same.                                 *)
Lose(c) ==
  /\ call[c].st \in {"open", "applied"}
  /\ call' = [call EXCEPT ![c].st = "applied", ![c].reply = IoErr, ![c].data = <<>>]
  /\ UNCHANGED <<cur, stable, fmt, geo>>

Return(c) ==
  /\ call[c].st = "applied"
  /\ call' = [call EXCEPT ![c] = [Idle EXCEPT !.reply = call[c].reply]]
  /\ UNCHANGED <<cur, stable, fmt, geo>>

Rescan(c) ==
  /\ call[c].st = "returned"
  /\ geo' = [geo EXCEPT ![c] = fmt]
  /\ UNCHANGED <<cur, stable, fmt, call>>

Destage(b) ==
  /\ stable' = [stable EXCEPT ![b] = cur[b]]
  /\ UNCHANGED <<cur, fmt, geo, call>>

PowerLoss ==
  /\ cur' = stable
  /\ call' = [c \in Client |-> IF call[c].st = "open"
                               THEN [call[c] EXCEPT !.st = "applied", !.reply = IoErr]
                               ELSE call[c]]
  /\ UNCHANGED <<stable, fmt, geo>>

Next ==
  \/ \E c \in Client :
       \/ \E req \in Request : Invoke(c, req)
       \/ \E why \in {Refused, IoErr} : Refuse(c, why)
       \/ ApplyRange(c) \/ ApplyMisfit(c) \/ ApplyDsm(c) \/ ApplyCopy(c)
       \/ ApplyFlush(c) \/ ApplyFormat(c)
       \/ Lose(c) \/ Return(c) \/ Rescan(c)
  \/ \E b \in Lba : Destage(b)
  \/ PowerLoss

Spec == Init /\ [][Next]_vars
=============================================================================
