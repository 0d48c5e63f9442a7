------------------------------ MODULE BlockIo ------------------------------
(***************************************************************************)
(* The block I/O commands of a Namespace handle (io.rs, and Format in      *)
(* namespace.rs), issued by several processes to one namespace.            *)
(*                                                                         *)
(* Each Client is a process with a Root of its own, hence a handle of its  *)
(* own: the block size it validates buffers with is the one libnvme read   *)
(* when the tree was scanned, and the file descriptor is opened by the     *)
(* first command and kept.  An execute() checks its arguments, opens the   *)
(* device, marshals the arguments and blocks in the ioctl; the namespace   *)
(* serves the commands in flight in any order, and power may fail, a       *)
(* command time out or its completion get lost in between.                 *)
(***************************************************************************)
EXTENDS BlockMedia

CONSTANTS
  Client,         \* processes, each with a Namespace handle
  Request,        \* the calls they make, see RequestType
  MaxNlb,         \* 65,536: the values of the 16-bit NLB field
  MaxDsmRanges,   \* 256
  MaxCopyRanges,  \* 128
  U32             \* 2^32: the values of the 32-bit data_len field

ASSUME BlockIoAssumption ==
  /\ MaxNlb \in Nat \ {0}
  /\ MaxDsmRanges \in Nat /\ MaxCopyRanges \in Nat
  /\ U32 \in Nat \ {0}

VARIABLES
  content,  \* device: what a read of each block returns
  media,    \* device: what is on non-volatile media
  fmt,      \* device: the LBA format in use
  handle,   \* libnvme: per client, the format it was scanned under and fd
  call      \* per client, the execute() in progress or last returned

vars == <<content, media, fmt, handle, call>>

(* The fields of the builders; each command uses the ones it has.          *)
RequestOps == DataOps \cup NoDataOps \cup {"dsm", "copy", "flush", "format"}

RequestType ==
  [op : RequestOps,
   slba : Nat, nlb : Nat, len : Nat, val : Value, fua : BOOLEAN,
   ranges : Seq([slba : Nat, nlb : Nat]), lbaf : Nat]

(* Callers may also pass Read a buffer that has just the right size.       *)
ASSUME RequestAssumption ==
  /\ Request \subseteq RequestType
  /\ \A req \in Request, f \in LbaFormat :
       req.op = "read" => [req EXCEPT !.len = req.nlb * LbaSize[f]] \in Request

NoRequest == [op |-> "none", slba |-> 0, nlb |-> 0, len |-> 0, val |-> Zero,
              fua |-> FALSE, ranges |-> <<>>, lbaf |-> 0]
NoCommand == [opc |-> "none", slba |-> 0, nlb |-> 0, data |-> Zero, data_len |-> 0,
              control |-> {}, ranges |-> <<>>, nr |-> 0, lbaf |-> 0]
Idle == [st |-> "returned", req |-> NoRequest, cmd |-> NoCommand, ret |-> 0,
         reply |-> [kind |-> "Ok", code |-> 0], data |-> <<>>]

----------------------------------------------------------------------------
(* Argument checks and encodings.                                          *)

Invalid == -1

(* Mutant: the NLB field taken for a count.                                *)
encode_nlb_OneBased(nlb) == IF nlb = 0 \/ nlb > MaxNlb THEN Invalid ELSE nlb % MaxNlb

encode_nlb(nlb) == IF nlb = 0 \/ nlb > MaxNlb THEN Invalid ELSE (nlb - 1) % MaxNlb

saturating_sub(a, b) == IF a < b THEN 0 ELSE a - b

lba_size(c) == LbaSize[handle[c].lbaf]

(* Mutant: a buffer that is too long passes.                               *)
check_buf_len_AtLeast(c, req) == req.len >= req.nlb * lba_size(c)

check_buf_len(c, req) == req.len = req.nlb * lba_size(c)

read_to_vec_len(nlb, c) == nlb * lba_size(c)

(* Mutant: the builder forgets force_unit_access.                          *)
apply_to_NoFua(req) == {}

apply_to(req) == IF req.fua THEN {"FUA"} ELSE {}

base_args(req, nlb_enc, data_len) ==
  [NoCommand EXCEPT !.opc = req.op, !.slba = req.slba, !.nlb = nlb_enc, !.data = req.val,
                    !.data_len = data_len, !.control = apply_to(req)]

(* DsmRange::new stores, and execute sends, one less than the count.       *)
dsm_ranges(req) ==
  [i \in DOMAIN req.ranges |->
    [slba |-> req.ranges[i].slba, nlb |-> saturating_sub(req.ranges[i].nlb, 1)]]

(* Mutant: a plain subtraction, which underflows for a count of zero.      *)
copy_ranges_Underflow(req) ==
  [i \in DOMAIN req.ranges |->
    [slba |-> req.ranges[i].slba, nlb |-> req.ranges[i].nlb - 1]]

copy_ranges(req) ==
  [i \in DOMAIN req.ranges |->
    [slba |-> req.ranges[i].slba, nlb |-> saturating_sub(req.ranges[i].nlb, 1)]]

copy_nr(req) == Len(req.ranges) - 1

----------------------------------------------------------------------------
(* The host side: one execute() per command.                               *)

Init ==
  /\ content = [b \in Lba |-> Zero]
  /\ media = content
  /\ fmt \in LbaFormat
  /\ handle = [c \in Client |-> [lbaf |-> fmt, fd |-> FALSE]]
  /\ call = [c \in Client |-> Idle]

DeviceUnchanged == UNCHANGED <<content, media, fmt>>

(* execute() returns before the ioctl.                                     *)
ReturnEarly(c, reply) ==
  /\ call' = [call EXCEPT ![c] = [Idle EXCEPT !.reply = reply]]
  /\ UNCHANGED handle
  /\ DeviceUnchanged

(* ns_fd: a descriptor that is already open is used again, and opening one *)
(* may fail; the command is then handed to the kernel.                     *)
Issue(c, req, cmd) ==
  \/ /\ ~handle[c].fd
     /\ ReturnEarly(c, OsError)
  \/ /\ handle' = [handle EXCEPT ![c].fd = TRUE]
     /\ call' = [call EXCEPT ![c] = [Idle EXCEPT !.st = "inflight", !.req = req, !.cmd = cmd]]
     /\ DeviceUnchanged

(* An execute() that passes its checks issues cmd; no other opens the      *)
(* device.                                                                 *)
Execute(c, req, checks, cmd) ==
  /\ call[c].st = "returned"
  /\ \/ ~checks /\ ReturnEarly(c, InvalidArgument)
     \/ checks /\ Issue(c, req, cmd)

(* Read, Write and Compare.                                                *)
data_checks(c, req) == check_buf_len(c, req) /\ encode_nlb(req.nlb) # Invalid

ExecuteData(c, req) ==
  /\ req.op \in DataOps
  /\ Execute(c, req, data_checks(c, req),
             base_args(req, encode_nlb(req.nlb), req.len % U32))

(* Namespace::read_to_vec: a Read into a buffer it sizes itself.           *)
ReadToVec(c, req) ==
  /\ req.op = "read"
  /\ ExecuteData(c, [req EXCEPT !.len = read_to_vec_len(req.nlb, c)])

(* Verify, WriteZeroes and WriteUncorrectable.                             *)
nodata_checks(req) == encode_nlb(req.nlb) # Invalid

ExecuteNoData(c, req) ==
  /\ req.op \in NoDataOps
  /\ Execute(c, req, nodata_checks(req), base_args(req, encode_nlb(req.nlb), 0))

dsm_checks(req) == Len(req.ranges) # 0 /\ Len(req.ranges) <= MaxDsmRanges

ExecuteDsm(c, req) ==
  /\ req.op = "dsm"
  /\ Execute(c, req, dsm_checks(req),
             [NoCommand EXCEPT !.opc = "dsm", !.ranges = dsm_ranges(req),
                               !.nr = Len(req.ranges)])

copy_checks(req) == Len(req.ranges) # 0 /\ Len(req.ranges) <= MaxCopyRanges

ExecuteCopy(c, req) ==
  /\ req.op = "copy"
  /\ Execute(c, req, copy_checks(req),
             [NoCommand EXCEPT !.opc = "copy", !.slba = req.slba, !.control = apply_to(req),
                               !.ranges = copy_ranges(req), !.nr = copy_nr(req)])

flush(c, req) ==
  /\ req.op = "flush"
  /\ Execute(c, req, TRUE, [NoCommand EXCEPT !.opc = "flush"])

(* Mutant: the requested LBA format is not passed on.                      *)
ExecuteFormat_Lbaf0(c, req) ==
  /\ req.op = "format"
  /\ Execute(c, req, TRUE, [NoCommand EXCEPT !.opc = "format"])

ExecuteFormat(c, req) ==
  /\ req.op = "format"
  /\ Execute(c, req, TRUE, [NoCommand EXCEPT !.opc = "format", !.lbaf = req.lbaf])

(* Mutant: execute() submits the command again when the ioctl fails.       *)
Return_Retries(c) ==
  /\ call[c].st = "completed"
  /\ call' = [call EXCEPT ![c] = IF call[c].ret < 0
                                 THEN [@ EXCEPT !.st = "inflight", !.ret = 0]
                                 ELSE [Idle EXCEPT !.reply = check_ret(call[c].ret)]]
  /\ UNCHANGED handle
  /\ DeviceUnchanged

(* The ioctl returns; execute() turns its value into a Result.             *)
Return(c) ==
  /\ call[c].st = "completed"
  /\ call' = [call EXCEPT ![c] = [Idle EXCEPT !.reply = check_ret(call[c].ret)]]
  /\ UNCHANGED handle
  /\ DeviceUnchanged

(* The process drops its Root and scans again.                             *)
Rescan(c) ==
  /\ call[c].st = "returned"
  /\ handle' = [handle EXCEPT ![c] = [lbaf |-> fmt, fd |-> FALSE]]
  /\ UNCHANGED call
  /\ DeviceUnchanged

----------------------------------------------------------------------------
(* The kernel and the namespace, in terms of what is on the wire.          *)

Complete(c, ret, data) ==
  /\ call' = [call EXCEPT ![c].st = "completed", ![c].ret = ret, ![c].data = data]
  /\ UNCHANGED handle

FuaBlocks(cmd, S) == IF "FUA" \in cmd.control THEN S ELSE {}

(* NLB is a 0's based field.                                               *)
WireBlocks(cmd) == Blocks(cmd.slba, cmd.nlb + 1)

TransferFits(cmd) ==
  cmd.opc \in DataOps => cmd.data_len = (cmd.nlb + 1) * LbaSize[fmt]

ServeRange(c) ==
  LET cmd == call[c].cmd
      op == cmd.opc
      val == cmd.data
      S == WireBlocks(cmd)
  IN  /\ call[c].st = "inflight"
      /\ op \in DataOps \cup NoDataOps
      /\ S \subseteq Valid(fmt)
      /\ TransferFits(cmd)
      /\ Complete(c, RangeStatus(op, S, val, content),
                  IF op = "read" /\ RangeStatus("read", S, Zero, content) = Success
                  THEN [i \in 1 .. cmd.nlb + 1 |-> content[cmd.slba + i - 1]] ELSE <<>>)
      /\ content' \in RangeOutcomes(op, S, val, content)
      /\ media' = Persist(media, content', FuaBlocks(cmd, S))
      /\ UNCHANGED fmt

(* Host and device disagree on the length of the transfer: the command     *)
(* fails, or moves something else than the caller's blocks.                *)
ServeMisfit(c) ==
  LET cmd == call[c].cmd
      S == WireBlocks(cmd)
  IN  /\ call[c].st = "inflight"
      /\ call[c].cmd.opc \in DataOps \cup NoDataOps
      /\ S \subseteq Valid(fmt)
      /\ ~TransferFits(cmd)
      /\ \/ Complete(c, InvalidField, <<>>) /\ DeviceUnchanged
         \/ /\ Complete(c, Success, <<Torn>>)
            /\ content' = IF cmd.opc = "write" THEN Fill(content, S, Torn) ELSE content
            /\ media' = Persist(media, content', FuaBlocks(cmd, S))
            /\ UNCHANGED fmt

ServeOutOfRange(c) ==
  /\ call[c].st = "inflight"
  /\ call[c].cmd.opc \in DataOps \cup NoDataOps
  /\ ~(WireBlocks(call[c].cmd) \subseteq Valid(fmt))
  /\ Complete(c, LbaOutOfRange, <<>>)
  /\ DeviceUnchanged

(* The length of a Dataset Management range is a count of blocks.          *)
DsmBlocks(cmd) ==
  UNION { Blocks(cmd.ranges[i].slba, cmd.ranges[i].nlb) : i \in 1 .. cmd.nr }

ServeDsm(c) ==
  /\ call[c].st = "inflight"
  /\ call[c].cmd.opc = "dsm"
  /\ \/ /\ ~(DsmBlocks(call[c].cmd) \subseteq Valid(fmt))
        /\ Complete(c, LbaOutOfRange, <<>>)
        /\ DeviceUnchanged
     \/ /\ DsmBlocks(call[c].cmd) \subseteq Valid(fmt)
        /\ Complete(c, Success, <<>>)
        /\ content' \in DeallocOutcomes(DsmBlocks(call[c].cmd), content)
        /\ UNCHANGED <<media, fmt>>

(* nvme_copy_args.nr is a number of ranges; the nlb of a range is 0's      *)
(* based.  What a Copy of no range does is open.                           *)
CopyPayload(cmd) ==
  [i \in 1 .. cmd.nr |-> [slba |-> cmd.ranges[i].slba, n |-> cmd.ranges[i].nlb + 1]]

ServeCopy(c) ==
  LET cmd == call[c].cmd
      src == CopyPayload(cmd)
      ret == IF ~CopyInRange(cmd.slba, src, LbaCount[fmt]) THEN LbaOutOfRange
             ELSE CopyStatus(src, content)
  IN  /\ call[c].st = "inflight"
      /\ call[c].cmd.opc = "copy"
      /\ \/ cmd.nr = 0 /\ Complete(c, InvalidField, <<>>) /\ DeviceUnchanged
         \/ ret # Success /\ Complete(c, ret, <<>>) /\ DeviceUnchanged
         \/ /\ ret = Success
            /\ Complete(c, Success, <<>>)
            /\ content' = CopyOutcome(cmd.slba, src, content)
            /\ media' = Persist(media, content',
                                FuaBlocks(cmd, Blocks(cmd.slba, CopyLength(src))))
            /\ UNCHANGED fmt

ServeFlush(c) ==
  /\ call[c].st = "inflight"
  /\ call[c].cmd.opc = "flush"
  /\ Complete(c, Success, <<>>)
  /\ media' = content
  /\ UNCHANGED <<content, fmt>>

ServeFormat(c) ==
  /\ call[c].st = "inflight"
  /\ call[c].cmd.opc = "format"
  /\ \/ /\ call[c].cmd.lbaf \in LbaFormat
        /\ Complete(c, Success, <<>>)
        /\ fmt' = call[c].cmd.lbaf
        /\ content' = [b \in Lba |-> Zero]
        /\ media' = [b \in Lba |-> Zero]
     \/ /\ call[c].cmd.lbaf \notin LbaFormat
        /\ Complete(c, InvalidField, <<>>)
        /\ DeviceUnchanged

Serve(c) ==
  \/ ServeRange(c) \/ ServeMisfit(c) \/ ServeOutOfRange(c)
  \/ ServeDsm(c) \/ ServeCopy(c) \/ ServeFlush(c) \/ ServeFormat(c)

(* The command is aborted before it ran, or its completion is lost after:  *)
(* libnvme reports either as -1 with errno or as -errno.                   *)
Timeout(c) ==
  /\ call[c].st \in {"inflight", "completed"}
  /\ \E ret \in {-1, -Errno} : Complete(c, ret, <<>>)
  /\ DeviceUnchanged

Destage(b) ==
  /\ media' = [media EXCEPT ![b] = content[b]]
  /\ UNCHANGED <<content, fmt, handle, call>>

PowerLoss ==
  /\ content' = media
  /\ call' = [c \in Client |-> IF call[c].st = "inflight"
                               THEN [call[c] EXCEPT !.st = "completed", !.ret = -1]
                               ELSE call[c]]
  /\ UNCHANGED <<media, fmt, handle>>

----------------------------------------------------------------------------
Command(c, req) ==
  \/ ExecuteData(c, req) \/ ReadToVec(c, req) \/ ExecuteNoData(c, req)
  \/ ExecuteDsm(c, req) \/ ExecuteCopy(c, req) \/ flush(c, req) \/ ExecuteFormat(c, req)

Next ==
  \/ \E c \in Client :
       (\E req \in Request : Command(c, req)) \/ Serve(c) \/ Timeout(c) \/ Return(c) \/ Rescan(c)
  \/ \E b \in Lba : Destage(b)
  \/ PowerLoss

(* The kernel completes or aborts every command it accepted, and the       *)
(* blocked thread is scheduled again once it has.                          *)
Fairness == \A c \in Client : WF_vars(Serve(c) \/ Timeout(c)) /\ WF_vars(Return(c))

Spec == Init /\ [][Next]_vars
FairSpec == Spec /\ Fairness

----------------------------------------------------------------------------
(* Properties.                                                             *)

CommandType ==
  [opc : RequestOps \cup {"none"}, slba : Nat, nlb : Nat, data : Value, data_len : Nat,
   control : SUBSET {"FUA"}, ranges : Seq([slba : Nat, nlb : Nat]), nr : Nat, lbaf : Nat]

CallType ==
  [st : {"returned", "inflight", "completed"}, req : RequestType \cup {NoRequest},
   cmd : CommandType, ret : Int, reply : Reply, data : Seq(Cell)]

(* Every variable has its type: no block holds anything but what a host    *)
(* wrote, zeroes, an uncorrectable mark or the debris of a misfit.         *)
TypeOK ==
  /\ content \in [Lba -> Cell]
  /\ media \in [Lba -> Cell]
  /\ fmt \in LbaFormat
  /\ handle \in [Client -> [lbaf : LbaFormat, fd : BOOLEAN]]
  /\ call \in [Client -> CallType]

(* What is on the wire is what the caller asked for: the 0's based NLB     *)
(* field decodes to the requested count, and a buffer of less than 2^32    *)
(* bytes is announced with its length, which is the number of bytes the    *)
(* device will move as long as the handle's block size is the device's     *)
(* (io.rs: encode_nlb, check_buf_len, the cast to data_len).               *)
WireFaithful ==
  \A c \in Client : call[c].st = "inflight" =>
    LET req == call[c].req
        cmd == call[c].cmd
    IN  /\ cmd.opc = req.op
        /\ handle[c].fd
        /\ req.op \in DataOps \cup NoDataOps =>
             WireBlocks(cmd) = Blocks(req.slba, req.nlb) /\ req.nlb \in 1 .. MaxNlb
        /\ req.op \in DataOps /\ req.len < U32 =>
             /\ cmd.data_len = req.len
             /\ LbaSize[handle[c].lbaf] = LbaSize[fmt] => TransferFits(cmd)

(* A write whose buffer is not what the device takes.                      *)
Misfitting(c) ==
  LbaSize[handle[c].lbaf] # LbaSize[fmt] \/ call[c].req.len >= U32

Completing(c) == call[c].st = "inflight" /\ call'[c].st = "completed"

(* A block becomes torn only by a Write that names this block and whose    *)
(* own handle was scanned under another block size or whose own buffer has *)
(* 2^32 bytes or more, or by a Copy while some other block is torn: the    *)
(* buffer check excludes every other cause.                                *)
TornOnlyWhenStale ==
  [][ \A b \in Lba :
        content'[b] = Torn /\ Torn \notin {content[b], media[b]} =>
          \E c \in Client :
            LET req == call[c].req
            IN  /\ Completing(c)
                /\ \/ req.op = "write" /\ b \in Blocks(req.slba, req.nlb) /\ Misfitting(c)
                   \/ req.op = "copy" /\ \E s \in Lba : content[s] = Torn ]_vars

(* The state a caller sees: requests and replies, but no wire format.      *)
Seen(k) ==
  [st |-> CASE k.st = "inflight"  -> "open"
            [] k.st = "completed" -> "applied"
            [] OTHER              -> "returned",
   req |-> k.req,
   reply |-> IF k.st = "completed" THEN check_ret(k.ret) ELSE k.reply,
   data |-> k.data]

seen == [c \in Client |-> Seen(call[c])]
geo  == [c \in Client |-> handle[c].lbaf]

(* What the documentation promises, and what is built: a Copy leaves out   *)
(* its last range (copy_nr) and a range of a Dsm its last block            *)
(* (dsm_ranges).                                                           *)
Promise == INSTANCE BlockStore WITH cur <- content, stable <- media, call <- seen,
                                    CopyShort <- 0, DsmShort <- 0
Store   == INSTANCE BlockStore WITH cur <- content, stable <- media, call <- seen,
                                    CopyShort <- 1, DsmShort <- 1

(* A call is refused as InvalidArgument exactly when it is not well formed *)
(* in the caller's terms: a wrong buffer length, a block count outside     *)
(* 1..=65536, or too few or too many ranges (io.rs).                       *)
RefusesMalformed ==
  \A c \in Client, req \in Request :
    Store!WellFormed(req, handle[c].lbaf) <=>
      CASE req.op \in DataOps   -> data_checks(c, req)
        [] req.op \in NoDataOps -> nodata_checks(req)
        [] req.op = "dsm"       -> dsm_checks(req)
        [] req.op = "copy"      -> copy_checks(req)
        [] OTHER                -> TRUE

(* Every call is refused without effect or takes effect once, before it    *)
(* returns, with the durability it asked for, on exactly the blocks it     *)
(* names; but a Copy leaves out its last range, and a range of a Dsm its   *)
(* last block (io.rs).                                                     *)
ImplementsStore == Store!Spec

(* Without a Dsm or a Copy there is no such exception: the documented      *)
(* promise is kept by all processes together (io.rs).                      *)
KeepsPromise == Promise!Spec

(* Every execute() returns, whatever the device and the power do.          *)
EveryCallReturns ==
  \A c \in Client : call[c].st # "returned" ~> call[c].st = "returned"

(* A Dsm call deallocates (or may deallocate) every block its ranges name: *)
(* DsmRange::new(slba, nlb) covers nlb blocks (io.rs:797).                 *)
DsmCoversRanges ==
  \A c \in Client : call[c].st = "inflight" /\ call[c].req.op = "dsm" =>
    DsmBlocks(call[c].cmd) = Promise!Named(call[c].req)
=============================================================================
