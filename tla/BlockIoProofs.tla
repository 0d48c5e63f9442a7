--------------------------- MODULE BlockIoProofs ---------------------------
(***************************************************************************)
(* For every number of processes, every namespace geometry and every set   *)
(* of requests: the variables keep their types, a command on the wire says *)
(* what its caller asked for, a block is torn only by a Write of its own   *)
(* whose handle was scanned under another block size or whose buffer has   *)
(* 2^32 bytes or more, and every behaviour of the code is one BlockStore   *)
(* allows: as built, or as documented when nobody calls Copy or Dsm.       *)
(***************************************************************************)
EXTENDS BlockIo, TLAPS

(* A command cmd says what its request asked for.  The buffer was checked  *)
(* against the format f of the handle, not of the device: the handle       *)
(* cannot change while the call is in flight, the device can.              *)
Matches(req, cmd, f) ==
  /\ cmd.opc = req.op
  /\ req.op \in DataOps \cup NoDataOps =>
       /\ cmd.slba = req.slba /\ cmd.nlb + 1 = req.nlb /\ req.nlb \in 1 .. MaxNlb
       /\ cmd.data = req.val /\ cmd.control = apply_to(req)
  /\ req.op \in DataOps => cmd.data_len = req.len % U32 /\ req.len = req.nlb * LbaSize[f]
  /\ req.op = "dsm" => cmd.ranges = dsm_ranges(req) /\ cmd.nr = Len(req.ranges)
  /\ req.op = "copy" => /\ cmd.slba = req.slba /\ cmd.control = apply_to(req)
                        /\ cmd.ranges = copy_ranges(req) /\ cmd.nr = copy_nr(req)
  /\ req.op = "format" => cmd.lbaf = req.lbaf

(* What an execute() knows once its command is on the wire.                *)
Marshalled ==
  \A c \in Client : call[c].st = "inflight" =>
    /\ handle[c].fd /\ call[c].req \in Request
    /\ Matches(call[c].req, call[c].cmd, handle[c].lbaf)

IInv == TypeOK /\ Marshalled

----------------------------------------------------------------------------
(* The encodings.                                                          *)

(* A remainder is taken of numbers that are already smaller than the       *)
(* modulus.                                                                *)
LEMMA SmallMod ==
  ASSUME NEW m \in Nat \ {0}, NEW n \in 0 .. m - 1
  PROVE  n % m = n
OBVIOUS

(* encode_nlb refuses exactly the counts a command cannot carry, and what  *)
(* it returns for another is one less than the count.                      *)
LEMMA EncodeNlb ==
  ASSUME NEW nlb \in Nat
  PROVE  /\ encode_nlb(nlb) # Invalid <=> nlb \in 1 .. MaxNlb
         /\ encode_nlb(nlb) # Invalid => encode_nlb(nlb) \in Nat /\ encode_nlb(nlb) + 1 = nlb
<1>1. nlb \in 1 .. MaxNlb => (nlb - 1) % MaxNlb = nlb - 1
  BY BlockIoAssumption, SmallMod
<1> QED BY <1>1, BlockIoAssumption DEF encode_nlb, Invalid

(* A length below 2^32 survives the cast to data_len.                      *)
LEMMA DataLen ==
  ASSUME NEW len \in Nat
  PROVE  len % U32 \in Nat /\ (len < U32 => len % U32 = len)
<1>1. U32 \in Nat \ {0}
  BY BlockIoAssumption
<1> QED BY <1>1, SmallMod

----------------------------------------------------------------------------
(* The host side.                                                          *)

LEMMA NoCommandType == NoCommand \in CommandType
<1>1. <<>> \in Seq([slba : Nat, nlb : Nat])
  OBVIOUS
<1> QED BY <1>1, MediaAssumption DEF NoCommand, CommandType

LEMMA IdleType == Idle \in CallType /\ Idle.st = "returned"
<1>1. NoRequest \in RequestType \cup {NoRequest}
  OBVIOUS
<1>2. <<>> \in Seq(Cell)
  OBVIOUS
<1> QED BY <1>1, <1>2, NoCommandType DEF Idle, CallType, Reply

(* An execute() preserves the invariant if the command it would issue      *)
(* matches the request whenever the checks pass.                           *)
LEMMA ExecutePreserves ==
  ASSUME IInv, NEW c \in Client, NEW req \in Request, NEW checks \in BOOLEAN, NEW cmd,
         Execute(c, req, checks, cmd),
         checks => cmd \in CommandType /\ Matches(req, cmd, handle[c].lbaf)
  PROVE  IInv'
<1> USE DEF IInv
<1>1. /\ content \in [Lba -> Cell] /\ media \in [Lba -> Cell] /\ fmt \in LbaFormat
      /\ handle \in [Client -> [lbaf : LbaFormat, fd : BOOLEAN]]
      /\ call \in [Client -> CallType]
  BY DEF TypeOK
<1>2. ASSUME NEW reply \in Reply, ReturnEarly(c, reply)
      PROVE  IInv'
  <2> DEFINE done == [Idle EXCEPT !.reply = reply]
  <2>1. done \in CallType /\ done.st = "returned"
    BY <1>2, IdleType DEF CallType
  <2>2. call' = [call EXCEPT ![c] = done]
    BY <1>2 DEF ReturnEarly
  <2>3. handle' = handle /\ content' = content /\ media' = media /\ fmt' = fmt
    BY <1>2 DEF ReturnEarly, DeviceUnchanged
  <2> HIDE DEF done
  <2>4. TypeOK'
    BY <1>1, <2>1, <2>2, <2>3 DEF TypeOK
  <2>5. Marshalled'
    BY <1>1, <2>1, <2>2, <2>3 DEF Marshalled
  <2> QED BY <2>4, <2>5
<1>3. CASE ~checks /\ ReturnEarly(c, InvalidArgument)
  BY <1>2, <1>3 DEF InvalidArgument, Reply
<1>4. CASE ReturnEarly(c, OsError)
  BY <1>2, <1>4 DEF OsError, Errno, Reply
<1>5. CASE /\ checks
           /\ handle' = [handle EXCEPT ![c].fd = TRUE]
           /\ call' = [call EXCEPT ![c] = [Idle EXCEPT !.st = "inflight", !.req = req,
                                                       !.cmd = cmd]]
           /\ DeviceUnchanged
  <2> DEFINE issued == [Idle EXCEPT !.st = "inflight", !.req = req, !.cmd = cmd]
  <2>1. issued \in CallType /\ issued.req = req /\ issued.cmd = cmd
    BY <1>5, IdleType, RequestAssumption DEF CallType
  <2>2. call' = [call EXCEPT ![c] = issued]
    BY <1>5
  <2>3. content' = content /\ media' = media /\ fmt' = fmt
    BY <1>5 DEF DeviceUnchanged
  <2>4. /\ handle' \in [Client -> [lbaf : LbaFormat, fd : BOOLEAN]]
        /\ handle'[c].fd /\ handle'[c].lbaf = handle[c].lbaf
        /\ \A d \in Client \ {c} : handle'[d] = handle[d]
    BY <1>1, <1>5
  <2> HIDE DEF issued
  <2>5. TypeOK'
    BY <1>1, <2>1, <2>2, <2>3, <2>4 DEF TypeOK
  <2>6. Marshalled'
    BY <1>1, <1>5, <2>1, <2>2, <2>4 DEF Marshalled
  <2> QED BY <2>5, <2>6
<1> QED BY <1>3, <1>4, <1>5 DEF Execute, Issue

(* The commands of a range of blocks.                                      *)
LEMMA BaseArgs ==
  ASSUME NEW req \in RequestType, NEW nlb_enc \in Nat, NEW data_len \in Nat
  PROVE  LET cmd == base_args(req, nlb_enc, data_len)
         IN  /\ cmd \in CommandType /\ cmd.opc = req.op /\ cmd.slba = req.slba
             /\ cmd.nlb = nlb_enc /\ cmd.data_len = data_len
             /\ cmd.data = req.val /\ cmd.control = apply_to(req)
<1>1. /\ req.op \in RequestOps /\ req.slba \in Nat /\ req.val \in Value
      /\ apply_to(req) \in SUBSET {"FUA"}
  BY DEF RequestType, apply_to
<1> QED BY <1>1, NoCommandType DEF base_args, CommandType, NoCommand

LEMMA DataPreserves ==
  ASSUME IInv, NEW c \in Client, NEW req \in Request, ExecuteData(c, req)
  PROVE  IInv'
<1> DEFINE cmd == base_args(req, encode_nlb(req.nlb), req.len % U32)
<1>1. req \in RequestType /\ req.nlb \in Nat /\ req.len \in Nat
  BY RequestAssumption DEF RequestType
<1>2. handle[c].lbaf \in LbaFormat
  BY DEF IInv, TypeOK
<1>3. ASSUME data_checks(c, req)
      PROVE  cmd \in CommandType /\ Matches(req, cmd, handle[c].lbaf)
  <2>1. req.nlb \in 1 .. MaxNlb /\ encode_nlb(req.nlb) \in Nat
        /\ encode_nlb(req.nlb) + 1 = req.nlb
    BY <1>1, <1>3, EncodeNlb DEF data_checks
  <2>2. req.len = req.nlb * LbaSize[handle[c].lbaf]
    BY <1>3 DEF data_checks, check_buf_len, lba_size
  <2>3. req.len % U32 \in Nat
    BY <1>1, DataLen
  <2>4. req.op \in DataOps
    BY DEF ExecuteData
  <2> QED BY <1>1, <2>1, <2>2, <2>3, <2>4, BaseArgs DEF Matches, DataOps
<1>4. data_checks(c, req) \in BOOLEAN
  BY DEF data_checks, check_buf_len
<1>5. Execute(c, req, data_checks(c, req), cmd)
  BY DEF ExecuteData
<1> HIDE DEF cmd
<1> QED BY <1>3, <1>4, <1>5, ExecutePreserves

LEMMA NoDataPreserves ==
  ASSUME IInv, NEW c \in Client, NEW req \in Request, ExecuteNoData(c, req)
  PROVE  IInv'
<1> DEFINE cmd == base_args(req, encode_nlb(req.nlb), 0)
<1>1. req \in RequestType /\ req.nlb \in Nat
  BY RequestAssumption DEF RequestType
<1>2. req.op \notin DataOps \cup {"dsm", "copy", "format"}
  BY DEF ExecuteNoData, DataOps, NoDataOps
<1>3. ASSUME nodata_checks(req)
      PROVE  cmd \in CommandType /\ Matches(req, cmd, handle[c].lbaf)
  <2>1. req.nlb \in 1 .. MaxNlb /\ encode_nlb(req.nlb) \in Nat
        /\ encode_nlb(req.nlb) + 1 = req.nlb
    BY <1>1, <1>3, EncodeNlb DEF nodata_checks
  <2> QED BY <1>1, <1>2, <2>1, BaseArgs DEF Matches
<1>4. nodata_checks(req) \in BOOLEAN
  BY DEF nodata_checks
<1>5. Execute(c, req, nodata_checks(req), cmd)
  BY DEF ExecuteNoData
<1> HIDE DEF cmd
<1> QED BY <1>3, <1>4, <1>5, ExecutePreserves

LEMMA SeqElement ==
  ASSUME NEW S, NEW s \in Seq(S), NEW i \in 1 .. Len(s)
  PROVE  s[i] \in S
OBVIOUS

(* The ranges of Dsm and Copy stay sequences of ranges.                    *)
LEMMA RangesType ==
  ASSUME NEW req \in RequestType
  PROVE  /\ dsm_ranges(req) \in Seq([slba : Nat, nlb : Nat])
         /\ copy_ranges(req) \in Seq([slba : Nat, nlb : Nat])
         /\ Len(req.ranges) \in Nat
<1>1. req.ranges \in Seq([slba : Nat, nlb : Nat])
  BY DEF RequestType
<1>2. DOMAIN req.ranges = 1 .. Len(req.ranges) /\ Len(req.ranges) \in Nat
  BY <1>1
<1>3. ASSUME NEW i \in DOMAIN req.ranges
      PROVE  req.ranges[i].slba \in Nat /\ req.ranges[i].nlb \in Nat
  <2>1. req.ranges[i] \in [slba : Nat, nlb : Nat]
    BY <1>1, <1>2, SeqElement
  <2> QED BY <2>1
<1>4. \A n \in Nat : saturating_sub(n, 1) \in Nat
  BY DEF saturating_sub
<1>5. \A i \in DOMAIN req.ranges :
        [slba |-> req.ranges[i].slba, nlb |-> saturating_sub(req.ranges[i].nlb, 1)]
          \in [slba : Nat, nlb : Nat]
  BY <1>3, <1>4
<1> QED BY <1>2, <1>5 DEF dsm_ranges, copy_ranges

LEMMA DsmPreserves ==
  ASSUME IInv, NEW c \in Client, NEW req \in Request, ExecuteDsm(c, req)
  PROVE  IInv'
<1> DEFINE cmd == [NoCommand EXCEPT !.opc = "dsm", !.ranges = dsm_ranges(req),
                                    !.nr = Len(req.ranges)]
<1>1. req \in RequestType
  BY RequestAssumption
<1>2. /\ cmd \in CommandType /\ cmd.opc = "dsm"
      /\ cmd.ranges = dsm_ranges(req) /\ cmd.nr = Len(req.ranges)
  BY <1>1, RangesType, NoCommandType DEF CommandType, RequestOps, NoCommand
<1>3. dsm_checks(req) \in BOOLEAN /\ Execute(c, req, dsm_checks(req), cmd)
  BY DEF ExecuteDsm, dsm_checks
<1>4. req.op = "dsm"
  BY DEF ExecuteDsm
<1> HIDE DEF cmd
<1>5. Matches(req, cmd, handle[c].lbaf)
  BY <1>2, <1>4 DEF Matches, DataOps, NoDataOps
<1> QED BY <1>2, <1>3, <1>5, ExecutePreserves

LEMMA CopyPreserves ==
  ASSUME IInv, NEW c \in Client, NEW req \in Request, ExecuteCopy(c, req)
  PROVE  IInv'
<1> DEFINE cmd == [NoCommand EXCEPT !.opc = "copy", !.slba = req.slba,
                                    !.control = apply_to(req),
                                    !.ranges = copy_ranges(req), !.nr = copy_nr(req)]
<1>1. req \in RequestType
  BY RequestAssumption
<1>2. ASSUME copy_checks(req)
      PROVE  cmd \in CommandType /\ cmd.opc = "copy"
  <2>1. copy_nr(req) \in Nat
    BY <1>1, <1>2, RangesType DEF copy_checks, copy_nr
  <2>2. apply_to(req) \in SUBSET {"FUA"} /\ req.slba \in Nat
    BY <1>1 DEF apply_to, RequestType
  <2> QED BY <1>1, <2>1, <2>2, RangesType, NoCommandType DEF CommandType, RequestOps
<1>3. cmd.opc = "copy" => Matches(req, cmd, handle[c].lbaf)
  <2>1. /\ cmd.slba = req.slba /\ cmd.control = apply_to(req)
        /\ cmd.ranges = copy_ranges(req) /\ cmd.nr = copy_nr(req)
    BY DEF NoCommand
  <2> HIDE DEF cmd
  <2> QED BY <2>1 DEF Matches, ExecuteCopy, DataOps, NoDataOps
<1>4. copy_checks(req) \in BOOLEAN /\ Execute(c, req, copy_checks(req), cmd)
  BY DEF ExecuteCopy, copy_checks
<1> HIDE DEF cmd
<1> QED BY <1>2, <1>3, <1>4, ExecutePreserves

LEMMA FlushFormatPreserves ==
  ASSUME IInv, NEW c \in Client, NEW req \in Request, flush(c, req) \/ ExecuteFormat(c, req)
  PROVE  IInv'
<1>1. req \in RequestType
  BY RequestAssumption
<1>2. CASE flush(c, req)
  <2> DEFINE cmd == [NoCommand EXCEPT !.opc = "flush"]
  <2>1. cmd \in CommandType /\ cmd.opc = "flush"
    BY NoCommandType DEF CommandType, RequestOps
  <2>2. Execute(c, req, TRUE, cmd) /\ req.op = "flush"
    BY <1>2 DEF flush
  <2> HIDE DEF cmd
  <2>3. Matches(req, cmd, handle[c].lbaf)
    BY <2>1, <2>2 DEF Matches, DataOps, NoDataOps
  <2> QED BY <2>1, <2>2, <2>3, ExecutePreserves
<1>3. CASE ExecuteFormat(c, req)
  <2> DEFINE cmd == [NoCommand EXCEPT !.opc = "format", !.lbaf = req.lbaf]
  <2>1. cmd \in CommandType /\ cmd.opc = "format" /\ cmd.lbaf = req.lbaf
    BY <1>1, NoCommandType DEF CommandType, RequestOps, RequestType, NoCommand
  <2>2. Execute(c, req, TRUE, cmd) /\ req.op = "format"
    BY <1>3 DEF ExecuteFormat
  <2> HIDE DEF cmd
  <2>3. Matches(req, cmd, handle[c].lbaf)
    BY <2>1, <2>2 DEF Matches, DataOps, NoDataOps
  <2> QED BY <2>1, <2>2, <2>3, ExecutePreserves
<1> QED BY <1>2, <1>3

LEMMA CommandPreserves ==
  ASSUME IInv, NEW c \in Client, NEW req \in Request, Command(c, req)
  PROVE  IInv'
<1>1. CASE ReadToVec(c, req)
  <2> DEFINE sized == [req EXCEPT !.len = read_to_vec_len(req.nlb, c)]
  <2>1. sized \in Request
    BY <1>1, RequestAssumption DEF ReadToVec, read_to_vec_len, lba_size, IInv, TypeOK
  <2>2. ExecuteData(c, sized)
    BY <1>1 DEF ReadToVec
  <2> HIDE DEF sized
  <2> QED BY <2>1, <2>2, DataPreserves
<1> QED
  BY <1>1, DataPreserves, NoDataPreserves, DsmPreserves, CopyPreserves, FlushFormatPreserves
  DEF Command

----------------------------------------------------------------------------
(* The device.                                                             *)

LEMMA FillType ==
  ASSUME NEW old \in [Lba -> Cell], NEW S, NEW x \in Cell
  PROVE  Fill(old, S, x) \in [Lba -> Cell]
BY DEF Fill

LEMMA PersistType ==
  ASSUME NEW old \in [Lba -> Cell], NEW now \in [Lba -> Cell], NEW S
  PROVE  Persist(old, now, S) \in [Lba -> Cell]
BY DEF Persist

LEMMA RangeOutcomesType ==
  ASSUME NEW op, NEW S, NEW v \in Value, NEW old \in [Lba -> Cell],
         NEW new \in RangeOutcomes(op, S, v, old)
  PROVE  new \in [Lba -> Cell]
<1>1. v \in Cell /\ Zero \in Cell /\ Uncor \in Cell
  BY MediaAssumption DEF Cell
<1>2. /\ Fill(old, S, v) \in [Lba -> Cell]
      /\ Fill(old, S, Zero) \in [Lba -> Cell]
      /\ Fill(old, S, Uncor) \in [Lba -> Cell]
  BY <1>1, FillType
<1> QED BY <1>2 DEF RangeOutcomes

(* A Copy inside the namespace moves contents of blocks to blocks.         *)
LEMMA CopyOutcomeType ==
  ASSUME NEW sdlba, NEW ranges, NEW f \in LbaFormat, NEW old \in [Lba -> Cell],
         CopyInRange(sdlba, ranges, LbaCount[f])
  PROVE  CopyOutcome(sdlba, ranges, old) \in [Lba -> Cell]
<1> DEFINE copied == 0 .. CopyLength(ranges) - 1
<1>1. \A k \in copied : CopySource(ranges, k) \in Lba
  BY MediaAssumption DEF CopyInRange
<1>2. \A b \in Lba : (\E k \in copied : b = sdlba + k) =>
        (CHOOSE k \in copied : b = sdlba + k) \in copied
  OBVIOUS
<1> HIDE DEF copied
<1>3. \A b \in Lba : (\E k \in copied : b = sdlba + k) =>
        old[CopySource(ranges, CHOOSE k \in copied : b = sdlba + k)] \in Cell
  BY <1>1, <1>2
<1>4. \A b \in Lba : old[b] \in Cell
  OBVIOUS
<1> QED BY <1>3, <1>4 DEF CopyOutcome, copied

(* A step of the device that completes the command of client c and leaves  *)
(* contents of the right type preserves the invariant, the contents and    *)
(* even the format being free otherwise.                                   *)
LEMMA CompletePreserves ==
  ASSUME IInv, NEW c \in Client, NEW ret \in Int, NEW data \in Seq(Cell),
         Complete(c, ret, data), content' \in [Lba -> Cell], media' \in [Lba -> Cell],
         fmt' \in LbaFormat
  PROVE  IInv'
<1> DEFINE done == [call[c] EXCEPT !.st = "completed", !.ret = ret, !.data = data]
<1>1. /\ call \in [Client -> CallType] /\ handle' = handle
      /\ call' = [call EXCEPT ![c] = done]
  BY DEF IInv, TypeOK, Complete
<1>2. done \in CallType /\ done.st = "completed"
  BY <1>1 DEF CallType
<1> HIDE DEF done
<1>3. /\ call' \in [Client -> CallType] /\ call'[c].st = "completed"
      /\ \A d \in Client \ {c} : call'[d] = call[d]
  BY <1>1, <1>2
<1>4. TypeOK'
  BY <1>1, <1>3 DEF IInv, TypeOK
<1>5. Marshalled'
  BY <1>1, <1>3 DEF IInv, Marshalled
<1> QED BY <1>4, <1>5 DEF IInv

LEMMA StatusType ==
  /\ Success \in Int /\ InvalidField \in Int /\ LbaOutOfRange \in Int
  /\ UnrecoveredRead \in Int
  /\ \A op, S, v, old : RangeStatus(op, S, v, old) \in Int
  /\ \A ranges, old : CopyStatus(ranges, old) \in Int
BY DEF Success, InvalidField, LbaOutOfRange, UnrecoveredRead, CompareFailure, RangeStatus,
       CopyStatus

LEMMA EmptyData == <<>> \in Seq(Cell) /\ <<Torn>> \in Seq(Cell)
<1>1. Torn \in Cell
  BY DEF Cell
<1> QED BY <1>1

(* What a Read returns are contents of blocks.                             *)
LEMMA ReadData ==
  ASSUME TypeOK, NEW cmd \in CommandType, WireBlocks(cmd) \subseteq Valid(fmt)
  PROVE  [i \in 1 .. cmd.nlb + 1 |-> content[cmd.slba + i - 1]] \in Seq(Cell)
<1>1. cmd.nlb \in Nat /\ cmd.slba \in Nat
  BY DEF CommandType
<1>2. \A i \in 1 .. cmd.nlb + 1 : cmd.slba + i - 1 \in WireBlocks(cmd)
  BY <1>1 DEF WireBlocks, Blocks
<1>3. Valid(fmt) \subseteq Lba
  BY MediaAssumption DEF TypeOK, Valid
<1>4. \A i \in 1 .. cmd.nlb + 1 : content[cmd.slba + i - 1] \in Cell
  BY <1>2, <1>3 DEF TypeOK
<1> QED BY <1>1, <1>4

LEMMA ServePreserves ==
  ASSUME IInv, NEW c \in Client, Serve(c)
  PROVE  IInv'
<1> DEFINE cmd == call[c].cmd
<1>1. /\ TypeOK /\ cmd \in CommandType /\ cmd.data \in Value
      /\ content \in [Lba -> Cell] /\ media \in [Lba -> Cell] /\ fmt \in LbaFormat
  BY DEF IInv, TypeOK, CallType, CommandType
<1> HIDE DEF cmd
<1>2. ASSUME NEW ret \in Int, NEW data \in Seq(Cell), Complete(c, ret, data), DeviceUnchanged
      PROVE  IInv'
  BY <1>1, <1>2, CompletePreserves DEF DeviceUnchanged
<1>3. CASE ServeRange(c)
  <2> DEFINE S == WireBlocks(cmd)
             data == IF cmd.opc = "read" /\ RangeStatus("read", S, Zero, content) = Success
                     THEN [i \in 1 .. cmd.nlb + 1 |-> content[cmd.slba + i - 1]] ELSE <<>>
  <2>1. /\ S \subseteq Valid(fmt)
        /\ Complete(c, RangeStatus(cmd.opc, S, cmd.data, content), data)
        /\ content' \in RangeOutcomes(cmd.opc, S, cmd.data, content)
        /\ media' = Persist(media, content', FuaBlocks(cmd, S))
        /\ fmt' = fmt
    BY <1>3 DEF ServeRange, cmd
  <2>2. data \in Seq(Cell)
    BY <1>1, <2>1, ReadData, EmptyData
  <2>3. content' \in [Lba -> Cell]
    BY <1>1, <2>1, RangeOutcomesType
  <2>4. media' \in [Lba -> Cell]
    BY <1>1, <2>1, <2>3, PersistType
  <2> HIDE DEF data
  <2> QED BY <1>1, <2>1, <2>2, <2>3, <2>4, StatusType, CompletePreserves
<1>4. CASE ServeMisfit(c)
  <2> DEFINE S == WireBlocks(cmd)
  <2>1. CASE Complete(c, InvalidField, <<>>) /\ DeviceUnchanged
    BY <1>2, <2>1, EmptyData, StatusType
  <2>2. CASE /\ Complete(c, Success, <<Torn>>)
             /\ content' = IF cmd.opc = "write" THEN Fill(content, S, Torn) ELSE content
             /\ media' = Persist(media, content', FuaBlocks(cmd, S))
             /\ UNCHANGED fmt
    <3>1. content' \in [Lba -> Cell]
      BY <1>1, <2>2, FillType DEF Cell
    <3>2. media' \in [Lba -> Cell]
      BY <1>1, <2>2, <3>1, PersistType
    <3> QED BY <1>1, <2>2, <3>1, <3>2, StatusType, EmptyData, CompletePreserves
  <2> QED BY <1>4, <2>1, <2>2 DEF ServeMisfit, cmd
<1>5. CASE ServeOutOfRange(c)
  BY <1>2, <1>5, EmptyData, StatusType DEF ServeOutOfRange
<1>6. CASE ServeDsm(c)
  <2>1. CASE Complete(c, LbaOutOfRange, <<>>) /\ DeviceUnchanged
    BY <1>2, <2>1, EmptyData, StatusType
  <2>2. CASE /\ Complete(c, Success, <<>>)
             /\ content' \in DeallocOutcomes(DsmBlocks(cmd), content)
             /\ UNCHANGED <<media, fmt>>
    <3>1. Zero \in Cell
      BY MediaAssumption DEF Cell
    <3>2. content' \in [Lba -> Cell]
      BY <1>1, <2>2, <3>1, FillType DEF DeallocOutcomes
    <3> QED BY <1>1, <2>2, <3>2, StatusType, EmptyData, CompletePreserves
  <2> QED BY <1>6, <2>1, <2>2 DEF ServeDsm, cmd
<1>7. CASE ServeCopy(c)
  <2> DEFINE src == CopyPayload(cmd)
             ret == IF ~CopyInRange(cmd.slba, src, LbaCount[fmt]) THEN LbaOutOfRange
                    ELSE CopyStatus(src, content)
  <2>1. \/ Complete(c, InvalidField, <<>>) /\ DeviceUnchanged
        \/ Complete(c, ret, <<>>) /\ DeviceUnchanged
        \/ /\ ret = Success
           /\ Complete(c, Success, <<>>)
           /\ content' = CopyOutcome(cmd.slba, src, content)
           /\ media' = Persist(media, content',
                               FuaBlocks(cmd, Blocks(cmd.slba, CopyLength(src))))
           /\ UNCHANGED fmt
    BY <1>7 DEF ServeCopy, cmd
  <2>2. ret \in Int
    BY StatusType
  <2>3. ret = Success => CopyInRange(cmd.slba, src, LbaCount[fmt])
    BY DEF Success, LbaOutOfRange
  <2> HIDE DEF src, ret
  <2>4. ASSUME ret = Success, content' = CopyOutcome(cmd.slba, src, content)
        PROVE  content' \in [Lba -> Cell]
    BY <1>1, <2>3, <2>4, CopyOutcomeType
  <2>5. CASE Complete(c, InvalidField, <<>>) /\ DeviceUnchanged
    BY <1>2, <2>5, EmptyData, StatusType
  <2>6. CASE Complete(c, ret, <<>>) /\ DeviceUnchanged
    BY <1>2, <2>2, <2>6, EmptyData
  <2>7. CASE /\ ret = Success
             /\ Complete(c, Success, <<>>)
             /\ content' = CopyOutcome(cmd.slba, src, content)
             /\ media' = Persist(media, content',
                                 FuaBlocks(cmd, Blocks(cmd.slba, CopyLength(src))))
             /\ UNCHANGED fmt
    <3>1. content' \in [Lba -> Cell]
      BY <2>4, <2>7
    <3>2. media' \in [Lba -> Cell]
      BY <1>1, <2>7, <3>1, PersistType
    <3> QED BY <1>1, <2>7, <3>1, <3>2, StatusType, EmptyData, CompletePreserves
  <2> QED BY <2>1, <2>5, <2>6, <2>7
<1>8. CASE ServeFlush(c)
  BY <1>1, <1>8, StatusType, EmptyData, CompletePreserves DEF ServeFlush
<1>9. CASE ServeFormat(c)
  <2>1. CASE Complete(c, InvalidField, <<>>) /\ DeviceUnchanged
    BY <1>2, <2>1, EmptyData, StatusType
  <2>2. CASE /\ cmd.lbaf \in LbaFormat
             /\ Complete(c, Success, <<>>)
             /\ fmt' = cmd.lbaf
             /\ content' = [b \in Lba |-> Zero]
             /\ media' = [b \in Lba |-> Zero]
    <3>1. Zero \in Cell
      BY MediaAssumption DEF Cell
    <3> QED BY <2>2, <3>1, StatusType, EmptyData, CompletePreserves
  <2> QED BY <1>9, <2>1, <2>2 DEF ServeFormat, cmd
<1> QED BY <1>3, <1>4, <1>5, <1>6, <1>7, <1>8, <1>9 DEF Serve

----------------------------------------------------------------------------
LEMMA InitIInv == Init => IInv
<1> SUFFICES ASSUME Init PROVE IInv
  OBVIOUS
<1>1. Zero \in Cell
  BY MediaAssumption DEF Cell
<1>2. \A c \in Client : call[c] = Idle
  BY DEF Init
<1>3. TypeOK
  BY <1>1, IdleType DEF Init, TypeOK
<1>4. Marshalled
  BY <1>2, IdleType DEF Marshalled
<1> QED BY <1>3, <1>4 DEF IInv

LEMMA StepIInv == IInv /\ [Next]_vars => IInv'
<1> SUFFICES ASSUME IInv, [Next]_vars PROVE IInv'
  OBVIOUS
<1>1. /\ content \in [Lba -> Cell] /\ media \in [Lba -> Cell] /\ fmt \in LbaFormat
      /\ handle \in [Client -> [lbaf : LbaFormat, fd : BOOLEAN]]
      /\ call \in [Client -> CallType]
  BY DEF IInv, TypeOK
<1>2. ASSUME NEW c \in Client, Timeout(c) PROVE IInv'
  <2>1. PICK ret \in {-1, -Errno} : Complete(c, ret, <<>>)
    BY <1>2 DEF Timeout
  <2>2. ret \in Int
    BY DEF Errno
  <2> QED BY <1>1, <1>2, <2>1, <2>2, EmptyData, CompletePreserves DEF Timeout, DeviceUnchanged
<1>3. ASSUME NEW c \in Client, Return(c) PROVE IInv'
  <2> DEFINE done == [Idle EXCEPT !.reply = check_ret(call[c].ret)]
  <2>1. check_ret(call[c].ret) \in Reply
    BY <1>1 DEF check_ret, Reply, Errno, CallType
  <2>2. done \in CallType /\ done.st = "returned"
    BY <2>1, IdleType DEF CallType
  <2>3. call' = [call EXCEPT ![c] = done] /\ UNCHANGED <<handle, content, media, fmt>>
    BY <1>3 DEF Return, DeviceUnchanged
  <2> HIDE DEF done
  <2>4. TypeOK'
    BY <1>1, <2>2, <2>3 DEF TypeOK
  <2>5. Marshalled'
    BY <1>1, <2>2, <2>3 DEF IInv, Marshalled
  <2> QED BY <2>4, <2>5 DEF IInv
<1>4. ASSUME NEW c \in Client, Rescan(c) PROVE IInv'
  <2>1. /\ call[c].st = "returned" /\ handle' = [handle EXCEPT ![c] = [lbaf |-> fmt, fd |-> FALSE]]
        /\ UNCHANGED <<call, content, media, fmt>>
    BY <1>4 DEF Rescan, DeviceUnchanged
  <2>2. TypeOK'
    BY <1>1, <2>1 DEF TypeOK
  <2>3. Marshalled'
    BY <1>1, <2>1 DEF IInv, Marshalled
  <2> QED BY <2>2, <2>3 DEF IInv
<1>5. ASSUME NEW b \in Lba, Destage(b) PROVE IInv'
  <2>1. TypeOK'
    BY <1>1, <1>5 DEF Destage, TypeOK
  <2>2. Marshalled'
    BY <1>5 DEF Destage, IInv, Marshalled
  <2> QED BY <2>1, <2>2 DEF IInv
<1>6. CASE PowerLoss
  <2>1. ASSUME NEW c \in Client
        PROVE  /\ call'[c] \in CallType
               /\ call'[c].st = "inflight" => call'[c] = call[c]
    <3>1. call'[c] = IF call[c].st = "inflight"
                     THEN [call[c] EXCEPT !.st = "completed", !.ret = -1] ELSE call[c]
      BY <1>6 DEF PowerLoss
    <3>2. call[c] \in CallType
      BY <1>1
    <3> DEFINE done == [call[c] EXCEPT !.st = "completed", !.ret = -1]
    <3>3. done \in CallType /\ done.st = "completed"
      <4>1. \A r \in Int : LET d == [call[c] EXCEPT !.st = "completed", !.ret = r]
                          IN  d \in CallType /\ d.st = "completed"
        BY <3>2 DEF CallType
      <4>2. -1 \in Int
        OBVIOUS
      <4> QED BY <4>1, <4>2
    <3>4. call'[c] = IF call[c].st = "inflight" THEN done ELSE call[c]
      BY <3>1
    <3> HIDE DEF done
    <3> QED BY <3>2, <3>3, <3>4
  <2>2. call' \in [Client -> CallType]
    BY <1>6, <2>1 DEF PowerLoss
  <2>3. TypeOK'
    BY <1>1, <1>6, <2>2 DEF PowerLoss, TypeOK
  <2>4. Marshalled'
    BY <1>6, <2>1 DEF PowerLoss, IInv, Marshalled
  <2> QED BY <2>3, <2>4 DEF IInv
<1>7. CASE UNCHANGED vars
  BY <1>7 DEF vars, IInv, TypeOK, Marshalled
<1> QED
  BY <1>2, <1>3, <1>4, <1>5, <1>6, <1>7, CommandPreserves, ServePreserves DEF Next

(* The inductive invariant holds in every reachable state.                 *)
THEOREM IoInvariant == Spec => []IInv
BY InitIInv, StepIInv, PTL DEF Spec

(* The variables keep their types: in particular whatever a Read returns   *)
(* and whatever is on the media is a value some host wrote or a mark.      *)
THEOREM IoTypeOK == Spec => []TypeOK
<1>1. IInv => TypeOK
  BY DEF IInv
<1> QED BY <1>1, IoInvariant, PTL

(* The device moves what the caller passed, unless the block size of the   *)
(* handle is no longer the device's or the length does not fit 32 bits.    *)
LEMMA Announced ==
  ASSUME IInv, NEW c \in Client, call[c].st = "inflight", call[c].req.op \in DataOps,
         call[c].req.len < U32
  PROVE  /\ call[c].cmd.data_len = call[c].req.len
         /\ LbaSize[handle[c].lbaf] = LbaSize[fmt] => TransferFits(call[c].cmd)
<1>1. /\ Matches(call[c].req, call[c].cmd, handle[c].lbaf)
      /\ call[c].req \in RequestType /\ call[c].req.len \in Nat
  BY RequestAssumption DEF IInv, Marshalled, RequestType
<1>2. call[c].cmd.data_len = call[c].req.len
  BY <1>1, DataLen DEF Matches
<1> QED BY <1>1, <1>2 DEF Matches, TransferFits

(* A command in flight is what its caller asked for.  A buffer of less     *)
(* than 2^32 bytes is announced with its length, which is what the device  *)
(* moves unless the namespace was reformatted.                             *)
THEOREM WireIsFaithful == Spec => []WireFaithful
<1>1. ASSUME IInv, NEW c \in Client, call[c].st = "inflight"
      PROVE  LET req == call[c].req
                 cmd == call[c].cmd
             IN  /\ cmd.opc = req.op
                 /\ handle[c].fd
                 /\ req.op \in DataOps \cup NoDataOps =>
                      WireBlocks(cmd) = Blocks(req.slba, req.nlb) /\ req.nlb \in 1 .. MaxNlb
                 /\ req.op \in DataOps /\ req.len < U32 =>
                      /\ cmd.data_len = req.len
                      /\ LbaSize[handle[c].lbaf] = LbaSize[fmt] => TransferFits(cmd)
  <2>1. Matches(call[c].req, call[c].cmd, handle[c].lbaf) /\ handle[c].fd
    BY <1>1 DEF IInv, Marshalled
  <2> QED BY <1>1, <2>1, Announced DEF Matches, WireBlocks
<1>2. IInv => WireFaithful
  BY <1>1 DEF WireFaithful
<1> QED BY <1>2, IoInvariant, PTL

(* What each execute() checks is that the call is well formed.             *)
LEMMA ChecksWellFormed ==
  ASSUME NEW c \in Client, NEW req \in Request
  PROVE  Store!WellFormed(req, handle[c].lbaf) <=>
           CASE req.op \in DataOps   -> data_checks(c, req)
             [] req.op \in NoDataOps -> nodata_checks(req)
             [] req.op = "dsm"       -> dsm_checks(req)
             [] req.op = "copy"      -> copy_checks(req)
             [] OTHER                -> TRUE
<1>1. req \in RequestType /\ req.nlb \in Nat /\ Len(req.ranges) \in Nat
  BY RequestAssumption, RangesType DEF RequestType
<1>2. encode_nlb(req.nlb) # Invalid <=> req.nlb \in 1 .. MaxNlb
  BY <1>1, EncodeNlb
<1>3. MaxDsmRanges \in Nat /\ MaxCopyRanges \in Nat
  BY BlockIoAssumption
<1>4. /\ dsm_checks(req) <=> Len(req.ranges) \in 1 .. MaxDsmRanges
      /\ copy_checks(req) <=> Len(req.ranges) \in 1 .. MaxCopyRanges
  BY <1>1, <1>3 DEF dsm_checks, copy_checks
<1>5. data_checks(c, req) <=>
        req.len = req.nlb * LbaSize[handle[c].lbaf] /\ req.nlb \in 1 .. MaxNlb
  BY <1>2 DEF data_checks, check_buf_len, lba_size
<1>6. nodata_checks(req) <=> req.nlb \in 1 .. MaxNlb
  BY <1>2 DEF nodata_checks
<1> QED BY <1>4, <1>5, <1>6
  DEF Store!WellFormed, Store!DataOps, Store!NoDataOps, DataOps, NoDataOps

(* The checks of every execute() refuse exactly the calls that are not     *)
(* well formed in the caller's terms.                                      *)
THEOREM MalformedCallsRefused == Spec => []RefusesMalformed
<1>1. IInv => RefusesMalformed
  BY ChecksWellFormed DEF RefusesMalformed
<1> QED BY <1>1, IoInvariant, PTL

(* What tears block b, in terms of the call that does.                     *)
Tears(c, b) ==
  LET req == call[c].req
  IN  \/ req.op = "write" /\ b \in Blocks(req.slba, req.nlb) /\ Misfitting(c)
      \/ req.op = "copy" /\ \E s \in Lba : content[s] = Torn

(* A Copy leaves a torn block where none was only if it read one.          *)
LEMMA CopyTears ==
  ASSUME TypeOK, NEW sdlba, NEW src, CopyInRange(sdlba, src, LbaCount[fmt]), NEW b \in Lba,
         content[b] # Torn, CopyOutcome(sdlba, src, content)[b] = Torn
  PROVE  \E s \in Lba : content[s] = Torn
<1> DEFINE copied == 0 .. CopyLength(src) - 1
           k == CHOOSE i \in copied : b = sdlba + i
<1>1. \A i \in copied : CopySource(src, i) \in Lba
  BY MediaAssumption DEF CopyInRange, TypeOK
<1>2. (\E i \in copied : b = sdlba + i) => k \in copied
  OBVIOUS
<1>3. CopyOutcome(sdlba, src, content)[b] =
        IF \E i \in copied : b = sdlba + i THEN content[CopySource(src, k)] ELSE content[b]
  BY DEF CopyOutcome
<1> HIDE DEF copied, k
<1> QED BY <1>1, <1>2, <1>3

(* Only the device's service of a call tears a block, and only that of a   *)
(* call that Tears describes.                                              *)
LEMMA TearingStep ==
  ASSUME IInv, [Next]_vars, NEW b \in Lba, content'[b] = Torn,
         Torn \notin {content[b], media[b]}
  PROVE  \E c \in Client : Completing(c) /\ Tears(c, b)
<1>1. /\ TypeOK /\ Torn \notin Value /\ Zero \in Value /\ Uncor # Torn
      /\ content[b] # Torn /\ media[b] # Torn
      /\ call \in [Client -> CallType]
  BY MediaAssumption DEF IInv, TypeOK
<1>2. content' # content
  BY <1>1
<1>3. ASSUME NEW c \in Client, Serve(c)
      PROVE  Completing(c) /\ Tears(c, b)
  <2> DEFINE cmd == call[c].cmd
             req == call[c].req
  <2>1. call[c].st = "inflight" /\ cmd.data \in Value
    BY <1>1, <1>3 DEF Serve, ServeRange, ServeMisfit, ServeOutOfRange, ServeDsm, ServeCopy,
                      ServeFlush, ServeFormat, CallType, CommandType
  <2>2. Completing(c)
    <3>1. PICK ret, data : Complete(c, ret, data)
      BY <1>3 DEF Serve, ServeRange, ServeMisfit, ServeOutOfRange, ServeDsm, ServeCopy,
                  ServeFlush, ServeFormat
    <3> QED BY <1>1, <2>1, <3>1 DEF Complete, Completing, CallType
  <2>3. cmd.opc = req.op /\ Matches(req, cmd, handle[c].lbaf)
    BY <2>1 DEF IInv, Marshalled, Matches
  <2> HIDE DEF cmd, req
  <2>4. CASE ServeRange(c)
    <3>1. content' \in RangeOutcomes(cmd.opc, WireBlocks(cmd), cmd.data, content)
      BY <2>4 DEF ServeRange, cmd
    <3>2. PICK x \in Value \cup {Uncor} : content' \in {content, Fill(content, WireBlocks(cmd), x)}
      BY <1>1, <2>1, <3>1 DEF RangeOutcomes
    <3>3. x # Torn
      BY <1>1
    <3> QED BY <1>1, <3>2, <3>3 DEF Fill
  <2>5. CASE ServeMisfit(c)
    <3>1. ~TransferFits(cmd) /\ cmd.opc \in DataOps
      BY <2>5 DEF ServeMisfit, TransferFits, cmd
    <3>2. cmd.opc = "write" /\ content' = Fill(content, WireBlocks(cmd), Torn)
      BY <1>2, <2>5 DEF ServeMisfit, DeviceUnchanged, cmd
    <3>3. b \in Blocks(req.slba, req.nlb)
      <4>1. b \in WireBlocks(cmd)
        BY <1>1, <3>2 DEF Fill
      <4> QED BY <2>3, <3>1, <4>1 DEF Matches, WireBlocks
    <3>4. Misfitting(c)
      <4>1. req.len \in Nat /\ U32 \in Nat
        BY <2>1, RequestAssumption, BlockIoAssumption DEF IInv, Marshalled, RequestType, req
      <4>2. req.len < U32 => LbaSize[handle[c].lbaf] # LbaSize[fmt]
        BY <2>1, <2>3, <3>1, Announced DEF cmd, req
      <4> QED BY <4>1, <4>2 DEF Misfitting, req
    <3> QED BY <2>2, <2>3, <3>2, <3>3, <3>4 DEF Tears, req
  <2>6. CASE ServeDsm(c)
    <3>1. content' = content \/ content' \in DeallocOutcomes(DsmBlocks(cmd), content)
      BY <2>6 DEF ServeDsm, DeviceUnchanged, cmd
    <3>2. \A S : Fill(content, S, Zero)[b] # Torn
      BY <1>1 DEF Fill
    <3> QED BY <1>2, <3>1, <3>2 DEF DeallocOutcomes
  <2>7. CASE ServeCopy(c)
    <3> DEFINE src == CopyPayload(cmd)
    <3>1. /\ content' = CopyOutcome(cmd.slba, src, content)
          /\ CopyInRange(cmd.slba, src, LbaCount[fmt])
          /\ cmd.opc = "copy"
      BY <1>2, <2>7 DEF ServeCopy, DeviceUnchanged, cmd, Success, LbaOutOfRange
    <3> HIDE DEF src
    <3>2. \E s \in Lba : content[s] = Torn
      BY <1>1, <3>1, CopyTears
    <3> QED BY <2>2, <2>3, <3>1, <3>2 DEF Tears, req
  <2>8. CASE ServeOutOfRange(c) \/ ServeFlush(c)
    BY <1>2, <2>8 DEF ServeOutOfRange, ServeFlush, DeviceUnchanged
  <2>9. CASE ServeFormat(c)
    BY <1>1, <1>2, <2>9 DEF ServeFormat, DeviceUnchanged
  <2> QED BY <1>3, <2>4, <2>5, <2>6, <2>7, <2>8, <2>9 DEF Serve
<1>4. ASSUME NEW c \in Client, NEW req \in Request, Command(c, req)
      PROVE  content' = content
  BY <1>4 DEF Command, ExecuteData, ReadToVec, ExecuteNoData, ExecuteDsm, ExecuteCopy, flush,
              ExecuteFormat, Execute, Issue, ReturnEarly, DeviceUnchanged
<1>5. ASSUME NEW c \in Client, Timeout(c) \/ Return(c) \/ Rescan(c)
      PROVE  content' = content
  BY <1>5 DEF Timeout, Return, Rescan, DeviceUnchanged
<1>6. (\E l \in Lba : Destage(l)) \/ UNCHANGED vars => content' = content
  BY DEF Destage, vars
<1>7. PowerLoss => content'[b] = media[b]
  BY DEF PowerLoss
<1> QED BY <1>1, <1>2, <1>3, <1>4, <1>5, <1>6, <1>7 DEF Next

(* A block is torn only by a call that names it and whose own buffer does  *)
(* not fit (a handle scanned under another block size, or 2^32 bytes), or  *)
(* by a Copy while another block is torn.                                  *)
THEOREM TornByStaleHandleOnly == Spec => TornOnlyWhenStale
<1>1. ASSUME IInv, [Next]_vars, NEW b \in Lba,
             content'[b] = Torn /\ Torn \notin {content[b], media[b]}
      PROVE  \E c \in Client :
               LET req == call[c].req
               IN  /\ Completing(c)
                   /\ \/ req.op = "write" /\ b \in Blocks(req.slba, req.nlb) /\ Misfitting(c)
                      \/ req.op = "copy" /\ \E s \in Lba : content[s] = Torn
  BY <1>1, TearingStep DEF Tears
<1>2. IInv /\ [Next]_vars =>
        [ \A b \in Lba :
            content'[b] = Torn /\ Torn \notin {content[b], media[b]} =>
              \E c \in Client :
                LET req == call[c].req
                IN  /\ Completing(c)
                    /\ \/ req.op = "write" /\ b \in Blocks(req.slba, req.nlb) /\ Misfitting(c)
                       \/ req.op = "copy" /\ \E s \in Lba : content[s] = Torn ]_vars
  BY <1>1
<1> QED BY <1>2, IoInvariant, PTL DEF Spec, TornOnlyWhenStale

----------------------------------------------------------------------------
(* The refinement, of BlockStore as built.                                 *)

(* A call that the device is done with.                                    *)
Applied(req, reply, data) == [st |-> "applied", req |-> req, reply |-> reply, data |-> data]

(* The actions of BlockStore that only concern a call, in these terms.     *)
LEMMA StoreInvokes ==
  ASSUME NEW c \in Client, NEW req, seen[c].st = "returned", Store!WellFormed(req, geo[c]),
         seen' = [seen EXCEPT ![c] = [Store!Idle EXCEPT !.st = "open", !.req = req]],
         UNCHANGED <<content, media, fmt, geo>>
  PROVE  Store!Invoke(c, req)
BY DEF Store!Invoke, seen, Seen, geo

LEMMA StoreRefuses ==
  ASSUME NEW c \in Client, NEW why, seen[c].st = "returned",
         seen' = [seen EXCEPT ![c] = [Store!Idle EXCEPT !.reply = why]],
         UNCHANGED <<content, media, fmt, geo>>
  PROVE  Store!Refuse(c, why)
BY DEF Store!Refuse, seen, Seen, geo

LEMMA StoreCompletes ==
  ASSUME NEW c \in Client, NEW reply, NEW data, UNCHANGED geo,
         seen' = [seen EXCEPT ![c] = Applied(call[c].req, reply, data)]
  PROVE  /\ \A code : seen[c].st = "open" /\ reply = Store!Replied(code)
                      => Store!Completes(c, code, data)
         /\ /\ seen[c].st \in {"open", "applied"} /\ reply = Store!IoErr /\ data = <<>>
            /\ UNCHANGED <<content, media, fmt>>
            => Store!Lose(c)
<1> DEFINE done == [[[seen[c] EXCEPT !.st = "applied"] EXCEPT !.reply = reply]
                        EXCEPT !.data = data]
<1>1. PICK s, b :
        seen[c] = [st |-> s, req |-> call[c].req, reply |-> b, data |-> call[c].data]
  BY DEF seen, Seen
<1>2. done = Applied(call[c].req, reply, data)
  <2> DEFINE q == call[c].req
             d == call[c].data
  <2>1. [seen[c] EXCEPT !.st = "applied"] = [st |-> "applied", req |-> q, reply |-> b, data |-> d]
    BY <1>1
  <2>2. \A x : [[st |-> "applied", req |-> q, reply |-> b, data |-> d] EXCEPT !.reply = x]
                = [st |-> "applied", req |-> q, reply |-> x, data |-> d]
    OBVIOUS
  <2>3. \A x : [[st |-> "applied", req |-> q, reply |-> reply, data |-> d] EXCEPT !.data = x]
                = [st |-> "applied", req |-> q, reply |-> reply, data |-> x]
    OBVIOUS
  <2> QED BY <2>1, <2>2, <2>3 DEF Applied
<1>3. seen' = [seen EXCEPT ![c] = done]
  BY <1>2
<1>4. seen' = [seen EXCEPT ![c].st = "applied", ![c].reply = reply, ![c].data = data]
  BY <1>3 DEF seen
<1>5. ASSUME NEW code, seen[c].st = "open", reply = Store!Replied(code)
      PROVE  Store!Completes(c, code, data)
  BY <1>4, <1>5 DEF Store!Completes, seen, Seen, geo
<1>6. ASSUME seen[c].st \in {"open", "applied"}, reply = Store!IoErr, data = <<>>,
             UNCHANGED <<content, media, fmt>>
      PROVE  Store!Lose(c)
  BY <1>4, <1>6 DEF Store!Lose, seen, Seen, geo
<1> QED BY <1>5, <1>6

LEMMA StoreReturns ==
  ASSUME NEW c \in Client, seen[c].st = "applied",
         seen' = [seen EXCEPT ![c] = [Store!Idle EXCEPT !.reply = seen[c].reply]],
         UNCHANGED <<content, media, fmt, geo>>
  PROVE  Store!Return(c)
BY DEF Store!Return, seen, Seen, geo

LEMMA StoreRescans ==
  ASSUME NEW c \in Client, seen[c].st = "returned", geo' = [geo EXCEPT ![c] = fmt],
         UNCHANGED <<content, media, fmt, seen>>
  PROVE  Store!Rescan(c)
BY DEF Store!Rescan, seen, Seen, geo

(* BlockStore's operators on contents are those of the wire.               *)
LEMMA SameMedia ==
  /\ Store!DataOps = DataOps /\ Store!NoDataOps = NoDataOps
  /\ Store!Success = Success /\ Store!InvalidField = InvalidField
  /\ Store!LbaOutOfRange = LbaOutOfRange /\ Store!UnrecoveredRead = UnrecoveredRead
  /\ Store!Cell = Cell
  /\ \A f : Store!Valid(f) = Valid(f)
  /\ \A slba, n : Store!Blocks(slba, n) = Blocks(slba, n)
  /\ \A old, now, S : Store!Persist(old, now, S) = Persist(old, now, S)
  /\ \A old, S, x : Store!Fill(old, S, x) = Fill(old, S, x)
  /\ \A S, old : Store!DeallocOutcomes(S, old) = DeallocOutcomes(S, old)
<1>1. /\ Store!DataOps = DataOps /\ Store!NoDataOps = NoDataOps
      /\ Store!Success = Success /\ Store!InvalidField = InvalidField
      /\ Store!LbaOutOfRange = LbaOutOfRange /\ Store!UnrecoveredRead = UnrecoveredRead
      /\ Store!Cell = Cell
  BY DEF Store!DataOps, DataOps, Store!NoDataOps, NoDataOps, Store!Success, Success,
         Store!InvalidField, InvalidField, Store!LbaOutOfRange, LbaOutOfRange,
         Store!UnrecoveredRead, UnrecoveredRead, Store!Cell, Cell
<1>2. \A f : Store!Valid(f) = Valid(f)
  BY DEF Store!Valid, Valid
<1>3. \A slba, n : Store!Blocks(slba, n) = Blocks(slba, n)
  BY DEF Store!Blocks, Blocks
<1>4. \A old, now, S : Store!Persist(old, now, S) = Persist(old, now, S)
  BY DEF Store!Persist, Persist
<1>5. \A old, S, x : Store!Fill(old, S, x) = Fill(old, S, x)
  BY DEF Store!Fill, Fill
<1>6. \A S, old : Store!DeallocOutcomes(S, old) = DeallocOutcomes(S, old)
  BY <1>5 DEF Store!DeallocOutcomes, DeallocOutcomes
<1> QED BY <1>1, <1>2, <1>3, <1>4, <1>5, <1>6

LEMMA SameRange ==
  \A op, S, v, old : /\ Store!RangeOutcomes(op, S, v, old) = RangeOutcomes(op, S, v, old)
                     /\ Store!RangeStatus(op, S, v, old) = RangeStatus(op, S, v, old)
<1>1. \A S, old, x : Store!Fill(old, S, x) = Fill(old, S, x)
  BY DEF Store!Fill, Fill
<1>2. \A op, S, v, old : Store!RangeOutcomes(op, S, v, old) = RangeOutcomes(op, S, v, old)
  BY <1>1 DEF Store!RangeOutcomes, RangeOutcomes
<1>3. \A op, S, v, old : Store!RangeStatus(op, S, v, old) = RangeStatus(op, S, v, old)
  BY DEF Store!RangeStatus, RangeStatus, Store!UnrecoveredRead, UnrecoveredRead,
         Store!CompareFailure, CompareFailure, Store!Success, Success
<1> QED BY <1>2, <1>3

LEMMA SameCopy ==
  \A sdlba, src, old, count :
    /\ Store!CopyLength(src) = CopyLength(src)
    /\ Store!CopyOutcome(sdlba, src, old) = CopyOutcome(sdlba, src, old)
    /\ Store!CopyInRange(sdlba, src, count) <=> CopyInRange(sdlba, src, count)
    /\ Store!CopyStatus(src, old) = CopyStatus(src, old)
<1>1. \A src : Store!CopyStart(src) = CopyStart(src)
  BY DEF Store!CopyStart, CopyStart
<1>2. \A src : Store!CopyLength(src) = CopyLength(src)
  BY <1>1 DEF Store!CopyLength, CopyLength
<1>3. \A src, k : Store!CopySource(src, k) = CopySource(src, k)
  BY <1>1 DEF Store!CopySource, CopySource
<1>4. \A sdlba, src, old : Store!CopyOutcome(sdlba, src, old) = CopyOutcome(sdlba, src, old)
  BY <1>2, <1>3 DEF Store!CopyOutcome, CopyOutcome
<1>5. \A sdlba, src, count :
        Store!CopyInRange(sdlba, src, count) <=> CopyInRange(sdlba, src, count)
  BY <1>2, <1>3 DEF Store!CopyInRange, CopyInRange
<1>6. \A src, old : Store!CopyStatus(src, old) = CopyStatus(src, old)
  BY <1>2, <1>3 DEF Store!CopyStatus, CopyStatus, Store!UnrecoveredRead, UnrecoveredRead,
                    Store!Success, Success
<1> QED BY <1>2, <1>4, <1>5, <1>6

LEMMA SeenUpdate ==
  ASSUME call \in [Client -> CallType], NEW c \in Client, NEW k, call' = [call EXCEPT ![c] = k]
  PROVE  seen' = [seen EXCEPT ![c] = Seen(k)]
<1>1. \A d \in Client : call'[d] = IF d = c THEN k ELSE call[d]
  OBVIOUS
<1>2. \A d \in Client : Seen(call'[d]) = IF d = c THEN Seen(k) ELSE Seen(call[d])
  BY <1>1
<1>3. seen' = [d \in Client |-> Seen(call'[d])]
  BY DEF seen, Seen
<1>4. seen = [d \in Client |-> Seen(call[d])]
  BY DEF seen
<1> HIDE DEF seen, Seen
<1> QED BY <1>2, <1>3, <1>4

LEMMA SeenAt ==
  ASSUME NEW c \in Client
  PROVE  /\ seen[c] = Seen(call[c]) /\ seen[c].req = call[c].req
         /\ seen[c].st = "returned" <=> call[c].st \notin {"inflight", "completed"}
         /\ seen[c].st = "open" <=> call[c].st = "inflight"
         /\ seen[c].st = "applied" <=> call[c].st = "completed"
         /\ geo[c] = handle[c].lbaf
BY DEF seen, Seen, geo

(* A result of the device is the reply the caller gets.                    *)
LEMMA ReplyOf ==
  /\ \A code \in Nat : check_ret(code) = Store!Replied(code)
  /\ \A ret \in {-1, -Errno} : check_ret(ret) = Store!IoErr
  /\ InvalidArgument = Store!Refused /\ OsError = Store!IoErr
BY DEF check_ret, Store!Replied, Store!Success, Store!IoErr, Errno, InvalidArgument, OsError,
       Store!Refused

LEMMA CompleteApplies ==
  ASSUME TypeOK, NEW c \in Client, NEW ret \in Int, NEW data, Complete(c, ret, data)
  PROVE  /\ seen' = [seen EXCEPT ![c] = Applied(call[c].req, check_ret(ret), data)]
         /\ UNCHANGED geo
<1> DEFINE k == [call[c] EXCEPT !.st = "completed", !.ret = ret, !.data = data]
<1>1. call \in [Client -> CallType]
  BY DEF TypeOK
<1>2. call' = [call EXCEPT ![c] = k]
  BY <1>1 DEF Complete, CallType
<1>3. seen' = [seen EXCEPT ![c] = Seen(k)]
  BY <1>1, <1>2, SeenUpdate
<1>4. k.st = "completed" /\ k.req = call[c].req /\ k.ret = ret /\ k.data = data
  BY <1>1 DEF CallType
<1>5. Seen(k) = Applied(call[c].req, check_ret(ret), data)
  <2> HIDE DEF k
  <2> QED BY <1>4 DEF Seen, Applied
<1>6. UNCHANGED geo
  BY DEF Complete, geo
<1> QED BY <1>3, <1>5, <1>6

LEMMA DeviceCompletes ==
  ASSUME TypeOK, NEW c \in Client, NEW code \in Nat, NEW data, call[c].st = "inflight",
         Complete(c, code, data)
  PROVE  Store!Completes(c, code, data)
<1>1. code \in Int /\ check_ret(code) = Store!Replied(code)
  BY ReplyOf
<1>2. seen[c].st = "open"
  BY SeenAt
<1>3. /\ seen' = [seen EXCEPT ![c] = Applied(call[c].req, Store!Replied(code), data)]
      /\ UNCHANGED geo
  BY <1>1, CompleteApplies
<1> QED BY <1>2, <1>3, StoreCompletes

----------------------------------------------------------------------------
(* Every step of the code is one of BlockStore.                            *)

Refuses(c) == \E why \in {Store!Refused, Store!IoErr} : Store!Refuse(c, why)

LEMMA SeenIdle ==
  /\ \A reply : Seen([Idle EXCEPT !.reply = reply]) = [Store!Idle EXCEPT !.reply = reply]
  /\ \A req, cmd : Seen([Idle EXCEPT !.st = "inflight", !.req = req, !.cmd = cmd])
                     = [Store!Idle EXCEPT !.st = "open", !.req = req]
<1>1. Store!Idle = [st |-> "returned", req |-> NoRequest, reply |-> [kind |-> "Ok", code |-> 0],
                    data |-> <<>>]
  BY DEF Store!Idle, Store!NoRequest, NoRequest, Store!Replied, Store!Success
<1>2. ASSUME NEW reply
      PROVE  Seen([Idle EXCEPT !.reply = reply]) = [Store!Idle EXCEPT !.reply = reply]
  <2>1. [Idle EXCEPT !.reply = reply] = [st |-> "returned", req |-> NoRequest, cmd |-> NoCommand,
                                         ret |-> 0, reply |-> reply, data |-> <<>>]
    BY DEF Idle
  <2>2. [Store!Idle EXCEPT !.reply = reply] = [st |-> "returned", req |-> NoRequest,
                                               reply |-> reply, data |-> <<>>]
    BY <1>1
  <2> QED BY <2>1, <2>2 DEF Seen
<1>3. ASSUME NEW req, NEW cmd
      PROVE  Seen([Idle EXCEPT !.st = "inflight", !.req = req, !.cmd = cmd])
               = [Store!Idle EXCEPT !.st = "open", !.req = req]
  <2> DEFINE k == [[[Idle EXCEPT !.st = "inflight"] EXCEPT !.req = req] EXCEPT !.cmd = cmd]
             a == [[Store!Idle EXCEPT !.st = "open"] EXCEPT !.req = req]
  <2>1. /\ k.st = "inflight" /\ k.req = req
        /\ k.reply = [kind |-> "Ok", code |-> 0] /\ k.data = <<>>
    BY DEF Idle
  <2>2. a = [st |-> "open", req |-> req, reply |-> [kind |-> "Ok", code |-> 0], data |-> <<>>]
    <3>1. [Store!Idle EXCEPT !.st = "open"]
            = [st |-> "open", req |-> NoRequest, reply |-> [kind |-> "Ok", code |-> 0],
               data |-> <<>>]
      BY <1>1
    <3>2. \A x : [[st |-> "open", req |-> NoRequest, reply |-> [kind |-> "Ok", code |-> 0],
                   data |-> <<>>] EXCEPT !.req = x]
                = [st |-> "open", req |-> x, reply |-> [kind |-> "Ok", code |-> 0], data |-> <<>>]
      OBVIOUS
    <3> QED BY <3>1, <3>2
  <2>3. [Idle EXCEPT !.st = "inflight", !.req = req, !.cmd = cmd] = k
    BY DEF Idle
  <2>4. [Store!Idle EXCEPT !.st = "open", !.req = req] = a
    BY <1>1
  <2>5. Seen(k) = a
    <3> HIDE DEF k, a
    <3> QED BY <2>1, <2>2 DEF Seen
  <2> QED BY <2>3, <2>4, <2>5
<1> QED BY <1>2, <1>3

LEMMA ExecuteRefines ==
  ASSUME IInv, NEW c \in Client, NEW req \in Request, NEW checks \in BOOLEAN, NEW cmd,
         Execute(c, req, checks, cmd), checks => Store!WellFormed(req, handle[c].lbaf)
  PROVE  Store!Invoke(c, req) \/ Refuses(c)
<1>1. call \in [Client -> CallType] /\ handle \in [Client -> [lbaf : LbaFormat, fd : BOOLEAN]]
  BY DEF IInv, TypeOK
<1>2. seen[c].st = "returned" /\ geo[c] = handle[c].lbaf
  BY SeenAt DEF Execute
<1>3. ASSUME NEW reply \in {Store!Refused, Store!IoErr}, ReturnEarly(c, reply)
      PROVE  Refuses(c)
  <2>1. seen' = [seen EXCEPT ![c] = Seen([Idle EXCEPT !.reply = reply])]
    BY <1>1, <1>3, SeenUpdate DEF ReturnEarly
  <2>2. seen' = [seen EXCEPT ![c] = [Store!Idle EXCEPT !.reply = reply]]
    BY <2>1, SeenIdle
  <2>3. UNCHANGED <<content, media, fmt, geo>>
    BY <1>3 DEF ReturnEarly, DeviceUnchanged, geo
  <2> QED BY <1>2, <2>2, <2>3, StoreRefuses DEF Refuses
<1>4. CASE /\ checks
           /\ handle' = [handle EXCEPT ![c].fd = TRUE]
           /\ call' = [call EXCEPT ![c] = [Idle EXCEPT !.st = "inflight", !.req = req,
                                                       !.cmd = cmd]]
           /\ DeviceUnchanged
  <2> DEFINE k == [Idle EXCEPT !.st = "inflight", !.req = req, !.cmd = cmd]
             a == [Store!Idle EXCEPT !.st = "open", !.req = req]
  <2>1. Seen(k) = a
    BY SeenIdle
  <2>2. call' = [call EXCEPT ![c] = k]
    BY <1>4
  <2>3. seen' = [seen EXCEPT ![c] = a]
    <3> HIDE DEF k, a
    <3> QED BY <1>1, <2>1, <2>2, SeenUpdate
  <2>4. UNCHANGED geo
    BY <1>1, <1>4 DEF geo
  <2>5. UNCHANGED <<content, media, fmt>>
    BY <1>4 DEF DeviceUnchanged
  <2>6. Store!WellFormed(req, geo[c])
    BY <1>2, <1>4
  <2> QED BY <1>2, <2>3, <2>4, <2>5, <2>6, StoreInvokes
<1>5. InvalidArgument = Store!Refused /\ OsError = Store!IoErr
  BY ReplyOf
<1> QED BY <1>3, <1>4, <1>5 DEF Execute, Issue

LEMMA CommandRefines ==
  ASSUME IInv, NEW c \in Client, NEW req \in Request, Command(c, req)
  PROVE  (\E r \in Request : Store!Invoke(c, r)) \/ Refuses(c)
<1>1. ASSUME NEW r \in Request, ExecuteData(c, r)
      PROVE  Store!Invoke(c, r) \/ Refuses(c)
  <2>1. /\ data_checks(c, r) \in BOOLEAN
        /\ Execute(c, r, data_checks(c, r), base_args(r, encode_nlb(r.nlb), r.len % U32))
    BY <1>1 DEF ExecuteData, data_checks, check_buf_len
  <2>2. r.op \in DataOps
    BY <1>1 DEF ExecuteData
  <2>3. data_checks(c, r) => Store!WellFormed(r, handle[c].lbaf)
    BY <2>2, ChecksWellFormed DEF DataOps, NoDataOps
  <2> QED BY <2>1, <2>3, ExecuteRefines
<1>2. CASE ReadToVec(c, req)
  <2> DEFINE sized == [req EXCEPT !.len = read_to_vec_len(req.nlb, c)]
  <2>1. sized \in Request
    BY <1>2, RequestAssumption DEF ReadToVec, read_to_vec_len, lba_size, IInv, TypeOK
  <2>2. ExecuteData(c, sized)
    BY <1>2 DEF ReadToVec
  <2> HIDE DEF sized
  <2> QED BY <1>1, <2>1, <2>2
<1>3. CASE ExecuteNoData(c, req)
  <2>1. /\ nodata_checks(req) \in BOOLEAN /\ req.op \in NoDataOps
        /\ Execute(c, req, nodata_checks(req), base_args(req, encode_nlb(req.nlb), 0))
    BY <1>3 DEF ExecuteNoData, nodata_checks
  <2>2. nodata_checks(req) => Store!WellFormed(req, handle[c].lbaf)
    BY <2>1, ChecksWellFormed DEF DataOps, NoDataOps
  <2> QED BY <2>1, <2>2, ExecuteRefines
<1>4. CASE ExecuteDsm(c, req)
  <2>1. \E cmd : Execute(c, req, dsm_checks(req), cmd)
    BY <1>4 DEF ExecuteDsm
  <2>2. dsm_checks(req) \in BOOLEAN /\ req.op = "dsm"
    BY <1>4 DEF ExecuteDsm, dsm_checks
  <2>3. dsm_checks(req) => Store!WellFormed(req, handle[c].lbaf)
    BY <2>2, ChecksWellFormed DEF DataOps, NoDataOps
  <2> QED BY <2>1, <2>2, <2>3, ExecuteRefines
<1>5. CASE ExecuteCopy(c, req)
  <2>1. \E cmd : Execute(c, req, copy_checks(req), cmd)
    BY <1>5 DEF ExecuteCopy
  <2>2. copy_checks(req) \in BOOLEAN /\ req.op = "copy"
    BY <1>5 DEF ExecuteCopy, copy_checks
  <2>3. copy_checks(req) => Store!WellFormed(req, handle[c].lbaf)
    BY <2>2, ChecksWellFormed DEF DataOps, NoDataOps
  <2> QED BY <2>1, <2>2, <2>3, ExecuteRefines
<1>6. CASE flush(c, req) \/ ExecuteFormat(c, req)
  <2>1. \E cmd : Execute(c, req, TRUE, cmd)
    BY <1>6 DEF flush, ExecuteFormat
  <2>2. req.op \in {"flush", "format"}
    BY <1>6 DEF flush, ExecuteFormat
  <2>3. Store!WellFormed(req, handle[c].lbaf)
    BY <2>2, ChecksWellFormed DEF DataOps, NoDataOps
  <2> QED BY <2>1, <2>3, ExecuteRefines
<1> QED BY <1>1, <1>2, <1>3, <1>4, <1>5, <1>6 DEF Command

(* The namespace serves what the caller asked for.                         *)
LEMMA Wire ==
  ASSUME IInv, NEW c \in Client, call[c].st = "inflight"
  PROVE  /\ seen[c].req = call[c].req /\ seen[c].st = "open"
         /\ call[c].req \in RequestType /\ call[c].cmd \in CommandType
         /\ Matches(call[c].req, call[c].cmd, handle[c].lbaf)
<1>1. /\ call[c] \in CallType /\ call[c].req \in RequestType
      /\ Matches(call[c].req, call[c].cmd, handle[c].lbaf)
  BY RequestAssumption DEF IInv, TypeOK, Marshalled
<1>2. call[c].cmd \in CommandType
  BY <1>1 DEF CallType
<1>3. seen[c].req = call[c].req /\ seen[c].st = "open"
  BY SeenAt
<1> QED BY <1>1, <1>2, <1>3

(* What a range command reports of the request r, in the terms of          *)
(* BlockStore.                                                             *)
StatusOf(r) == Store!RangeStatus(r.op, Store!Blocks(r.slba, r.nlb), r.val, content)
DataOf(r) ==
  IF r.op = "read"
     /\ Store!RangeStatus("read", Store!Blocks(r.slba, r.nlb), Zero, content) = Store!Success
  THEN [i \in 1 .. r.nlb |-> content[r.slba + i - 1]] ELSE <<>>

LEMMA StoreRange ==
  ASSUME NEW c \in Client, seen[c].st = "open", UNCHANGED <<geo, fmt>>,
         seen[c].req.op \in Store!DataOps \cup Store!NoDataOps,
         Store!Blocks(seen[c].req.slba, seen[c].req.nlb) \subseteq Store!Valid(fmt),
         seen' = [seen EXCEPT ![c] = Applied(call[c].req, Store!Replied(StatusOf(seen[c].req)),
                                             DataOf(seen[c].req))],
         content' \in Store!RangeOutcomes(seen[c].req.op,
                        Store!Blocks(seen[c].req.slba, seen[c].req.nlb), seen[c].req.val, content),
         media' = IF seen[c].req.fua
                  THEN Store!Persist(media, content',
                                     Store!Blocks(seen[c].req.slba, seen[c].req.nlb))
                  ELSE media
  PROVE  Store!ApplyRange(c)
<1> DEFINE reply == Store!Replied(StatusOf(seen[c].req))
           data  == DataOf(seen[c].req)
           done  == [[[seen[c] EXCEPT !.st = "applied"] EXCEPT !.reply = reply]
                        EXCEPT !.data = data]
<1> HIDE DEF reply, data
<1>1. PICK s, b :
        seen[c] = [st |-> s, req |-> call[c].req, reply |-> b, data |-> call[c].data]
  BY DEF seen, Seen
<1>2. done = Applied(call[c].req, reply, data)
  <2> DEFINE q == call[c].req
             d == call[c].data
  <2>1. [seen[c] EXCEPT !.st = "applied"] = [st |-> "applied", req |-> q, reply |-> b, data |-> d]
    BY <1>1
  <2>2. \A x : [[st |-> "applied", req |-> q, reply |-> b, data |-> d] EXCEPT !.reply = x]
                = [st |-> "applied", req |-> q, reply |-> x, data |-> d]
    OBVIOUS
  <2>3. \A x : [[st |-> "applied", req |-> q, reply |-> reply, data |-> d] EXCEPT !.data = x]
                = [st |-> "applied", req |-> q, reply |-> reply, data |-> x]
    OBVIOUS
  <2> QED BY <2>1, <2>2, <2>3 DEF Applied
<1>3. seen' = [seen EXCEPT ![c] = done]
  BY <1>2 DEF reply, data
<1>4. seen' = [seen EXCEPT ![c].st = "applied", ![c].reply = reply, ![c].data = data]
  BY <1>3 DEF seen
<1> QED
  BY <1>4, Zenon DEF Store!ApplyRange, Store!Completes, StatusOf, DataOf, reply, data, seen, Seen,
                     geo

LEMMA RangeRefines ==
  ASSUME IInv, NEW c \in Client, ServeRange(c)
  PROVE  Store!ApplyRange(c)
<1> DEFINE cmd == call[c].cmd
           req == call[c].req
           S   == WireBlocks(cmd)
           code == RangeStatus(cmd.opc, S, cmd.data, content)
           data == IF cmd.opc = "read" /\ RangeStatus("read", S, Zero, content) = Success
                   THEN [i \in 1 .. cmd.nlb + 1 |-> content[cmd.slba + i - 1]] ELSE <<>>
<1>1. /\ call[c].st = "inflight" /\ cmd.opc \in DataOps \cup NoDataOps
      /\ S \subseteq Valid(fmt)
      /\ Complete(c, code, data)
      /\ content' \in RangeOutcomes(cmd.opc, S, cmd.data, content)
      /\ media' = Persist(media, content', FuaBlocks(cmd, S))
      /\ fmt' = fmt
  BY DEF ServeRange
<1>2. /\ seen[c].req = req /\ Matches(req, cmd, handle[c].lbaf)
      /\ TypeOK /\ media \in [Lba -> Cell]
  BY <1>1, Wire DEF IInv, TypeOK
<1>3. /\ cmd.opc = req.op /\ cmd.slba = req.slba /\ cmd.nlb + 1 = req.nlb
      /\ cmd.data = req.val /\ cmd.control = apply_to(req)
  BY <1>1, <1>2 DEF Matches
<1>4. S = Blocks(req.slba, req.nlb)
  BY <1>3 DEF WireBlocks
<1>5. code \in Nat
  BY DEF RangeStatus, UnrecoveredRead, CompareFailure, Success
<1>6. code = RangeStatus(req.op, S, req.val, content)
  BY <1>3
<1>7. data = IF req.op = "read" /\ RangeStatus("read", S, Zero, content) = Success
             THEN [i \in 1 .. req.nlb |-> content[req.slba + i - 1]] ELSE <<>>
  BY <1>3
<1>8. content' \in RangeOutcomes(req.op, S, req.val, content)
  BY <1>1, <1>3
<1> HIDE DEF code, data, S, req
<1>9. /\ seen' = [seen EXCEPT ![c] = Applied(req, Store!Replied(code), data)]
      /\ UNCHANGED geo /\ seen[c].st = "open"
  <2>1. check_ret(code) = Store!Replied(code) /\ code \in Int
    BY <1>5, ReplyOf
  <2>2. seen' = [seen EXCEPT ![c] = Applied(req, check_ret(code), data)] /\ UNCHANGED geo
    BY <1>1, <1>2, <2>1, CompleteApplies DEF req
  <2> QED BY <1>1, <2>1, <2>2, SeenAt
<1>10. media' = IF req.fua THEN Persist(media, content', S) ELSE media
  <2>1. req.fua => FuaBlocks(cmd, S) = S
    BY <1>3 DEF FuaBlocks, apply_to
  <2>2. ~req.fua => FuaBlocks(cmd, S) = {}
    BY <1>3 DEF FuaBlocks, apply_to
  <2>3. Persist(media, content', {}) = media
    BY <1>2 DEF Persist
  <2> QED BY <1>1, <2>1, <2>2, <2>3
<1>11. code = StatusOf(req) /\ data = DataOf(req)
  BY <1>4, <1>6, <1>7, SameRange, SameMedia DEF StatusOf, DataOf
<1> QED
  BY <1>1, <1>2, <1>3, <1>4, <1>8, <1>9, <1>10, <1>11, StoreRange, SameRange, SameMedia DEF req

(* Every other command returns no data.                                    *)
LEMMA DeviceFinishes ==
  ASSUME TypeOK, NEW c \in Client, NEW code \in Nat, call[c].st = "inflight",
         Complete(c, code, <<>>)
  PROVE  Store!Completes(c, code, <<>>)
BY DeviceCompletes

(* The other steps of BlockStore that complete a call, from what they say  *)
(* of each variable.                                                       *)
LEMMA StoreOutOfRange ==
  ASSUME NEW c \in Client, seen[c].req.op \in Store!DataOps \cup Store!NoDataOps,
         ~(Store!Blocks(seen[c].req.slba, seen[c].req.nlb) \subseteq Store!Valid(fmt)),
         Store!Completes(c, Store!LbaOutOfRange, <<>>), UNCHANGED <<content, media, fmt>>
  PROVE  Store!ApplyRange(c)
BY Zenon DEF Store!ApplyRange, Store!NoEffect, seen, Seen

LEMMA StoreMisfit ==
  ASSUME NEW c \in Client, seen[c].req.op \in Store!DataOps,
         LbaSize[geo[c]] # LbaSize[fmt] \/ seen[c].req.len >= U32,
         Store!Blocks(seen[c].req.slba, seen[c].req.nlb) \subseteq Store!Valid(fmt),
         \/ /\ Store!Completes(c, Store!InvalidField, <<>>)
            /\ UNCHANGED <<content, media, fmt>>
         \/ /\ Store!Completes(c, Store!Success, <<Torn>>)
            /\ content' = IF seen[c].req.op = "write"
                          THEN Store!Fill(content,
                                          Store!Blocks(seen[c].req.slba, seen[c].req.nlb), Torn)
                          ELSE content
            /\ media' = IF seen[c].req.fua
                        THEN Store!Persist(media, content',
                                           Store!Blocks(seen[c].req.slba, seen[c].req.nlb))
                        ELSE media
            /\ UNCHANGED fmt
  PROVE  Store!ApplyMisfit(c)
BY Zenon DEF Store!ApplyMisfit, Store!NoEffect

LEMMA StoreDsm ==
  ASSUME NEW c \in Client, seen[c].req.op = "dsm",
         \/ /\ ~(Store!Named(seen[c].req) \subseteq Store!Valid(fmt))
            /\ Store!Completes(c, Store!LbaOutOfRange, <<>>)
            /\ UNCHANGED <<content, media, fmt>>
         \/ /\ Store!Named(seen[c].req) \subseteq Store!Valid(fmt)
            /\ Store!Completes(c, Store!Success, <<>>)
            /\ content' \in Store!DeallocOutcomes(Store!Named(seen[c].req), content)
            /\ UNCHANGED <<media, fmt>>
  PROVE  Store!ApplyDsm(c)
BY Zenon DEF Store!ApplyDsm, Store!NoEffect

LEMMA StatusNat ==
  /\ Success \in Nat /\ InvalidField \in Nat /\ LbaOutOfRange \in Nat /\ UnrecoveredRead \in Nat
BY DEF Success, InvalidField, LbaOutOfRange, UnrecoveredRead

LEMMA OutOfRangeRefines ==
  ASSUME IInv, NEW c \in Client, ServeOutOfRange(c)
  PROVE  Store!ApplyRange(c)
<1> DEFINE cmd == call[c].cmd
           req == call[c].req
<1>1. /\ call[c].st = "inflight" /\ cmd.opc \in DataOps \cup NoDataOps
      /\ ~(WireBlocks(cmd) \subseteq Valid(fmt)) /\ Complete(c, LbaOutOfRange, <<>>)
      /\ UNCHANGED <<content, media, fmt>>
  BY DEF ServeOutOfRange, DeviceUnchanged
<1>2. seen[c].req = req /\ Matches(req, cmd, handle[c].lbaf) /\ TypeOK
  BY <1>1, Wire DEF IInv
<1>3. WireBlocks(cmd) = Blocks(req.slba, req.nlb) /\ req.op \in DataOps \cup NoDataOps
  BY <1>1, <1>2 DEF Matches, WireBlocks
<1>4. Store!Completes(c, LbaOutOfRange, <<>>)
  BY <1>1, <1>2, StatusNat, DeviceFinishes
<1> HIDE DEF cmd, req
<1> QED BY <1>1, <1>2, <1>3, <1>4, StoreOutOfRange, SameMedia

(* Forced or not, what a command writes reaches the media as BlockStore    *)
(* says.                                                                   *)
LEMMA FuaPersists ==
  ASSUME media \in [Lba -> Cell], NEW cmd, NEW req, cmd.control = apply_to(req), NEW S, NEW now
  PROVE  Persist(media, now, FuaBlocks(cmd, S))
           = IF req.fua THEN Store!Persist(media, now, S) ELSE media
<1>1. /\ req.fua => FuaBlocks(cmd, S) = S
      /\ ~req.fua => FuaBlocks(cmd, S) = {}
  BY DEF FuaBlocks, apply_to
<1>2. Persist(media, now, {}) = media
  BY DEF Persist
<1> QED BY <1>1, <1>2, SameMedia

LEMMA MisfitRefines ==
  ASSUME IInv, NEW c \in Client, ServeMisfit(c)
  PROVE  Store!ApplyMisfit(c)
<1> DEFINE cmd == call[c].cmd
           req == call[c].req
           S   == WireBlocks(cmd)
<1>1. /\ call[c].st = "inflight" /\ ~TransferFits(cmd) /\ cmd.opc \in DataOps
      /\ S \subseteq Valid(fmt)
      /\ \/ Complete(c, InvalidField, <<>>) /\ UNCHANGED <<content, media, fmt>>
         \/ /\ Complete(c, Success, <<Torn>>)
            /\ content' = IF cmd.opc = "write" THEN Fill(content, S, Torn) ELSE content
            /\ media' = Persist(media, content', FuaBlocks(cmd, S))
            /\ fmt' = fmt
  BY DEF ServeMisfit, DeviceUnchanged, TransferFits
<1>2. /\ seen[c].req = req /\ req \in RequestType /\ Matches(req, cmd, handle[c].lbaf)
      /\ TypeOK /\ media \in [Lba -> Cell] /\ geo[c] = handle[c].lbaf
  BY <1>1, Wire, SeenAt DEF IInv, TypeOK
<1>3. /\ req.op = cmd.opc /\ req.op \in DataOps /\ S = Blocks(req.slba, req.nlb)
      /\ cmd.control = apply_to(req)
  BY <1>1, <1>2 DEF Matches, WireBlocks
<1>4. LbaSize[geo[c]] # LbaSize[fmt] \/ req.len >= U32
  <2>1. req.len \in Nat /\ U32 \in Nat
    BY <1>2, BlockIoAssumption DEF RequestType
  <2>2. req.len < U32 => LbaSize[handle[c].lbaf] # LbaSize[fmt]
    BY <1>1, <1>3, Announced
  <2> QED BY <1>2, <2>1, <2>2
<1> HIDE DEF cmd, req, S
<1>5. \A code \in {InvalidField, Success} : \A data :
        Complete(c, code, data) => Store!Completes(c, code, data)
  BY <1>1, <1>2, StatusNat, DeviceCompletes
<1>6. Persist(media, content', FuaBlocks(cmd, S))
        = IF req.fua THEN Store!Persist(media, content', S) ELSE media
  BY <1>2, <1>3, FuaPersists
<1>7. /\ S = Store!Blocks(req.slba, req.nlb) /\ S \subseteq Store!Valid(fmt)
      /\ Fill(content, S, Torn) = Store!Fill(content, S, Torn)
      /\ req.op \in Store!DataOps
  BY <1>1, <1>3, SameMedia
<1>8. \/ Store!Completes(c, InvalidField, <<>>) /\ UNCHANGED <<content, media, fmt>>
      \/ /\ Store!Completes(c, Success, <<Torn>>)
         /\ content' = IF req.op = "write" THEN Store!Fill(content, S, Torn) ELSE content
         /\ media' = IF req.fua THEN Store!Persist(media, content', S) ELSE media
         /\ fmt' = fmt
  BY <1>1, <1>3, <1>5, <1>6, <1>7
<1> QED BY <1>2, <1>4, <1>7, <1>8, StoreMisfit, SameMedia

(* The ranges of a Dsm on the wire are the caller's, each one block        *)
(* shorter.                                                                *)
LEMMA DsmNamed ==
  ASSUME NEW req \in RequestType, NEW cmd, cmd.ranges = dsm_ranges(req), cmd.nr = Len(req.ranges)
  PROVE  DsmBlocks(cmd) = Store!Named(req)
<1>1. req.ranges \in Seq([slba : Nat, nlb : Nat]) /\ DOMAIN req.ranges = 1 .. Len(req.ranges)
  BY DEF RequestType
<1>2. ASSUME NEW i \in 1 .. Len(req.ranges)
      PROVE  Blocks(cmd.ranges[i].slba, cmd.ranges[i].nlb)
               = Blocks(req.ranges[i].slba, Store!AtLeastOne(req.ranges[i].nlb) - 1)
  <2>1. req.ranges[i] \in [slba : Nat, nlb : Nat]
    BY <1>1, SeqElement
  <2>2. /\ cmd.ranges[i].slba = req.ranges[i].slba
        /\ cmd.ranges[i].nlb = saturating_sub(req.ranges[i].nlb, 1)
    BY <1>1 DEF dsm_ranges
  <2>3. saturating_sub(req.ranges[i].nlb, 1) = Store!AtLeastOne(req.ranges[i].nlb) - 1
    BY <2>1 DEF saturating_sub, Store!AtLeastOne
  <2> QED BY <2>2, <2>3
<1>3. DsmBlocks(cmd) = UNION { Blocks(req.ranges[i].slba, Store!AtLeastOne(req.ranges[i].nlb) - 1) :
                               i \in 1 .. Len(req.ranges) }
  BY <1>2 DEF DsmBlocks
<1> QED BY <1>1, <1>3, SameMedia DEF Store!Named

LEMMA DsmRefines ==
  ASSUME IInv, NEW c \in Client, ServeDsm(c)
  PROVE  Store!ApplyDsm(c)
<1> DEFINE cmd == call[c].cmd
           req == call[c].req
<1>1. /\ call[c].st = "inflight" /\ cmd.opc = "dsm"
      /\ \/ /\ ~(DsmBlocks(cmd) \subseteq Valid(fmt))
            /\ Complete(c, LbaOutOfRange, <<>>) /\ UNCHANGED <<content, media, fmt>>
         \/ /\ DsmBlocks(cmd) \subseteq Valid(fmt)
            /\ Complete(c, Success, <<>>)
            /\ content' \in DeallocOutcomes(DsmBlocks(cmd), content)
            /\ UNCHANGED <<media, fmt>>
  BY DEF ServeDsm, DeviceUnchanged
<1>2. /\ seen[c].req = req /\ req \in RequestType /\ Matches(req, cmd, handle[c].lbaf) /\ TypeOK
  BY <1>1, Wire DEF IInv
<1>3. DsmBlocks(cmd) = Store!Named(req) /\ req.op = "dsm"
  BY <1>1, <1>2, DsmNamed DEF Matches
<1> HIDE DEF cmd, req
<1>4. \A code \in {LbaOutOfRange, Success} :
        Complete(c, code, <<>>) => Store!Completes(c, code, <<>>)
  BY <1>1, <1>2, StatusNat, DeviceFinishes
<1> QED BY <1>1, <1>2, <1>3, <1>4, StoreDsm, SameMedia

LEMMA StoreCopyFails ==
  ASSUME NEW c \in Client, seen[c].req.op = "copy", UNCHANGED <<content, media, fmt>>,
         \/ /\ Store!Sources(seen[c].req) = <<>>
            /\ Store!Completes(c, Store!InvalidField, <<>>)
         \/ /\ ~Store!CopyInRange(seen[c].req.slba, Store!Sources(seen[c].req), LbaCount[fmt])
            /\ Store!Completes(c, Store!LbaOutOfRange, <<>>)
         \/ /\ Store!CopyInRange(seen[c].req.slba, Store!Sources(seen[c].req), LbaCount[fmt])
            /\ Store!CopyStatus(Store!Sources(seen[c].req), content) # Store!Success
            /\ Store!Completes(c, Store!UnrecoveredRead, <<>>)
  PROVE  Store!ApplyCopy(c)
BY Zenon DEF Store!ApplyCopy, Store!NoEffect

LEMMA StoreCopies ==
  ASSUME NEW c \in Client, seen[c].req.op = "copy",
         Store!Completes(c, Store!Success, <<>>), UNCHANGED fmt,
         Store!CopyInRange(seen[c].req.slba, Store!Sources(seen[c].req), LbaCount[fmt]),
         Store!CopyStatus(Store!Sources(seen[c].req), content) = Store!Success,
         content' = Store!CopyOutcome(seen[c].req.slba, Store!Sources(seen[c].req), content),
         media' = IF seen[c].req.fua
                  THEN Store!Persist(media, content', Store!Blocks(seen[c].req.slba,
                         Store!CopyLength(Store!Sources(seen[c].req))))
                  ELSE media
  PROVE  Store!ApplyCopy(c)
BY Zenon DEF Store!ApplyCopy

(* The ranges on the wire are the caller's, all but the last: nr is one    *)
(* less than their number.                                                 *)
LEMMA CopySources ==
  ASSUME NEW req \in RequestType, NEW cmd \in CommandType, cmd.ranges = copy_ranges(req),
         cmd.nr = copy_nr(req)
  PROVE  /\ CopyPayload(cmd) = Store!Sources(req)
         /\ cmd.nr = 0 => Store!Sources(req) = <<>>
<1>1. /\ req.ranges \in Seq([slba : Nat, nlb : Nat])
      /\ DOMAIN req.ranges = 1 .. Len(req.ranges) /\ Len(req.ranges) \in Nat
  BY DEF RequestType
<1>2. cmd.nr \in Nat /\ cmd.nr = Len(req.ranges) - 1
  BY DEF CommandType, copy_nr
<1>3. ASSUME NEW i \in 1 .. cmd.nr
      PROVE  /\ cmd.ranges[i].slba = req.ranges[i].slba
             /\ cmd.ranges[i].nlb + 1 = Store!AtLeastOne(req.ranges[i].nlb)
  <2>1. i \in 1 .. Len(req.ranges)
    BY <1>1, <1>2
  <2>2. req.ranges[i] \in [slba : Nat, nlb : Nat]
    BY <1>1, <2>1, SeqElement
  <2>3. /\ cmd.ranges[i].slba = req.ranges[i].slba
        /\ cmd.ranges[i].nlb = saturating_sub(req.ranges[i].nlb, 1)
    BY <1>1, <2>1 DEF copy_ranges
  <2> QED BY <2>2, <2>3 DEF saturating_sub, Store!AtLeastOne
<1> DEFINE elt(i) == [slba |-> req.ranges[i].slba, n |-> Store!AtLeastOne(req.ranges[i].nlb)]
<1>4. CopyPayload(cmd) = [i \in 1 .. cmd.nr |-> elt(i)]
  BY <1>3 DEF CopyPayload
<1>5. Store!Sources(req) = [i \in 1 .. cmd.nr |-> elt(i)]
  BY <1>2 DEF Store!Sources
<1> HIDE DEF elt
<1>6. cmd.nr = 0 => [i \in 1 .. cmd.nr |-> elt(i)] = <<>>
  OBVIOUS
<1> QED BY <1>4, <1>5, <1>6

LEMMA CopyRefines ==
  ASSUME IInv, NEW c \in Client, ServeCopy(c)
  PROVE  Store!ApplyCopy(c)
<1> DEFINE cmd == call[c].cmd
           req == call[c].req
           src == CopyPayload(cmd)
<1>1. /\ call[c].st = "inflight" /\ cmd.opc = "copy"
      /\ \/ cmd.nr = 0 /\ Complete(c, InvalidField, <<>>) /\ DeviceUnchanged
         \/ /\ ~CopyInRange(cmd.slba, src, LbaCount[fmt])
            /\ Complete(c, LbaOutOfRange, <<>>) /\ DeviceUnchanged
         \/ /\ CopyInRange(cmd.slba, src, LbaCount[fmt]) /\ CopyStatus(src, content) # Success
            /\ Complete(c, UnrecoveredRead, <<>>) /\ DeviceUnchanged
         \/ /\ CopyInRange(cmd.slba, src, LbaCount[fmt]) /\ CopyStatus(src, content) = Success
            /\ Complete(c, Success, <<>>)
            /\ content' = CopyOutcome(cmd.slba, src, content)
            /\ media' = Persist(media, content',
                                FuaBlocks(cmd, Blocks(cmd.slba, CopyLength(src))))
            /\ fmt' = fmt
  <2> HIDE DEF src, cmd
  <2>1. CopyStatus(src, content) \in {Success, UnrecoveredRead}
    BY DEF CopyStatus
  <2> QED BY <2>1 DEF ServeCopy, src, cmd, Success, LbaOutOfRange
<1>2. /\ seen[c].req = req /\ req \in RequestType /\ cmd \in CommandType
      /\ Matches(req, cmd, handle[c].lbaf) /\ TypeOK /\ media \in [Lba -> Cell]
  BY <1>1, Wire DEF IInv, TypeOK
<1>3. /\ req.op = "copy" /\ cmd.slba = req.slba /\ cmd.control = apply_to(req)
      /\ cmd.ranges = copy_ranges(req) /\ cmd.nr = copy_nr(req)
  BY <1>1, <1>2 DEF Matches
<1>4. src = Store!Sources(req) /\ (cmd.nr = 0 => Store!Sources(req) = <<>>)
  BY <1>2, <1>3, CopySources
<1> HIDE DEF cmd, req, src
<1>5. \A code \in {InvalidField, LbaOutOfRange, UnrecoveredRead, Success} :
        Complete(c, code, <<>>) => Store!Completes(c, code, <<>>)
  BY <1>1, <1>2, StatusNat, DeviceFinishes
<1>6. CASE DeviceUnchanged /\ ( \/ cmd.nr = 0 /\ Complete(c, InvalidField, <<>>)
                               \/ /\ ~CopyInRange(cmd.slba, src, LbaCount[fmt])
                                  /\ Complete(c, LbaOutOfRange, <<>>)
                               \/ /\ CopyInRange(cmd.slba, src, LbaCount[fmt])
                                  /\ CopyStatus(src, content) # Success
                                  /\ Complete(c, UnrecoveredRead, <<>>) )
  <2>1. UNCHANGED <<content, media, fmt>>
    BY <1>6 DEF DeviceUnchanged
  <2>2. \/ Store!Sources(req) = <<>> /\ Store!Completes(c, Store!InvalidField, <<>>)
        \/ /\ ~Store!CopyInRange(req.slba, Store!Sources(req), LbaCount[fmt])
           /\ Store!Completes(c, Store!LbaOutOfRange, <<>>)
        \/ /\ Store!CopyInRange(req.slba, Store!Sources(req), LbaCount[fmt])
           /\ Store!CopyStatus(Store!Sources(req), content) # Store!Success
           /\ Store!Completes(c, Store!UnrecoveredRead, <<>>)
    BY <1>3, <1>4, <1>5, <1>6, SameMedia, SameCopy
  <2> QED BY <1>2, <1>3, <2>1, <2>2, StoreCopyFails
<1>7. CASE /\ CopyInRange(cmd.slba, src, LbaCount[fmt]) /\ CopyStatus(src, content) = Success
           /\ Complete(c, Success, <<>>)
           /\ content' = CopyOutcome(cmd.slba, src, content)
           /\ media' = Persist(media, content',
                               FuaBlocks(cmd, Blocks(cmd.slba, CopyLength(src))))
           /\ fmt' = fmt
  <2>1. media' = IF req.fua THEN Store!Persist(media, content', Blocks(req.slba, CopyLength(src)))
                 ELSE media
    BY <1>2, <1>3, <1>7, FuaPersists
  <2>2. /\ Store!CopyInRange(req.slba, src, LbaCount[fmt])
        /\ Store!CopyStatus(src, content) = Store!Success
        /\ content' = Store!CopyOutcome(req.slba, src, content)
        /\ Blocks(req.slba, CopyLength(src)) = Store!Blocks(req.slba, Store!CopyLength(src))
        /\ Store!Completes(c, Store!Success, <<>>)
    BY <1>3, <1>5, <1>7, SameMedia, SameCopy
  <2> QED BY <1>2, <1>3, <1>4, <1>7, <2>1, <2>2, StoreCopies
<1> QED BY <1>1, <1>6, <1>7

LEMMA FlushFormatRefine ==
  ASSUME IInv, NEW c \in Client, ServeFlush(c) \/ ServeFormat(c)
  PROVE  Store!ApplyFlush(c) \/ Store!ApplyFormat(c)
<1> DEFINE cmd == call[c].cmd
           req == call[c].req
<1>1. call[c].st = "inflight" /\ cmd.opc \in {"flush", "format"}
  BY DEF ServeFlush, ServeFormat
<1>2. /\ seen[c].req = req /\ cmd.opc = req.op /\ TypeOK
      /\ req.op = "format" => cmd.lbaf = req.lbaf
  BY <1>1, Wire DEF IInv, Matches
<1>3. \A code \in Nat : Complete(c, code, <<>>) => Store!Completes(c, code, <<>>)
  BY <1>1, <1>2, DeviceFinishes
<1>4. CASE ServeFlush(c)
  <2>1. Store!Completes(c, Success, <<>>) /\ media' = content /\ UNCHANGED <<content, fmt>>
    BY <1>3, <1>4, StatusNat DEF ServeFlush
  <2>2. seen[c].req.op = "flush" /\ Store!Completes(c, Store!Success, <<>>)
    BY <1>2, <1>4, <2>1, SameMedia DEF ServeFlush
  <2> QED BY <2>1, <2>2, Zenon DEF Store!ApplyFlush, seen, Seen
<1>5. CASE ServeFormat(c)
  <2>1. \/ /\ cmd.lbaf \in LbaFormat /\ Store!Completes(c, Success, <<>>)
           /\ fmt' = cmd.lbaf
           /\ content' = [b \in Lba |-> Zero] /\ media' = [b \in Lba |-> Zero]
        \/ /\ cmd.lbaf \notin LbaFormat /\ Store!Completes(c, InvalidField, <<>>)
           /\ UNCHANGED <<content, media, fmt>>
    BY <1>3, <1>5, StatusNat DEF ServeFormat, DeviceUnchanged
  <2>2. seen[c].req.op = "format" /\ cmd.lbaf = seen[c].req.lbaf
    BY <1>2, <1>5 DEF ServeFormat
  <2>3. \/ /\ seen[c].req.lbaf \in LbaFormat /\ Store!Completes(c, Store!Success, <<>>)
           /\ fmt' = seen[c].req.lbaf
           /\ content' = [b \in Lba |-> Zero] /\ media' = [b \in Lba |-> Zero]
        \/ /\ seen[c].req.lbaf \notin LbaFormat /\ Store!Completes(c, Store!InvalidField, <<>>)
           /\ UNCHANGED <<content, media, fmt>>
    BY <2>1, <2>2, SameMedia
  <2> QED BY <2>2, <2>3, Zenon DEF Store!ApplyFormat, Store!NoEffect, seen, Seen
<1> QED BY <1>4, <1>5

(* A lost completion, a return and a new scan.                             *)
LEMMA TimeoutRefines ==
  ASSUME IInv, NEW c \in Client, Timeout(c)
  PROVE  Store!Lose(c)
<1>1. PICK ret \in {-1, -Errno} : Complete(c, ret, <<>>)
  BY DEF Timeout
<1>2. ret \in Int /\ check_ret(ret) = Store!IoErr
  BY ReplyOf DEF Errno
<1>3. seen' = [seen EXCEPT ![c] = Applied(call[c].req, Store!IoErr, <<>>)] /\ UNCHANGED geo
  BY <1>1, <1>2, CompleteApplies DEF IInv
<1>4. seen[c].st \in {"open", "applied"}
  BY SeenAt DEF Timeout
<1>5. UNCHANGED <<content, media, fmt>>
  BY DEF Timeout, DeviceUnchanged
<1> QED BY <1>3, <1>4, <1>5, StoreCompletes

LEMMA ReturnRefines ==
  ASSUME IInv, NEW c \in Client, Return(c)
  PROVE  Store!Return(c)
<1>1. /\ call[c].st = "completed" /\ call \in [Client -> CallType]
      /\ call' = [call EXCEPT ![c] = [Idle EXCEPT !.reply = check_ret(call[c].ret)]]
      /\ UNCHANGED <<content, media, fmt, geo>>
  BY DEF Return, DeviceUnchanged, IInv, TypeOK, geo
<1>2. seen[c].st = "applied" /\ seen[c].reply = check_ret(call[c].ret)
  BY <1>1 DEF seen, Seen
<1>3. seen' = [seen EXCEPT ![c] = Seen([Idle EXCEPT !.reply = check_ret(call[c].ret)])]
  BY <1>1, SeenUpdate
<1>4. seen' = [seen EXCEPT ![c] = [Store!Idle EXCEPT !.reply = seen[c].reply]]
  BY <1>2, <1>3, SeenIdle
<1> QED BY <1>1, <1>2, <1>4, StoreReturns

LEMMA RescanRefines ==
  ASSUME IInv, NEW c \in Client, Rescan(c)
  PROVE  Store!Rescan(c)
<1>1. /\ call[c].st = "returned" /\ handle \in [Client -> [lbaf : LbaFormat, fd : BOOLEAN]]
      /\ handle' = [handle EXCEPT ![c] = [lbaf |-> fmt, fd |-> FALSE]]
      /\ UNCHANGED <<call, content, media, fmt>>
  BY DEF Rescan, DeviceUnchanged, IInv, TypeOK
<1>2. geo' = [geo EXCEPT ![c] = fmt]
  BY <1>1 DEF geo
<1>3. UNCHANGED seen /\ seen[c].st = "returned"
  BY <1>1 DEF seen, Seen
<1> QED BY <1>1, <1>2, <1>3, StoreRescans

LEMMA PowerLossRefines ==
  ASSUME IInv, PowerLoss
  PROVE  Store!PowerLoss
<1>1. /\ content' = media /\ UNCHANGED <<media, fmt, handle, geo>>
      /\ call' = [c \in Client |-> IF call[c].st = "inflight"
                                   THEN [call[c] EXCEPT !.st = "completed", !.ret = -1]
                                   ELSE call[c]]
      /\ call \in [Client -> CallType]
  BY DEF PowerLoss, geo, IInv, TypeOK
<1>2. ASSUME NEW c \in Client
      PROVE  Seen(call'[c]) = IF seen[c].st = "open"
                              THEN [seen[c] EXCEPT !.st = "applied", !.reply = Store!IoErr]
                              ELSE seen[c]
  <2> DEFINE old == call[c]
             k == [[old EXCEPT !.st = "completed"] EXCEPT !.ret = -1]
             a == [[seen[c] EXCEPT !.st = "applied"] EXCEPT !.reply = Store!IoErr]
  <2>1. call'[c] = IF old.st = "inflight" THEN k ELSE old
    BY <1>1
  <2>2. /\ k.st = "completed" /\ k.ret = -1 /\ k.req = old.req /\ k.data = old.data
    <3>1. old \in CallType
      BY <1>1
    <3> HIDE DEF old
    <3>2. \A r \in Int : LET d == [[old EXCEPT !.st = "completed"] EXCEPT !.ret = r]
                         IN  d.st = "completed" /\ d.ret = r /\ d.req = old.req /\ d.data = old.data
      BY <3>1 DEF CallType
    <3>3. -1 \in Int
      OBVIOUS
    <3> QED BY <3>2, <3>3
  <2>3. check_ret(-1) = Store!IoErr
    BY ReplyOf
  <2>4. Seen(k) = [st |-> "applied", req |-> old.req, reply |-> Store!IoErr, data |-> old.data]
    <3> HIDE DEF k, old
    <3> QED BY <2>2, <2>3 DEF Seen
  <2>5. a = [st |-> "applied", req |-> old.req, reply |-> Store!IoErr, data |-> old.data]
    <3>1. PICK s, b : seen[c] = [st |-> s, req |-> old.req, reply |-> b, data |-> old.data]
      BY DEF seen, Seen
    <3> HIDE DEF old
    <3>2. [seen[c] EXCEPT !.st = "applied"]
            = [st |-> "applied", req |-> old.req, reply |-> b, data |-> old.data]
      BY <3>1
    <3>3. \A x : [[st |-> "applied", req |-> old.req, reply |-> b, data |-> old.data]
                    EXCEPT !.reply = x]
                  = [st |-> "applied", req |-> old.req, reply |-> x, data |-> old.data]
      OBVIOUS
    <3> QED BY <3>2, <3>3
  <2>6. seen[c] = Seen(old) /\ (seen[c].st = "open" <=> old.st = "inflight")
    BY SeenAt
  <2>7. Seen(call'[c]) = IF seen[c].st = "open" THEN a ELSE seen[c]
    <3> HIDE DEF k, old, a
    <3> QED BY <2>1, <2>4, <2>5, <2>6
  <2> QED BY <2>7
<1>3. seen' = [c \in Client |-> Seen(call'[c])]
  BY DEF seen, Seen
<1>4. seen' = [c \in Client |-> IF seen[c].st = "open"
                                THEN [seen[c] EXCEPT !.st = "applied", !.reply = Store!IoErr]
                                ELSE seen[c]]
  <2> HIDE DEF seen, Seen
  <2> QED BY <1>2, <1>3
<1> QED BY <1>1, <1>4 DEF Store!PowerLoss, seen, Seen, geo

LEMMA StoreInit == Init => Store!Init
<1> SUFFICES ASSUME Init PROVE Store!Init
  OBVIOUS
<1>1. Seen(Idle) = Store!Idle
  BY DEF Seen, Idle, Store!Idle, NoRequest, Store!NoRequest, Store!Replied, Store!Success
<1>2. seen = [c \in Client |-> Store!Idle]
  <2>1. \A c \in Client : call[c] = Idle
    BY DEF Init
  <2> HIDE DEF Seen
  <2> QED BY <1>1, <2>1 DEF seen
<1>3. geo = [c \in Client |-> fmt]
  BY DEF Init, geo
<1>4. content = [b \in Lba |-> Zero] /\ media = content /\ fmt \in LbaFormat
  BY DEF Init
<1> QED BY <1>2, <1>3, <1>4 DEF Store!Init, seen, Seen, geo

LEMMA StoreStep == IInv /\ [Next]_vars => [Store!Next]_Store!vars
<1> SUFFICES ASSUME IInv, [Next]_vars PROVE [Store!Next]_Store!vars
  OBVIOUS
<1>1. ASSUME NEW c \in Client, NEW req \in Request, Command(c, req)
      PROVE  Store!Next
  BY <1>1, CommandRefines DEF Refuses, Store!Next
<1>2. ASSUME NEW c \in Client, Serve(c)
      PROVE  Store!Next
  <2>1. \/ Store!ApplyRange(c) \/ Store!ApplyMisfit(c) \/ Store!ApplyDsm(c)
        \/ Store!ApplyCopy(c) \/ Store!ApplyFlush(c) \/ Store!ApplyFormat(c)
    BY <1>2, RangeRefines, MisfitRefines, OutOfRangeRefines, DsmRefines, CopyRefines,
       FlushFormatRefine DEF Serve
  <2> QED BY <2>1 DEF Store!Next
<1>3. ASSUME NEW c \in Client, Timeout(c) \/ Return(c) \/ Rescan(c)
      PROVE  Store!Next
  BY <1>3, TimeoutRefines, ReturnRefines, RescanRefines DEF Store!Next
<1>4. ASSUME NEW b \in Lba, Destage(b)
      PROVE  Store!Next
  <2>1. Store!Destage(b)
    BY <1>4 DEF Destage, Store!Destage, seen, Seen, geo
  <2> QED BY <2>1 DEF Store!Next
<1>5. CASE PowerLoss
  BY <1>5, PowerLossRefines DEF Store!Next
<1>6. CASE UNCHANGED vars
  BY <1>6 DEF vars, Store!vars, seen, Seen, geo
<1> QED BY <1>1, <1>2, <1>3, <1>4, <1>5, <1>6 DEF Next

(* Every execute() of io.rs is refused without effect or takes effect at   *)
(* most once, at one instant before it returns, on exactly the blocks it   *)
(* names (but for the last range of a Copy and the last block of each      *)
(* range of a Dsm), with the durability it asked for; a lost reply never   *)
(* becomes a success.                                                      *)
THEOREM ImplementsTheStore == Spec => ImplementsStore
BY StoreInit, StoreStep, IoInvariant, PTL DEF Spec, ImplementsStore, Store!Spec

----------------------------------------------------------------------------
(* Without Dsm and Copy: what is built is what is promised.  A step of one *)
(* BlockStore is a step of the other, since CopyShort and DsmShort are     *)
(* only mentioned where a list of ranges is.                               *)

NoLists == \A req \in Request : req.op \notin {"dsm", "copy"}

LEMMA PromisedCalls ==
  /\ \A c \in Client :
       /\ \A req : Store!Invoke(c, req) => Promise!Invoke(c, req)
       /\ \A why : Store!Refuse(c, why) => Promise!Refuse(c, why)
       /\ Store!Lose(c) => Promise!Lose(c)
       /\ Store!Return(c) => Promise!Return(c)
       /\ Store!Rescan(c) => Promise!Rescan(c)
  /\ \A b : Store!Destage(b) => Promise!Destage(b)
  /\ Store!PowerLoss => Promise!PowerLoss
  /\ Store!Refused = Promise!Refused /\ Store!IoErr = Promise!IoErr
BY DEF Store!Invoke, Promise!Invoke, Store!Refuse, Promise!Refuse, Store!Lose, Promise!Lose,
       Store!Return, Promise!Return, Store!Rescan, Promise!Rescan, Store!Destage,
       Promise!Destage, Store!PowerLoss, Promise!PowerLoss, Store!Idle, Promise!Idle,
       Store!NoRequest, Promise!NoRequest, Store!Replied, Promise!Replied, Store!Success,
       Promise!Success, Store!IoErr, Promise!IoErr, Store!Refused, Promise!Refused,
       Store!WellFormed, Promise!WellFormed, Store!DataOps, Promise!DataOps, Store!NoDataOps,
       Promise!NoDataOps

LEMMA PromisedSteps ==
  ASSUME NEW c \in Client
  PROVE  /\ Store!ApplyRange(c) => Promise!ApplyRange(c)
         /\ Store!ApplyMisfit(c) => Promise!ApplyMisfit(c)
         /\ Store!ApplyFlush(c) => Promise!ApplyFlush(c)
         /\ Store!ApplyFormat(c) => Promise!ApplyFormat(c)
BY DEF Store!ApplyRange, Promise!ApplyRange, Store!ApplyMisfit, Promise!ApplyMisfit,
       Store!ApplyFlush, Promise!ApplyFlush, Store!ApplyFormat, Promise!ApplyFormat,
       Store!Completes, Promise!Completes, Store!Replied, Promise!Replied, Store!NoEffect,
       Promise!NoEffect, Store!Success, Promise!Success, Store!InvalidField,
       Promise!InvalidField, Store!LbaOutOfRange, Promise!LbaOutOfRange,
       Store!UnrecoveredRead, Promise!UnrecoveredRead, Store!CompareFailure,
       Promise!CompareFailure, Store!Blocks, Promise!Blocks, Store!Valid, Promise!Valid,
       Store!RangeStatus, Promise!RangeStatus, Store!RangeOutcomes, Promise!RangeOutcomes,
       Store!Fill, Promise!Fill, Store!Persist, Promise!Persist, Store!DataOps,
       Promise!DataOps, Store!NoDataOps, Promise!NoDataOps

(* A call that is open was made by a Request.                              *)
LEMMA NoListOpen ==
  ASSUME IInv, NoLists, NEW c \in Client
  PROVE  ~Store!ApplyDsm(c) /\ ~Store!ApplyCopy(c)
<1>1. SUFFICES ASSUME Store!ApplyDsm(c) \/ Store!ApplyCopy(c)
               PROVE  FALSE
  OBVIOUS
<1>2. seen[c].st = "open" /\ seen[c].req.op \in {"dsm", "copy"}
  BY <1>1, Zenon DEF Store!ApplyDsm, Store!ApplyCopy, Store!Completes
<1>3. call[c].st = "inflight" /\ call[c].req.op \in {"dsm", "copy"}
  BY <1>2, SeenAt
<1>4. call[c].req \in Request
  BY <1>3 DEF IInv, Marshalled
<1> QED BY <1>3, <1>4 DEF NoLists

LEMMA PromiseStep ==
  ASSUME IInv, NoLists, [Next]_vars
  PROVE  [Promise!Next]_Promise!vars
<1>1. [Store!Next]_Store!vars
  BY StoreStep
<1>2. CASE Store!Next
  <2>1. ASSUME NEW c \in Client, NEW req \in Request, Store!Invoke(c, req)
        PROVE  Promise!Next
    BY <2>1, PromisedCalls DEF Promise!Next
  <2>2. ASSUME NEW c \in Client,
               \/ \E why \in {Store!Refused, Store!IoErr} : Store!Refuse(c, why)
               \/ Store!Lose(c) \/ Store!Return(c) \/ Store!Rescan(c)
        PROVE  Promise!Next
    BY <2>2, PromisedCalls DEF Promise!Next
  <2>3. ASSUME NEW c \in Client,
               \/ Store!ApplyRange(c) \/ Store!ApplyMisfit(c) \/ Store!ApplyDsm(c)
               \/ Store!ApplyCopy(c) \/ Store!ApplyFlush(c) \/ Store!ApplyFormat(c)
        PROVE  Promise!Next
    BY <2>3, NoListOpen, PromisedSteps DEF Promise!Next
  <2>4. ASSUME NEW b \in Lba, Store!Destage(b)
        PROVE  Promise!Next
    BY <2>4, PromisedCalls DEF Promise!Next
  <2>5. CASE Store!PowerLoss
    BY <2>5, PromisedCalls DEF Promise!Next
  <2> QED BY <1>2, <2>1, <2>2, <2>3, <2>4, <2>5 DEF Store!Next
<1>3. CASE UNCHANGED Store!vars
  BY <1>3 DEF Store!vars, Promise!vars
<1> QED BY <1>1, <1>2, <1>3

LEMMA PromiseInit == Init => Promise!Init
<1>1. Store!Init => Promise!Init
  BY DEF Store!Init, Promise!Init, Store!Idle, Promise!Idle, Store!NoRequest,
         Promise!NoRequest, Store!Replied, Promise!Replied, Store!Success, Promise!Success
<1> QED BY <1>1, StoreInit

(* As long as nobody calls Dsm or Copy, the code keeps what the            *)
(* documentation of io.rs promises: every execute() is refused without     *)
(* effect or takes effect at most once, at one instant before it returns,  *)
(* on exactly the blocks it names.                                         *)
THEOREM PromiseIsKept == ASSUME NoLists PROVE Spec => KeepsPromise
<1>1. IInv /\ [Next]_vars => [Promise!Next]_Promise!vars
  BY PromiseStep
<1> QED BY <1>1, PromiseInit, IoInvariant, PTL DEF Spec, KeepsPromise, Promise!Spec
=============================================================================
