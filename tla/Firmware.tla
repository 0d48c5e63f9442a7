------------------------------ MODULE Firmware ------------------------------
(***************************************************************************)
(* Firmware Image Download, Firmware Commit and the Firmware Slot log      *)
(* (controller.rs, admin.rs, log.rs).  Callers download images piece by    *)
(* piece into the one transfer buffer of the controller, commit what is    *)
(* there, and look at the slots; the controller may be reset at any time.  *)
(***************************************************************************)
EXTENDS Ioctl, FiniteSets

CONSTANTS
  Caller,
  Image, NoImage,
  Pieces,      \* Pieces[i]: length of image i, in transfers
  Slot,        \* slots the controller has
  Boot,        \* the slot it boots from at first,
  BootImage,   \*   with this image in it
  MaxPieces,   \* size of the transfer buffer
  Request,     \* Request[c]: what c asks for
  MaxCommits,  \* bound on the commits
  U32

ASSUME FirmwareAssumption ==
  /\ NoImage \notin Image
  /\ U32 \in Nat \ {0} /\ MaxPieces \in Nat /\ MaxCommits \in Nat
  /\ Pieces \in [Image -> 0 .. MaxPieces]
  /\ Slot \subseteq 1 .. 7 /\ Boot \in Slot
  /\ BootImage \in Image

(* admin.rs: FirmwareAction as the values of enum nvme_fw_commit_ca.       *)
FirmwareAction ==
  [Replace |-> 0, ReplaceAndActivate |-> 1, SetActive |-> 2,
   ReplaceAndActivateImmediate |-> 3, ReplaceBootPartition |-> 6,
   ActivateBootPartition |-> 7]
CA == { FirmwareAction[a] : a \in DOMAIN FirmwareAction }

CommitRequest == [op : {"commit"}, slot : Slot, action : CA, bpid : BOOLEAN]

AnyRequest ==
  [op : {"download"}, image : Image] \cup CommitRequest \cup [op : {"log"}]

ASSUME RequestAssumption == Request \in [Caller -> SUBSET AnyRequest]

VARIABLES
  fw,      \* the controller: transfer buffer, slots, boot partitions
  xfer0,   \* what libnvme makes of a transfer size of 0
  phase,   \* phase[c] \in {"idle", "sends", "done"}
  call,    \* call[c]: the call of c
  loaded,  \* loaded[c]: the image that c downloaded and did not commit yet
  solo,    \* solo[c]: nobody has disturbed the update or the call of c
  commits  \* number of commits so far
vars == <<fw, xfer0, phase, call, loaded, solo, commits>>

-----------------------------------------------------------------------------
(* Contents of the buffer, of a slot or of a partition: the image each     *)
(* piece is of.                                                            *)
Content  == [0 .. MaxPieces - 1 -> Image \cup {NoImage}]
Empty    == [p \in 0 .. MaxPieces - 1 |-> NoImage]
Whole(i) == [p \in 0 .. MaxPieces - 1 |-> IF p < Pieces[i] THEN i ELSE NoImage]

(* log.rs: the Active Firmware Info byte and what is read from it.         *)
Afi == fw.active + 16 * fw.next

(* Mutant: swaps the two halves of the byte.                               *)
active_slot_UpperHalf(afi) == (afi \div 16) % 8

active_slot(afi) == afi % 8

next_slot_to_activate(afi) == (afi \div 16) % 8   \* 0 stands for None

-----------------------------------------------------------------------------
(* The states of the controller after its part of a step (external).       *)

(* A piece at the start may or may not discard what was there before.      *)
Store(i, pos) ==
  { [fw EXCEPT !.buffer = [b EXCEPT ![pos] = i]] :
      b \in IF pos = 0 THEN {fw.buffer, Empty} ELSE {fw.buffer} }

(* Status codes that say that the commit was successful, and that the      *)
(* image needs a reset to be activated.                                    *)
NVME_SC_FW_NEEDS_CONV_RESET   == 267
NVME_SC_FW_NEEDS_SUBSYS_RESET == 272
NVME_SC_FW_NEEDS_RESET        == 273
NeedsReset ==
  {NVME_SC_FW_NEEDS_CONV_RESET, NVME_SC_FW_NEEDS_SUBSYS_RESET,
   NVME_SC_FW_NEEDS_RESET}
NVME_SC_FIRMWARE_IMAGE == 263

Replaced(s) ==
  [fw EXCEPT !.slots[s] = fw.buffer, !.buffer = Empty]

(* With nothing in the buffer, an immediate commit activates what is in    *)
(* the slot.                                                               *)
Filled(s) == IF fw.buffer = Empty THEN fw ELSE Replaced(s)

Activated(f, s) ==
  [f EXCEPT !.active = s, !.running = f.slots[s], !.next = 0]

Committable(r) ==
  CASE r.action \in {FirmwareAction.Replace, FirmwareAction.ReplaceAndActivate,
                     FirmwareAction.ReplaceBootPartition} -> fw.buffer # Empty
    [] r.action = FirmwareAction.SetActive -> fw.slots[r.slot] # Empty
    [] r.action = FirmwareAction.ReplaceAndActivateImmediate ->
         Filled(r.slot).slots[r.slot] # Empty
    [] OTHER -> TRUE

(* The controller after a commit that it answers with ret.                 *)
Committed(r, ret) ==
  CASE r.action = FirmwareAction.Replace -> Replaced(r.slot)
    [] r.action = FirmwareAction.ReplaceAndActivate ->
         [Replaced(r.slot) EXCEPT !.next = r.slot]
    [] r.action = FirmwareAction.SetActive -> [fw EXCEPT !.next = r.slot]
    [] r.action = FirmwareAction.ReplaceAndActivateImmediate ->
         IF ret = Success THEN Activated(Filled(r.slot), r.slot)
                          ELSE [Filled(r.slot) EXCEPT !.next = r.slot]
    [] r.action = FirmwareAction.ReplaceBootPartition ->
         [fw EXCEPT !.boot[r.bpid] = fw.buffer, !.buffer = Empty]
    [] r.action = FirmwareAction.ActivateBootPartition ->
         [fw EXCEPT !.bootActive = r.bpid]

Answers(r) ==
  IF r.action \in {FirmwareAction.ReplaceAndActivate, FirmwareAction.SetActive,
                   FirmwareAction.ReplaceAndActivateImmediate}
  THEN {Success} \cup NeedsReset ELSE {Success}

-----------------------------------------------------------------------------
(* Mutant: leaves out the last, shorter piece.                             *)
fw_download_DropsTail(image) ==
  [size |-> IF Pieces[image] = 0 THEN 0 ELSE (Pieces[image] - 1) % U32,
   xfer |-> 0, offset |-> 0]

(* What fw_download passes to nvme_fw_download_seq.                        *)
fw_download(image) == [size |-> Pieces[image] % U32, xfer |-> 0, offset |-> 0]

(* What the loop of libnvme sends at a time (external).  The comment of    *)
(* fw_download takes an xfer of 0 for the granularity the controller       *)
(* reports, linux.h documents xfer as the maximum size to send, of which   *)
(* none is left with 0; both readings are open here.                       *)
TransferSize(xfer) == IF xfer = 0 /\ xfer0 = "default" THEN 1 ELSE xfer

Init ==
  /\ fw = [buffer |-> Empty, active |-> Boot, next |-> 0,
           running |-> Whole(BootImage),
           slots |-> [s \in Slot |-> IF s = Boot THEN Whole(BootImage) ELSE Empty],
           boot |-> [b \in BOOLEAN |-> Whole(BootImage)], bootActive |-> FALSE]
  /\ xfer0 \in {"default", "literal"}
  /\ phase = [c \in Caller |-> "idle"]
  /\ call = [c \in Caller |-> [op |-> "none"]]
  /\ loaded = [c \in Caller |-> NoImage]
  /\ solo = [c \in Caller |-> FALSE]
  /\ commits = 0

(* The step of c disturbs what the others are at.                          *)
Disturbed(c) == [d \in Caller |-> d = c /\ solo[c]]

Starts(c, k) ==
  /\ phase[c] = "idle"
  /\ phase' = [phase EXCEPT ![c] = "sends"]
  /\ call' = [call EXCEPT ![c] = k]
  /\ UNCHANGED <<fw, xfer0, commits>>

Ends(c, ret) ==
  /\ phase' = [phase EXCEPT ![c] = "done"]
  /\ call' = [call EXCEPT ![c].reply = check_ret(ret)]

BeginDownload(c) ==
  \E r \in Request[c] :
    /\ r.op = "download"
    /\ Starts(c, [op |-> "download", image |-> r.image, reply |-> check_ret(0),
                  pos |-> fw_download(r.image).offset])
    /\ solo' = [solo EXCEPT ![c] = fw.buffer = Empty]
    /\ loaded' = [loaded EXCEPT ![c] = NoImage]

BeginCommit(c) ==
  \E r \in Request[c] :
    /\ r.op = "commit"
    /\ commits < MaxCommits
    /\ Starts(c, [op |-> "commit", request |-> r, reply |-> check_ret(0)])
    /\ solo' = [solo EXCEPT ![c] = loaded[c] = NoImage \/ @]
    /\ UNCHANGED loaded

Downloads(c) == phase[c] = "sends" /\ call[c].op = "download"
Left(k)      == fw_download(k.image).size - k.pos

(* One transfer; the call returns after the last one.                      *)
SendPiece(c) ==
  /\ Downloads(c) /\ Left(call[c]) > 0
  /\ LET size == TransferSize(fw_download(call[c].image).xfer) IN
     IF size = 0
     THEN UNCHANGED <<fw, call, solo>>
     ELSE /\ fw' \in Store(call[c].image, call[c].pos)
          /\ call' = [call EXCEPT ![c].pos = @ + size]
          /\ solo' = Disturbed(c)
  /\ UNCHANGED <<xfer0, phase, loaded, commits>>

EndDownload(c) ==
  /\ Downloads(c) /\ Left(call[c]) = 0
  /\ Ends(c, Success)
  /\ loaded' = [loaded EXCEPT ![c] = call[c].image]
  /\ UNCHANGED <<fw, xfer0, solo, commits>>

(* The controller refuses a piece, or the transfer times out, with or      *)
(* without effect.                                                         *)
FailDownload(c) ==
  /\ Downloads(c) /\ Left(call[c]) > 0
  /\ \/ Ends(c, InvalidField) /\ UNCHANGED <<fw, solo>>
     \/ /\ Ends(c, -1)
        /\ fw' \in {fw} \cup Store(call[c].image, call[c].pos)
        /\ solo' = Disturbed(c)
  /\ UNCHANGED <<xfer0, loaded, commits>>

Commits(c) == phase[c] = "sends" /\ call[c].op = "commit"

TakeCommit(c) ==
  LET r == call[c].request IN
  /\ Commits(c) /\ Committable(r) /\ commits < MaxCommits
  /\ \E ret \in Answers(r) : fw' = Committed(r, ret) /\ Ends(c, ret)
  /\ solo' = Disturbed(c)
  /\ commits' = commits + 1
  /\ UNCHANGED <<xfer0, loaded>>

(* Refused: there is nothing to commit, or the controller does not take    *)
(* what is there.                                                          *)
RefuseCommit(c) ==
  /\ Commits(c)
  /\ Ends(c, NVME_SC_FIRMWARE_IMAGE)
  /\ UNCHANGED <<fw, xfer0, loaded, solo, commits>>

LoseCommit(c) ==
  LET r == call[c].request IN
  /\ Commits(c)
  /\ Ends(c, -1)
  /\ \/ UNCHANGED <<fw, solo, commits>>
     \/ /\ Committable(r) /\ commits < MaxCommits
        /\ \E ret \in Answers(r) : fw' = Committed(r, ret)
        /\ solo' = Disturbed(c)
        /\ commits' = commits + 1
  /\ UNCHANGED <<xfer0, loaded>>

(* fw_slot_log: one command, through get_log_page.                         *)
ReadLog(c) ==
  /\ [op |-> "log"] \in Request[c]
  /\ phase[c] = "idle"
  /\ phase' = [phase EXCEPT ![c] = "done"]
  /\ call' = [call EXCEPT ![c] = [op |-> "log", active |-> active_slot(Afi),
                                  next |-> next_slot_to_activate(Afi)]]
  /\ solo' = [solo EXCEPT ![c] = TRUE]
  /\ loaded' = [loaded EXCEPT ![c] = NoImage]
  /\ UNCHANGED <<fw, xfer0, commits>>

(* A caller that got Ok for a download may commit it next.                 *)
Return(c) ==
  /\ phase[c] = "done"
  /\ phase' = [phase EXCEPT ![c] = "idle"]
  /\ call' = [call EXCEPT ![c] = [op |-> "none"]]
  /\ loaded' = IF call[c].op = "commit"
               THEN [loaded EXCEPT ![c] = NoImage] ELSE loaded
  /\ solo' = [solo EXCEPT ![c] = @ /\ loaded'[c] # NoImage]
  /\ UNCHANGED <<fw, xfer0, commits>>

(* A controller level reset: the buffer is lost, the slot that was marked  *)
(* is activated.                                                           *)
Reset ==
  /\ fw' = IF fw.next = 0 THEN [fw EXCEPT !.buffer = Empty]
           ELSE Activated([fw EXCEPT !.buffer = Empty], fw.next)
  /\ solo' = [c \in Caller |-> FALSE]
  /\ UNCHANGED <<xfer0, phase, call, loaded, commits>>

Step(c) ==
  \/ BeginDownload(c) \/ SendPiece(c) \/ EndDownload(c) \/ FailDownload(c)
  \/ BeginCommit(c) \/ TakeCommit(c) \/ RefuseCommit(c) \/ LoseCommit(c)
  \/ ReadLog(c) \/ Return(c)

Next == Reset \/ \E c \in Caller : Step(c)

Spec == Init /\ [][Next]_vars

-----------------------------------------------------------------------------
LogCall      == [op : {"log"}, active : 0 .. 7, next : 0 .. 7]
DownloadCall == [op : {"download"}, image : Image, reply : Reply, pos : 0 .. MaxPieces]
CommitCall   == [op : {"commit"}, request : CommitRequest, reply : Reply]
Call == [op : {"none"}] \cup LogCall \cup DownloadCall \cup CommitCall

Controller ==
  [buffer : Content, slots : [Slot -> Content], active : Slot,
   next : Slot \cup {0}, running : Content, boot : [BOOLEAN -> Content],
   bootActive : BOOLEAN]

TypeOK ==
  /\ fw \in Controller
  /\ xfer0 \in {"default", "literal"}
  /\ phase \in [Caller -> {"idle", "sends", "done"}]
  /\ call \in [Caller -> Call]
  /\ loaded \in [Caller -> Image \cup {NoImage}]
  /\ solo \in [Caller -> BOOLEAN]
  /\ commits \in 0 .. MaxCommits

Commit(c) == phase[c] = "done" /\ call[c].op = "commit"
Took(c)   == call[c].reply.code \in {Success} \cup NeedsReset
                /\ call[c].reply.kind \in {"Ok", "Nvme"}

(* What the commit of c said was done with its image is done.              *)
Placed(c) ==
  Commit(c) /\ Took(c) /\ solo[c] /\ loaded[c] # NoImage
    /\ Pieces[loaded[c]] < U32 =>
  LET r == call[c].request IN
  /\ r.action \in {FirmwareAction.Replace, FirmwareAction.ReplaceAndActivate} =>
       fw.slots[r.slot] = Whole(loaded[c])
  /\ r.action = FirmwareAction.ReplaceBootPartition =>
       fw.boot[r.bpid] = Whole(loaded[c])
  /\ r.action = FirmwareAction.ReplaceAndActivateImmediate =>
       /\ Pieces[loaded[c]] > 0 => fw.slots[r.slot] = Whole(loaded[c])
       /\ call[c].reply.kind = "Ok" => fw.running = fw.slots[r.slot]

(* fw_download and fw_commit by a caller that nobody disturbed, the buffer *)
(* empty at first, place the very image in the slot or the boot partition; *)
(* other updates, resets and what an earlier download left behind are what *)
(* nothing in controller.rs keeps out.  Not of an image whose length does  *)
(* not fit 32 bits, of which fw_download sends a part and returns Ok.      *)
UpdateWhole == \A c \in Caller : Placed(c)

(* The answer that c got is how things are.                                *)
Truthful(c) ==
  solo[c] =>
    /\ Commit(c) /\ Took(c) =>
         LET r == call[c].request IN
         /\ r.action \in {FirmwareAction.ReplaceAndActivate, FirmwareAction.SetActive} =>
              fw.next = r.slot
         /\ r.action = FirmwareAction.ReplaceAndActivateImmediate =>
              IF call[c].reply.kind = "Ok" THEN fw.active = r.slot ELSE fw.next = r.slot
         /\ r.action = FirmwareAction.ActivateBootPartition => fw.bootActive = r.bpid
    /\ phase[c] = "done" /\ call[c].op = "log" =>
         call[c].active = fw.active /\ call[c].next = fw.next

(* What a caller reads off an answer is how the controller is, as long as  *)
(* nobody disturbed it: the slot or partition that fw_commit was told to   *)
(* activate is the one that will be, whether the answer is Ok or a status  *)
(* code that asks for a reset, and the slots of the log are the one that   *)
(* runs and the one that a reset will activate (fw_slot_log, log.rs).      *)
AnswersTruthful == \A c \in Caller : Truthful(c)
=============================================================================
