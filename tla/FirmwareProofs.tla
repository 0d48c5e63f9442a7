--------------------------- MODULE FirmwareProofs ---------------------------
(***************************************************************************)
(* Proofs about Firmware.  The invariant follows the image of a caller     *)
(* that nobody disturbed through the transfer buffer into its slot.        *)
(***************************************************************************)
EXTENDS Firmware, TLAPS

(* The first n pieces of image i, and how many of them a download sends.   *)
Part(i, n) == [p \in 0 .. MaxPieces - 1 |-> IF p < n THEN i ELSE NoImage]
Size(i)    == fw_download(i).size

(* A call that is not over is a download or a commit.                      *)
Begun(c) == phase[c] = "sends" => call[c].op \in {"download", "commit"}

(* While it downloads, the buffer has what was sent and nothing else.      *)
Progress(c) ==
  Downloads(c) =>
    /\ call[c].pos <= Size(call[c].image)
    /\ loaded[c] = NoImage
    /\ solo[c] => fw.buffer = Part(call[c].image, call[c].pos)

(* A downloaded image stays in the buffer until it is committed.           *)
Holds(c) ==
  solo[c] /\ loaded[c] # NoImage /\ ~Commit(c) =>
    fw.buffer = Part(loaded[c], Size(loaded[c]))

Sound(c) == Begun(c) /\ Progress(c) /\ Holds(c) /\ Placed(c) /\ Truthful(c)

IInv == TypeOK /\ \A c \in Caller : Sound(c)

(***************************************************************************)
(* Buffers.                                                                *)
(***************************************************************************)

LEMMA SizeIs ==
  ASSUME NEW i \in Image
  PROVE  /\ Size(i) \in 0 .. MaxPieces
         /\ Pieces[i] < U32 => Size(i) = Pieces[i]
<1>1. Pieces[i] \in Nat /\ Pieces[i] <= MaxPieces /\ U32 \in Nat \ {0} /\ MaxPieces \in Nat
  BY FirmwareAssumption
<1>2. Size(i) = Pieces[i] % U32
  BY DEF Size, fw_download
<1> QED
  BY <1>1, <1>2, SMT

LEMMA Parts ==
  /\ Empty \in Content
  /\ \A i \in Image : Whole(i) \in Content
  /\ \A i \in Image : Part(i, 0) = Empty
  /\ \A i \in Image : Pieces[i] < U32 => Part(i, Size(i)) = Whole(i)
  BY SizeIs, FirmwareAssumption DEF Empty, Content, Whole, Part

LEMMA NextPart ==
  ASSUME NEW i \in Image, NEW n \in 0 .. MaxPieces - 1
  PROVE  [Part(i, n) EXCEPT ![n] = i] = Part(i, n + 1)
<1> DEFINE D == 0 .. MaxPieces - 1
<1>1. \A p \in D : p < n + 1 <=> p < n \/ p = n
  BY FirmwareAssumption
<1>2. Part(i, n) = [p \in D |-> IF p < n THEN i ELSE NoImage]
      /\ Part(i, n + 1) = [p \in D |-> IF p < n + 1 THEN i ELSE NoImage]
  BY DEF Part
<1> HIDE DEF D
<1>3. Part(i, n + 1) = [p \in D |-> IF p = n THEN i ELSE Part(i, n)[p]]
  BY <1>1, <1>2
<1>4. [Part(i, n) EXCEPT ![n] = i] = [p \in D |-> IF p = n THEN i ELSE Part(i, n)[p]]
  BY <1>2
<1> QED
  BY <1>3, <1>4

LEMMA NotEmpty ==
  ASSUME NEW i \in Image, Pieces[i] > 0
  PROVE  Whole(i) # Empty
<1>1. 0 \in 0 .. MaxPieces - 1
  BY FirmwareAssumption
<1>2. Whole(i)[0] = i /\ Empty[0] = NoImage
  BY <1>1 DEF Whole, Empty
<1> QED
  BY <1>2, FirmwareAssumption

(***************************************************************************)
(* The controller after its part of a step.                                *)
(***************************************************************************)

LEMMA StoreIs ==
  ASSUME TypeOK, NEW i \in Image, NEW pos \in 0 .. MaxPieces - 1,
         NEW f \in Store(i, pos)
  PROVE  /\ f \in Controller
         /\ fw.buffer = Part(i, pos) => f.buffer = Part(i, pos + 1)
<1>1. PICK b \in IF pos = 0 THEN {fw.buffer, Empty} ELSE {fw.buffer} :
        f = [fw EXCEPT !.buffer = [b EXCEPT ![pos] = i]]
  BY DEF Store
<1>2. fw \in Controller
  BY DEF TypeOK
<1>3. b \in Content
  BY <1>1, <1>2, Parts DEF Controller
<1>4. [b EXCEPT ![pos] = i] \in Content
  BY <1>3 DEF Content
<1>5. f \in Controller /\ f.buffer = [b EXCEPT ![pos] = i]
  BY <1>1, <1>2, <1>4 DEF Controller
<1>6. fw.buffer = Part(i, pos) => b = Part(i, pos)
  BY <1>1, Parts
<1> QED
  BY <1>5, <1>6, NextPart

LEMMA ReplacedIs ==
  ASSUME TypeOK, NEW s \in Slot
  PROVE  /\ Replaced(s) \in Controller
         /\ Replaced(s).slots[s] = fw.buffer
         /\ Replaced(s).active = fw.active /\ Replaced(s).next = fw.next
<1> DEFINE g == [fw EXCEPT !.slots[s] = fw.buffer]
<1>1. fw \in Controller
  BY DEF TypeOK
<1>2. g \in Controller /\ g.slots[s] = fw.buffer /\ g.active = fw.active /\ g.next = fw.next
  BY <1>1 DEF Controller
<1>3. Replaced(s) = [g EXCEPT !.buffer = Empty]
  BY <1>1 DEF Replaced, Controller
<1> HIDE DEF g
<1> QED
  BY <1>2, <1>3, Parts DEF Controller

LEMMA ActivatedIs ==
  ASSUME NEW f \in Controller, NEW s \in Slot
  PROVE  /\ Activated(f, s) \in Controller
         /\ Activated(f, s).slots = f.slots
         /\ Activated(f, s).active = s
         /\ Activated(f, s).running = f.slots[s]
<1> DEFINE g == [f EXCEPT !.active = s]
           h == [g EXCEPT !.running = f.slots[s]]
<1>1. g \in Controller /\ g.slots = f.slots /\ g.active = s
  BY DEF Controller
<1>2. f.slots[s] \in Content
  BY DEF Controller
<1>3. Activated(f, s) = [h EXCEPT !.next = 0]
  BY DEF Activated, Controller
<1> HIDE DEF g
<1>4. /\ h \in Controller /\ h.slots = f.slots /\ h.active = s
      /\ h.running = f.slots[s]
  BY <1>1, <1>2 DEF Controller
<1> HIDE DEF h
<1> QED
  BY <1>3, <1>4 DEF Controller

LEMMA MarkedIs ==
  ASSUME NEW f \in Controller, NEW s \in Slot
  PROVE  LET g == [f EXCEPT !.next = s] IN
         g \in Controller /\ g.next = s /\ g.slots = f.slots
  BY DEF Controller

LEMMA Actions ==
  /\ CA = {0, 1, 2, 3, 6, 7}
  /\ FirmwareAction.Replace = 0 /\ FirmwareAction.ReplaceAndActivate = 1
  /\ FirmwareAction.SetActive = 2
  /\ FirmwareAction.ReplaceAndActivateImmediate = 3
  /\ FirmwareAction.ReplaceBootPartition = 6
  /\ FirmwareAction.ActivateBootPartition = 7
  BY DEF CA, FirmwareAction

(* What each action of a commit does to the controller.                    *)
LEMMA CommittedIs ==
  ASSUME TypeOK, NEW r \in CommitRequest, NEW ret \in Answers(r)
  PROVE  LET f == Committed(r, ret) IN
         /\ f \in Controller
         /\ r.action \in {0, 1} => f.slots[r.slot] = fw.buffer
         /\ r.action \in {1, 2} => f.next = r.slot
         /\ r.action = 3 =>
              /\ fw.buffer # Empty => f.slots[r.slot] = fw.buffer
              /\ ret = Success => f.running = f.slots[r.slot] /\ f.active = r.slot
              /\ ret # Success => f.next = r.slot
         /\ r.action = 6 => f.boot[r.bpid] = fw.buffer
         /\ r.action = 7 => f.bootActive = r.bpid
<1> DEFINE f == Committed(r, ret)
<1>1. fw \in Controller
  BY DEF TypeOK
<1>2. r.slot \in Slot /\ r.bpid \in BOOLEAN /\ r.action \in {0, 1, 2, 3, 6, 7}
  BY Actions DEF CommitRequest
<1>3. CASE r.action = 0
  <2>1. f = Replaced(r.slot)
    BY <1>3, Actions DEF Committed
  <2> QED
    BY <1>2, <1>3, <2>1, ReplacedIs
<1>4. CASE r.action = 1
  <2>1. f = [Replaced(r.slot) EXCEPT !.next = r.slot]
    BY <1>4, Actions DEF Committed
  <2> QED
    BY <1>2, <1>4, <2>1, ReplacedIs, MarkedIs
<1>5. CASE r.action = 2
  <2>1. f = [fw EXCEPT !.next = r.slot]
    BY <1>5, Actions DEF Committed
  <2> QED
    BY <1>1, <1>2, <1>5, <2>1, MarkedIs
<1>6. CASE r.action = 3
  <2> DEFINE g == Filled(r.slot)
  <2>1. g \in Controller /\ (fw.buffer # Empty => g.slots[r.slot] = fw.buffer)
    BY <1>1, <1>2, ReplacedIs DEF Filled
  <2>2. f = IF ret = Success THEN Activated(g, r.slot) ELSE [g EXCEPT !.next = r.slot]
    BY <1>6, Actions DEF Committed
  <2> HIDE DEF f, g
  <2>3. CASE ret = Success
    BY <1>2, <1>6, <2>1, <2>2, <2>3, ActivatedIs DEF f
  <2>4. CASE ret # Success
    BY <1>2, <1>6, <2>1, <2>2, <2>4, MarkedIs DEF f
  <2> QED
    BY <2>3, <2>4
<1>7. CASE r.action = 6
  <2> DEFINE g == [fw EXCEPT !.boot[r.bpid] = fw.buffer]
  <2>1. f = [g EXCEPT !.buffer = Empty]
    BY <1>1, <1>7, Actions DEF Committed, Controller
  <2>2. g \in Controller /\ g.boot[r.bpid] = fw.buffer
    BY <1>1, <1>2 DEF Controller
  <2> HIDE DEF f, g
  <2> QED
    BY <1>7, <2>1, <2>2, Parts DEF Controller, f
<1>8. CASE r.action = 7
  <2>1. f = [fw EXCEPT !.bootActive = r.bpid]
    BY <1>8, Actions DEF Committed
  <2> QED
    BY <1>1, <1>2, <1>8, <2>1 DEF Controller
<1> QED
  BY <1>2, <1>3, <1>4, <1>5, <1>6, <1>7, <1>8

(***************************************************************************)
(* Calls.                                                                  *)
(***************************************************************************)

LEMMA CheckRet ==
  /\ \A ret \in Int : check_ret(ret) \in Reply
  /\ check_ret(0) = [kind |-> "Ok", code |-> 0]
  /\ check_ret(-1) = [kind |-> "Os", code |-> Errno]
  /\ \A ret \in Int : ret > 0 => check_ret(ret) = [kind |-> "Nvme", code |-> ret]
<1>1. \A ret \in Int : check_ret(ret) \in Reply
  BY DEF check_ret, Reply, Errno
<1>2. /\ check_ret(0) = [kind |-> "Ok", code |-> 0]
      /\ check_ret(-1) = [kind |-> "Os", code |-> Errno]
  BY DEF check_ret
<1>3. \A ret \in Int : ret > 0 => check_ret(ret) = [kind |-> "Nvme", code |-> ret]
  BY DEF check_ret
<1> QED
  BY <1>1, <1>2, <1>3

LEMMA CallIs ==
  ASSUME TypeOK, NEW c \in Caller
  PROVE  /\ call[c].op = "download" => call[c] \in DownloadCall
         /\ call[c].op = "commit" => call[c] \in CommitCall
  BY DEF TypeOK, Call, LogCall, DownloadCall, CommitCall

LEMMA RequestIs ==
  ASSUME NEW c \in Caller, NEW r \in Request[c]
  PROVE  /\ r.op = "download" => r.image \in Image
         /\ r.op = "commit" => r \in CommitRequest
<1>1. r \in AnyRequest
  BY RequestAssumption
<1> QED
  BY <1>1 DEF AnyRequest, CommitRequest

(* What a returning call leaves as it was.                                 *)
LEMMA EndsIs ==
  ASSUME TypeOK, NEW c \in Caller, call[c].op \in {"download", "commit"},
         NEW ret \in Int, Ends(c, ret)
  PROVE  /\ phase' \in [Caller -> {"idle", "sends", "done"}]
         /\ phase'[c] = "done"
         /\ call' \in [Caller -> Call]
         /\ call'[c].op = call[c].op
         /\ call[c].op = "commit" =>
              call'[c].request = call[c].request /\ call'[c].reply = check_ret(ret)
         /\ \A d \in Caller \ {c} : phase'[d] = phase[d] /\ call'[d] = call[d]
<1> DEFINE k == [call[c] EXCEPT !.reply = check_ret(ret)]
<1>1. check_ret(ret) \in Reply
  BY CheckRet
<1>2. k \in Call /\ k.op = call[c].op
      /\ (call[c].op = "commit" => k.request = call[c].request /\ k.reply = check_ret(ret))
  <2>1. CASE call[c].op = "download"
    BY <1>1, <2>1, CallIs DEF Call, DownloadCall
  <2>2. CASE call[c].op = "commit"
    BY <1>1, <2>2, CallIs DEF Call, CommitCall
  <2> QED
    BY <2>1, <2>2
<1>3. call \in [Caller -> Call] /\ phase \in [Caller -> {"idle", "sends", "done"}]
  BY DEF TypeOK
<1>4. call' = [call EXCEPT ![c] = k] /\ phase' = [phase EXCEPT ![c] = "done"]
  BY DEF Ends
<1> HIDE DEF k
<1> QED
  BY <1>2, <1>3, <1>4

LEMMA StartsIs ==
  ASSUME TypeOK, NEW c \in Caller, NEW k \in Call, Starts(c, k)
  PROVE  /\ phase[c] = "idle" /\ phase' \in [Caller -> {"idle", "sends", "done"}]
         /\ phase'[c] = "sends"
         /\ call' \in [Caller -> Call] /\ call'[c] = k
         /\ fw' = fw /\ xfer0' = xfer0 /\ commits' = commits
         /\ \A d \in Caller \ {c} : phase'[d] = phase[d] /\ call'[d] = call[d]
  BY DEF TypeOK, Starts

LEMMA DisturbedIs ==
  ASSUME TypeOK, NEW c \in Caller
  PROVE  /\ Disturbed(c) \in [Caller -> BOOLEAN]
         /\ Disturbed(c)[c] = solo[c]
         /\ \A d \in Caller \ {c} : Disturbed(c)[d] = FALSE
  BY DEF TypeOK, Disturbed

(* A caller whose call does not move keeps what it has, if the controller  *)
(* stays as it is or the caller is disturbed.                              *)
LEMMA OtherSound ==
  ASSUME NEW d \in Caller, Sound(d),
         phase'[d] = phase[d], call'[d] = call[d], loaded'[d] = loaded[d],
         solo'[d] = FALSE \/ (solo'[d] = solo[d] /\ fw' = fw)
  PROVE  Sound(d)'
<1>1. CASE solo'[d] = FALSE
  BY <1>1 DEF Sound, Begun, Progress, Holds, Placed, Truthful, Downloads, Commit, Took
<1>2. CASE solo'[d] = solo[d] /\ fw' = fw
  BY <1>2 DEF Sound, Begun, Progress, Holds, Placed, Truthful, Downloads, Commit, Took
<1> QED
  BY <1>1, <1>2

LEMMA OneCaller ==
  ASSUME IInv, NEW c \in Caller, TypeOK', Sound(c)',
         \A d \in Caller \ {c} :
           /\ phase'[d] = phase[d] /\ call'[d] = call[d] /\ loaded'[d] = loaded[d]
           /\ solo'[d] = FALSE \/ (solo'[d] = solo[d] /\ fw' = fw)
  PROVE  IInv'
<1>1. ASSUME NEW d \in Caller PROVE Sound(d)'
  <2>1. CASE d = c
    BY <2>1
  <2>2. CASE d # c
    BY <2>2, OtherSound DEF IInv
  <2> QED
    BY <2>1, <2>2
<1> QED
  BY <1>1 DEF IInv

(***************************************************************************)
(* The steps.                                                              *)
(***************************************************************************)

LEMMA Initial == Init => IInv
<1> SUFFICES ASSUME Init PROVE IInv
  OBVIOUS
<1>1. /\ Empty \in Content /\ Whole(BootImage) \in Content
      /\ Boot \in Slot /\ 0 \in 0 .. MaxCommits
  BY Parts, FirmwareAssumption
<1>2. fw \in Controller
  BY <1>1 DEF Init, Controller
<1>3. TypeOK
  BY <1>1, <1>2 DEF Init, TypeOK, Call
<1>4. \A c \in Caller : Sound(c)
  BY DEF Init, Sound, Begun, Progress, Holds, Placed, Truthful, Downloads, Commit
<1> QED
  BY <1>3, <1>4 DEF IInv

LEMMA BeginDownloadStep ==
  ASSUME IInv, NEW c \in Caller, BeginDownload(c) PROVE IInv'
<1> USE DEF IInv
<1>1. PICK r \in Request[c] :
        /\ r.op = "download"
        /\ Starts(c, [op |-> "download", image |-> r.image, reply |-> check_ret(0),
                      pos |-> fw_download(r.image).offset])
        /\ solo' = [solo EXCEPT ![c] = fw.buffer = Empty]
        /\ loaded' = [loaded EXCEPT ![c] = NoImage]
  BY DEF BeginDownload
<1> DEFINE k == [op |-> "download", image |-> r.image, reply |-> check_ret(0), pos |-> 0]
<1>2. r.image \in Image
  BY <1>1, RequestIs
<1>3. k \in Call /\ k.op = "download" /\ k.image = r.image /\ k.pos = 0
  BY <1>2, CheckRet, FirmwareAssumption DEF Call, DownloadCall
<1>4. Starts(c, k)
  BY <1>1 DEF fw_download
<1> HIDE DEF k
<1>5. /\ phase' \in [Caller -> {"idle", "sends", "done"}] /\ phase'[c] = "sends"
      /\ call' \in [Caller -> Call] /\ call'[c] = k
      /\ fw' = fw /\ xfer0' = xfer0 /\ commits' = commits
      /\ \A d \in Caller \ {c} : phase'[d] = phase[d] /\ call'[d] = call[d]
  BY <1>3, <1>4, StartsIs
<1>6. /\ solo' \in [Caller -> BOOLEAN] /\ loaded' \in [Caller -> Image \cup {NoImage}]
      /\ solo'[c] = (fw.buffer = Empty) /\ loaded'[c] = NoImage
      /\ \A d \in Caller \ {c} : solo'[d] = solo[d] /\ loaded'[d] = loaded[d]
  BY <1>1 DEF TypeOK
<1>7. TypeOK'
  BY <1>5, <1>6 DEF TypeOK
<1>8. 0 <= Size(r.image) /\ Part(r.image, 0) = Empty
  BY <1>2, SizeIs, Parts
<1>9. Sound(c)'
  BY <1>3, <1>5, <1>6, <1>8
  DEF Sound, Begun, Progress, Holds, Placed, Truthful, Downloads, Commit
<1> QED
  BY <1>5, <1>6, <1>7, <1>9, OneCaller

LEMMA BeginCommitStep ==
  ASSUME IInv, NEW c \in Caller, BeginCommit(c) PROVE IInv'
<1> USE DEF IInv
<1>1. PICK r \in Request[c] :
        /\ r.op = "commit"
        /\ Starts(c, [op |-> "commit", request |-> r, reply |-> check_ret(0)])
        /\ solo' = [solo EXCEPT ![c] = loaded[c] = NoImage \/ @]
        /\ UNCHANGED loaded
  BY DEF BeginCommit
<1> DEFINE k == [op |-> "commit", request |-> r, reply |-> check_ret(0)]
<1>2. k \in Call /\ k.op = "commit"
  BY <1>1, RequestIs, CheckRet DEF Call, CommitCall
<1>3. Starts(c, k)
  BY <1>1
<1> HIDE DEF k
<1>4. /\ phase[c] = "idle"
      /\ phase' \in [Caller -> {"idle", "sends", "done"}] /\ phase'[c] = "sends"
      /\ call' \in [Caller -> Call] /\ call'[c] = k
      /\ fw' = fw /\ xfer0' = xfer0 /\ commits' = commits
      /\ \A d \in Caller \ {c} : phase'[d] = phase[d] /\ call'[d] = call[d]
  BY <1>2, <1>3, StartsIs
<1>5. /\ solo' \in [Caller -> BOOLEAN] /\ loaded' = loaded
      /\ solo'[c] = (loaded[c] = NoImage \/ solo[c])
      /\ \A d \in Caller \ {c} : solo'[d] = solo[d]
  BY <1>1 DEF TypeOK
<1>6. TypeOK'
  BY <1>4, <1>5 DEF TypeOK
<1>7. Sound(c)'
  BY <1>2, <1>4, <1>5
  DEF Sound, Begun, Progress, Holds, Placed, Truthful, Downloads, Commit
<1> QED
  BY <1>4, <1>5, <1>6, <1>7, OneCaller

(* A download that has something left knows which piece comes next.        *)
LEMMA Sending ==
  ASSUME IInv, NEW c \in Caller, Downloads(c)
  PROVE  /\ call[c] \in DownloadCall /\ call[c].op = "download"
         /\ loaded[c] = NoImage
         /\ call[c].pos <= Size(call[c].image)
         /\ Left(call[c]) = Size(call[c].image) - call[c].pos
         /\ Left(call[c]) > 0 =>
              /\ call[c].pos \in 0 .. MaxPieces - 1
              /\ call[c].pos + 1 <= Size(call[c].image)
         /\ solo[c] => fw.buffer = Part(call[c].image, call[c].pos)
<1>1. call[c] \in DownloadCall /\ call[c].op = "download"
  BY CallIs DEF IInv, Downloads
<1>2. call[c].pos \in 0 .. MaxPieces /\ call[c].image \in Image
  BY <1>1 DEF DownloadCall
<1>3. Left(call[c]) = Size(call[c].image) - call[c].pos
  BY DEF Left, Size
<1>4. Size(call[c].image) \in 0 .. MaxPieces
  BY <1>2, SizeIs
<1>5. Progress(c)
  BY DEF IInv, Sound
<1> QED
  BY <1>1, <1>2, <1>3, <1>4, <1>5, FirmwareAssumption DEF Progress

LEMMA SendPieceStep ==
  ASSUME IInv, NEW c \in Caller, SendPiece(c) PROVE IInv'
<1> USE DEF IInv
<1> DEFINE size == TransferSize(fw_download(call[c].image).xfer)
<1>1. Downloads(c) /\ Left(call[c]) > 0 /\ UNCHANGED <<xfer0, phase, loaded, commits>>
  BY DEF SendPiece
<1>2. CASE size = 0
  <2>1. UNCHANGED <<fw, call, solo>>
    BY <1>2 DEF SendPiece
  <2>2. TypeOK'
    BY <1>1, <2>1 DEF TypeOK
  <2>3. \A d \in Caller : Sound(d)'
    BY <1>1, <2>1, OtherSound
  <2> QED
    BY <2>2, <2>3
<1>3. CASE size # 0
  <2> DEFINE i == call[c].image
             n == call[c].pos
             k == [call[c] EXCEPT !.pos = n + 1]
  <2>1. size = 1
    BY <1>3 DEF TransferSize, fw_download
  <2>2. /\ fw' \in Store(i, n) /\ solo' = Disturbed(c)
        /\ call' = [call EXCEPT ![c] = k]
    BY <1>3, <2>1 DEF SendPiece
  <2>3. /\ call[c] \in DownloadCall /\ loaded[c] = NoImage
        /\ n \in 0 .. MaxPieces - 1 /\ n + 1 <= Size(i)
        /\ solo[c] => fw.buffer = Part(i, n)
    BY <1>1, Sending
  <2>4. i \in Image
    BY <2>3 DEF DownloadCall
  <2>5. k \in Call /\ k.op = "download" /\ k.image = i /\ k.pos = n + 1
    BY <2>3, FirmwareAssumption DEF DownloadCall, Call
  <2>6. fw' \in Controller /\ (fw.buffer = Part(i, n) => fw'.buffer = Part(i, n + 1))
    BY <2>2, <2>3, <2>4, StoreIs
  <2> HIDE DEF i, n, k
  <2>7. /\ call' \in [Caller -> Call] /\ call'[c] = k
        /\ \A d \in Caller \ {c} : call'[d] = call[d]
    BY <2>2, <2>5 DEF TypeOK
  <2>8. /\ solo' \in [Caller -> BOOLEAN] /\ solo'[c] = solo[c]
        /\ \A d \in Caller \ {c} : solo'[d] = FALSE
    BY <2>2, DisturbedIs
  <2>9. TypeOK'
    BY <1>1, <2>6, <2>7, <2>8 DEF TypeOK
  <2>10. Sound(c)'
    BY <1>1, <2>3, <2>5, <2>6, <2>7, <2>8
    DEF Sound, Begun, Progress, Holds, Placed, Truthful, Downloads, Commit
  <2> QED
    BY <1>1, <2>7, <2>8, <2>9, <2>10, OneCaller
<1> QED
  BY <1>2, <1>3

LEMMA EndDownloadStep ==
  ASSUME IInv, NEW c \in Caller, EndDownload(c) PROVE IInv'
<1> USE DEF IInv
<1> DEFINE i == call[c].image
<1>1. /\ Downloads(c) /\ Left(call[c]) = 0 /\ Ends(c, Success)
      /\ loaded' = [loaded EXCEPT ![c] = i]
      /\ UNCHANGED <<fw, xfer0, solo, commits>>
  BY DEF EndDownload
<1>2. /\ call[c] \in DownloadCall /\ call[c].op = "download"
      /\ Left(call[c]) = Size(i) - call[c].pos
      /\ solo[c] => fw.buffer = Part(i, call[c].pos)
  BY <1>1, Sending
<1>3. i \in Image /\ call[c].pos \in 0 .. MaxPieces
  BY <1>2 DEF DownloadCall
<1>4. call[c].pos = Size(i)
  BY <1>1, <1>2, <1>3, SizeIs, FirmwareAssumption
<1>5. /\ phase' \in [Caller -> {"idle", "sends", "done"}] /\ phase'[c] = "done"
      /\ call' \in [Caller -> Call] /\ call'[c].op = "download"
      /\ \A d \in Caller \ {c} : phase'[d] = phase[d] /\ call'[d] = call[d]
  BY <1>1, <1>2, EndsIs DEF Success
<1> HIDE DEF i
<1>6. /\ loaded' \in [Caller -> Image \cup {NoImage}] /\ loaded'[c] = i
      /\ \A d \in Caller \ {c} : loaded'[d] = loaded[d]
  BY <1>1, <1>3 DEF TypeOK
<1>7. TypeOK'
  BY <1>1, <1>5, <1>6 DEF TypeOK
<1>8. Sound(c)'
  BY <1>1, <1>2, <1>4, <1>5, <1>6
  DEF Sound, Begun, Progress, Holds, Placed, Truthful, Downloads, Commit
<1> QED
  BY <1>1, <1>5, <1>6, <1>7, <1>8, OneCaller

LEMMA FailDownloadStep ==
  ASSUME IInv, NEW c \in Caller, FailDownload(c) PROVE IInv'
<1> USE DEF IInv
<1>1. Downloads(c) /\ Left(call[c]) > 0 /\ UNCHANGED <<xfer0, loaded, commits>>
  BY DEF FailDownload
<1>2. /\ call[c] \in DownloadCall /\ call[c].op = "download"
      /\ loaded[c] = NoImage /\ call[c].pos \in 0 .. MaxPieces - 1
  BY <1>1, Sending
<1>3. \E ret \in Int : Ends(c, ret)
  BY DEF FailDownload, InvalidField
<1>4. /\ phase' \in [Caller -> {"idle", "sends", "done"}] /\ phase'[c] = "done"
      /\ call' \in [Caller -> Call] /\ call'[c].op = "download"
      /\ \A d \in Caller \ {c} : phase'[d] = phase[d] /\ call'[d] = call[d]
  BY <1>2, <1>3, EndsIs
<1>5. /\ fw' \in Controller /\ solo' \in [Caller -> BOOLEAN]
      /\ \A d \in Caller \ {c} : solo'[d] = FALSE \/ (solo'[d] = solo[d] /\ fw' = fw)
  <2>1. CASE UNCHANGED <<fw, solo>>
    BY <2>1 DEF TypeOK
  <2>2. CASE /\ fw' \in {fw} \cup Store(call[c].image, call[c].pos)
             /\ solo' = Disturbed(c)
    <3>1. call[c].image \in Image
      BY <1>2 DEF DownloadCall
    <3>2. fw' \in Controller
      BY <1>2, <2>2, <3>1, StoreIs DEF TypeOK
    <3> QED
      BY <2>2, <3>2, DisturbedIs
  <2> QED
    BY <2>1, <2>2 DEF FailDownload
<1>6. TypeOK'
  BY <1>1, <1>4, <1>5 DEF TypeOK
<1>7. Sound(c)'
  BY <1>1, <1>2, <1>4
  DEF Sound, Begun, Progress, Holds, Placed, Truthful, Downloads, Commit
<1> QED
  BY <1>1, <1>4, <1>5, <1>6, <1>7, OneCaller

LEMMA Committing ==
  ASSUME IInv, NEW c \in Caller, Commits(c)
  PROVE  /\ call[c].op = "commit" /\ call[c].request \in CommitRequest
         /\ ~Commit(c)
         /\ solo[c] /\ loaded[c] # NoImage =>
              fw.buffer = Part(loaded[c], Size(loaded[c]))
<1>1. call[c].op = "commit" /\ phase[c] = "sends"
  BY DEF Commits
<1>2. Holds(c)
  BY DEF IInv, Sound
<1> QED
  BY <1>1, <1>2, CallIs DEF IInv, CommitCall, Commit, Holds

(* A commit that did not go through, or nobody knows, promises nothing.    *)
LEMMA NotTaken ==
  ASSUME NEW c \in Caller, phase'[c] = "done", call'[c].op = "commit",
         call'[c].reply.kind = "Os" \/ call'[c].reply.code = NVME_SC_FIRMWARE_IMAGE
  PROVE  Sound(c)'
<1>1. ~Took(c)'
  BY DEF Took, Success, NeedsReset, NVME_SC_FIRMWARE_IMAGE,
         NVME_SC_FW_NEEDS_CONV_RESET, NVME_SC_FW_NEEDS_SUBSYS_RESET,
         NVME_SC_FW_NEEDS_RESET
<1> QED
  BY <1>1 DEF Sound, Begun, Progress, Holds, Placed, Truthful, Downloads, Commit

LEMMA AnswerIs ==
  ASSUME NEW r \in CommitRequest, NEW ret \in Answers(r)
  PROVE  /\ ret \in Int /\ check_ret(ret) \in Reply
         /\ check_ret(ret).kind = "Ok" <=> ret = Success
<1>1. ret \in Nat
  BY DEF Answers, Success, NeedsReset, NVME_SC_FW_NEEDS_CONV_RESET,
         NVME_SC_FW_NEEDS_SUBSYS_RESET, NVME_SC_FW_NEEDS_RESET
<1> QED
  BY <1>1, CheckRet DEF Success

LEMMA TakenSound ==
  ASSUME IInv, NEW c \in Caller, Commits(c),
         NEW ret \in Answers(call[c].request),
         fw' = Committed(call[c].request, ret), Ends(c, ret),
         solo'[c] = solo[c], loaded'[c] = loaded[c]
  PROVE  Sound(c)'
<1> DEFINE r == call[c].request
           i == loaded[c]
<1>1. /\ call[c].op = "commit" /\ r \in CommitRequest
      /\ solo[c] /\ i # NoImage => fw.buffer = Part(i, Size(i))
  BY Committing
<1>2. TypeOK
  BY DEF IInv
<1>3. ret \in Int /\ (check_ret(ret).kind = "Ok" <=> ret = Success)
  BY <1>1, AnswerIs
<1>4. /\ phase'[c] = "done" /\ call'[c].op = "commit"
      /\ call'[c].request = r /\ call'[c].reply = check_ret(ret)
  BY <1>1, <1>2, <1>3, EndsIs
<1>5. /\ r.action \in {0, 1} => fw'.slots[r.slot] = fw.buffer
      /\ r.action \in {1, 2} => fw'.next = r.slot
      /\ r.action = 3 =>
           /\ fw.buffer # Empty => fw'.slots[r.slot] = fw.buffer
           /\ ret = Success => fw'.running = fw'.slots[r.slot] /\ fw'.active = r.slot
           /\ ret # Success => fw'.next = r.slot
      /\ r.action = 6 => fw'.boot[r.bpid] = fw.buffer
      /\ r.action = 7 => fw'.bootActive = r.bpid
  BY <1>1, <1>2, CommittedIs
<1>6. ASSUME solo[c], i # NoImage, Pieces[i] < U32
      PROVE  fw.buffer = Whole(i) /\ (Pieces[i] > 0 => fw.buffer # Empty)
  <2>1. i \in Image
    BY <1>2, <1>6 DEF TypeOK
  <2> QED
    BY <1>1, <1>6, <2>1, Parts, NotEmpty
<1> HIDE DEF r, i
<1>7. Placed(c)'
  BY <1>3, <1>4, <1>5, <1>6, Actions DEF Placed, i
<1>8. Truthful(c)'
  BY <1>3, <1>4, <1>5, Actions DEF Truthful
<1> QED
  BY <1>4, <1>7, <1>8 DEF Sound, Begun, Progress, Holds, Downloads, Commit

LEMMA TakeCommitStep ==
  ASSUME IInv, NEW c \in Caller, TakeCommit(c) PROVE IInv'
<1> USE DEF IInv
<1> DEFINE r == call[c].request
<1>1. PICK ret \in Answers(r) : fw' = Committed(r, ret) /\ Ends(c, ret)
  BY DEF TakeCommit
<1>2. /\ Commits(c) /\ commits < MaxCommits /\ solo' = Disturbed(c)
      /\ commits' = commits + 1 /\ UNCHANGED <<xfer0, loaded>>
  BY DEF TakeCommit
<1>3. call[c].op = "commit" /\ r \in CommitRequest
  BY <1>2, Committing
<1>4. fw' \in Controller
  BY <1>1, <1>3, CommittedIs
<1>5. ret \in Int
  BY <1>3, AnswerIs
<1>6. /\ phase' \in [Caller -> {"idle", "sends", "done"}]
      /\ call' \in [Caller -> Call]
      /\ \A d \in Caller \ {c} : phase'[d] = phase[d] /\ call'[d] = call[d]
  BY <1>1, <1>3, <1>5, EndsIs
<1>7. /\ solo' \in [Caller -> BOOLEAN] /\ solo'[c] = solo[c]
      /\ \A d \in Caller \ {c} : solo'[d] = FALSE
  BY <1>2, DisturbedIs
<1>8. commits' \in 0 .. MaxCommits
  BY <1>2, FirmwareAssumption DEF TypeOK
<1>9. TypeOK'
  BY <1>2, <1>4, <1>6, <1>7, <1>8 DEF TypeOK
<1>10. Sound(c)'
  BY <1>1, <1>2, <1>7, TakenSound
<1> QED
  BY <1>2, <1>6, <1>7, <1>9, <1>10, OneCaller

LEMMA RefuseCommitStep ==
  ASSUME IInv, NEW c \in Caller, RefuseCommit(c) PROVE IInv'
<1> USE DEF IInv
<1>1. /\ Commits(c) /\ Ends(c, NVME_SC_FIRMWARE_IMAGE)
      /\ UNCHANGED <<fw, xfer0, loaded, solo, commits>>
  BY DEF RefuseCommit
<1>2. call[c].op = "commit"
  BY <1>1, Committing
<1>3. NVME_SC_FIRMWARE_IMAGE \in Int /\ NVME_SC_FIRMWARE_IMAGE > 0
  BY DEF NVME_SC_FIRMWARE_IMAGE
<1>4. /\ phase' \in [Caller -> {"idle", "sends", "done"}] /\ phase'[c] = "done"
      /\ call' \in [Caller -> Call] /\ call'[c].op = "commit"
      /\ call'[c].reply = check_ret(NVME_SC_FIRMWARE_IMAGE)
      /\ \A d \in Caller \ {c} : phase'[d] = phase[d] /\ call'[d] = call[d]
  BY <1>1, <1>2, <1>3, EndsIs
<1>5. call'[c].reply.code = NVME_SC_FIRMWARE_IMAGE
  BY <1>3, <1>4, CheckRet
<1>6. TypeOK'
  BY <1>1, <1>4 DEF TypeOK
<1> QED
  BY <1>1, <1>4, <1>5, <1>6, NotTaken, OneCaller

LEMMA LoseCommitStep ==
  ASSUME IInv, NEW c \in Caller, LoseCommit(c) PROVE IInv'
<1> USE DEF IInv
<1> DEFINE r == call[c].request
<1>1. Commits(c) /\ Ends(c, -1) /\ UNCHANGED <<xfer0, loaded>>
  BY DEF LoseCommit
<1>2. call[c].op = "commit" /\ r \in CommitRequest
  BY <1>1, Committing
<1>3. /\ phase' \in [Caller -> {"idle", "sends", "done"}] /\ phase'[c] = "done"
      /\ call' \in [Caller -> Call] /\ call'[c].op = "commit"
      /\ call'[c].reply = check_ret(-1)
      /\ \A d \in Caller \ {c} : phase'[d] = phase[d] /\ call'[d] = call[d]
  BY <1>1, <1>2, EndsIs
<1>4. call'[c].reply.kind = "Os"
  BY <1>3, CheckRet
<1>5. /\ fw' \in Controller /\ commits' \in 0 .. MaxCommits
      /\ solo' \in [Caller -> BOOLEAN]
      /\ \A d \in Caller \ {c} : solo'[d] = FALSE \/ (solo'[d] = solo[d] /\ fw' = fw)
  <2>1. CASE UNCHANGED <<fw, solo, commits>>
    BY <2>1 DEF TypeOK
  <2>2. CASE /\ commits < MaxCommits /\ commits' = commits + 1
             /\ \E ret \in Answers(r) : fw' = Committed(r, ret)
             /\ solo' = Disturbed(c)
    <3>1. fw' \in Controller
      BY <1>2, <2>2, CommittedIs
    <3>2. commits' \in 0 .. MaxCommits
      BY <2>2, FirmwareAssumption DEF TypeOK
    <3> QED
      BY <2>2, <3>1, <3>2, DisturbedIs
  <2> QED
    BY <2>1, <2>2 DEF LoseCommit
<1>6. TypeOK'
  BY <1>1, <1>3, <1>5 DEF TypeOK
<1> QED
  BY <1>1, <1>3, <1>4, <1>5, <1>6, NotTaken, OneCaller

(* The byte of the log holds both slots.                                   *)
LEMMA AfiIs ==
  ASSUME TypeOK
  PROVE  /\ active_slot(Afi) = fw.active /\ next_slot_to_activate(Afi) = fw.next
         /\ fw.active \in 0 .. 7 /\ fw.next \in 0 .. 7
<1>1. fw.active \in 0 .. 7 /\ fw.next \in 0 .. 7
  <2>1. fw.active \in Slot /\ fw.next \in Slot \cup {0}
    BY DEF TypeOK, Controller
  <2>2. \A s \in Slot : s \in 1 .. 7
    BY FirmwareAssumption
  <2> QED
    BY <2>1, <2>2
<1> DEFINE x == fw.active
           y == fw.next
<1> HIDE DEF x, y
<1>2. x \in 0 .. 7 /\ y \in 0 .. 7
  BY <1>1 DEF x, y
<1>3. (x + 16 * y) % 8 = x /\ ((x + 16 * y) \div 16) % 8 = y
  BY <1>2, SMT
<1> QED
  BY <1>1, <1>3 DEF active_slot, next_slot_to_activate, Afi, x, y

LEMMA ReadLogStep ==
  ASSUME IInv, NEW c \in Caller, ReadLog(c) PROVE IInv'
<1> USE DEF IInv
<1> DEFINE k == [op |-> "log", active |-> active_slot(Afi),
                 next |-> next_slot_to_activate(Afi)]
<1>1. /\ phase' = [phase EXCEPT ![c] = "done"] /\ call' = [call EXCEPT ![c] = k]
      /\ solo' = [solo EXCEPT ![c] = TRUE]
      /\ loaded' = [loaded EXCEPT ![c] = NoImage]
      /\ UNCHANGED <<fw, xfer0, commits>>
  BY DEF ReadLog
<1>2. k \in Call /\ k.op = "log" /\ k.active = fw.active /\ k.next = fw.next
  BY AfiIs DEF Call, LogCall
<1> HIDE DEF k
<1>3. /\ phase' \in [Caller -> {"idle", "sends", "done"}]
      /\ call' \in [Caller -> Call] /\ solo' \in [Caller -> BOOLEAN]
      /\ loaded' \in [Caller -> Image \cup {NoImage}]
      /\ phase'[c] = "done" /\ call'[c] = k /\ loaded'[c] = NoImage
      /\ \A d \in Caller \ {c} : /\ phase'[d] = phase[d] /\ call'[d] = call[d]
                                 /\ solo'[d] = solo[d] /\ loaded'[d] = loaded[d]
  BY <1>1, <1>2 DEF TypeOK
<1>4. TypeOK'
  BY <1>1, <1>3 DEF TypeOK
<1>5. Sound(c)'
  BY <1>1, <1>2, <1>3
  DEF Sound, Begun, Progress, Holds, Placed, Truthful, Downloads, Commit
<1> QED
  BY <1>1, <1>3, <1>4, <1>5, OneCaller

LEMMA ReturnStep ==
  ASSUME IInv, NEW c \in Caller, Return(c) PROVE IInv'
<1> USE DEF IInv
<1> DEFINE k == [op |-> "none"]
<1>1. /\ phase[c] = "done"
      /\ phase' = [phase EXCEPT ![c] = "idle"] /\ call' = [call EXCEPT ![c] = k]
      /\ loaded' = IF call[c].op = "commit"
                   THEN [loaded EXCEPT ![c] = NoImage] ELSE loaded
      /\ solo' = [solo EXCEPT ![c] = @ /\ loaded'[c] # NoImage]
      /\ UNCHANGED <<fw, xfer0, commits>>
  BY DEF Return
<1>2. k \in Call /\ k.op = "none"
  BY DEF Call
<1> HIDE DEF k
<1>3. /\ phase' \in [Caller -> {"idle", "sends", "done"}]
      /\ call' \in [Caller -> Call]
      /\ loaded' \in [Caller -> Image \cup {NoImage}]
      /\ phase'[c] = "idle" /\ call'[c] = k
      /\ call[c].op = "commit" => loaded'[c] = NoImage
      /\ call[c].op # "commit" => loaded'[c] = loaded[c]
      /\ \A d \in Caller \ {c} : /\ phase'[d] = phase[d] /\ call'[d] = call[d]
                                 /\ loaded'[d] = loaded[d]
  BY <1>1, <1>2 DEF TypeOK
<1>4. /\ solo' \in [Caller -> BOOLEAN]
      /\ solo'[c] = (solo[c] /\ loaded'[c] # NoImage)
      /\ \A d \in Caller \ {c} : solo'[d] = solo[d]
  BY <1>1 DEF TypeOK
<1>5. TypeOK'
  BY <1>1, <1>3, <1>4 DEF TypeOK
<1>6. Sound(c)'
  BY <1>1, <1>2, <1>3, <1>4
  DEF Sound, Begun, Progress, Holds, Placed, Truthful, Downloads, Commit
<1> QED
  BY <1>1, <1>3, <1>4, <1>5, <1>6, OneCaller

LEMMA ResetStep == ASSUME IInv, Reset PROVE IInv'
<1> USE DEF IInv
<1> DEFINE f == [fw EXCEPT !.buffer = Empty]
<1>1. fw \in Controller
  BY DEF TypeOK
<1>2. f \in Controller
  BY <1>1, Parts DEF Controller
<1>3. /\ fw' = IF fw.next = 0 THEN f ELSE Activated(f, fw.next)
      /\ solo' = [c \in Caller |-> FALSE]
      /\ UNCHANGED <<xfer0, phase, call, loaded, commits>>
  BY DEF Reset
<1>4. fw.next # 0 => fw.next \in Slot
  BY <1>1 DEF Controller
<1> HIDE DEF f
<1>5. fw' \in Controller
  BY <1>2, <1>3, <1>4, ActivatedIs
<1>6. TypeOK'
  BY <1>3, <1>5 DEF TypeOK
<1>7. \A c \in Caller : Sound(c)'
  BY <1>3, OtherSound
<1> QED
  BY <1>6, <1>7

LEMMA NextStep == IInv /\ [Next]_vars => IInv'
<1> SUFFICES ASSUME IInv, [Next]_vars PROVE IInv'
  OBVIOUS
<1>1. CASE Reset
  BY <1>1, ResetStep
<1>2. ASSUME NEW c \in Caller, Step(c) PROVE IInv'
  BY <1>2, BeginDownloadStep, SendPieceStep, EndDownloadStep, FailDownloadStep,
     BeginCommitStep, TakeCommitStep, RefuseCommitStep, LoseCommitStep,
     ReadLogStep, ReturnStep
  DEF Step
<1>3. CASE UNCHANGED vars
  <2>1. TypeOK'
    BY <1>3 DEF vars, IInv, TypeOK
  <2>2. \A c \in Caller : Sound(c)'
    BY <1>3, OtherSound DEF vars, IInv
  <2> QED
    BY <2>1, <2>2 DEF IInv
<1> QED
  BY <1>1, <1>2, <1>3 DEF Next

(***************************************************************************)
(* The results.                                                            *)
(***************************************************************************)

(* Whatever is downloaded, committed, refused, lost or reset, and whoever  *)
(* does it, the buffer holds exactly the pieces that an undisturbed        *)
(* download has sent (nvme_fw_download_seq, nvme_fw_commit).               *)
THEOREM Inductive == Spec => []IInv
<1>1. Init => IInv
  BY Initial
<1>2. IInv /\ [Next]_vars => IInv'
  BY NextStep
<1> QED
  BY <1>1, <1>2, PTL DEF Spec

(* The controller, its slots and the calls keep their types (controller.rs,*)
(* log.rs).                                                                *)
THEOREM TypeCorrect == Spec => []TypeOK
<1>1. IInv => TypeOK
  BY DEF IInv
<1> QED
  BY <1>1, Inductive, PTL

(* For any images, slots and callers: fw_download and then fw_commit by a  *)
(* caller that nobody disturbed put the very image where the commit says.  *)
THEOREM UpdatesAreWhole == Spec => []UpdateWhole
<1>1. IInv => UpdateWhole
  BY DEF IInv, Sound, UpdateWhole
<1> QED
  BY <1>1, Inductive, PTL

(* What fw_commit answers and what fw_slot_log shows is how the controller *)
(* is, until somebody disturbs it.                                         *)
THEOREM AnswersAreTrue == Spec => []AnswersTruthful
<1>1. IInv => AnswersTruthful
  BY DEF IInv, Sound, AnswersTruthful
<1> QED
  BY <1>1, Inductive, PTL
=============================================================================
