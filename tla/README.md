# A TLA+ development for libnvme-rs

libnvme-rs is a safe Rust wrapper (`libnvme/src`) over the C library libnvme.
A program scans the system into a tree of handles
(Root, Host, Subsystem, Controller, Namespace, Path), walks the tree with
iterators, and issues NVMe commands through builders whose `execute()` checks
its arguments, marshals them, opens the device if that has not been done and
blocks in an ioctl. This directory models the parts of the crate that keep state
or depend on an order of events, checks them with TLC and proves the main
invariants with TLAPS.

## Inventory

| Part | Source | State | Operations | Interacts with | What makes it correct |
| --- | --- | --- | --- | --- | --- |
| Block I/O | `io.rs`, builders in `namespace.rs` | cached block size, descriptor | Read, Write, Compare, Verify, WriteZeroes, WriteUncorrectable, Dsm, Copy, flush, read_to_vec | kernel, namespace, other processes | the blocks named, all of them and no other; malformed calls have no effect; FUA and flush are durable |
| Format | `namespace.rs` | LBA format of the device | Format | invalidates the cached block size of every handle | no transfer of a wrong length except through a stale handle |
| Errors | `error.rs`, status decoders of `types.h` | none | `check_ret` | every command | a failed command is never reported as done |
| Handle tree | `root.rs`, `host.rs`, `subsystem.rs`, `controller.rs`, `namespace.rs`, `path.rs` | libnvme's lists, one cursor per iterator | scan, lookup_host, default_host, five iterators, drop | Connect inserts while iterators are open | every node once, in order; loops end |
| Fabrics, ownership | `fabrics.rs`, `root.rs`, `controller.rs` | allocations, handles, descriptors | Connect, disconnect, discovery_log, host identity strings, reset | kernel connections, other processes | nothing dangles, nothing leaks, a handle keeps its connection |
| Features | `features/`, `admin.rs`, reset, decoders of `util.h` | none of its own; the controller's current and saved values | 69 get and set calls, `reset` | controller, other processes | an answer is the view and the scope asked for; a saved value outlives a reset |
| Firmware | `controller.rs`, `admin.rs`, `log.rs` | none; the controller's transfer buffer and slots | fw_download, fw_commit, fw_slot_log | controller reset, other updates | an undisturbed update places the very image; what the answer and the log say of the slots is so |
| Namespace management | `controller.rs` | descriptor; the subsystem's identifiers and attachments | create, delete, attach, detach | Namespace handles, other processes | only what was asked is attached; what was reported done lasts; a handle reaches its own namespace or fails |
| Reservations | `reservations.rs` | descriptor; the namespace's registrants and reservation | acquire, register, release, report, execute_to_vec | other hosts, power loss | who was told it holds the reservation holds it until it is taken away |
| Zoned namespaces | `zns.rs` | none; the zones of the namespace | Append, Management Send, Management Receive | controller, other callers | the blocks of an append are where its caller was told; data is lost only where that was asked for; a report is true |
| Logs and Identify | `controller.rs`, `namespace.rs`, `log.rs`, `identify.rs`, inline functions of `ioctl.h` and `mi.h` | none; pending events and the telemetry capture of the controller | some 120 functions that read a page or a structure in one command or several | controller, other threads | no buffer overflows or stays partly unread; both transports ask for the same; no event is lost to a reader that retains it |
| Directives | `directives.rs`, `ioctl.h` | none | builders, inline functions | controller | lengths |
| Sanitize, self-test, lockdown, security, passthru | `commands.rs` | none | builders | controller | argument marshalling |
| Words and sizes | `types.h`, `util.h`, `identify.rs` | none | decoders, structures | all of the above | offsets, masks, lengths |
| Strings | `util.rs` | none | trimming, UTF-8 check | none | unit-tested |
| Bindings, build probes | `libnvme-sys/`, `build.rs` | none | none | none | generated |

The hard behaviours: the block size and the device name are cached and the world
moves on (Format, reuse of a controller name); commands of several processes are
in flight together; a timed-out command may have happened; power may fail between
a write and its flush; libnvme's lists grow under an open iterator; and memory is
owned across a C boundary with early returns in between. `PROJECT.json` lists
each hazard with its line and the properties aimed at it.

## Modules

| Module | Role |
| --- | --- |
| `Ioctl` | what `check_ret` makes of an ioctl's value, and the errors of the crate |
| `BlockMedia` | what a namespace does with blocks (external: from the doc comments and the vendored headers) |
| `BlockStore` | abstract specification: what block I/O promises its callers, in 1-based counts |
| `BlockIo` | the code of `io.rs` and `Format`, with the kernel and the namespace as environment |
| `BlockIoProofs` | proofs about `BlockIo` |
| `Pointer` | the NULL of both modules below |
| `HandleTree` | iterators over growing lists |
| `Fabrics` | allocation, ownership and connections |
| `RootProofs` | proofs about these two, the state behind a Root |
| `Features`, `FeaturesProofs` | Get and Set Features, `Controller::reset`; proofs about them and about the words of `NvmeWords` |
| `Reservations`, `ReservationsProofs` | several hosts and one shared namespace, and proofs |
| `NamespaceMgmt`, `NamespaceMgmtProofs` | create, delete, attach and detach, against Namespace handles, and proofs |
| `Firmware`, `FirmwareProofs` | download, commit, slot log and resets, and proofs |
| `Zns`, `ZnsProofs` | appends, zone management and zone reports, and proofs |
| `NvmeTypes`, `NvmeSizes` | constants of the vendored headers; the sizes of their structures |
| `IoctlHelpers`, `MiHelpers` | what the inline functions of `ioctl.h` and of `mi.h` send |
| `AdminCommands`, `AdminCommandsProofs` | callers of those functions and of the crate's, with events, captures and split reads, and proofs |
| `NvmeWords` | the packed words: features, status, registers, formats |
| `MC...` | the instances of each for TLC: requests, sizes, symmetry |

`AdminCommands` composes `IoctlHelpers`, `MiHelpers` and `Ioctl`; `Zns` takes
its report command from `IoctlHelpers`; `BlockIo` composes `Ioctl` and `BlockMedia`
and implements `BlockStore`.

In `BlockIo`, `Features`, `Reservations` and `NamespaceMgmt` a call is `inflight` in
the ioctl, `completed` when the ioctl has a value that `check_ret` has not seen, and
`returned` otherwise. The actions named after methods are one `execute()` up to the
ioctl, `Return` is the rest of it, and `Serve...`, `Timeout` and the power actions
are the environment. A timed-out command may have happened or not. `Firmware`, `Zns`
and `AdminCommands` have a `phase` for each caller instead, and join the completion
with the return, since what they are about happens between the commands of different
calls. A definition whose name ends in a suffix after the name of another
(`encode_nlb_OneBased`) is a slip in the code that the properties must catch; no
specification uses it.

### BlockIo

`handle[c]` is the Namespace handle of process `c`: the format it was scanned
under, which is all that `lba_size` depends on, and whether its descriptor is
open. `content`, `media` and `fmt` are the device's. The checks are in the order of
the code: `check_buf_len`, then `encode_nlb`, then `ns_fd`. Payloads are one value per
call; of the control bits only FUA is kept, because it is the only one that changes
what the caller may rely on. Protection information and metadata buffers are left out.

`BlockStore` is the abstract specification: hide the wire and the commands'
encodings, and a call is refused or takes effect at most once, atomically, on the
blocks its caller named. It has two constants, `CopyShort` and `DsmShort`: how
many of its ranges a Copy leaves out, and how many blocks each range of a Dsm. With 0
and 0 (`Promise`) it is what the documentation says, and `KeepsPromise` the refinement
of it, which holds as long as nobody calls Copy or Dsm. With 1 and 1 (`Store`) it is what
the code does, and `ImplementsStore` the refinement of that, for all commands: a Copy
copies exactly its ranges but the last. `BlockStore` leaves open what a transfer
does that does not fit, through a handle scanned under another block size or of 2^32 bytes
and more, except that it stays on its blocks, and whether the device follows the
advice of a Dsm; so `ImplementsStore` says where a Dsm may reach at most, and
`DsmCoversRanges` that it asks for all of it, which `io_dsm_coverage` refutes. The
encodings that make the 1s are `dsm_ranges` and `copy_nr`.

### HandleTree

A list is a set of nodes with an order. Where libnvme inserts is not for this
crate to say, so `Link` may put a node anywhere. `new` and `next` are the same
code in the five iterators, with `cursor` one node ahead of what was yielded; `scan_lists`,
`drop_lists` and `add_ctrl_lists` are what the calls after which they are named do to the
lists (what they do to the heap is in `Fabrics`).
`seen` and `start` are history. There is no action that removes a node: no call
of the crate does, short of dropping the Root.

### Fabrics

`heap` gives each allocation its state; a second `free` makes it `corrupt`.
`busy` is the allocation a call in progress has not handed over. Early returns
before anything is allocated change nothing and are not steps. A connection has a
number, an instance name is reused. `orphan` (controllers of Connects that failed)
and `late` (objects whose connection ended before they had a descriptor) are
history: they let the invariants say exactly where the guarantees end.

### Features

A slot is a feature and, for features that have one value per namespace or NVM set,
a scope. `set_feature`, `set_scoped`, `set_unscoped`, `set_host_id` and their
`get_` counterparts stand for the 69 wrappers by their shape. What libnvme does
with a call that names no scope for a feature that has several is not in the
repository, so the controller may reject it or take any scope. Three histories
say what a caller may rely on, and `ChangesAskedFor` what a value may change to: `shown[c]` is everything the view asked for held
while the Get ran, `promise[s]` is the value of the last Set that returned Ok with
nobody interfering (`alone`), kept over resets if it was saved.

### Reservations

`reg`, `holder`, `rtype` and `ptpl` are the namespace's; the commands are served
from the numbers on the wire, so that the encodings of `reservations.rs` matter.
`claim[h]` is what host `h` was told and has not lost: a host gives up its
claim when it asks for a change, and loses it when another host or a power
loss takes the key or the reservation. A call in flight whose host is deposed
before it returns claims nothing (`sound`). `persist` is what the hosts last
asked for with `PtplChange`; while it is TRUE a power loss deposes nobody (`Exposed`),
so that a claim lost then is a violation. `views[h]` is every set of
registrants during a report. Statuses other than conflict, invalid field and
success are not told apart.

### NamespaceMgmt

`ns[n]` is the number of the namespace behind identifier `n`, counted by `made`,
so that an identifier that was given out again can be told from the first. A
controller list is a record with `num` and `MaxIds` entries, padded with 0,
which is a valid controller identifier. `asked`, `granted` and `mine` are
history: what attach calls named, what was reported attached, what create
returned. `handle[p]` is a Namespace handle: the namespace it was scanned for (`of`), the
one its first command opened (`fd`), and the one its last command reached (`did`). The
device is opened by name at the first command, so `fd` need not be `of`; `orphan` are the
handles whose namespace was deleted before that.

### Firmware

`fw` is the controller: one transfer buffer for everybody, the slots, the running
image, the slot a reset will activate (`next`) and the boot partitions. A download
is a loop of libnvme, one `SendPiece` for each piece; what libnvme makes of the
transfer size 0 that the crate passes is not in the repository, so `xfer0` is
chosen at the start: a default, as the comment in `controller.rs` has it, or the literal
number, as `linux.h` documents the argument. Either way no claim rests on the default. `solo[c]` says that nobody
else downloaded, committed or reset since `c` began its update; `loaded[c]` is
the image it has downloaded. `next_slot_to_activate` and `active_slot` of `log.rs`
decode the byte of the log page.

### Zns

`zone[z]` has a state and a sequence with the append that wrote each block, so
that "the blocks of my append" can be said of any order in which the controller
takes appends. The controller may also close a zone, fill it up or make it
read-only by itself. `kept[c]` is history: since the answer of `c`, the zone of its append
has lost no data, or no zone of its report has changed. `recv_args` is what the crate sends;
`nvme_zns_report_zones` of `ioctl.h` is what C callers send, and a theorem says that
they are the same.

### AdminCommands

A request names a function of a table (`CrateLog`, `IoctlIdentifyMore`, `MiOther`,
...) and its arguments; `Sent` is what that function puts on the wire. A read of a
log page is one command or, in libnvme's chunks, several, and each action
`Transfer` is one of them. `events` are pages with a pending asynchronous event, `capture`
counts the telemetry captures. The structure a function takes a pointer to is the
buffer, with its size computed in `NvmeSizes` from the members in `types.h`.

### NvmeWords

A field is a unit and a size (`F(2^shift, 2^width)`), a layout a record of fields.
`NVME_GET`, `NVME_SET` and the decoders are translated as divisions and remainders,
which TLAPS can reason about. `MCFeatures` extends the module, so that TLC evaluates
the ASSUMEs about corner values with each run of `features`; among them
`AttributesFit` (fabrics attributes) and `RegistersApart`.

## Runs

| Run | Instance | Shows |
| --- | --- | --- |
| `io_commands` | 1 process, every command; 2 blocks, counts 0..3 with 2 allowed, lists of 0 to 3 ranges with 2 allowed | encodings, checks and `ImplementsStore` with power loss and timeouts |
| `io_shared` | 2 processes, 2 block sizes, fairness | `WireFaithful` and `KeepsPromise` with two calls in flight and formats under them; a block is torn only by a write to it through a stale handle; every call returns |
| `tree_iterators` | 3 nodes, 2 lists, 2 iterators, fairness | order, completeness, termination |
| `fabrics_ownership` | 3 allocations, 2 handles, 2 names, 3 connections | no dangling, no other leak, commands stay put |
| `features` | 2 processes; a saveable feature, one per namespace, the host identifier | answers are true, promises are kept, a value changes only as asked and in the scope asked for |
| `reservations` | 2 hosts with 2 keys, power loss with and without PTPL | claims are true and compatible, reports show one moment |
| `namespaces` | 2 processes and a handle, 2 identifiers, 2 creations, lists of 0 to 3 with 2 allowed | nothing attached unasked, what was told lasts, handles keep their namespace unless they were opened too late |
| `admin_logs` | 2 callers; every function once over each transport, reads with and without retaining, in one and two chunks, 0, 3, 4096 and 4097 entries | buffers are filled and never exceeded, both transports agree, events and captures are safe |
| `firmware` | 2 callers, 3 images of 1, 2 and (scaled) 2^32 pieces, 2 slots and boot partitions, resets | an undisturbed update is whole, answers are true |
| `zns` | 2 callers, 2 zones of 3 blocks, appends of 0 to 3 with 2 allowed, reports into 5 sizes of buffer | appends stay, reports are true, data is lost only as asked |
| `io_dsm_coverage`, `fabrics_leak` | smaller sets of calls | the first two disagreements below |

Bounds. `MaxNlb`, `MaxDsmRanges` and `MaxCopyRanges` stand for 65,536, 256 and
128; with 2 each run has one value below, at and above the limit, and zero. Two
blocks are enough for a command that covers part of the namespace, all of it, or
runs off its end. Two formats whose block sizes differ by a factor of two are
enough for a buffer that is right for one and wrong for the other. Two processes
are enough for any pair of interfering commands. In `Fabrics` two names and
three connections let a name be reused while another is held, and three
allocations let a leaked controller, a linked one and a log coexist.
`VecLen`, which stands for 4096, leaves room for one extended registrant, so that
two overflow the buffer of `execute_to_vec`; 24 and 64 bytes are the real sizes
of the entries. `MaxIds` stands for 2,047. `MaxMade` is 2, enough for an
identifier to be used twice. `MaxConn`, `MaxMade` and the number of allocations
are bounds that are not the code's; `MaxCommits`, `MaxAppends` and `MaxCapture`
are the others: two commits let one undo another, two appends can be reordered, two
captures can be mixed. `U32` is 2^32 scaled down in `BlockIo` (4, the longest buffer that is
allowed, or 8), `Firmware` (3), `Zns` and
`Reservations` (256) and `AdminCommands` (2^18, the
first power of two above the 131,072 bytes of a full stream status), so that a length can
exceed it.
`ZoneSize` 3 is one more than the largest append, so that a zone can be filled
exactly and overfilled. Hosts, and processes in `Features`,
are interchangeable and are used as a symmetry set where all properties of the run
are safety properties.

Fairness. `io_shared` assumes that the kernel completes or aborts each command it
accepted (weak fairness of `Serve \/ Timeout`: the kernel's own timeout does
this) and that a thread whose ioctl has ended runs again. `tree_iterators`
assumes that a `for` loop keeps calling `next`. Nothing is assumed of callers. No run claims
that a download ends: that depends on what libnvme takes a transfer size of 0 for.

Each property of a passing run has a mutant: a plausible slip in the code
(a dropped check, a field taken for 1-based, a free behind an early return)
under which TLC finds the property violated.

## Disagreements found

Shown by a run:

1. `DsmRange::new` sends one block less than it is asked to cover; a range of
   one block deallocates nothing (`io.rs:803`, `types.h:6324`; `io_dsm_coverage`).
2. A Connect that fails in `nvmf_add_ctrl` leaks the controller object
   (`fabrics.rs:317`; `fabrics_leak`).

Proved:

3. `NVME_PMRSWTP_PMRSWTV` reads the field of the unit (`types.h:995`), so that
   `nvme_pmr_throughput` does not depend on the throughput (`ThroughputIsItsUnit`).
4. `current_lba_format` takes the low four bits of `flbas` only (`identify.rs:329`),
   `nvme_id_ns_flbas_to_lbaf_inuse` also bits 5 and 6 (`util.h:511`): they differ from
   the seventeenth format on (`FormatsAgree`).

Met while modelling, and let into the models as they are in the code:

5. `Copy::execute` passes the number of ranges less one (`io.rs:1089`), where
   `api-types.h:670` says "Number of ranges"; like 1 this rests on the vendored
   headers, as libnvme's own source is not in the repository. Both are the constants
   `CopyShort` and `DsmShort` of `Store`; `KeepsPromise`, which has 0 for both, is false as
   soon as somebody calls Copy.
6. `read_to_vec` sizes its buffer with the block size of the last scan
   (`namespace.rs:231`).
7. A Namespace handle that was not yet used when its namespace was deleted does
   I/O on the namespace that was given the identifier since (`io.rs:150`), where
   `controller.rs:446` says that such I/O fails; `HandleKeepsNamespace` excepts these
   handles, and no others.
8. Lengths are cast to 32 bits after they were checked. `Read`, `Write` and `Compare`
   (`io.rs:368`, `429`, `488`) announce 65,536 blocks of 65,536 bytes as 0 bytes. `error_log`
   (`controller.rs:313`), and both inline functions, ask with 2^26 entries for nothing,
   return entries that were never read and still take the event back. `fw_download`
   (`controller.rs:365`) sends of a longer image a part and returns Ok.
   `WireFaithful`, `BufferSafe` and `UpdateWhole` except these lengths. The doc comment of
   `error_log` takes ELPE for the number of entries, which `types.h:1252` counts from 0.
9. `fw_download` passes a transfer size of 0 "from controller's reported `fwug` field"
   (`controller.rs:357`); `linux.h:27` documents the maximum size of each transfer and no
   default. Taken at its word, the download never ends.
10. A commit that asks for a reset reaches the caller as `Err(Nvme)`, although
    `types.h:7903` says that it was successful. `FirmwareAction::Replace` is documented
    to take effect at the next reset, `types.h:9222` says that it does not activate.
11. The functions of `mi.h` and `ioctl.h` for the Boot Partition log differ: the first
    ignores its `lsp` (`mi.h:2568`). `TransportsAgree` excepts it.
12. `nvme_fdp_reclaim_unit_handle_update` with no identifiers sends a count of 0xffff
    and no data. With 2^31 its length is cut to 0 (`ioctl.h:4447`); `BufferSafe` leaves
    this cut out too.
13. The buffer lengths of reservation reports and zone reports are cast to 32 bits after
    they were checked (`reservations.rs:472`, `zns.rs`); "at least 8 bytes" for zones
    (whose header has 64) is not checked.
14. Comments: Compare Failure is said to be `0x85` (`io.rs:451`), which with its type
    is 0x285; `ZnsAppend` is said to take a zone "that contains" its `zslba`, which must
    be the start of the zone; `nvme_psd_power_scale` is said to read three bits and
    shifts by 6; the status in `Error::Nvme` may also carry the More, DNR and CRD bits.
15. `disconnect` consumes one handle, but the iterators hand out any number to the
    same controller (`controller.rs:530`).
16. A zone append that timed out may have happened; a caller that repeats it writes
    twice, and nothing in the crate lets it find out where.

## Proofs

All theorems hold for every value of the constants that satisfies the `ASSUME`s:
any number of processes, callers, hosts, blocks, zones, formats and requests, any
tree, any capture and image sizes. For each of the nine specifications the same three facts
are proved, `Init => IInv`, `IInv /\ [Next]_vars => IInv'` with one lemma per action or group
of actions, and that `IInv` implies the property; the theorem `Inductive` (`IoInvariant`,
`TreeInvariant`) puts the first two together. Every safety property of the runs is a theorem
but `DsmCoversRanges` and `AllFreed`, which runs refute. What the invariants need beyond the properties:

- `BlockIoProofs`. Nothing is assumed of the block sizes: a buffer of 2^32 bytes that
  passes the check is among the calls, and `WireFaithful` speaks of the length of shorter
  ones. It is not inductive, because a Format changes the device's block size under a command in
  flight. `Marshalled` is what the code knows instead: the transfer length agrees
  with the handle's format, and the handle cannot change while its call is in flight.
  It carries the whole request (`Matches`), so that it also gives the refinement:
  `ImplementsTheStore` proves `Spec => Store!Spec`, from one lemma per action that
  names the step of `BlockStore` it is (`...Refines`). A transfer that does not fit is
  `ApplyMisfit`, because the buffer check leaves no other cause than a stale handle or a
  length of 2^32. `PromiseIsKept` has the hypothesis `NoLists` (nobody calls Dsm or Copy),
  without which it is false; then every step of `Store` is one of `Promise`.
  `TornByStaleHandleOnly` names the call that tears a block, not merely some stale handle.
- `RootProofs`, `HandleTree`. `YieldsAll` needs `NoneBehind`: a node that was there at the
  start and has not been yielded is at or after the cursor. This needs the lists to
  stay ordered under insertion at any place (`LinkOrdered`) and the iterators to
  borrow the Root.
- `RootProofs`, `Fabrics`. `Owned` is `LeaksOnlyByConnect` during calls, where the call in
  progress is an owner too. `Meant` ties the object to its connection: behind the
  descriptor if there is one, else behind the name, unless the object is in `late`.
- `FeaturesProofs`. A Get in flight has been shown whatever it may read now
  (`SeenOK`). A Set that is `alone` has no other Set on its slots (`ApartOK`), and
  nothing is promised under a Set that is on its way (`UnpromisedOK`), so that what
  was promised cannot be overwritten; `DoneOK` carries it from completion to return.
  `OnlyAskedChanges` rests on the command of a Set naming the scope of its request.
- `ReservationsProofs`. `Informed` (claims hold) needs that a host that changes
  something claims nothing meanwhile (`SilentOK`), and the same of an Acquire or
  Register that was served and not yet reported, if nobody deposed its host since
  (`HoldOK`, `KeyOK`). That a power loss deposes nobody where persistence was asked for needs
  `persist = ptpl`, which is part of `TypeOK`. `ClaimsCompatible` follows from
  `HolderInformed` alone: two holders exist only under a type for all registrants. `ReportsAreTrue` carries the
  assumption that no buffer has 2^32 bytes or more, without which it is false.
- `NamespaceMgmtProofs`. `GrantOK` and `CreateOK` carry the result of an attach or
  a create from completion to return; `UnderOK` says that while a delete or detach is in
  flight, nobody is promised what it may undo. `HandleOK` says that a handle outside
  `orphan` is for a namespace that still has its identifier until it is opened.
- `ZnsProofs`. `Told` and `Placed` are what a caller was told and where the blocks
  are; `ZonesOK` bounds the appends a zone can hold blocks of, so that a new
  append is distinct from them. `TypeCorrect` is not repeated by the run.
- `FirmwareProofs`. `UpdateWhole` says where an image ends up and nothing about the way
  there. `Progress` does: while a download runs that nobody disturbed, the transfer buffer
  is exactly the pieces it has sent (`Part`), whoever used the buffer before; `Holds` keeps the
  whole image in the buffer until its commit. `Part(i, n + 1)` is `Part(i, n)` with
  one piece written (`NextPart`), and all of an image that has fewer than 2^32 pieces (`Parts`).
  `Placed` and `Truthful` are inductive together with these, since whoever else moves the
  buffer or a slot ends `solo`.
- `AdminCommandsProofs`. The invariant of the steps is short (`Sound`: a call has the command of
  its request and has used no more than its length). The argument is in the tables: some
  hundred functions are unfolded once each, in groups by their shape, to show what `Asks` needs
  (`SentAsks`: the length of the command is that of the buffer or was cut, `rae` is passed on,
  only the two functions that create a capture ask for one) and that a function of
  `mi.h` is that of `ioctl.h` split into other pieces (`MiPages`, `Agreement`). The sizes of
  the structures are computed (`IdentifySizes`, `LogSizes`). `WidthAssumption` (2^32 exceeds
  the data of a stream status) makes the casts
  of the lengths of structures and stream lists harmless. `OnlyCreatesCapture` has the
  hypothesis that a message of the management interface carries the 512 bytes of a
  capture's header, without which one call would be two commands and two captures;
  `mi.h:1404` promises 4096. It needs `CreatesFirst`.
- The last part of `FeaturesProofs` is about the pure operators of `NvmeWords`: what is packed
  is decoded, and disagreements 3 and 4.

Only model-checked: the liveness properties `EveryCallReturns` and `LoopEnds`; and the ASSUMEs about single operators that the MC modules evaluate
(`HandleUpdateCounts`, `ConfigReadsBack` and the corner values of `NvmeWords` and sizes).
Liveness under fairness, induction over data and recursive operators are out of
the prover's reach; the sums and sequences of these modules are written without.

## Not modelled

- `commands.rs` (Sanitize, self-test, lockdown, security, passthru) passes its arguments on to
  libnvme; a Sanitize that runs against other commands is the device's affair.
- The two builders of `directives.rs`, which do the same; the inline
  functions behind them are in `AdminCommands`.
- String accessors, Debug output, most enum discriminants, the single-field
  accessors of `identify.rs` and `log.rs`, DH-HMAC-CHAP and TLS keys, Connect
  options, NBFT tables: data without control.
- `nvme_flush` and `nvme_mi_admin_identify` of the headers, and everything they declare but do
  not define: libnvme is compiled elsewhere. Most lines of `types.h`, `tree.h`, `nbft.h`
  and `fabrics.h` are such declarations and comments.
- What Connect leaves in the kernel when it fails (`fabrics.rs:316`): no document says
  what it should.
- Metadata, protection information and the random write area of zones.

`PROJECT.json` maps each definition to the lines it stands for. The vendored headers
count as source there and are ten times as long as the crate, so that a share of the
mapped lines is mostly a share of interface text.

## Plan

1. Done: the modules above, the proofs of all their safety properties and of the refinement
   of `BlockStore`.
2. Composition: `Fabrics` with `HandleTree`, so that Connect inserts into the lists the
   iterators walk and a cursor never points at freed memory.
3. Abstract specifications of `Firmware` and of `Reservations` in the manner of `BlockStore`.
