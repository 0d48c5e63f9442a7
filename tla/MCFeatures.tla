----------------------------- MODULE MCFeatures -----------------------------
(***************************************************************************)
(* Instances of Features for TLC: a feature of the whole controller that   *)
(* can be saved, one per namespace that cannot, and the host identifier.   *)
(***************************************************************************)
EXTENDS Features, NvmeWords, Functions, TLC

CONSTANTS vwc, wp, hid,  \* volatile write cache, write protection, host id
          n1, n2,        \* namespaces
          c1, c2         \* processes

MCClient   == {c1, c2}
Symmetry   == Permutations(MCClient)
MCFeature  == {vwc, wp, hid}
MCScoped   == {wp}
MCSaveable == {vwc}
MCScope    == {n1, n2}
MCValue    == {1, 2}
MCFactory  == [f \in MCFeature |-> 1]
MCSupports == [f \in MCFeature |-> IF f = vwc THEN 5 ELSE 4]

Base == [op |-> "set", feat |-> vwc, scope |-> Unscoped, val |-> 1,
         save |-> FALSE, sel |-> "Current", exhid |-> FALSE, len |-> 0]

Sets(f, scopes, vals, saves) ==
  { [Base EXCEPT !.feat = f, !.scope = s, !.val = v, !.save = b] :
    s \in scopes, v \in vals, b \in saves }
Gets(f, scopes, sels) ==
  { [Base EXCEPT !.op = "get", !.feat = f, !.scope = s, !.sel = v] :
    s \in scopes, v \in sels }
HostIds(op, ext, lens) ==
  { [Base EXCEPT !.op = op, !.feat = hid, !.exhid = ext, !.len = l] : l \in lens }
Reset == { [Base EXCEPT !.op = "reset"] }

(* Every method, on a feature that is saved, on one with scopes that is    *)
(* not, and on host identifiers of the right and of the wrong length.      *)
MCRequests ==
  Sets(vwc, {Unscoped}, {2}, BOOLEAN)
  \cup Gets(vwc, {Unscoped}, {"Saved", "Default"})
  \cup Sets(wp, {n1}, {2}, {FALSE}) \cup Sets(wp, {n2}, {1}, {TRUE})
  \cup Sets(wp, {Unscoped}, {1}, {FALSE})
  \cup Gets(wp, {n2}, {"Current"}) \cup Gets(wp, {Unscoped}, {"Supported"})
  \cup HostIds("set", FALSE, {8}) \cup HostIds("get", TRUE, {8, 16}) \cup Reset

----------------------------------------------------------------------------
(* The decoders on words whose fields are known.                           *)

Pack(layout, fields) ==
  FoldFunctionOnSet(LAMBDA a, b : a + b, 0,
                    [n \in DOMAIN layout |-> NVME_SET(fields[n], layout[n])], DOMAIN layout)

(* Extreme values of every field, one field at a time: no decoder takes a  *)
(* neighbour's bits.  The high priority weight stays below the sign.       *)
Corners(layout) ==
  { [n \in DOMAIN layout |-> IF n = m THEN layout[n].size - 1 ELSE 0] :
    m \in DOMAIN layout \ {"hpw", "ncqr", "tmt1", "lsipi"} }

Layouts ==
  { FEAT_ARBITRATION, FEAT_PWRMGMT, FEAT_TT, FEAT_ERROR_RECOVERY, FEAT_NRQS,
    FEAT_IRQC, FEAT_ICFG, FEAT_AE, FEAT_HCTM, FEAT_LBAS, FEAT_EG, FEAT_PERFC,
    FEAT_RM, FLBAS }

ASSUME FieldsApart ==
  \A layout \in Layouts : \A fields \in Corners(layout) :
    Decode(Pack(layout, fields), layout) = fields

(* The status 0x4281: a retry is of no use, the type is 2 and the code is  *)
(* 0x81; it equals no status without the further bits.                     *)
ASSUME StatusParts ==
  /\ nvme_status_code(17025) = 129 /\ nvme_status_code_type(17025) = 2
  /\ nvme_status_get_type(17025) = 0 /\ nvme_status_get_value(17025) = 17025
  /\ ~nvme_status_equals(17025, 0, 641) /\ nvme_status_equals(134217728 + 3, 1, 3)

(* A length attribute is long enough until the length of 16 bits wraps.    *)
ASSUME AttributesFit ==
  /\ \A len \in 0 .. 65532 : nvmf_exat_len(len) \in len .. len + 3
  /\ \A len \in 65533 .. 65535 : nvmf_exat_len(len) = 0

(* Registers do not overlap, each as wide as nvme_is_64bit_reg says.       *)
ASSUME RegistersApart ==
  \A a, b \in DOMAIN NVME_REG :
    NVME_REG[a] < NVME_REG[b] =>
      NVME_REG[a] + (IF nvme_is_64bit_reg(NVME_REG[a]) THEN 8 ELSE 4) <= NVME_REG[b]

(* A power of two per exponent; a memory buffer of units of 64 KiB.        *)
ASSUME Sizes ==
  /\ lba_format([i \in 0 .. 1 |-> 9 * i], 1) = 512
  /\ current_lba_format([i \in 0 .. 1 |-> 9 * i], 16) = None
  /\ nvme_cmb_size(256 + 4096 * 3) = 3 * 65536
  /\ nvme_pmr_size(1 + 256 * 5) = 5 * 1024
=============================================================================
