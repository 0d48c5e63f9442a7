----------------------------- MODULE NvmeWords -----------------------------
(***************************************************************************)
(* The fields of the dwords that Set Features takes and Get Features       *)
(* returns, of controller registers, of a status and of FLBAS: the layouts *)
(* of types.h and the inline decoders of types.h and util.h, beside what   *)
(* identify.rs does with the same words.                                   *)
(***************************************************************************)
EXTENDS Integers

(* A field at bit position log2 of unit, with size values: the unit stands *)
(* for a _SHIFT, the size for a _MASK plus one.                            *)
F(unit, size) == [unit |-> unit, size |-> size]
Bit(unit)     == F(unit, 2)

NVME_GET(value, f) == (value \div f.unit) % f.size
NVME_SET(value, f) == (value % f.size) * f.unit

(* A decoder hands out every field of a layout.                            *)
Decode(value, layout) == [n \in DOMAIN layout |-> NVME_GET(value, layout[n])]

----------------------------------------------------------------------------
(* Features.                                                               *)

FEAT_ARBITRATION == [burst |-> F(1, 8), lpw |-> F(256, 256),
                     mpw |-> F(65536, 256), hpw |-> F(16777216, 256)]
FEAT_PWRMGMT == [ps |-> F(1, 32), wh |-> F(32, 8)]
FEAT_LBAR    == [nr |-> F(1, 64)]
FEAT_TT == [tmpth |-> F(1, 65536), tmpsel |-> F(65536, 16),
            thsel |-> F(1048576, 4), tmpthh |-> F(4194304, 8)]
FEAT_ERROR_RECOVERY == [tler |-> F(1, 65536), dulbe |-> Bit(65536)]
FEAT_VWC  == [wce |-> Bit(1)]
FEAT_NRQS == [nsqr |-> F(1, 65536), ncqr |-> F(65536, 65536)]
FEAT_IRQC == [thr |-> F(1, 256), time |-> F(256, 256)]
FEAT_ICFG == [iv |-> F(1, 65536), cd |-> Bit(65536)]
FEAT_WA   == [dn |-> Bit(1)]
FEAT_AE   == [smart |-> F(1, 256), nan |-> Bit(256), fw |-> Bit(512),
              telem |-> Bit(1024), ana |-> Bit(2048), pla |-> Bit(4096),
              lbas |-> Bit(8192), ega |-> Bit(16384)]
FEAT_APST   == [apste |-> Bit(1)]
FEAT_HMEM   == [ehm |-> Bit(1)]
FEAT_HCTM   == [tmt2 |-> F(1, 65536), tmt1 |-> F(65536, 65536)]
FEAT_NOPS   == [noppme |-> Bit(1)]
FEAT_RRL    == [rrl |-> F(1, 256)]
FEAT_PLM    == [plme |-> Bit(1)]
FEAT_PLMW   == [ws |-> F(1, 8)]
FEAT_LBAS   == [lsiri |-> F(1, 65536), lsipi |-> F(65536, 65536)]
FEAT_SC     == [nodrm |-> Bit(1)]
FEAT_EG     == [endgid |-> F(1, 65536), egcw |-> F(65536, 256)]
FEAT_PERFC  == [attri |-> F(1, 256), rvspa |-> Bit(256)]
FEAT_SPM    == [pbslc |-> F(1, 256)]
FEAT_HOSTID == [exhid |-> Bit(1)]
FEAT_RM     == [regpre |-> Bit(2), resrel |-> Bit(4), respre |-> Bit(8)]
FEAT_RP     == [ptpl |-> Bit(1)]
FEAT_WP     == [wps |-> F(1, 8)]

nvme_feature_decode_arbitration(v)              == Decode(v, FEAT_ARBITRATION)
nvme_feature_decode_power_mgmt(v)               == Decode(v, FEAT_PWRMGMT)
nvme_feature_decode_lba_range(v)                == Decode(v, FEAT_LBAR)
nvme_feature_decode_temp_threshold(v)           == Decode(v, FEAT_TT)
nvme_feature_decode_error_recovery(v)           == Decode(v, FEAT_ERROR_RECOVERY)
nvme_feature_decode_volatile_write_cache(v)     == Decode(v, FEAT_VWC)
nvme_feature_decode_number_of_queues(v)         == Decode(v, FEAT_NRQS)
nvme_feature_decode_interrupt_coalescing(v)     == Decode(v, FEAT_IRQC)
nvme_feature_decode_interrupt_config(v)         == Decode(v, FEAT_ICFG)
nvme_feature_decode_write_atomicity(v)          == Decode(v, FEAT_WA)
nvme_feature_decode_async_event_config(v)       == Decode(v, FEAT_AE)
nvme_feature_decode_auto_power_state(v)         == Decode(v, FEAT_APST)
nvme_feature_decode_host_memory_buffer(v)       == Decode(v, FEAT_HMEM)
nvme_feature_decode_host_thermal_mgmt(v)        == Decode(v, FEAT_HCTM)
nvme_feature_decode_non_op_power_config(v)      == Decode(v, FEAT_NOPS)
nvme_feature_decode_read_recovery_level_config(v) == Decode(v, FEAT_RRL)
nvme_feature_decode_predictable_latency_mode_config(v) == Decode(v, FEAT_PLM)
nvme_feature_decode_predictable_latency_mode_window(v) == Decode(v, FEAT_PLMW)
nvme_feature_decode_lba_status_attributes(v)    == Decode(v, FEAT_LBAS)
nvme_feature_decode_sanitize_config(v)          == Decode(v, FEAT_SC)
nvme_feature_decode_endurance_group_event_config(v) == Decode(v, FEAT_EG)
nvme_feature_decode_perf_characteristics(v)     == Decode(v, FEAT_PERFC)
nvme_feature_decode_software_progress_marker(v) == Decode(v, FEAT_SPM)
nvme_feature_decode_host_identifier(v)          == Decode(v, FEAT_HOSTID)
nvme_feature_decode_reservation_notification(v) == Decode(v, FEAT_RM)
nvme_feature_decode_reservation_persistance(v)  == Decode(v, FEAT_RP)
nvme_feature_decode_namespace_write_protect(v)  == Decode(v, FEAT_WP)

----------------------------------------------------------------------------
(* Registers, and the sizes in bytes they stand for.                       *)

NVME_REG ==
  [CAP |-> 0, VS |-> 8, INTMS |-> 12, INTMC |-> 16, CC |-> 20, CSTS |-> 28,
   NSSR |-> 32, AQA |-> 36, ASQ |-> 40, ACQ |-> 48, CMBLOC |-> 56,
   CMBSZ |-> 60, BPINFO |-> 64, BPRSEL |-> 68, BPMBL |-> 72, CMBMSC |-> 80,
   CMBSTS |-> 88, CMBEBS |-> 92, CMBSWTP |-> 96, NSSD |-> 100, CRTO |-> 104,
   PMRCAP |-> 3584, PMRCTL |-> 3588, PMRSTS |-> 3592, PMREBS |-> 3596,
   PMRSWTP |-> 3600, PMRMSCL |-> 3604, PMRMSCU |-> 3608]

nvme_is_64bit_reg(offset) ==
  offset \in {NVME_REG.CAP, NVME_REG.ASQ, NVME_REG.ACQ, NVME_REG.BPMBL, NVME_REG.CMBMSC}

CMBSZ  == [sqs |-> Bit(1), cqs |-> Bit(2), lists |-> Bit(4), rds |-> Bit(8),
           wds |-> Bit(16), szu |-> F(256, 16), sz |-> F(4096, 1048576)]
PMREBS == [pmrszu |-> F(1, 16), rbb |-> Bit(16), pmrwbz |-> F(256, 16777216)]

(* The macro for the value of the throughput reads the field of its unit.  *)
PMRSWTP == [pmrswtu |-> F(1, 16), pmrswtv |-> F(1, 16)]

Scaled(value, step, unit) == value * 2^(step * unit)

nvme_cmb_size(reg) ==
  LET r == Decode(reg, CMBSZ) IN 4096 * Scaled(r.sz, 4, r.szu)
nvme_pmr_size(reg) ==
  LET r == Decode(reg, PMREBS) IN Scaled(r.pmrwbz, 10, r.pmrszu)
nvme_pmr_throughput(reg) ==
  LET r == Decode(reg, PMRSWTP) IN Scaled(r.pmrswtv, 10, r.pmrswtu)

nvme_psd_power_scale(ps) == ps \div 64

----------------------------------------------------------------------------
(* The status a call returns: a code, its type, further bits, and above    *)
(* them what kind of a status it is.                                       *)

SC          == F(1, 256)
SCT         == F(256, 8)
STATUS_TYPE == F(134217728, 8)

nvme_status_code(status)      == NVME_GET(status, SC)
nvme_status_code_type(status) == NVME_GET(status, SCT)
nvme_status_get_type(status)  == NVME_GET(status, STATUS_TYPE)

(* The bits of the type are cleared.                                       *)
nvme_status_get_value(status) ==
  status - NVME_SET(nvme_status_get_type(status), STATUS_TYPE)

nvme_status_equals(status, type, value) ==
  status >= 0 /\ nvme_status_get_type(status) = type
              /\ nvme_status_get_value(status) = value

----------------------------------------------------------------------------
(* The LBA format in use.                                                  *)

FLBAS == [lower |-> F(1, 16), meta_ext |-> Bit(16), higher |-> F(32, 4)]

nvme_id_ns_flbas_to_lbaf_inuse(flbas) ==
  LET f == Decode(flbas, FLBAS) IN f.higher * 16 + f.lower

(* The size of a block, of 32 bits, from its exponent: a release build     *)
(* masks an exponent from 32 on, a debug build panics.                     *)
data_size_bytes(ds) == IF ds = 0 THEN 0 ELSE 2^(ds % 32)

(* A namespace lists the exponents of its formats; an unused one is 0.     *)
None == "None"
lba_format(lbaf, index) ==
  IF index \in DOMAIN lbaf /\ data_size_bytes(lbaf[index]) # 0
  THEN data_size_bytes(lbaf[index]) ELSE None

(* identify.rs takes the low four bits for the index.                      *)
current_index(flbas) == flbas % 16
current_lba_format(lbaf, flbas) == lba_format(lbaf, current_index(flbas))

from_raw(ver) ==
  [major |-> (ver \div 65536) % 65536, minor |-> (ver \div 256) % 256,
   tertiary |-> ver % 256]

----------------------------------------------------------------------------
(* Extended attributes of Fabrics: lengths of 16 bits, multiples of four.  *)

nvmf_exat_len(len)  == (((len + 3) \div 4) * 4) % 65536
nvmf_exat_size(len) == (4 + nvmf_exat_len(len)) % 65536
=============================================================================
