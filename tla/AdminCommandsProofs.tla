------------------------ MODULE AdminCommandsProofs ------------------------
(***************************************************************************)
(* Proofs about AdminCommands.  What each function of the tables asks for  *)
(* is stated first, for the ioctl ones; those of mi.h are shown to put the *)
(* same command together, split into other pieces.                         *)
(***************************************************************************)
EXTENDS AdminCommands, TLAPS

(***************************************************************************)
(* The log pages of ioctl.h.                                               *)
(***************************************************************************)

Fields ==
  {"lid", "nsid", "csi", "lsi", "lsp", "lpo", "uuidx", "rae", "len", "chunk"}

(* s reads len bytes of a log page; of one other than host telemetry; and  *)
(* retains the event of the page as r asks for.                            *)
Telemetry(s, len)  == DOMAIN s = Fields /\ s.len = len
Reads(s, len)      == Telemetry(s, len) /\ s.lid # LID.TELEMETRY_HOST
Retains(s, r, len) == Reads(s, len) /\ s.rae = r.rae

LEMMA StructurePages ==
  ASSUME NEW r
  PROVE
  /\ Reads(nvme_get_log_cmd_effects(r.csi), nvme_cmd_effects_log)
  /\ Telemetry(nvme_get_log_create_telemetry_host_mcda(r.lsp),
         nvme_telemetry_log)
  /\ Reads(nvme_get_log_endurance_group(r.id), nvme_endurance_group_log)
  /\ Reads(nvme_get_log_predictable_lat_nvmset(r.id),
         nvme_nvmset_predictable_lat_log)
  /\ Reads(nvme_get_log_media_unit_stat(r.id), nvme_media_unit_stat_log)
  /\ Reads(nvme_get_log_support_cap_config_list(r.id),
         nvme_supported_cap_config_list_log)
  /\ Retains(nvme_get_log_zns_changed_zones(r.nsid, r.rae), r,
         nvme_zns_changed_zone_log)
  /\ Reads(nvme_get_log_lockdown(r.lsp), nvme_lockdown_log)
  BY DEF
    Telemetry, Reads, Retains, Fields, LID, nvme_get_log_args, LogPage,
    nvme_get_log_page, NVME_LOG_PAGE_PDU_SIZE, nvme_get_log_cmd_effects,
    nvme_get_log_create_telemetry_host_mcda, nvme_get_log_endurance_group,
    nvme_get_log_predictable_lat_nvmset, nvme_get_log_media_unit_stat,
    nvme_get_log_support_cap_config_list, nvme_get_log_zns_changed_zones,
    nvme_get_log_lockdown

LEMMA LengthPages ==
  ASSUME NEW r
  PROVE
  /\ Telemetry(nvme_get_log_telemetry_host(r.offset, r.len), r.len)
  /\ Reads(nvme_get_log_phy_rx_eom(r.lsp, r.id, r.len), r.len)
  /\ Reads(nvme_get_log_persistent_event(r.lsp, r.len), r.len)
  /\ Reads(nvme_get_log_fdp_configurations(r.id, r.offset, r.len), r.len)
  /\ Reads(nvme_get_log_reclaim_unit_handle_usage(r.id, r.offset, r.len),
         r.len)
  /\ Reads(nvme_get_log_fdp_stats(r.id, r.offset, r.len), r.len)
  /\ Reads(nvme_get_log_fdp_events(r.id, r.flag, r.offset, r.len), r.len)
  BY DEF
    Telemetry, Reads, Retains, Fields, LID, nvme_get_log_args, LogPage,
    nvme_get_log_page, NVME_LOG_PAGE_PDU_SIZE, nvme_get_log,
    nvme_get_log_telemetry_host, nvme_get_log_phy_rx_eom,
    nvme_get_log_persistent_event, nvme_get_log_fdp_configurations,
    nvme_get_log_reclaim_unit_handle_usage, nvme_get_log_fdp_stats,
    nvme_get_log_fdp_events

LEMMA RetainingPages ==
  ASSUME NEW r
  PROVE
  /\ Retains(nvme_get_log_telemetry_ctrl(r.rae, r.offset, r.len), r, r.len)
  /\ Retains(nvme_get_log_predictable_lat_event(r.rae, r.offset, r.len), r,
         r.len)
  /\ Retains(nvme_get_log_ana(r.lsp, r.rae, r.offset, r.len), r, r.len)
  /\ Retains(nvme_get_log_lba_status(r.rae, r.offset, r.len), r, r.len)
  /\ Retains(nvme_get_log_endurance_grp_evt(r.rae, r.offset, r.len), r, r.len)
  /\ Retains(nvme_get_log_boot_partition(r.rae, r.lsp, r.len), r, r.len)
  /\ Retains(nvme_get_log_reachability_groups(r.flag, r.rae, r.len), r, r.len)
  /\ Retains(nvme_get_log_reachability_associations(r.flag, r.rae, r.len), r,
         r.len)
  /\ Retains(nvme_get_log_discovery(r.rae, r.offset, r.len), r, r.len)
  /\ Retains(nvme_get_log_host_discover(r.flag, r.rae, r.len), r, r.len)
  BY DEF
    Telemetry, Reads, Retains, Fields, LID, nvme_get_log_args, LogPage,
    nvme_get_log_page, NVME_LOG_PAGE_PDU_SIZE, nvme_get_log_telemetry_ctrl,
    nvme_get_log_predictable_lat_event, nvme_get_log_ana,
    nvme_get_log_lba_status, nvme_get_log_endurance_grp_evt,
    nvme_get_log_boot_partition, nvme_get_log_reachability_groups,
    nvme_get_log_reachability_associations, nvme_get_log_discovery,
    nvme_get_log_host_discover

LEMMA NsidLog ==
  ASSUME NEW rae, NEW lid, NEW nsid, NEW len
  PROVE  LET s == nvme_get_nsid_log(rae, lid, nsid, len) IN
         DOMAIN s = Fields /\ s.lid = lid /\ s.rae = rae /\ s.len = len
  BY DEF nvme_get_nsid_log, nvme_get_log_args, Fields, LogPage, nvme_get_log_page,
    NVME_LOG_PAGE_PDU_SIZE

LEMMA NsidPages ==
  ASSUME NEW r
  PROVE
  /\ Retains(nvme_get_log_supported_log_pages(r.rae), r,
         nvme_supported_log_pages)
  /\ Retains(nvme_get_log_error(r.n, r.rae), r,
         (nvme_error_log_page * r.n) % U32)
  /\ Retains(nvme_get_log_smart(r.nsid, r.rae), r, nvme_smart_log)
  /\ Retains(nvme_get_log_fw_slot(r.rae), r, nvme_firmware_slot)
  /\ Retains(nvme_get_log_changed_ns_list(r.rae), r, nvme_ns_list)
  /\ Retains(nvme_get_log_fid_supported_effects(r.rae), r,
         nvme_fid_supported_effects_log)
  /\ Retains(nvme_get_log_mi_cmd_supported_effects(r.rae), r,
         nvme_mi_cmd_supported_effects_log)
  /\ Retains(nvme_get_log_changed_alloc_ns_list(r.rae, r.len), r, r.len)
  /\ Retains(nvme_get_log_ave_discover(r.rae, r.len), r, r.len)
  /\ Retains(nvme_get_log_pull_model_ddc_req(r.rae, r.len), r, r.len)
  /\ Retains(nvme_get_log_reservation(r.rae), r, nvme_resv_notification_log)
  /\ Retains(nvme_get_log_sanitize(r.rae), r, nvme_sanitize_log_page)
  BY NsidLog DEF
    Telemetry, Reads, Retains, LID, nvme_get_log_supported_log_pages,
    nvme_get_log_error, nvme_get_log_smart, nvme_get_log_fw_slot,
    nvme_get_log_changed_ns_list, nvme_get_log_fid_supported_effects,
    nvme_get_log_mi_cmd_supported_effects, nvme_get_log_changed_alloc_ns_list,
    nvme_get_log_ave_discover, nvme_get_log_pull_model_ddc_req,
    nvme_get_log_reservation, nvme_get_log_sanitize

LEMMA OtherPages ==
  ASSUME NEW r
  PROVE
  /\ Reads(nvme_get_log_device_self_test, nvme_self_test_log)
  /\ Telemetry(nvme_get_log_create_telemetry_host, nvme_telemetry_log)
  /\ Retains(nvme_get_log_ana_groups(r.rae, r.len), r, r.len)
  /\ Reads(nvme_get_log_rotational_media_info(r.id, r.len), r.len)
  /\ Reads(nvme_get_log_dispersed_ns_participating_nss(r.nsid, r.len), r.len)
  /\ Reads(nvme_get_log_mgmt_addr_list(r.len), r.len)
  BY DEF
    Telemetry, Reads, Retains, Fields, LID, nvme_get_log_args, LogPage,
    nvme_get_log_page, NVME_LOG_PAGE_PDU_SIZE, nvme_get_log_simple,
    nvme_get_nsid_log, nvme_get_log_ana,
    nvme_get_log_create_telemetry_host_mcda, nvme_get_endgid_log,
    nvme_get_log_device_self_test, nvme_get_log_create_telemetry_host,
    nvme_get_log_ana_groups, nvme_get_log_rotational_media_info,
    nvme_get_log_dispersed_ns_participating_nss, nvme_get_log_mgmt_addr_list

(* What the page of a request is, by the kinds of functions.               *)
LEMMA IoctlPages ==
  ASSUME NEW r, r.op \in DOMAIN IoctlLog(r)
  PROVE  LET s == IoctlLog(r)[r.op] IN
         /\ r.op = "error" => Retains(s, r, (nvme_error_log_page * r.n) % U32)
         /\ r.op \in DOMAIN Structure => Telemetry(s, Structure[r.op])
         /\ r.op # "error" /\ r.op \notin DOMAIN Structure => Telemetry(s, r.len)
         /\ r.op \in HasRae => Retains(s, r, s.len)
         /\ s.lid = LID.TELEMETRY_HOST => r.op = "telemetry_host" \/ IsCreate(r)
<1> DEFINE s == IoctlLog(r)[r.op]
         RetainedStructure ==
           {"supported_log_pages", "smart", "fw_slot", "changed_ns_list",
            "fid_supported_effects", "mi_cmd_supported_effects", "reservation",
            "sanitize", "zns_changed_zones"}
         OtherStructure ==
           {"cmd_effects", "device_self_test", "endurance_group",
            "predictable_lat_nvmset", "media_unit_stat",
            "support_cap_config_list", "lockdown"}
         RetainedLength ==
           {"telemetry_ctrl", "predictable_lat_event", "ana", "ana_groups",
            "lba_status", "endurance_grp_evt", "boot_partition",
            "reachability_groups", "reachability_associations",
            "changed_alloc_ns_list", "discovery", "host_discover",
            "ave_discover", "pull_model_ddc_req"}
         OtherLength ==
           {"rotational_media_info", "dispersed_ns_participating_nss",
            "mgmt_addr_list", "phy_rx_eom", "persistent_event"}
<1>1. r.op \in RetainedStructure => Retains(s, r, Structure[r.op])
  BY StructurePages, NsidPages DEF IoctlLog, Structure
<1>2. r.op \in OtherStructure => Reads(s, Structure[r.op])
  BY StructurePages, OtherPages DEF IoctlLog, Structure
<1>3. r.op \in RetainedLength => Retains(s, r, r.len)
  BY RetainingPages, NsidPages, OtherPages DEF IoctlLog
<1>4. r.op \in OtherLength => Reads(s, r.len)
  BY LengthPages, OtherPages DEF IoctlLog
<1>5. r.op = "error" => Retains(s, r, (nvme_error_log_page * r.n) % U32)
  BY NsidPages DEF IoctlLog
<1>6. r.op = "telemetry_host" => Telemetry(s, r.len)
  BY LengthPages DEF IoctlLog
<1>7. IsCreate(r) => Telemetry(s, Structure[r.op])
  BY StructurePages, OtherPages DEF IoctlLog, Structure, IsCreate
<1>8. /\ r.op \in RetainedStructure \cup OtherStructure \cup RetainedLength
                 \cup OtherLength
         \/ r.op \in {"error", "telemetry_host"} \/ IsCreate(r)
      /\ r.op \in DOMAIN Structure <=>
           r.op \in RetainedStructure \cup OtherStructure \/ IsCreate(r)
      /\ r.op \in HasRae =>
           r.op \in RetainedStructure \cup RetainedLength \cup {"error"}
      /\ IsCreate(r) => r.op \notin {"error", "telemetry_host"}
  BY DEF IoctlLog, Structure, HasRae, IsCreate
<1>9. \A len : /\ Retains(s, r, len) => Reads(s, len) /\ Retains(s, r, s.len)
               /\ Reads(s, len) => Telemetry(s, len) /\ s.lid # LID.TELEMETRY_HOST
  BY DEF Retains, Reads, Telemetry
<1> HIDE DEF s, RetainedStructure, OtherStructure, RetainedLength, OtherLength
<1> QED
  BY <1>1, <1>2, <1>3, <1>4, <1>5, <1>6, <1>7, <1>8, <1>9 DEF s

(***************************************************************************)
(* The log pages of mi.h.                                                  *)
(***************************************************************************)

(* The same read, in pieces of n bytes.                                    *)
Split(s, n) == [s EXCEPT !.chunk = n]

LEMMA SplitAgain ==
  ASSUME NEW s, NEW m, NEW n
  PROVE  Split(Split(s, m), n) = Split(s, n)
  BY DEF Split

LEMMA Splits ==
  ASSUME NEW a
  PROVE  /\ nvme_mi_admin_get_log(a) = Split(a, MiChunk)
         /\ nvme_mi_admin_get_log_page(4096, a) = Split(a, 4096)
         /\ LogPage(a) = Split(a, 4096)
  BY DEF Split, nvme_mi_admin_get_log, nvme_mi_admin_get_log_page, LogPage,
    nvme_get_log_page, NVME_LOG_PAGE_PDU_SIZE

LEMMA NsidSplits ==
  ASSUME NEW rae, NEW lid, NEW nsid, NEW len
  PROVE  nvme_mi_admin_get_nsid_log(rae, lid, nsid, len)
         = Split(nvme_get_nsid_log(rae, lid, nsid, len), MiChunk)
  BY Splits, SplitAgain DEF nvme_mi_admin_get_nsid_log, nvme_get_nsid_log

(* Every function of mi.h but one asks for what that of ioctl.h asks for.  *)
LEMMA MiPages ==
  ASSUME NEW r, r.op \in DOMAIN MiLog(r), r.op # "boot_partition"
  PROVE  \E n \in {MiChunk, 4096} : MiLog(r)[r.op] = Split(IoctlLog(r)[r.op], n)
<1> DEFINE Same(n) == MiLog(r)[r.op] = Split(IoctlLog(r)[r.op], n)
<1>1. CASE r.op \in
       {"supported_log_pages", "error", "smart", "fw_slot",
        "changed_ns_list", "fid_supported_effects",
        "mi_cmd_supported_effects", "changed_alloc_ns_list", "ave_discover",
        "pull_model_ddc_req", "reservation", "sanitize"}
  <2>1. Same(MiChunk)
    BY <1>1, NsidSplits DEF MiLog, IoctlLog,
      nvme_mi_admin_get_log_supported_log_pages, nvme_mi_admin_get_log_error,
      nvme_mi_admin_get_log_smart, nvme_mi_admin_get_log_fw_slot,
      nvme_mi_admin_get_log_changed_ns_list,
      nvme_mi_admin_get_log_fid_supported_effects,
      nvme_mi_admin_get_log_mi_cmd_supported_effects,
      nvme_mi_admin_get_log_changed_alloc_ns_list,
      nvme_mi_admin_get_log_ave_discover,
      nvme_mi_admin_get_log_pull_model_ddc_req,
      nvme_mi_admin_get_log_reservation, nvme_mi_admin_get_log_sanitize,
      nvme_get_log_supported_log_pages, nvme_get_log_error, nvme_get_log_smart,
      nvme_get_log_fw_slot, nvme_get_log_changed_ns_list,
      nvme_get_log_fid_supported_effects,
      nvme_get_log_mi_cmd_supported_effects,
      nvme_get_log_changed_alloc_ns_list, nvme_get_log_ave_discover,
      nvme_get_log_pull_model_ddc_req, nvme_get_log_reservation,
      nvme_get_log_sanitize
  <2> QED
    BY <2>1
<1>2. CASE r.op \in
       {"device_self_test", "dispersed_ns_participating_nss",
        "mgmt_addr_list"}
  <2>1. Same(MiChunk)
    BY <1>2, Splits, SplitAgain DEF MiLog, IoctlLog,
      nvme_mi_admin_get_log_simple, nvme_get_log_simple,
      nvme_mi_admin_get_nsid_log, nvme_get_nsid_log,
      nvme_mi_admin_get_log_device_self_test,
      nvme_mi_admin_get_log_dispersed_ns_participating_nss,
      nvme_mi_admin_get_log_mgmt_addr_list, nvme_get_log_device_self_test,
      nvme_get_log_dispersed_ns_participating_nss, nvme_get_log_mgmt_addr_list
  <2> QED
    BY <2>1
<1>3. CASE r.op \in
       {"telemetry_ctrl", "predictable_lat_event", "ana", "lba_status",
        "endurance_grp_evt", "discovery", "zns_changed_zones"}
  <2>1. Same(MiChunk)
    BY <1>3, Splits, SplitAgain DEF MiLog, IoctlLog,
      nvme_mi_admin_get_log_telemetry_ctrl,
      nvme_mi_admin_get_log_predictable_lat_event, nvme_mi_admin_get_log_ana,
      nvme_mi_admin_get_log_lba_status,
      nvme_mi_admin_get_log_endurance_grp_evt, nvme_mi_admin_get_log_discovery,
      nvme_mi_admin_get_log_zns_changed_zones, nvme_get_log_telemetry_ctrl,
      nvme_get_log_predictable_lat_event, nvme_get_log_ana,
      nvme_get_log_lba_status, nvme_get_log_endurance_grp_evt,
      nvme_get_log_discovery, nvme_get_log_zns_changed_zones
  <2> QED
    BY <2>1
<1>4. CASE r.op \in
       {"cmd_effects", "create_telemetry_host_mcda", "endurance_group",
        "predictable_lat_nvmset", "media_unit_stat",
        "support_cap_config_list", "lockdown"}
  <2>1. Same(MiChunk)
    BY <1>4, Splits, SplitAgain DEF MiLog, IoctlLog,
      nvme_mi_admin_get_log_cmd_effects,
      nvme_mi_admin_get_log_create_telemetry_host_mcda,
      nvme_mi_admin_get_log_endurance_group,
      nvme_mi_admin_get_log_predictable_lat_nvmset,
      nvme_mi_admin_get_log_media_unit_stat,
      nvme_mi_admin_get_log_support_cap_config_list,
      nvme_mi_admin_get_log_lockdown, nvme_get_log_cmd_effects,
      nvme_get_log_create_telemetry_host_mcda, nvme_get_log_endurance_group,
      nvme_get_log_predictable_lat_nvmset, nvme_get_log_media_unit_stat,
      nvme_get_log_support_cap_config_list, nvme_get_log_lockdown
  <2> QED
    BY <2>1
<1>5. CASE r.op \in
       {"telemetry_host", "phy_rx_eom", "persistent_event"}
  <2>1. Same(MiChunk)
    BY <1>5, Splits, SplitAgain DEF MiLog, IoctlLog,
      nvme_mi_admin_get_log_telemetry_host, nvme_mi_admin_get_log_phy_rx_eom,
      nvme_mi_admin_get_log_persistent_event, nvme_get_log_telemetry_host,
      nvme_get_log_phy_rx_eom, nvme_get_log_persistent_event
  <2> QED
    BY <2>1
<1>6. CASE r.op \in
       {"ana_groups", "create_telemetry_host", "rotational_media_info"}
  <2>1. Same(MiChunk)
    BY <1>6, Splits, SplitAgain DEF MiLog, IoctlLog,
      nvme_mi_admin_get_log_ana, nvme_get_log_ana,
      nvme_mi_admin_get_log_create_telemetry_host_mcda,
      nvme_get_log_create_telemetry_host_mcda, nvme_mi_admin_get_endgid_log,
      nvme_get_endgid_log, nvme_mi_admin_get_log_ana_groups,
      nvme_mi_admin_get_log_create_telemetry_host,
      nvme_mi_admin_get_log_rotational_media_info, nvme_get_log_ana_groups,
      nvme_get_log_create_telemetry_host, nvme_get_log_rotational_media_info
  <2> QED
    BY <2>1
<1>7. CASE r.op \in
       {"host_discover", "reachability_associations", "reachability_groups"}
  <2>1. Same(4096)
    BY <1>7, Splits, SplitAgain DEF MiLog, IoctlLog,
      nvme_mi_admin_get_log_host_discover,
      nvme_mi_admin_get_log_reachability_associations,
      nvme_mi_admin_get_log_reachability_groups, nvme_get_log_host_discover,
      nvme_get_log_reachability_associations, nvme_get_log_reachability_groups
  <2> QED
    BY <2>1
<1> QED
  BY <1>1, <1>2, <1>3, <1>4, <1>5, <1>6, <1>7 DEF MiLog

LEMMA MiBootPartition ==
  ASSUME NEW r, r.op = "boot_partition"
  PROVE  /\ Retains(MiLog(r)[r.op], r, r.len)
         /\ r.lsp = NVME_LOG_LSP_NONE =>
              MiLog(r)[r.op] = Split(IoctlLog(r)[r.op], MiChunk)
<1>1. MiLog(r)[r.op] = nvme_mi_admin_get_log_boot_partition(r.rae, r.lsp, r.len)
      /\ IoctlLog(r)[r.op] = nvme_get_log_boot_partition(r.rae, r.lsp, r.len)
  BY DEF MiLog, IoctlLog
<1>2. Retains(nvme_mi_admin_get_log_boot_partition(r.rae, r.lsp, r.len), r, r.len)
  BY DEF Telemetry, Reads, Retains, Fields, LID, nvme_get_log_args,
    nvme_mi_admin_get_log, nvme_mi_admin_get_log_boot_partition
<1>3. ASSUME r.lsp = NVME_LOG_LSP_NONE
      PROVE  nvme_mi_admin_get_log_boot_partition(r.rae, r.lsp, r.len)
             = Split(nvme_get_log_boot_partition(r.rae, r.lsp, r.len), MiChunk)
  BY <1>3, Splits, SplitAgain
     DEF nvme_mi_admin_get_log_boot_partition, nvme_get_log_boot_partition
<1> QED
  BY <1>1, <1>2, <1>3

(***************************************************************************)
(* Lengths and buffers.                                                    *)
(***************************************************************************)

LEMMA Cut ==
  ASSUME NEW n \in Nat
  PROVE  n % U32 \in 0 .. n /\ (n < U32 => n % U32 = n)
  BY U32Assumption

(* The structures that Identify fills are as long as its data.             *)
LEMMA IdentifySizes ==
  /\ nvme_id_ctrl = NVME_IDENTIFY_DATA_SIZE
  /\ nvme_id_ns = NVME_IDENTIFY_DATA_SIZE
  /\ nvme_ctrl_list = NVME_IDENTIFY_DATA_SIZE
  /\ nvme_ns_list = NVME_IDENTIFY_DATA_SIZE
  /\ nvme_primary_ctrl_cap = NVME_IDENTIFY_DATA_SIZE
  /\ nvme_secondary_ctrl_list = NVME_IDENTIFY_DATA_SIZE
  /\ nvme_id_nvmset_list = NVME_IDENTIFY_DATA_SIZE
  /\ nvme_id_ns_granularity_list = NVME_IDENTIFY_DATA_SIZE
  /\ nvme_id_uuid_list = NVME_IDENTIFY_DATA_SIZE
  /\ nvme_id_independent_id_ns = NVME_IDENTIFY_DATA_SIZE
  /\ nvme_id_domain_list = NVME_IDENTIFY_DATA_SIZE
  /\ nvme_id_endurance_group_list = NVME_IDENTIFY_DATA_SIZE
  /\ nvme_id_iocs = NVME_IDENTIFY_DATA_SIZE
  /\ nvme_id_ctrl_nvm = NVME_IDENTIFY_DATA_SIZE
  /\ nvme_zns_id_ns = NVME_IDENTIFY_DATA_SIZE
  /\ nvme_zns_id_ctrl = NVME_IDENTIFY_DATA_SIZE
  BY DEF nvme_id_ctrl, nvme_id_psd, nvme_id_ns, nvme_lbaf, nvme_ctrl_list,
    nvme_ns_list, nvme_primary_ctrl_cap, nvme_secondary_ctrl_list,
    nvme_secondary_ctrl, nvme_id_nvmset_list, nvme_nvmset_attr,
    nvme_id_ns_granularity_list, nvme_id_ns_granularity_desc, nvme_id_uuid_list,
    nvme_id_uuid_list_entry, nvme_id_independent_id_ns, nvme_id_domain_list,
    nvme_id_domain_attr, nvme_id_endurance_group_list, nvme_id_iocs,
    nvme_id_ctrl_nvm, nvme_zns_id_ns, nvme_zns_lbafe, nvme_zns_id_ctrl,
    NVME_IDENTIFY_DATA_SIZE, NVME_NQN_LENGTH, NVME_ID_CTRL_LIST_MAX,
    NVME_ID_NS_LIST_MAX, NVME_ID_SECONDARY_CTRL_MAX, NVME_ID_NVMSET_LIST_MAX,
    NVME_ID_ND_DESCRIPTOR_MAX, NVME_ID_UUID_LIST_MAX, NVME_ID_DOMAIN_LIST_MAX,
    NVME_ID_ENDURANCE_GROUP_LIST_MAX

LEMMA LogSizes ==
  /\ nvme_smart_log \in Nat /\ nvme_firmware_slot \in Nat
  /\ nvme_supported_log_pages \in Nat /\ nvme_cmd_effects_log \in Nat
  /\ nvme_self_test_log \in Nat /\ nvme_telemetry_log = 512
  /\ nvme_endurance_group_log \in Nat /\ nvme_nvmset_predictable_lat_log \in Nat
  /\ nvme_fid_supported_effects_log \in Nat
  /\ nvme_mi_cmd_supported_effects_log \in Nat
  /\ nvme_media_unit_stat_log \in Nat
  /\ nvme_supported_cap_config_list_log \in Nat
  /\ nvme_resv_notification_log \in Nat /\ nvme_sanitize_log_page \in Nat
  /\ nvme_zns_changed_zone_log \in Nat /\ nvme_lockdown_log \in Nat
  /\ nvme_error_log_page = 64 /\ nvme_streams_directive_status = 2
  /\ nvme_id_directives \in Nat /\ nvme_streams_directive_params \in Nat
  BY DEF nvme_smart_log, nvme_firmware_slot, nvme_supported_log_pages,
    nvme_cmd_effects_log, nvme_self_test_log, nvme_st_result, nvme_telemetry_log,
    nvme_endurance_group_log, nvme_nvmset_predictable_lat_log,
    nvme_fid_supported_effects_log, nvme_mi_cmd_supported_effects_log,
    nvme_media_unit_stat_log, nvme_supported_cap_config_list_log,
    nvme_resv_notification_log, nvme_sanitize_log_page,
    nvme_zns_changed_zone_log, nvme_lockdown_log, nvme_error_log_page,
    nvme_streams_directive_status, nvme_id_directives,
    nvme_streams_directive_params, NVME_LOG_SUPPORTED_LOG_PAGES_MAX,
    NVME_LOG_ST_MAX_RESULTS, NVME_LOG_FID_SUPPORTED_EFFECTS_MAX,
    NVME_LOG_MI_CMD_SUPPORTED_EFFECTS_MAX, NVME_ZNS_CHANGED_ZONES_MAX,
    NVME_LOG_MI_CMD_SUPPORTED_EFFECTS_RESERVED

(* The ways a call says how large the buffer is.                           *)
Counted == {"error", "error_log", "stream_status", "fdp_handle_update"}

LEMMA StructureSizes ==
  \A op \in DOMAIN Structure : Structure[op] \in Nat
<1>1. NVME_IDENTIFY_DATA_SIZE \in Nat
  BY DEF NVME_IDENTIFY_DATA_SIZE
<1> QED
  BY <1>1, IdentifySizes, LogSizes DEF Structure

LEMMA Buffers ==
  ASSUME NEW r \in AnyRequest
  PROVE  /\ r.op \in DOMAIN Structure => Buffer(r) = Structure[r.op]
         /\ r.op \in {"error", "error_log"} => Buffer(r) = nvme_error_log_page * r.n
         /\ r.op = "stream_status" =>
              Buffer(r) = nvme_streams_directive_status + 2 * r.n
         /\ r.op = "fdp_handle_update" => Buffer(r) = 2 * r.n
         /\ r.op \in NoData => Buffer(r) = 0
         /\ r.op \notin DOMAIN Structure \cup Counted \cup NoData =>
              Buffer(r) = r.len
         /\ Buffer(r) \in Nat
<1>1. DOMAIN Structure \cap (Counted \cup NoData) = {}
  BY DEF Structure, Counted, NoData
<1>2. /\ r.op \in DOMAIN Structure => Buffer(r) = Structure[r.op]
      /\ r.op \in {"error", "error_log"} => Buffer(r) = nvme_error_log_page * r.n
      /\ r.op = "stream_status" =>
           Buffer(r) = nvme_streams_directive_status + 2 * r.n
      /\ r.op = "fdp_handle_update" => Buffer(r) = 2 * r.n
      /\ r.op \in NoData => Buffer(r) = 0
      /\ r.op \notin DOMAIN Structure \cup Counted \cup NoData =>
           Buffer(r) = r.len
  BY <1>1 DEF Buffer, Counted, NoData
<1>3. r.n \in Nat /\ r.len \in Nat
  BY DEF AnyRequest
<1>4. Buffer(r) \in Nat
  BY <1>2, <1>3, StructureSizes, LogSizes DEF Counted
<1> QED
  BY <1>2, <1>4

(***************************************************************************)
(* What matters of the command that is sent for a request.                 *)
(***************************************************************************)

(* It moves what the caller has room for, and all of it unless the length  *)
(* was cut; a read of a page retains its event if the caller wants it to,  *)
(* and only the functions that create a capture ask for one.               *)
Asks(r, s) ==
  /\ Length(s) \in 0 .. Buffer(r)
  /\ Length(s) = Buffer(r) \/ LengthCut(r)
  /\ IsLog(s) /\ r.op \in HasRae => s.rae = r.rae
  /\ Captures(s) => IsCreate(r)

LEMMA ReadsAsk ==
  ASSUME NEW r \in AnyRequest, NEW s, Telemetry(s, s.len),
         s.len \in 0 .. Buffer(r), s.len = Buffer(r) \/ LengthCut(r),
         r.op \in HasRae => s.rae = r.rae, Captures(s) => IsCreate(r)
  PROVE  Asks(r, s) /\ IsLog(s) /\ Length(s) = s.len
<1>1. IsLog(s) /\ "data_len" \notin DOMAIN s
  BY DEF Telemetry, Fields, IsLog
<1>2. Length(s) = s.len
  BY <1>1 DEF Length
<1> QED
  BY <1>1, <1>2 DEF Asks

LEMMA PagesAsk ==
  ASSUME NEW r \in AnyRequest, r.op \in DOMAIN IoctlLog(r)
  PROVE  /\ Asks(r, IoctlLog(r)[r.op])
         /\ Telemetry(IoctlLog(r)[r.op], IoctlLog(r)[r.op].len)
<1> DEFINE s == IoctlLog(r)[r.op]
<1>1. /\ r.op = "error" => Retains(s, r, (nvme_error_log_page * r.n) % U32)
      /\ r.op \in DOMAIN Structure => Telemetry(s, Structure[r.op])
      /\ r.op # "error" /\ r.op \notin DOMAIN Structure => Telemetry(s, r.len)
      /\ r.op \in HasRae => Retains(s, r, s.len)
      /\ s.lid = LID.TELEMETRY_HOST => r.op = "telemetry_host" \/ IsCreate(r)
  BY IoctlPages
<1>2. r.op = "telemetry_host" => s.lsp = 0
  <2>1. nvme_get_log_telemetry_host(r.offset, r.len).lsp = 0
    BY DEF nvme_get_log_telemetry_host, nvme_get_log_args, LogPage,
      nvme_get_log_page, NVME_LOG_PAGE_PDU_SIZE, NVME_LOG_TELEM_HOST_LSP_RETAIN
  <2> QED
    BY <2>1 DEF IoctlLog
<1>3. r.op \notin NoData /\ r.op \notin Counted \ {"error"}
  BY DEF IoctlLog, NoData, Counted
<1> HIDE DEF s
<1>4. Captures(s) => IsCreate(r)
  BY <1>1, <1>2 DEF Captures, NVME_LOG_TELEM_HOST_LSP_CREATE
<1>5. r.op \in HasRae => s.rae = r.rae
  BY <1>1 DEF Retains
<1>6. Telemetry(s, s.len)
  BY <1>1 DEF Retains, Reads, Telemetry
<1>7. s.len \in 0 .. Buffer(r) /\ (s.len = Buffer(r) \/ LengthCut(r))
  <2>1. CASE r.op = "error"
    <3>1. Buffer(r) = nvme_error_log_page * r.n /\ Buffer(r) \in Nat
      BY <2>1, Buffers
    <3>2. s.len = Buffer(r) % U32
      BY <1>1, <2>1, <3>1 DEF Retains, Reads, Telemetry
    <3>3. Buffer(r) >= U32 => LengthCut(r)
      BY <2>1, <3>1 DEF LengthCut
    <3> QED
      BY <3>1, <3>2, <3>3, Cut, U32Assumption
  <2>2. CASE r.op # "error"
    <3>1. s.len = Buffer(r)
      BY <1>1, <1>3, <2>2, Buffers DEF Telemetry
    <3> QED
      BY <3>1, Buffers
  <2> QED
    BY <2>1, <2>2
<1>8. Asks(r, s)
  BY <1>4, <1>5, <1>6, <1>7, ReadsAsk
<1> QED
  BY <1>6, <1>8 DEF s

LEMMA SplitAsks ==
  ASSUME NEW r \in AnyRequest, NEW s, NEW n, Telemetry(s, s.len), Asks(r, s)
  PROVE  Asks(r, Split(s, n)) /\ Telemetry(Split(s, n), s.len)
<1> DEFINE t == Split(s, n)
<1>1. DOMAIN t = Fields /\ DOMAIN s = Fields
  BY DEF Split, Telemetry
<1>2. t.len = s.len /\ t.lid = s.lid /\ t.lsp = s.lsp
  BY <1>1 DEF Split, Fields
<1>3. s.rae = r.rae => t.rae = r.rae
  BY <1>1 DEF Split, Fields
<1>4. IsLog(s) /\ IsLog(t) /\ Length(s) = s.len /\ Length(t) = t.len
  BY <1>1 DEF IsLog, Fields, Length
<1> HIDE DEF t
<1>5. Asks(r, t)
  BY <1>2, <1>3, <1>4 DEF Asks, Captures
<1> QED
  BY <1>1, <1>2, <1>5 DEF t, Telemetry

LEMMA MiPagesAsk ==
  ASSUME NEW r \in AnyRequest, r.op \in DOMAIN MiLog(r)
  PROVE  Asks(r, MiLog(r)[r.op])
<1>1. CASE r.op # "boot_partition"
  <2>1. r.op \in DOMAIN IoctlLog(r)
    BY DEF MiLog, IoctlLog
  <2> QED
    BY <1>1, <2>1, MiPages, PagesAsk, SplitAsks
<1>2. CASE r.op = "boot_partition"
  <2> DEFINE s == MiLog(r)[r.op]
  <2>1. Retains(s, r, r.len)
    BY <1>2, MiBootPartition
  <2>2. Buffer(r) = r.len /\ r.len \in Nat
    <3>1. r.op \notin DOMAIN Structure \cup Counted \cup NoData
      BY <1>2 DEF Structure, Counted, NoData
    <3> QED
      BY <3>1, Buffers
  <2> HIDE DEF s
  <2>3. Telemetry(s, s.len) /\ s.len = r.len /\ s.rae = r.rae /\ ~Captures(s)
    BY <2>1 DEF Retains, Reads, Telemetry, Captures
  <2>4. Asks(r, s)
    BY <2>2, <2>3, ReadsAsk
  <2> QED
    BY <2>4 DEF s
<1> QED
  BY <1>1, <1>2

LEMMA FdpPagesAsk ==
  ASSUME NEW r \in AnyRequest, r.op \in DOMAIN IoctlFdpLog(r)
  PROVE  Asks(r, IoctlFdpLog(r)[r.op])
<1> DEFINE s == IoctlFdpLog(r)[r.op]
<1>1. Reads(s, r.len)
  BY LengthPages DEF IoctlFdpLog
<1>2. r.op \notin DOMAIN Structure \cup Counted \cup NoData /\ r.op \notin HasRae
  BY DEF IoctlFdpLog, Structure, Counted, NoData, HasRae
<1> HIDE DEF s
<1>3. Buffer(r) = r.len /\ r.len \in 0 .. r.len
  BY <1>2, Buffers
<1>4. Telemetry(s, s.len) /\ s.len = r.len /\ ~Captures(s)
  BY <1>1 DEF Reads, Telemetry, Captures
<1>5. Asks(r, s)
  BY <1>2, <1>3, <1>4, ReadsAsk
<1> QED
  BY <1>5 DEF s

(* The crate's own reads of a whole structure, in one command.             *)
LEMMA get_log_pageIs ==
  ASSUME NEW lid, NEW nsid, NEW size
  PROVE  LET s == get_log_page(lid, nsid, size) IN
         /\ DOMAIN s = Fields /\ s.lid = U8(lid) /\ s.nsid = nsid
         /\ s.len = size % U32 /\ s.chunk = 0
  BY DEF get_log_page, nvme_get_log, nvme_get_log_args, Fields

LEMMA CratePagesAsk ==
  ASSUME NEW r \in AnyRequest, r.op \in DOMAIN CrateLog(r)
  PROVE  Asks(r, CrateLog(r)[r.op])
<1> DEFINE s == CrateLog(r)[r.op]
<1>1. U8(LID.SMART) # LID.TELEMETRY_HOST /\ U8(LID.FW_SLOT) # LID.TELEMETRY_HOST
  BY DEF U8, LID
<1>2. r.op \in {"smart_log", "fw_slot_log"} => Reads(s, Structure[r.op] % U32)
  BY <1>1, get_log_pageIs
     DEF CrateLog, Structure, smart_log, fw_slot_log, Reads, Telemetry
<1>3. r.op = "error_log" => Reads(s, Buffer(r) % U32)
  <2>1. ASSUME NEW n
        PROVE  Reads(error_log(n), (nvme_error_log_page * n) % U32)
    BY DEF error_log, nvme_get_log, nvme_get_log_args, Reads, Telemetry, Fields,
      LID
  <2> QED
    BY <2>1, Buffers DEF CrateLog
<1>4. r.op \in {"smart_log", "fw_slot_log", "error_log"} /\ r.op \notin HasRae
  BY DEF CrateLog, HasRae
<1>5. r.op \in {"smart_log", "fw_slot_log"} =>
        Buffer(r) = Structure[r.op] /\ Structure[r.op] < U32
  <2>1. r.op \in {"smart_log", "fw_slot_log"} =>
          Buffer(r) = Structure[r.op] /\ Structure[r.op] = 512
    BY Buffers DEF Structure, nvme_smart_log, nvme_firmware_slot
  <2> QED
    BY <2>1, WidthAssumption, U32Assumption
       DEF nvme_streams_directive_status, NVME_STREAM_ID_MAX
<1> HIDE DEF s
<1>6. Reads(s, Buffer(r) % U32)
  BY <1>2, <1>3, <1>4, <1>5
<1>7. s.len \in 0 .. Buffer(r) /\ (s.len = Buffer(r) \/ LengthCut(r))
  <2>1. s.len = Buffer(r) % U32 /\ Buffer(r) \in Nat
    BY <1>6, Buffers DEF Reads, Telemetry
  <2>2. Buffer(r) >= U32 => LengthCut(r)
    BY <1>4, <1>5, Buffers, U32Assumption DEF LengthCut
  <2> QED
    BY <2>1, <2>2, Cut, U32Assumption
<1>8. Telemetry(s, s.len) /\ ~Captures(s)
  BY <1>6 DEF Reads, Telemetry, Captures
<1>9. Asks(r, s)
  BY <1>4, <1>7, <1>8, ReadsAsk
<1> QED
  BY <1>9 DEF s

(***************************************************************************)
(* Identify.                                                               *)
(***************************************************************************)

Identifies(s) == DOMAIN s = DOMAIN nvme_identify_args

LEMMA IdentifyAsks ==
  ASSUME NEW r \in AnyRequest, NEW s, Identifies(s), r.op \in DOMAIN Structure,
         Structure[r.op] = NVME_IDENTIFY_DATA_SIZE
  PROVE  Asks(r, s)
<1>1. ~IsLog(s) /\ "data_len" \notin DOMAIN s
  BY DEF Identifies, nvme_identify_args, IsLog
<1>2. Length(s) = NVME_IDENTIFY_DATA_SIZE
  BY <1>1 DEF Length
<1> QED
  BY <1>1, <1>2, Buffers DEF Asks, Captures, NVME_IDENTIFY_DATA_SIZE

LEMMA CnsNsid ==
  ASSUME NEW cns, NEW nsid
  PROVE  /\ Identifies(nvme_identify_cns_nsid(cns, nsid))
         /\ Identifies(nvme_mi_admin_identify_cns_nsid(cns, nsid))
  BY DEF Identifies, nvme_identify_cns_nsid, nvme_mi_admin_identify_cns_nsid,
    nvme_identify_args

LEMMA CrateIdentifies ==
  ASSUME NEW r, r.op \in DOMAIN CrateIdentify(r)
  PROVE  /\ Identifies(CrateIdentify(r)[r.op])
         /\ r.op \in DOMAIN Structure
         /\ Structure[r.op] = NVME_IDENTIFY_DATA_SIZE
<1>1. Identifies([nvme_identify_args EXCEPT !.cns = CNS.CTRL])
      /\ Identifies([nvme_identify_args EXCEPT !.cns = CNS.NS, !.nsid = r.nsid])
  BY DEF Identifies, nvme_identify_args
<1>2. Identifies(CrateIdentify(r)[r.op])
  BY <1>1 DEF CrateIdentify
<1>3. r.op \in DOMAIN Structure /\ Structure[r.op] = NVME_IDENTIFY_DATA_SIZE
  BY IdentifySizes DEF CrateIdentify, Structure
<1> QED
  BY <1>2, <1>3

LEMMA IoctlIdentifies ==
  ASSUME NEW r, r.op \in DOMAIN IoctlIdentify(r)
  PROVE  /\ Identifies(IoctlIdentify(r)[r.op])
         /\ r.op \in DOMAIN Structure
         /\ Structure[r.op] = NVME_IDENTIFY_DATA_SIZE
<1>1. /\ Identifies(nvme_identify_ctrl)
      /\ Identifies(nvme_identify_ns(r.nsid))
      /\ Identifies(nvme_identify_ns_descs(r.nsid))
      /\ Identifies(nvme_identify_allocated_ns(r.nsid))
      /\ Identifies(nvme_identify_ctrl_list(r.id))
      /\ Identifies(nvme_identify_nsid_ctrl_list(r.nsid, r.id))
      /\ Identifies(nvme_identify_allocated_ns_list(r.nsid))
      /\ Identifies(nvme_identify_active_ns_list(r.nsid))
      /\ Identifies(nvme_identify_primary_ctrl(r.id))
      /\ Identifies(nvme_identify_secondary_ctrl_list(r.id))
  BY CnsNsid DEF Identifies, nvme_identify_args,
    nvme_identify_ctrl, nvme_identify_ns, nvme_identify_ns_descs,
    nvme_identify_allocated_ns, nvme_identify_ctrl_list,
    nvme_identify_nsid_ctrl_list, nvme_identify_allocated_ns_list,
    nvme_identify_active_ns_list, nvme_identify_primary_ctrl,
    nvme_identify_secondary_ctrl_list
<1>2. Identifies(IoctlIdentify(r)[r.op])
  BY <1>1 DEF IoctlIdentify
<1>3. r.op \in DOMAIN Structure /\ Structure[r.op] = NVME_IDENTIFY_DATA_SIZE
  BY IdentifySizes DEF IoctlIdentify, Structure
<1> QED
  BY <1>2, <1>3

LEMMA MiIdentifies ==
  ASSUME NEW r, r.op \in DOMAIN MiIdentify(r)
  PROVE  /\ Identifies(MiIdentify(r)[r.op])
         /\ r.op \in DOMAIN Structure
         /\ Structure[r.op] = NVME_IDENTIFY_DATA_SIZE
<1>1. /\ Identifies(nvme_mi_admin_identify_ctrl)
      /\ Identifies(nvme_mi_admin_identify_ns(r.nsid))
      /\ Identifies(nvme_mi_admin_identify_ns_descs(r.nsid))
      /\ Identifies(nvme_mi_admin_identify_allocated_ns(r.nsid))
      /\ Identifies(nvme_mi_admin_identify_ctrl_list(r.id))
      /\ Identifies(nvme_mi_admin_identify_nsid_ctrl_list(r.nsid, r.id))
      /\ Identifies(nvme_mi_admin_identify_allocated_ns_list(r.nsid))
      /\ Identifies(nvme_mi_admin_identify_active_ns_list(r.nsid))
      /\ Identifies(nvme_mi_admin_identify_primary_ctrl(r.id))
      /\ Identifies(nvme_mi_admin_identify_secondary_ctrl_list(r.id))
  BY CnsNsid DEF Identifies, nvme_identify_args,
    nvme_mi_admin_identify_ctrl, nvme_mi_admin_identify_ns,
    nvme_mi_admin_identify_ns_descs, nvme_mi_admin_identify_allocated_ns,
    nvme_mi_admin_identify_ctrl_list, nvme_mi_admin_identify_nsid_ctrl_list,
    nvme_mi_admin_identify_allocated_ns_list,
    nvme_mi_admin_identify_active_ns_list, nvme_mi_admin_identify_primary_ctrl,
    nvme_mi_admin_identify_secondary_ctrl_list
<1>2. Identifies(MiIdentify(r)[r.op])
  BY <1>1 DEF MiIdentify
<1>3. r.op \in DOMAIN Structure /\ Structure[r.op] = NVME_IDENTIFY_DATA_SIZE
  BY IdentifySizes DEF MiIdentify, Structure
<1> QED
  BY <1>2, <1>3

LEMMA MoreIdentifies ==
  ASSUME NEW r, r.op \in DOMAIN IoctlIdentifyMore(r)
  PROVE  /\ Identifies(IoctlIdentifyMore(r)[r.op])
         /\ r.op \in DOMAIN Structure
         /\ Structure[r.op] = NVME_IDENTIFY_DATA_SIZE
<1>1. /\ Identifies(nvme_identify_nvmset_list(r.id))
      /\ Identifies(nvme_identify_ns_granularity)
      /\ Identifies(nvme_identify_uuid)
      /\ Identifies(nvme_identify_ns_csi(r.nsid, r.lsp, r.csi))
      /\ Identifies(nvme_identify_ctrl_csi(r.csi))
      /\ Identifies(nvme_identify_active_ns_list_csi(r.nsid, r.csi))
      /\ Identifies(nvme_identify_allocated_ns_list_csi(r.nsid, r.csi))
      /\ Identifies(nvme_identify_independent_identify_ns(r.nsid))
      /\ Identifies(nvme_identify_ns_csi_user_data_format(r.id, r.lsp, r.csi))
      /\ Identifies(nvme_identify_iocs_ns_csi_user_data_format(r.id, r.lsp, r.csi))
      /\ Identifies(nvme_identify_domain_list(r.id))
      /\ Identifies(nvme_identify_endurance_group_list(r.id))
      /\ Identifies(nvme_identify_iocs(r.id))
      /\ Identifies(nvme_nvm_identify_ctrl)
      /\ Identifies(nvme_zns_identify_ns(r.nsid))
      /\ Identifies(nvme_zns_identify_ctrl)
  BY CnsNsid DEF Identifies, nvme_identify_args,
    nvme_identify_nvmset_list, nvme_identify_ns_granularity,
    nvme_identify_uuid, nvme_identify_ns_csi, nvme_identify_ctrl_csi,
    nvme_identify_active_ns_list_csi, nvme_identify_allocated_ns_list_csi,
    nvme_identify_independent_identify_ns,
    nvme_identify_ns_csi_user_data_format,
    nvme_identify_iocs_ns_csi_user_data_format, nvme_identify_domain_list,
    nvme_identify_endurance_group_list, nvme_identify_iocs,
    nvme_nvm_identify_ctrl, nvme_zns_identify_ns, nvme_zns_identify_ctrl
<1>2. Identifies(IoctlIdentifyMore(r)[r.op])
  BY <1>1 DEF IoctlIdentifyMore
<1>3. r.op \in DOMAIN Structure /\ Structure[r.op] = NVME_IDENTIFY_DATA_SIZE
  BY IdentifySizes DEF IoctlIdentifyMore, Structure
<1> QED
  BY <1>2, <1>3

(***************************************************************************)
(* Directives, features and placement handles.                             *)
(***************************************************************************)

Carries(s, n) == "data_len" \in DOMAIN s /\ "lid" \notin DOMAIN s /\ s.data_len = n

LEMMA CarriesAsk ==
  ASSUME NEW r \in AnyRequest, NEW s, Carries(s, s.data_len),
         s.data_len \in 0 .. Buffer(r), s.data_len = Buffer(r) \/ LengthCut(r)
  PROVE  Asks(r, s)
<1>1. ~IsLog(s) /\ "data_len" \in DOMAIN s
  BY DEF Carries, IsLog
<1>2. Length(s) = s.data_len
  BY <1>1 DEF Length
<1> QED
  BY <1>1, <1>2 DEF Asks, Captures

LEMMA FeatureCommands ==
  ASSUME NEW r
  PROVE  /\ Carries(nvme_get_features_data(r.id, r.nsid, r.len), r.len)
         /\ Carries(nvme_get_features_simple(r.id, r.nsid), 0)
         /\ Carries(nvme_mi_admin_get_features_data(r.id, r.nsid, r.len), r.len)
         /\ Carries(nvme_mi_admin_get_features_simple(r.id, r.nsid), 0)
  BY DEF Carries, nvme_get_features_data, nvme_get_features_simple,
    nvme_mi_admin_get_features_data, nvme_mi_admin_get_features_simple,
    nvme_get_features_args

LEMMA SetFeatures ==
  ASSUME NEW r
  PROVE  /\ Carries(nvme_set_features_data(r.id, r.nsid, r.lsp, r.flag, r.len), r.len)
         /\ Carries(nvme_set_features_simple(r.id, r.nsid, r.lsp, r.flag), 0)
  BY DEF Carries, nvme_set_features_data, nvme_set_features_simple,
    nvme_set_features_args

LEMMA DirectiveCommands ==
  ASSUME NEW r
  PROVE  /\ Carries(nvme_directive_recv_identify_parameters(r.nsid),
                    nvme_id_directives)
         /\ Carries(nvme_directive_recv_stream_parameters(r.nsid),
                    nvme_streams_directive_params)
         /\ Carries(nvme_directive_recv_stream_status(r.nsid, r.n),
                    (nvme_streams_directive_status + r.n * 2) % U32)
         /\ Carries(nvme_directive_recv_stream_allocate(r.nsid, r.n), 0)
         /\ Carries(nvme_directive_send_stream_release_identifier(r.nsid, r.id), 0)
         /\ Carries(nvme_directive_send_stream_release_resource(r.nsid), 0)
  BY DEF Carries, nvme_directive_args, nvme_directive_recv_identify_parameters,
    nvme_directive_recv_stream_parameters, nvme_directive_recv_stream_status,
    nvme_directive_recv_stream_allocate,
    nvme_directive_send_stream_release_identifier,
    nvme_directive_send_stream_release_resource

LEMMA HandleCommands ==
  ASSUME NEW r
  PROVE  /\ Carries(nvme_fdp_reclaim_unit_handle_status(r.nsid, r.len), r.len)
         /\ Carries(nvme_fdp_reclaim_unit_handle_update(r.nsid, r.n),
                    (r.n * 2) % U32)
  BY DEF Carries, nvme_io_mgmt_args, nvme_fdp_reclaim_unit_handle_status,
    nvme_fdp_reclaim_unit_handle_update

LEMMA OtherAsks ==
  ASSUME NEW r \in AnyRequest, r.op \in DOMAIN IoctlOther(r), ~TooMany(r)
  PROVE  Asks(r, IoctlOther(r)[r.op])
<1> DEFINE s == IoctlOther(r)[r.op]
<1>0. r.n \in Nat /\ r.len \in Nat
  BY DEF AnyRequest
<1>1. CASE r.op \in {"directive_identify", "stream_parameters"}
  <2>1. Carries(s, Structure[r.op]) /\ r.op \in DOMAIN Structure
    BY <1>1, DirectiveCommands DEF IoctlOther, Structure
  <2> HIDE DEF s
  <2>2. s.data_len = Buffer(r) /\ Buffer(r) \in Nat /\ Carries(s, s.data_len)
    BY <2>1, Buffers DEF Carries
  <2>3. Asks(r, s)
    BY <2>2, CarriesAsk
  <2> QED
    BY <2>3 DEF s
<1>2. CASE r.op = "stream_status"
  <2>1. Carries(s, (nvme_streams_directive_status + r.n * 2) % U32)
    BY <1>2, DirectiveCommands DEF IoctlOther
  <2>2. r.n <= NVME_STREAM_ID_MAX
    BY <1>2 DEF TooMany, nvme_directive_recv_stream_status_checks
  <2>3. Buffer(r) = nvme_streams_directive_status + r.n * 2 /\ Buffer(r) \in Nat
    BY <1>0, <1>2, Buffers
  <2>4. Buffer(r) < U32
    BY <1>0, <2>2, <2>3, WidthAssumption, U32Assumption
       DEF nvme_streams_directive_status, NVME_STREAM_ID_MAX
  <2> HIDE DEF s
  <2>5. s.data_len = Buffer(r) /\ Carries(s, s.data_len)
    BY <2>1, <2>3, <2>4, Cut DEF Carries
  <2>6. Asks(r, s)
    BY <2>3, <2>5, CarriesAsk
  <2> QED
    BY <2>6 DEF s
<1>3. CASE r.op \in NoData
  <2>1. Carries(s, 0)
    BY <1>3, DirectiveCommands, FeatureCommands, SetFeatures
       DEF IoctlOther, NoData
  <2> HIDE DEF s
  <2>2. s.data_len = Buffer(r) /\ Buffer(r) = 0 /\ Carries(s, s.data_len)
    BY <1>3, <2>1, Buffers DEF Carries
  <2>3. Asks(r, s)
    BY <2>2, CarriesAsk
  <2> QED
    BY <2>3 DEF s
<1>4. CASE r.op = "fdp_handle_update"
  <2>1. Carries(s, (r.n * 2) % U32)
    BY <1>4, HandleCommands DEF IoctlOther
  <2>2. Buffer(r) = r.n * 2 /\ Buffer(r) \in Nat
    BY <1>0, <1>4, Buffers
  <2>3. Buffer(r) >= U32 => LengthCut(r)
    BY <1>0, <1>4, <2>2 DEF LengthCut
  <2> HIDE DEF s
  <2>4. s.data_len = Buffer(r) % U32 /\ Carries(s, s.data_len)
    BY <2>1, <2>2 DEF Carries
  <2>5. s.data_len \in 0 .. Buffer(r) /\ (s.data_len = Buffer(r) \/ LengthCut(r))
    BY <2>2, <2>3, <2>4, Cut, U32Assumption
  <2>6. Asks(r, s)
    BY <2>4, <2>5, CarriesAsk
  <2> QED
    BY <2>6 DEF s
<1>5. CASE r.op \in {"fdp_handle_status", "set_features_data", "get_features_data"}
  <2>1. Carries(s, r.len)
    BY <1>5, HandleCommands, SetFeatures, FeatureCommands DEF IoctlOther
  <2>2. Buffer(r) = r.len
    <3>1. r.op \notin DOMAIN Structure \cup Counted \cup NoData
      BY <1>5 DEF Structure, Counted, NoData
    <3> QED
      BY <3>1, Buffers
  <2> HIDE DEF s
  <2>3. s.data_len = Buffer(r) /\ Carries(s, s.data_len)
    BY <2>1, <2>2 DEF Carries
  <2>4. Asks(r, s)
    BY <1>0, <2>2, <2>3, CarriesAsk
  <2> QED
    BY <2>4 DEF s
<1> QED
  BY <1>1, <1>2, <1>3, <1>4, <1>5 DEF IoctlOther, NoData

LEMMA MiOtherAsks ==
  ASSUME NEW r \in AnyRequest, r.op \in DOMAIN MiOther(r)
  PROVE  MiOther(r)[r.op] = IoctlOther(r)[r.op] /\ Asks(r, MiOther(r)[r.op])
<1>1. MiOther(r)[r.op] = IoctlOther(r)[r.op]
  BY DEF MiOther, IoctlOther, nvme_mi_admin_get_features_data,
    nvme_get_features_data, nvme_mi_admin_get_features_simple,
    nvme_get_features_simple
<1>2. r.op \in DOMAIN IoctlOther(r) /\ ~TooMany(r)
  BY DEF MiOther, IoctlOther, TooMany
<1> QED
  BY <1>1, <1>2, OtherAsks

(***************************************************************************)
(* The command of a request.                                               *)
(***************************************************************************)

LEMMA SentIs ==
  ASSUME NEW r
  PROVE  /\ r.via = "crate" =>
              /\ r.op \in DOMAIN CrateLog(r) => Sent(r) = CrateLog(r)[r.op]
              /\ r.op \in DOMAIN CrateIdentify(r) => Sent(r) = CrateIdentify(r)[r.op]
         /\ r.via = "mi" =>
              /\ r.op \in DOMAIN MiLog(r) => Sent(r) = MiLog(r)[r.op]
              /\ r.op \in DOMAIN MiIdentify(r) => Sent(r) = MiIdentify(r)[r.op]
              /\ r.op \in DOMAIN MiOther(r) => Sent(r) = MiOther(r)[r.op]
         /\ r.via = "ioctl" =>
              /\ r.op \in DOMAIN IoctlLog(r) => Sent(r) = IoctlLog(r)[r.op]
              /\ r.op \in DOMAIN IoctlFdpLog(r) => Sent(r) = IoctlFdpLog(r)[r.op]
              /\ r.op \in DOMAIN IoctlIdentify(r) => Sent(r) = IoctlIdentify(r)[r.op]
              /\ r.op \in DOMAIN IoctlIdentifyMore(r) =>
                   Sent(r) = IoctlIdentifyMore(r)[r.op]
              /\ r.op \in DOMAIN IoctlOther(r) => Sent(r) = IoctlOther(r)[r.op]
<1>1. DOMAIN CrateLog(r) \cap DOMAIN CrateIdentify(r) = {}
  BY DEF CrateLog, CrateIdentify
<1>2. DOMAIN MiLog(r) \cap (DOMAIN MiIdentify(r) \cup DOMAIN MiOther(r)) = {}
  BY DEF MiLog, MiIdentify, MiOther
<1>3. DOMAIN MiIdentify(r) \cap DOMAIN MiOther(r) = {}
  BY DEF MiIdentify, MiOther
<1>4. DOMAIN IoctlLog(r)
        \cap (DOMAIN IoctlFdpLog(r) \cup DOMAIN IoctlIdentify(r)
              \cup DOMAIN IoctlIdentifyMore(r) \cup DOMAIN IoctlOther(r)) = {}
  BY DEF IoctlLog, IoctlFdpLog, IoctlIdentify, IoctlIdentifyMore, IoctlOther
<1>5. DOMAIN IoctlFdpLog(r)
        \cap (DOMAIN IoctlIdentify(r) \cup DOMAIN IoctlIdentifyMore(r)
              \cup DOMAIN IoctlOther(r)) = {}
  BY DEF IoctlFdpLog, IoctlIdentify, IoctlIdentifyMore, IoctlOther
<1>6. DOMAIN IoctlIdentify(r)
        \cap (DOMAIN IoctlIdentifyMore(r) \cup DOMAIN IoctlOther(r)) = {}
  BY DEF IoctlIdentify, IoctlIdentifyMore, IoctlOther
<1>7. DOMAIN IoctlIdentifyMore(r) \cap DOMAIN IoctlOther(r) = {}
  BY DEF IoctlIdentifyMore, IoctlOther
<1>8. CASE r.via = "crate"
  BY <1>1, <1>8 DEF Sent
<1>9. CASE r.via = "mi"
  BY <1>2, <1>3, <1>9 DEF Sent
<1>10. CASE r.via = "ioctl"
  BY <1>4, <1>5, <1>6, <1>7, <1>10 DEF Sent
<1> QED
  BY <1>8, <1>9, <1>10

LEMMA OfferedIs ==
  ASSUME NEW r \in AnyRequest, r.op \in Offered(r)
  PROVE  \/ /\ r.via = "crate"
            /\ r.op \in DOMAIN CrateLog(r) \/ r.op \in DOMAIN CrateIdentify(r)
         \/ /\ r.via = "mi"
            /\ \/ r.op \in DOMAIN MiLog(r) \/ r.op \in DOMAIN MiIdentify(r)
               \/ r.op \in DOMAIN MiOther(r)
         \/ /\ r.via = "ioctl"
            /\ \/ r.op \in DOMAIN IoctlLog(r) \/ r.op \in DOMAIN IoctlFdpLog(r)
               \/ r.op \in DOMAIN IoctlIdentify(r)
               \/ r.op \in DOMAIN IoctlIdentifyMore(r)
               \/ r.op \in DOMAIN IoctlOther(r)
<1>1. r.via \in {"crate", "ioctl", "mi"}
  BY DEF AnyRequest
<1> QED
  BY <1>1 DEF Offered

LEMMA SentAsks ==
  ASSUME NEW r \in AnyRequest, r.op \in Offered(r), ~TooMany(r)
  PROVE  Asks(r, Sent(r))
<1>1. CASE r.via = "crate"
  BY <1>1, OfferedIs, SentIs, CratePagesAsk, CrateIdentifies, IdentifyAsks
<1>2. CASE r.via = "mi"
  BY <1>2, OfferedIs, SentIs, MiPagesAsk, MiIdentifies, IdentifyAsks, MiOtherAsks
<1>3. CASE r.via = "ioctl"
  BY <1>3, OfferedIs, SentIs, PagesAsk, FdpPagesAsk, IoctlIdentifies,
     MoreIdentifies, IdentifyAsks, OtherAsks
<1> QED
  BY <1>1, <1>2, <1>3, OfferedIs

(* A capture is created by the only command of its call.                   *)
LEMMA CreatesWhole ==
  ASSUME NEW r \in AnyRequest, r.op \in Offered(r), IsCreate(r),
         nvme_telemetry_log <= MiChunk
  PROVE  /\ IsLog(Sent(r)) /\ Length(Sent(r)) = nvme_telemetry_log
         /\ Sent(r).chunk \in Nat /\ Sent(r).chunk >= nvme_telemetry_log
<1>1. /\ r.op \in DOMAIN IoctlLog(r) /\ r.op \in DOMAIN MiLog(r)
      /\ r.op # "boot_partition" /\ r.op \in DOMAIN Structure
      /\ Structure[r.op] = nvme_telemetry_log
  BY DEF IsCreate, IoctlLog, MiLog, Structure
<1>2. r.via # "crate"
  BY OfferedIs DEF IsCreate, CrateLog, CrateIdentify
<1>3. r.via \in {"mi", "ioctl"}
  BY <1>2 DEF AnyRequest
<1> DEFINE s == IoctlLog(r)[r.op]
<1>4. s.chunk = 4096
  <2>1. nvme_get_log_create_telemetry_host_mcda(r.lsp).chunk = 4096
        /\ nvme_get_log_create_telemetry_host.chunk = 4096
    BY DEF nvme_get_log_create_telemetry_host,
      nvme_get_log_create_telemetry_host_mcda, nvme_get_log_args, LogPage,
      nvme_get_log_page, NVME_LOG_PAGE_PDU_SIZE
  <2> QED
    BY <2>1 DEF IsCreate, IoctlLog
<1>5. Telemetry(s, nvme_telemetry_log)
  BY <1>1, IoctlPages
<1> HIDE DEF s
<1>6. PICK n \in {MiChunk, 4096} : Sent(r) = Split(s, n)
  <2>1. CASE r.via = "mi"
    BY <1>1, <2>1, SentIs, MiPages DEF s
  <2>2. CASE r.via = "ioctl"
    <3>1. Sent(r) = s
      BY <1>1, <2>2, SentIs DEF s
    <3>2. s = Split(s, 4096)
      <4>1. \E a : s = Split(a, 4096)
        BY Splits DEF s, IsCreate, IoctlLog, nvme_get_log_create_telemetry_host,
          nvme_get_log_create_telemetry_host_mcda
      <4> QED
        BY <4>1, SplitAgain
    <3> QED
      BY <3>1, <3>2
  <2> QED
    BY <1>3, <2>1, <2>2
<1>7. DOMAIN Split(s, n) = Fields /\ Split(s, n).len = s.len /\ Split(s, n).chunk = n
  BY <1>5 DEF Split, Telemetry, Fields
<1>8. IsLog(Sent(r)) /\ Length(Sent(r)) = nvme_telemetry_log /\ Sent(r).chunk = n
  BY <1>5, <1>6, <1>7 DEF IsLog, Length, Fields, Telemetry
<1> QED
  BY <1>8, LogSizes, MiChunkAssumption

(***************************************************************************)
(* The transports agree.                                                   *)
(***************************************************************************)

(* Two Identify commands with the same fields are one.                     *)
LEMMA SameIdentify ==
  ASSUME NEW a, NEW b,
         a = [x \in DOMAIN nvme_identify_args |-> a[x]],
         b = [x \in DOMAIN nvme_identify_args |-> b[x]],
         a.cns = b.cns, a.csi = b.csi, a.nsid = b.nsid, a.cntid = b.cntid,
         a.cns_specific_id = b.cns_specific_id, a.uuidx = b.uuidx
  PROVE  a = b
<1>1. \A x \in DOMAIN nvme_identify_args : a[x] = b[x]
  BY DEF nvme_identify_args
<1>2. [x \in DOMAIN nvme_identify_args |-> a[x]]
      = [x \in DOMAIN nvme_identify_args |-> b[x]]
  BY <1>1
<1> QED
  BY <1>2

(* Some functions leave the command set out, which is 0 then.              *)
LEMMA WithoutCsi ==
  ASSUME NEW cns, NEW nsid
  PROVE  /\ [nvme_identify_args EXCEPT !.cns = cns, !.nsid = nsid]
            = nvme_identify_cns_nsid(cns, nsid)
         /\ nvme_mi_admin_identify_cns_nsid(cns, nsid)
            = nvme_identify_cns_nsid(cns, nsid)
<1> DEFINE a == [nvme_identify_args EXCEPT !.cns = cns, !.nsid = nsid]
           b == nvme_identify_cns_nsid(cns, nsid)
<1>1. a = [x \in DOMAIN nvme_identify_args |-> a[x]]
  BY DEF nvme_identify_args
<1>2. b = [x \in DOMAIN nvme_identify_args |-> b[x]]
  BY DEF nvme_identify_args, nvme_identify_cns_nsid
<1>3. /\ a.cns = b.cns /\ a.csi = b.csi /\ a.nsid = b.nsid /\ a.cntid = b.cntid
      /\ a.cns_specific_id = b.cns_specific_id /\ a.uuidx = b.uuidx
  BY DEF nvme_identify_args, nvme_identify_cns_nsid, CSI
<1>4. a = b
  <2> HIDE DEF a, b
  <2> QED
    BY <1>1, <1>2, <1>3, SameIdentify
<1> QED
  BY <1>4 DEF nvme_mi_admin_identify_cns_nsid, nvme_identify_cns_nsid

(* The crate identifies as ioctl.h does.                                   *)
LEMMA CrateIdentifyIs ==
  ASSUME NEW r, r.op \in DOMAIN CrateIdentify(r)
  PROVE  /\ r.op \in DOMAIN IoctlIdentify(r)
         /\ CrateIdentify(r)[r.op] = IoctlIdentify(r)[r.op]
<1>1. [nvme_identify_args EXCEPT !.cns = CNS.CTRL] = nvme_identify_ctrl
  <2> DEFINE a == [nvme_identify_args EXCEPT !.cns = CNS.CTRL]
             b == nvme_identify_ctrl
  <2>1. a = [x \in DOMAIN nvme_identify_args |-> a[x]]
    BY DEF nvme_identify_args
  <2>2. b = [x \in DOMAIN nvme_identify_args |-> b[x]]
    BY DEF nvme_identify_args, nvme_identify_cns_nsid, nvme_identify_ctrl
  <2>3. /\ a.cns = b.cns /\ a.csi = b.csi /\ a.nsid = b.nsid /\ a.cntid = b.cntid
        /\ a.cns_specific_id = b.cns_specific_id /\ a.uuidx = b.uuidx
    BY DEF nvme_identify_args, nvme_identify_cns_nsid, nvme_identify_ctrl, CSI,
      CNS, NVME_NSID_NONE
  <2>4. a = b
    <3> HIDE DEF a, b
    <3> QED
      BY <2>1, <2>2, <2>3, SameIdentify
  <2> QED
    BY <2>4
<1>2. [nvme_identify_args EXCEPT !.cns = CNS.NS, !.nsid = r.nsid]
      = nvme_identify_ns(r.nsid)
  BY WithoutCsi DEF nvme_identify_ns
<1> QED
  BY <1>1, <1>2 DEF CrateIdentify, IoctlIdentify

LEMMA MiIdentifyIs ==
  ASSUME NEW r, r.op \in DOMAIN MiIdentify(r)
  PROVE  /\ r.op \in DOMAIN IoctlIdentify(r)
         /\ MiIdentify(r)[r.op] = IoctlIdentify(r)[r.op]
<1>1. /\ nvme_mi_admin_identify_ctrl = nvme_identify_ctrl
      /\ nvme_mi_admin_identify_ns(r.nsid) = nvme_identify_ns(r.nsid)
      /\ nvme_mi_admin_identify_ns_descs(r.nsid) = nvme_identify_ns_descs(r.nsid)
      /\ nvme_mi_admin_identify_allocated_ns(r.nsid)
         = nvme_identify_allocated_ns(r.nsid)
  BY WithoutCsi DEF nvme_mi_admin_identify_ctrl, nvme_identify_ctrl,
    nvme_mi_admin_identify_ns, nvme_identify_ns, nvme_mi_admin_identify_ns_descs,
    nvme_identify_ns_descs, nvme_mi_admin_identify_allocated_ns,
    nvme_identify_allocated_ns
<1>2. /\ nvme_mi_admin_identify_allocated_ns_list(r.nsid)
         = nvme_identify_allocated_ns_list(r.nsid)
      /\ nvme_mi_admin_identify_active_ns_list(r.nsid)
         = nvme_identify_active_ns_list(r.nsid)
  BY WithoutCsi DEF nvme_mi_admin_identify_allocated_ns_list,
    nvme_identify_allocated_ns_list, nvme_mi_admin_identify_active_ns_list,
    nvme_identify_active_ns_list
<1>3. /\ nvme_mi_admin_identify_ctrl_list(r.id) = nvme_identify_ctrl_list(r.id)
      /\ nvme_mi_admin_identify_nsid_ctrl_list(r.nsid, r.id)
         = nvme_identify_nsid_ctrl_list(r.nsid, r.id)
      /\ nvme_mi_admin_identify_primary_ctrl(r.id) = nvme_identify_primary_ctrl(r.id)
      /\ nvme_mi_admin_identify_secondary_ctrl_list(r.id)
         = nvme_identify_secondary_ctrl_list(r.id)
  BY DEF nvme_mi_admin_identify_ctrl_list, nvme_identify_ctrl_list,
    nvme_mi_admin_identify_nsid_ctrl_list, nvme_identify_nsid_ctrl_list,
    nvme_mi_admin_identify_primary_ctrl, nvme_identify_primary_ctrl,
    nvme_mi_admin_identify_secondary_ctrl_list, nvme_identify_secondary_ctrl_list
<1> QED
  BY <1>1, <1>2, <1>3 DEF MiIdentify, IoctlIdentify

(* Two reads that differ in nothing but the pieces are the same on the     *)
(* wire.                                                                   *)
LEMMA SamePage ==
  ASSUME NEW a, NEW b, DOMAIN a = Fields, DOMAIN b = Fields, a.lid = b.lid,
         a.nsid = b.nsid, a.csi = b.csi, a.lsi = b.lsi, a.lsp = b.lsp,
         a.lpo = b.lpo, a.uuidx = b.uuidx, a.rae = b.rae, a.len = b.len
  PROVE  OnWire(a) = OnWire(b)
<1>1. IsLog(a) /\ IsLog(b)
  BY DEF IsLog, Fields
<1>2. \A x \in Fields \ {"chunk"} : a[x] = b[x]
  BY DEF Fields
<1>3. \A x \in Fields : [a EXCEPT !.chunk = 0][x] = [b EXCEPT !.chunk = 0][x]
  BY <1>2 DEF Fields
<1>4. [a EXCEPT !.chunk = 0] = [b EXCEPT !.chunk = 0]
  BY <1>3
<1> QED
  BY <1>1, <1>4 DEF OnWire

LEMMA SplitOnWire ==
  ASSUME NEW s, NEW n, DOMAIN s = Fields
  PROVE  OnWire(Split(s, n)) = OnWire(s)
<1>1. /\ DOMAIN Split(s, n) = Fields /\ Split(s, n).lid = s.lid
      /\ Split(s, n).nsid = s.nsid /\ Split(s, n).csi = s.csi
      /\ Split(s, n).lsi = s.lsi /\ Split(s, n).lsp = s.lsp
      /\ Split(s, n).lpo = s.lpo /\ Split(s, n).uuidx = s.uuidx
      /\ Split(s, n).rae = s.rae /\ Split(s, n).len = s.len
  BY DEF Split, Fields
<1> QED
  BY <1>1, SamePage

LEMMA CratePages ==
  ASSUME NEW r \in AnyRequest, r.op \in DOMAIN CrateLog(r)
  PROVE  OnWire(CrateLog(r)[r.op]) = OnWire(OverIoctl(r))
<1>1. U8(LID.SMART) = LID.SMART /\ U8(LID.FW_SLOT) = LID.FW_SLOT
  BY DEF U8, LID
<1>2. nvme_smart_log % U32 = nvme_smart_log
      /\ nvme_firmware_slot % U32 = nvme_firmware_slot
  <2>1. nvme_smart_log = 512 /\ nvme_firmware_slot = 512
    BY DEF nvme_smart_log, nvme_firmware_slot
  <2> QED
    BY <2>1, Cut, WidthAssumption, U32Assumption
       DEF nvme_streams_directive_status, NVME_STREAM_ID_MAX
<1>3. r.op = "smart_log" => OnWire(CrateLog(r)[r.op]) = OnWire(OverIoctl(r))
  <2> DEFINE a == smart_log
             b == nvme_get_log_smart(NVME_NSID_ALL, FALSE)
  <2>1. /\ DOMAIN a = Fields /\ a.lid = U8(LID.SMART) /\ a.nsid = NVME_NSID_ALL
        /\ a.csi = 0 /\ a.lsi = 0 /\ a.lsp = 0 /\ a.lpo = 0 /\ a.uuidx = 0
        /\ ~a.rae /\ a.len = nvme_smart_log % U32
    BY DEF smart_log, get_log_page, nvme_get_log, nvme_get_log_args, Fields
  <2>2. /\ DOMAIN b = Fields /\ b.lid = LID.SMART /\ b.nsid = NVME_NSID_ALL
        /\ b.csi = 0 /\ b.lsi = 0 /\ b.lsp = 0 /\ b.lpo = 0 /\ b.uuidx = 0
        /\ ~b.rae /\ b.len = nvme_smart_log
    BY DEF nvme_get_log_smart, nvme_get_nsid_log, LogPage, nvme_get_log_page,
      nvme_get_log_args, Fields
  <2>3. a.rae = b.rae
    BY DEF smart_log, get_log_page, nvme_get_log, nvme_get_log_smart,
      nvme_get_nsid_log, LogPage, nvme_get_log_page, nvme_get_log_args
  <2>4. OnWire(a) = OnWire(b)
    <3> HIDE DEF a, b
    <3> QED
      BY <1>1, <1>2, <2>1, <2>2, <2>3, SamePage
  <2> QED
    BY <2>4 DEF CrateLog, OverIoctl
<1>4. r.op = "fw_slot_log" => OnWire(CrateLog(r)[r.op]) = OnWire(OverIoctl(r))
  <2> DEFINE a == fw_slot_log
             b == nvme_get_log_fw_slot(FALSE)
  <2>1. /\ DOMAIN a = Fields /\ a.lid = U8(LID.FW_SLOT) /\ a.nsid = NVME_NSID_ALL
        /\ a.csi = 0 /\ a.lsi = 0 /\ a.lsp = 0 /\ a.lpo = 0 /\ a.uuidx = 0
        /\ a.len = nvme_firmware_slot % U32
    BY DEF fw_slot_log, get_log_page, nvme_get_log, nvme_get_log_args, Fields
  <2>2. /\ DOMAIN b = Fields /\ b.lid = LID.FW_SLOT /\ b.nsid = NVME_NSID_ALL
        /\ b.csi = 0 /\ b.lsi = 0 /\ b.lsp = 0 /\ b.lpo = 0 /\ b.uuidx = 0
        /\ b.len = nvme_firmware_slot
    BY DEF nvme_get_log_fw_slot, nvme_get_nsid_log, LogPage, nvme_get_log_page,
      nvme_get_log_args, Fields
  <2>3. a.rae = b.rae
    BY DEF fw_slot_log, get_log_page, nvme_get_log, nvme_get_log_fw_slot,
      nvme_get_nsid_log, LogPage, nvme_get_log_page, nvme_get_log_args
  <2>4. OnWire(a) = OnWire(b)
    <3> HIDE DEF a, b
    <3> QED
      BY <1>1, <1>2, <2>1, <2>2, <2>3, SamePage
  <2> QED
    BY <2>4 DEF CrateLog, OverIoctl
<1>5. r.op = "error_log" => OnWire(CrateLog(r)[r.op]) = OnWire(OverIoctl(r))
  <2> DEFINE a == error_log(r.n)
             b == nvme_get_log_error(r.n, FALSE)
             len == (nvme_error_log_page * r.n) % U32
  <2>1. /\ DOMAIN a = Fields /\ a.lid = LID.ERROR /\ a.nsid = NVME_NSID_ALL
        /\ a.csi = 0 /\ a.lsi = 0 /\ a.lsp = 0 /\ a.lpo = 0 /\ a.uuidx = 0
        /\ a.len = len
    BY DEF error_log, nvme_get_log, nvme_get_log_args, Fields
  <2>2. /\ DOMAIN b = Fields /\ b.lid = LID.ERROR /\ b.nsid = NVME_NSID_ALL
        /\ b.csi = 0 /\ b.lsi = 0 /\ b.lsp = 0 /\ b.lpo = 0 /\ b.uuidx = 0
        /\ b.len = len
    BY DEF nvme_get_log_error, nvme_get_nsid_log, LogPage, nvme_get_log_page,
      nvme_get_log_args, Fields
  <2>3. a.rae = b.rae
    BY DEF error_log, nvme_get_log, nvme_get_log_error, nvme_get_nsid_log,
      LogPage, nvme_get_log_page, nvme_get_log_args
  <2>4. OnWire(a) = OnWire(b)
    <3> HIDE DEF a, b
    <3> QED
      BY <2>1, <2>2, <2>3, SamePage
  <2>5. r.op = "error_log" => CrateLog(r)[r.op] = a
    BY DEF CrateLog
  <2>6. r.op = "error_log" => OverIoctl(r) = b
    BY DEF OverIoctl
  <2> HIDE DEF a, b
  <2> QED
    BY <2>4, <2>5, <2>6
<1> QED
  BY <1>3, <1>4, <1>5 DEF CrateLog

(* What a request asks for over an ioctl.                                  *)
LEMMA OverIoctlIs ==
  ASSUME NEW r \in AnyRequest, r.op \notin {"smart_log", "fw_slot_log", "error_log"}
  PROVE  /\ r.op \in DOMAIN IoctlLog(r) => OverIoctl(r) = IoctlLog(r)[r.op]
         /\ r.op \in DOMAIN IoctlIdentify(r) => OverIoctl(r) = IoctlIdentify(r)[r.op]
         /\ r.op \in DOMAIN IoctlOther(r) => OverIoctl(r) = IoctlOther(r)[r.op]
         /\ r.via = "ioctl" => OverIoctl(r) = Sent(r)
<1> DEFINE q == [r EXCEPT !.via = "ioctl"]
<1>1. OverIoctl(r) = Sent(q)
  BY DEF OverIoctl
<1>2. /\ q.op = r.op /\ q.rae = r.rae /\ q.nsid = r.nsid /\ q.lsp = r.lsp
      /\ q.offset = r.offset /\ q.len = r.len /\ q.id = r.id /\ q.csi = r.csi
      /\ q.n = r.n /\ q.flag = r.flag /\ q.via = "ioctl"
  BY DEF AnyRequest
<1>3. r.via = "ioctl" => q = r
  BY DEF AnyRequest
<1> HIDE DEF q
<1>4. IoctlLog(q) = IoctlLog(r)
  BY <1>2, Zenon DEF IoctlLog
<1>5. IoctlIdentify(q) = IoctlIdentify(r)
  BY <1>2, Zenon DEF IoctlIdentify
<1>6. IoctlOther(q) = IoctlOther(r)
  BY <1>2, Zenon DEF IoctlOther
<1> QED
  BY <1>1, <1>2, <1>3, <1>4, <1>5, <1>6, SentIs

LEMMA Agreement ==
  ASSUME NEW r \in AnyRequest, r.op \in Offered(r)
  PROVE  \/ OnWire(Sent(r)) = OnWire(OverIoctl(r))
         \/ r.via = "mi" /\ r.op = "boot_partition" /\ r.lsp # NVME_LOG_LSP_NONE
<1>1. CASE r.via = "ioctl"
  <2>1. r.op \notin {"smart_log", "fw_slot_log", "error_log"}
    BY <1>1, OfferedIs DEF IoctlLog, IoctlFdpLog, IoctlIdentify,
      IoctlIdentifyMore, IoctlOther
  <2> QED
    BY <1>1, <2>1, OverIoctlIs
<1>2. CASE r.via = "crate"
  <2>1. CASE r.op \in DOMAIN CrateLog(r)
    BY <1>2, <2>1, SentIs, CratePages
  <2>2. CASE r.op \in DOMAIN CrateIdentify(r)
    <3>1. r.op \notin {"smart_log", "fw_slot_log", "error_log"}
      BY <2>2 DEF CrateIdentify
    <3> QED
      BY <1>2, <2>2, <3>1, SentIs, CrateIdentifyIs, OverIoctlIs
  <2> QED
    BY <1>2, <2>1, <2>2, OfferedIs
<1>3. CASE r.via = "mi"
  <2>1. /\ r.op \notin {"smart_log", "fw_slot_log", "error_log"}
        /\ r.op \in DOMAIN MiLog(r) => r.op \in DOMAIN IoctlLog(r)
        /\ r.op \in DOMAIN MiOther(r) => r.op \in DOMAIN IoctlOther(r)
    BY <1>3, OfferedIs DEF MiLog, MiIdentify, MiOther, IoctlLog, IoctlOther
  <2>2. CASE r.op \in DOMAIN MiLog(r)
    <3> DEFINE s == IoctlLog(r)[r.op]
    <3>1. DOMAIN s = Fields
      BY <2>1, <2>2, PagesAsk DEF Telemetry
    <3>2. Sent(r) = MiLog(r)[r.op] /\ OverIoctl(r) = s
      BY <1>3, <2>1, <2>2, SentIs, OverIoctlIs
    <3>3. \/ \E n \in {MiChunk, 4096} : Sent(r) = Split(s, n)
          \/ r.op = "boot_partition" /\ r.lsp # NVME_LOG_LSP_NONE
      BY <2>2, <3>2, MiPages, MiBootPartition
    <3> HIDE DEF s
    <3> QED
      BY <1>3, <3>1, <3>2, <3>3, SplitOnWire
  <2>3. CASE r.op \in DOMAIN MiIdentify(r)
    BY <1>3, <2>1, <2>3, SentIs, MiIdentifyIs, OverIoctlIs
  <2>4. CASE r.op \in DOMAIN MiOther(r)
    BY <1>3, <2>1, <2>4, SentIs, MiOtherAsks, OverIoctlIs
  <2> QED
    BY <1>3, <2>2, <2>3, <2>4, OfferedIs
<1> QED
  BY <1>1, <1>2, <1>3 DEF AnyRequest

(***************************************************************************)
(* The inductive invariant.                                                *)
(***************************************************************************)

(* A call k in phase p.  It has the command of its request, of which no    *)
(* more than the length was used, and all of it once it returned Ok; one   *)
(* that was refused had no command.  The call that creates a capture does  *)
(* so before anything was read.                                            *)
Sound(p, k) ==
  /\ p = "refused" =>
       k.pos = 0 /\ (k.reply = check_ret(0) => NothingAsked(k.request))
  /\ p \in {"runs", "done"} =>
       /\ k.sent = Sent(k.request) /\ ~TooMany(k.request)
       /\ k.pos <= Length(k.sent)
  /\ p = "done" /\ k.reply = check_ret(0) => k.pos = Length(k.sent)

IInv == TypeOK /\ \A c \in Caller : Sound(phase[c], call[c])

(* Holds where a capture fits one message.                                 *)
CreatesFirst ==
  \A c \in Caller :
    phase[c] = "runs" /\ IsCreate(call[c].request) => call[c].pos = 0

(***************************************************************************)
(* Steps.                                                                  *)
(***************************************************************************)

Phases == {"idle", "runs", "done", "refused"}

CallOf(c, k) ==
  [request : Request[c], sent : {NoCall, Sent(k.request)}, pos : Nat, reply : Reply]

LEMMA RequestIs ==
  ASSUME NEW c \in Caller, NEW r \in Request[c]
  PROVE  r \in AnyRequest /\ r.op \in Offered(r) /\ (r.rae => r.op \in HasRae)
  BY RequestAssumption

LEMMA Replies ==
  /\ check_ret(0) \in Reply /\ check_ret(-1) \in Reply
  /\ check_ret(InvalidField) \in Reply
  /\ check_ret(-1) # check_ret(0) /\ check_ret(InvalidField) # check_ret(0)
  /\ OsError \in Reply /\ InvalidArgument \in Reply
  /\ OsError # check_ret(0) /\ InvalidArgument # check_ret(0)
<1>1. /\ check_ret(0) = [kind |-> "Ok", code |-> 0]
      /\ check_ret(-1) = [kind |-> "Os", code |-> Errno]
      /\ check_ret(InvalidField) = [kind |-> "Nvme", code |-> InvalidField]
  BY DEF check_ret, InvalidField
<1> QED
  BY <1>1 DEF Reply, OsError, InvalidArgument, InvalidField, Errno

LEMMA EarlyReplies ==
  ASSUME NEW r, NEW reply \in EarlyReply(r)
  PROVE  reply \in Reply /\ (reply = check_ret(0) => NothingAsked(r))
  BY Replies DEF EarlyReply

LEMMA NewCallIs ==
  ASSUME NEW c \in Caller, NEW r \in Request[c], NEW sent \in {NoCall, Sent(r)},
         NEW reply \in Reply
  PROVE  LET k == NewCall(r, sent, reply) IN
         /\ k \in CallOf(c, k) /\ k.request = r /\ k.sent = sent /\ k.pos = 0
         /\ k.reply = reply
  BY DEF NewCall, CallOf

(* The running call of c.                                                  *)
LEMMA RunningCall ==
  ASSUME IInv, NEW c \in Caller, phase[c] = "runs"
  PROVE  LET k == call[c] IN
         /\ k \in CallOf(c, k) /\ k.request \in Request[c] /\ k.pos \in Nat
         /\ k.sent = Sent(k.request) /\ ~TooMany(k.request)
         /\ Asks(k.request, k.sent) /\ Length(k.sent) \in Nat
         /\ k.pos <= Length(k.sent)
<1> DEFINE k == call[c]
<1>1. k \in CallOf(c, k) /\ Sound("runs", k)
  BY DEF IInv, TypeOK, CallOf
<1> HIDE DEF k
<1>2. /\ k.request \in Request[c] /\ k.pos \in Nat /\ k.sent = Sent(k.request)
      /\ ~TooMany(k.request) /\ k.pos <= Length(k.sent)
  BY <1>1 DEF CallOf, Sound
<1>3. Asks(k.request, k.sent)
  BY <1>2, RequestIs, SentAsks
<1>4. Buffer(k.request) \in Nat
  BY <1>2, RequestIs, Buffers
<1>5. Length(k.sent) \in Nat
  BY <1>3, <1>4 DEF Asks
<1> QED
  BY <1>1, <1>2, <1>3, <1>5 DEF k

LEMMA NextPosIs ==
  ASSUME NEW k, k.pos \in Nat, Length(k.sent) \in Nat, k.pos <= Length(k.sent)
  PROVE  /\ NextPos(k) \in Nat /\ NextPos(k) <= Length(k.sent)
         /\ NextPos(k) = Length(k.sent) \/ NextPos(k) # k.pos
         /\ IsLog(k.sent) /\ k.pos = 0 /\ k.sent.chunk \in Nat
            /\ k.sent.chunk >= Length(k.sent) => NextPos(k) = Length(k.sent)
  BY DEF NextPos

LEMMA ExecutesIs ==
  ASSUME TypeOK, NEW c \in Caller, Executes(call[c])
  PROVE  LET sent == call[c].sent IN
         /\ events' \subseteq Announced /\ capture' \in 0 .. MaxCapture
         /\ capture' # capture => Captures(sent)
         /\ \A lid \in events \ events' :
              IsLog(sent) /\ ~sent.rae /\ lid = sent.lid
<1> DEFINE sent == call[c].sent
<1>1. PICK takes \in TakesBack(call[c]) :
        events' = IF takes THEN events \ {sent.lid} ELSE events
  BY DEF Executes
<1>2. \/ IsLog(sent) /\ ~sent.rae
      \/ takes = FALSE
  BY Zenon DEF TakesBack
<1>3. \/ events' = events
      \/ IsLog(sent) /\ ~sent.rae /\ events' = events \ {sent.lid}
  BY <1>1, <1>2, Zenon
<1>4. /\ capture' = IF Captures(sent) THEN capture + 1 ELSE capture
      /\ Captures(sent) => capture < MaxCapture
  BY DEF Executes
<1> HIDE DEF sent
<1>5. events' \subseteq Announced /\ capture' \in 0 .. MaxCapture
  BY <1>3, <1>4, BoundsAssumption DEF TypeOK
<1>6. \A lid \in events \ events' : IsLog(sent) /\ ~sent.rae /\ lid = sent.lid
  BY <1>3
<1> QED
  BY <1>4, <1>5, <1>6 DEF sent

LEMMA OneCaller ==
  ASSUME IInv, NEW c \in Caller, NEW p \in Phases, NEW k,
         phase' = [phase EXCEPT ![c] = p], call' = [call EXCEPT ![c] = k],
         p # "idle" => k \in CallOf(c, k) /\ Sound(p, k),
         events' \subseteq Announced, capture' \in 0 .. MaxCapture
  PROVE  IInv'
<1>1. /\ phase \in [Caller -> Phases] /\ DOMAIN call = Caller
      /\ \A d \in Caller : phase[d] # "idle" => call[d] \in CallOf(d, call[d])
      /\ \A d \in Caller : Sound(phase[d], call[d])
  BY DEF IInv, TypeOK, Phases, CallOf
<1>2. /\ phase' \in [Caller -> Phases] /\ DOMAIN call' = Caller
      /\ phase'[c] = p /\ call'[c] = k
      /\ \A d \in Caller \ {c} : phase'[d] = phase[d] /\ call'[d] = call[d]
  BY <1>1
<1>3. \A d \in Caller : phase'[d] # "idle" => call'[d] \in CallOf(d, call'[d])
  BY <1>1, <1>2
<1>4. Sound("idle", k)
  BY DEF Sound
<1>5. \A d \in Caller : Sound(phase'[d], call'[d])
  BY <1>1, <1>2, <1>4
<1> QED
  BY <1>2, <1>3, <1>5 DEF IInv, TypeOK, Phases, CallOf, Sound

LEMMA TransferIs ==
  ASSUME IInv, NEW c \in Caller, Transfer(c)
  PROVE  IInv'
<1> DEFINE k == call[c]
           n == NextPos(k)
           p == IF n = Length(k.sent) THEN "done" ELSE "runs"
           j == [k EXCEPT !.pos = n]
<1>1. /\ phase[c] = "runs" /\ Executes(k) /\ call' = [call EXCEPT ![c].pos = n]
      /\ phase' = IF n = Length(k.sent) THEN [phase EXCEPT ![c] = "done"] ELSE phase
  BY DEF Transfer
<1>2. call' = [call EXCEPT ![c] = j]
  BY <1>1
<1>3. phase' = [phase EXCEPT ![c] = p]
  BY <1>1 DEF IInv, TypeOK
<1>4. events' \subseteq Announced /\ capture' \in 0 .. MaxCapture
  BY <1>1, ExecutesIs DEF IInv
<1>5. /\ k \in CallOf(c, k) /\ k.sent = Sent(k.request) /\ ~TooMany(k.request)
      /\ n \in Nat /\ n <= Length(k.sent)
  BY <1>1, RunningCall, NextPosIs
<1> HIDE DEF k, n
<1>6. /\ j.request = k.request /\ j.sent = k.sent /\ j.pos = n /\ j.reply = k.reply
      /\ j \in CallOf(c, j)
  BY <1>5 DEF CallOf
<1>7. p \in Phases /\ Sound(p, j)
  BY <1>5, <1>6 DEF Sound, Phases
<1> HIDE DEF j, p
<1> QED
  BY <1>2, <1>3, <1>4, <1>6, <1>7, OneCaller DEF k

LEMMA FailsIs ==
  ASSUME IInv, NEW c \in Caller, NEW ret \in {-1, InvalidField}, Fails(c, ret),
         events' \subseteq Announced, capture' \in 0 .. MaxCapture
  PROVE  IInv'
<1> DEFINE k == call[c]
           j == [k EXCEPT !.reply = check_ret(ret)]
<1>1. /\ phase[c] = "runs" /\ phase' = [phase EXCEPT ![c] = "done"]
      /\ call' = [call EXCEPT ![c] = j]
  BY DEF Fails
<1>2. /\ k \in CallOf(c, k) /\ k.sent = Sent(k.request) /\ ~TooMany(k.request)
      /\ k.pos <= Length(k.sent)
  BY <1>1, RunningCall
<1>3. check_ret(ret) \in Reply /\ check_ret(ret) # check_ret(0)
  BY Replies
<1> HIDE DEF k
<1>4. /\ j.request = k.request /\ j.sent = k.sent /\ j.pos = k.pos
      /\ j.reply = check_ret(ret) /\ j \in CallOf(c, j)
  BY <1>2, <1>3 DEF CallOf
<1>5. Sound("done", j) /\ "done" \in Phases
  BY <1>2, <1>3, <1>4 DEF Sound, Phases
<1> HIDE DEF j
<1> QED
  BY <1>1, <1>4, <1>5, OneCaller DEF k

LEMMA Starts ==
  ASSUME IInv, NEW c \in Caller, Refuse(c) \/ Begin(c)
  PROVE  IInv'
<1>1. events' \subseteq Announced /\ capture' \in 0 .. MaxCapture
  BY DEF Refuse, Begin, IInv, TypeOK
<1>2. CASE Refuse(c)
  <2>1. PICK r \in Request[c] : \E reply \in EarlyReply(r) :
          call' = [call EXCEPT ![c] = NewCall(r, NoCall, reply)]
    BY <1>2 DEF Refuse
  <2>2. PICK reply \in EarlyReply(r) :
          call' = [call EXCEPT ![c] = NewCall(r, NoCall, reply)]
    BY <2>1
  <2> DEFINE k == NewCall(r, NoCall, reply)
  <2>3. reply \in Reply /\ (reply = check_ret(0) => NothingAsked(r))
    BY EarlyReplies
  <2>4. k \in CallOf(c, k) /\ k.request = r /\ k.pos = 0 /\ k.reply = reply
    BY <2>3, NewCallIs
  <2> HIDE DEF k
  <2>5. Sound("refused", k) /\ "refused" \in Phases
    BY <2>3, <2>4 DEF Sound, Phases
  <2>6. phase' = [phase EXCEPT ![c] = "refused"]
    BY <1>2 DEF Refuse
  <2>7. call' = [call EXCEPT ![c] = k]
    BY <2>2 DEF k
  <2> QED
    BY <1>1, <2>4, <2>5, <2>6, <2>7, OneCaller
<1>3. CASE Begin(c)
  <2>1. PICK r \in Request[c] :
          /\ ~TooMany(r)
          /\ call' = [call EXCEPT ![c] = NewCall(r, Sent(r), check_ret(0))]
    BY <1>3 DEF Begin
  <2> DEFINE k == NewCall(r, Sent(r), check_ret(0))
  <2>2. k \in CallOf(c, k) /\ k.request = r /\ k.sent = Sent(r) /\ k.pos = 0
    BY Replies, NewCallIs
  <2>3. Length(Sent(r)) \in Nat
    BY <2>1, RequestIs, SentAsks, Buffers DEF Asks
  <2>4. call' = [call EXCEPT ![c] = k]
    BY <2>1
  <2> HIDE DEF k
  <2>5. Sound("runs", k) /\ "runs" \in Phases
    BY <2>1, <2>2, <2>3 DEF Sound, Phases
  <2>6. phase' = [phase EXCEPT ![c] = "runs"]
    BY <1>3 DEF Begin
  <2> QED
    BY <1>1, <2>2, <2>4, <2>5, <2>6, OneCaller
<1> QED
  BY <1>2, <1>3

LEMMA ReturnIs ==
  ASSUME IInv, NEW c \in Caller, Return(c)
  PROVE  IInv'
<1>1. /\ phase' = [phase EXCEPT ![c] = "idle"] /\ call' = [call EXCEPT ![c] = NoCall]
      /\ events' \subseteq Announced /\ capture' \in 0 .. MaxCapture
      /\ "idle" \in Phases
  BY DEF Return, IInv, TypeOK, Phases
<1> QED
  BY <1>1, OneCaller

LEMMA IInvStep ==
  ASSUME IInv, [Next]_vars
  PROVE  IInv'
<1>1. ASSUME NEW c \in Caller, Reject(c)
      PROVE  IInv'
  <2>1. /\ Fails(c, InvalidField)
        /\ events' \subseteq Announced /\ capture' \in 0 .. MaxCapture
    BY <1>1 DEF Reject, IInv, TypeOK
  <2> QED
    BY <2>1, FailsIs
<1>2. ASSUME NEW c \in Caller, TimeOut(c)
      PROVE  IInv'
  <2>1. /\ Fails(c, -1)
        /\ events' \subseteq Announced /\ capture' \in 0 .. MaxCapture
    BY <1>2, ExecutesIs DEF TimeOut, IInv, TypeOK
  <2> QED
    BY <2>1, FailsIs
<1>3. ASSUME NEW lid \in Announced, Change(lid)
      PROVE  IInv'
  BY <1>3 DEF Change, IInv, TypeOK, Sound
<1>4. CASE UNCHANGED vars
  BY <1>4 DEF vars, IInv, TypeOK, Sound
<1> QED
  BY <1>1, <1>2, <1>3, <1>4, Starts, TransferIs, ReturnIs DEF Next

(***************************************************************************)
(* Theorems.                                                               *)
(***************************************************************************)

THEOREM Inductive == Spec => []IInv
<1>1. Init => IInv
  BY BoundsAssumption DEF Init, IInv, TypeOK, Sound
<1>2. IInv /\ [Next]_vars => IInv'
  BY IInvStep
<1> QED
  BY <1>1, <1>2, PTL DEF Spec

(* A call that is not idle has a request and the command of that request,  *)
(* or none; its reply is one of the crate's.                               *)
THEOREM TypeCorrect == Spec => []TypeOK
<1>1. IInv => TypeOK
  BY DEF IInv
<1> QED
  BY <1>1, Inductive, PTL

(* A command moves no more than the caller's buffer holds, and a call that *)
(* returns Ok has moved all of it unless the length was cut: what is left  *)
(* out of a buffer is left out by the 32 bits of a length and by nothing   *)
(* else, whatever sizes and counts are asked for.                          *)
THEOREM BuffersAreSafe == Spec => []BufferSafe
<1>1. IInv => BufferSafe
  <2> SUFFICES ASSUME IInv, NEW c \in Caller, phase[c] # "idle"
               PROVE  LET r == call[c].request IN
                      /\ call[c].pos <= Buffer(r)
                      /\ phase[c] # "runs" /\ call[c].reply = check_ret(0) =>
                           call[c].pos = Buffer(r) \/ LengthCut(r)
    BY DEF BufferSafe
  <2> DEFINE k == call[c]
             r == k.request
             p == phase[c]
  <2>1. p \in {"runs", "done", "refused"} /\ k \in CallOf(c, k) /\ Sound(p, k)
    BY DEF IInv, TypeOK, CallOf
  <2> HIDE DEF k, p
  <2>2. r \in Request[c] /\ k.pos \in Nat
    BY <2>1 DEF CallOf
  <2>3. r \in AnyRequest /\ r.op \in Offered(r) /\ Buffer(r) \in Nat
    BY <2>2, RequestIs, Buffers
  <2>4. CASE p = "refused"
    <3>1. NothingAsked(r) => Buffer(r) = 0
      BY <2>3, Buffers, LogSizes DEF NothingAsked
    <3> QED
      BY <2>1, <2>3, <2>4, <3>1 DEF Sound, k, p
  <2>5. CASE p \in {"runs", "done"}
    <3>1. k.sent = Sent(r) /\ ~TooMany(r) /\ k.pos <= Length(k.sent)
      BY <2>1, <2>5 DEF Sound
    <3>2. /\ Length(k.sent) \in 0 .. Buffer(r)
          /\ Length(k.sent) = Buffer(r) \/ LengthCut(r)
      BY <2>3, <3>1, SentAsks DEF Asks
    <3>3. p # "runs" /\ k.reply = check_ret(0) => k.pos = Length(k.sent)
      BY <2>1, <2>5 DEF Sound
    <3> QED
      BY <2>2, <2>3, <3>1, <3>2, <3>3 DEF k, p
  <2> QED
    BY <2>1, <2>4, <2>5
<1> QED
  BY <1>1, Inductive, PTL

(* The crate, ioctl.h and mi.h put the same command together for the same  *)
(* request, for every argument: no function sets a field that its         *)
(* counterpart leaves out, but for the Boot Partition log.                 *)
THEOREM TransportsDoAgree == Spec => []TransportsAgree
<1>1. IInv => TransportsAgree
  <2> SUFFICES ASSUME IInv, NEW c \in Caller, phase[c] \in {"runs", "done"}
               PROVE  LET r == call[c].request IN
                      \/ OnWire(call[c].sent) = OnWire(OverIoctl(r))
                      \/ r.via = "mi" /\ r.op = "boot_partition"
                         /\ r.lsp # NVME_LOG_LSP_NONE
    BY DEF TransportsAgree
  <2>1. call[c].request \in Request[c]
    BY DEF IInv, TypeOK
  <2>2. call[c].sent = Sent(call[c].request)
    BY DEF IInv, Sound
  <2> QED
    BY <2>1, <2>2, RequestIs, Agreement
<1> QED
  BY <1>1, Inductive, PTL

(* The commands of a read either move on or end it.                        *)
LEMMA Moving ==
  ASSUME IInv, NEW c \in Caller, Transfer(c) \/ TimeOut(c)
  PROVE  phase[c] = "runs" /\ Executes(call[c]) => Moves(c)
<1>1. phase \in [Caller -> Phases] /\ DOMAIN call = Caller
  BY DEF IInv, TypeOK, Phases
<1>2. CASE Transfer(c)
  <2> DEFINE k == call[c]
  <2>1. phase[c] = "runs" /\ call' = [call EXCEPT ![c].pos = NextPos(k)]
        /\ (NextPos(k) = Length(k.sent) => phase' = [phase EXCEPT ![c] = "done"])
    BY <1>2 DEF Transfer
  <2>2. NextPos(k) = Length(k.sent) \/ NextPos(k) # k.pos
    BY <2>1, RunningCall, NextPosIs
  <2>3. CASE NextPos(k) = Length(k.sent)
    BY <1>1, <2>1, <2>3 DEF Moves
  <2>4. CASE NextPos(k) # k.pos
    <3>1. call'[c] = [k EXCEPT !.pos = NextPos(k)]
      BY <1>1, <2>1
    <3>2. k \in CallOf(c, k)
      BY <2>1, RunningCall
    <3>3. call'[c].pos = NextPos(k)
      BY <3>1, <3>2 DEF CallOf
    <3> QED
      BY <2>4, <3>3 DEF Moves
  <2> QED
    BY <2>2, <2>3, <2>4
<1>3. CASE TimeOut(c)
  BY <1>1, <1>3 DEF TimeOut, Fails, Moves
<1> QED
  BY <1>2, <1>3

(* Only a command that the controller executes changes what it keeps for   *)
(* the host, apart from the events it raises.                              *)
LEMMA WhoExecutes ==
  ASSUME IInv, [Next]_vars
  PROVE  \/ capture' = capture /\ events \subseteq events'
         \/ \E c \in Caller : /\ Transfer(c) \/ TimeOut(c)
                              /\ phase[c] = "runs" /\ Executes(call[c])
<1>1. \A c \in Caller : Refuse(c) \/ Begin(c) \/ Reject(c) \/ Return(c) =>
        capture' = capture /\ events' = events
  BY DEF Refuse, Begin, Reject, Return
<1>2. \A c \in Caller : Transfer(c) => phase[c] = "runs" /\ Executes(call[c])
  BY DEF Transfer
<1>3. \A c \in Caller : TimeOut(c) =>
        \/ phase[c] = "runs" /\ Executes(call[c])
        \/ capture' = capture /\ events' = events
  BY DEF TimeOut, Fails
<1>4. \A lid \in Announced :
        Change(lid) => capture' = capture /\ events \subseteq events'
  BY DEF Change
<1> QED
  BY <1>1, <1>2, <1>3, <1>4 DEF Next, vars

(* An event is only taken back by a read of its page that was asked for    *)
(* without rae: every function with that argument passes it on.            *)
THEOREM EventsAreKept == Spec => RetainKept
<1>1. ASSUME IInv, [Next]_vars, NEW lid \in events \ events'
      PROVE  \E c \in Caller : /\ phase[c] = "runs" /\ Moves(c)
                               /\ call[c].sent.lid = lid
                               /\ ~call[c].request.rae
  <2>1. PICK c \in Caller : /\ Transfer(c) \/ TimeOut(c)
                            /\ phase[c] = "runs" /\ Executes(call[c])
    BY <1>1, WhoExecutes
  <2>2. Moves(c)
    BY <1>1, <2>1, Moving
  <2> DEFINE k == call[c]
  <2>3. IsLog(k.sent) /\ ~k.sent.rae /\ lid = k.sent.lid
    BY <1>1, <2>1, ExecutesIs DEF IInv
  <2>4. k.request \in Request[c] /\ Asks(k.request, k.sent)
    BY <1>1, <2>1, RunningCall
  <2>5. ~k.request.rae
    BY <2>3, <2>4, RequestIs DEF Asks
  <2> QED
    BY <2>1, <2>2, <2>3, <2>5
<1>2. IInv /\ [Next]_vars =>
        [\A lid \in events \ events' :
           \E c \in Caller : /\ phase[c] = "runs" /\ Moves(c)
                             /\ call[c].sent.lid = lid
                             /\ ~call[c].request.rae]_vars
  BY <1>1
<1> QED
  BY <1>2, Inductive, PTL DEF Spec, RetainKept

LEMMA CreatesFirstStep ==
  ASSUME nvme_telemetry_log <= MiChunk, IInv, CreatesFirst, [Next]_vars
  PROVE  CreatesFirst'
<1>1. phase \in [Caller -> Phases] /\ DOMAIN call = Caller
  BY DEF IInv, TypeOK, Phases
<1> SUFFICES ASSUME NEW c \in Caller, phase'[c] = "runs", IsCreate(call'[c].request)
             PROVE  call'[c].pos = 0
  BY DEF CreatesFirst
<1>2. CASE phase'[c] = phase[c] /\ call'[c] = call[c]
  BY <1>2 DEF CreatesFirst
<1>3. CASE Begin(c)
  <2>1. PICK r \in Request[c] :
          call' = [call EXCEPT ![c] = NewCall(r, Sent(r), check_ret(0))]
    BY <1>3 DEF Begin
  <2> QED
    BY <1>1, <2>1 DEF NewCall
<1>4. CASE Transfer(c)
  <2> DEFINE k == call[c]
             n == NextPos(k)
  <2>1. /\ phase[c] = "runs" /\ call' = [call EXCEPT ![c].pos = n]
        /\ n = Length(k.sent) => phase' = [phase EXCEPT ![c] = "done"]
    BY <1>4 DEF Transfer
  <2>2. n # Length(k.sent)
    BY <1>1, <2>1
  <2>3. /\ k \in CallOf(c, k) /\ k.request \in Request[c] /\ k.sent = Sent(k.request)
        /\ k.pos \in Nat /\ Length(k.sent) \in Nat /\ k.pos <= Length(k.sent)
    BY <2>1, RunningCall
  <2>4. call'[c] = [k EXCEPT !.pos = n]
    BY <1>1, <2>1
  <2>5. IsCreate(k.request)
    <3> HIDE DEF k, n
    <3>1. [k EXCEPT !.pos = n].request = k.request
      BY <2>3 DEF CallOf
    <3> QED
      BY <2>4, <3>1
  <2>6. k.pos = 0
    BY <2>1, <2>5 DEF CreatesFirst
  <2>7. /\ IsLog(k.sent) /\ k.sent.chunk \in Nat
        /\ k.sent.chunk >= Length(k.sent)
    <3> HIDE DEF k
    <3> QED
      BY <2>3, <2>5, RequestIs, CreatesWhole
  <2>8. n = Length(k.sent)
    BY <2>3, <2>6, <2>7, NextPosIs
  <2> QED
    BY <2>2, <2>8
<1>5. CASE Refuse(c) \/ Reject(c) \/ TimeOut(c) \/ Return(c)
  BY <1>1, <1>5 DEF Refuse, Reject, TimeOut, Fails, Return
<1>6. CASE \E d \in Caller \ {c} :
             Refuse(d) \/ Begin(d) \/ Transfer(d) \/ Reject(d) \/ TimeOut(d) \/ Return(d)
  <2>1. phase'[c] = phase[c] /\ call'[c] = call[c]
    BY <1>1, <1>6 DEF Refuse, Begin, Transfer, Reject, TimeOut, Fails, Return
  <2> QED
    BY <1>2, <2>1
<1>7. CASE (\E lid \in Announced : Change(lid)) \/ UNCHANGED vars
  BY <1>2, <1>7 DEF Change, vars
<1> QED
  BY <1>3, <1>4, <1>5, <1>6, <1>7 DEF Next

(* No function but the two that create a capture asks for one, and they do *)
(* it in their first command, provided that a message of the management    *)
(* interface carries a capture's header: the reads of a capture leave it   *)
(* as it is, and one creation makes no two.                                *)
THEOREM OnlyCreatesCapture ==
  ASSUME nvme_telemetry_log <= MiChunk
  PROVE  Spec => OnlyCreateCaptures
<1>1. Init => CreatesFirst
  BY DEF Init, CreatesFirst
<1>2. IInv /\ CreatesFirst /\ [Next]_vars => CreatesFirst'
  BY CreatesFirstStep
<1>3. ASSUME IInv, CreatesFirst, [Next]_vars, capture' # capture
      PROVE  \E c \in Caller : /\ phase[c] = "runs" /\ Moves(c)
                               /\ IsCreate(call[c].request) /\ call[c].pos = 0
  <2>1. PICK c \in Caller : /\ Transfer(c) \/ TimeOut(c)
                            /\ phase[c] = "runs" /\ Executes(call[c])
    BY <1>3, WhoExecutes
  <2>2. Moves(c)
    BY <1>3, <2>1, Moving
  <2> DEFINE k == call[c]
  <2>3. Captures(k.sent)
    BY <1>3, <2>1, ExecutesIs DEF IInv
  <2>4. IsCreate(k.request)
    BY <1>3, <2>1, <2>3, RunningCall DEF Asks
  <2>5. k.pos = 0
    BY <1>3, <2>1, <2>4 DEF CreatesFirst
  <2> QED
    BY <2>1, <2>2, <2>4, <2>5
<1>4. IInv /\ CreatesFirst /\ [Next]_vars =>
        [capture' # capture =>
           \E c \in Caller : /\ phase[c] = "runs" /\ Moves(c)
                             /\ IsCreate(call[c].request) /\ call[c].pos = 0]_vars
  BY <1>3
<1> QED
  BY <1>1, <1>2, <1>4, Inductive, PTL DEF Spec, OnlyCreateCaptures

(* The two headers create, delete, attach and detach namespaces alike: the *)
(* commands that change what a controller has, which no read sends.        *)
THEOREM NamespaceCommandsAgree ==
  ASSUME NEW nsid, NEW csi
  PROVE  /\ nvme_ns_mgmt_create(csi) = nvme_mi_admin_ns_mgmt_create(csi)
         /\ nvme_ns_mgmt_delete(nsid) = nvme_mi_admin_ns_mgmt_delete(nsid)
         /\ nvme_ns_attach_ctrls(nsid) = nvme_mi_admin_ns_attach_ctrls(nsid)
         /\ nvme_ns_detach_ctrls(nsid) = nvme_mi_admin_ns_detach_ctrls(nsid)
  BY DEF nvme_ns_mgmt_create, nvme_mi_admin_ns_mgmt_create, nvme_ns_mgmt_delete,
    nvme_ns_mgmt_delete_timeout, nvme_mi_admin_ns_mgmt_delete,
    nvme_ns_attach_ctrls, nvme_mi_admin_ns_attach_ctrls, nvme_ns_detach_ctrls,
    nvme_mi_admin_ns_detach_ctrls

=============================================================================
