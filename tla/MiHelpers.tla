----------------------------- MODULE MiHelpers -----------------------------
(***************************************************************************)
(* The inline functions of mi.h that send admin commands to a controller   *)
(* over its management interface instead of an ioctl: the arguments each   *)
(* passes on, in the structures that ioctl.h uses too.  Fields set to a    *)
(* _NONE constant are not repeated.                                        *)
(***************************************************************************)
EXTENDS NvmeTypes

CONSTANT MiChunk   \* what fits in one MI message (external)

ASSUME MiChunkAssumption == MiChunk \in Nat \ {0}

-----------------------------------------------------------------------------
(* Identify.                                                               *)

nvme_mi_admin_identify_cns_nsid(cns, nsid) ==
  [nvme_identify_args EXCEPT !.cns = cns, !.csi = CSI.NVM, !.nsid = nsid]

nvme_mi_admin_identify_ns(nsid) == nvme_mi_admin_identify_cns_nsid(CNS.NS, nsid)

nvme_mi_admin_identify_ns_descs(nsid) ==
  nvme_mi_admin_identify_cns_nsid(CNS.NS_DESC_LIST, nsid)

nvme_mi_admin_identify_allocated_ns(nsid) ==
  nvme_mi_admin_identify_cns_nsid(CNS.ALLOCATED_NS, nsid)

nvme_mi_admin_identify_ctrl ==
  nvme_mi_admin_identify_cns_nsid(CNS.CTRL, NVME_NSID_NONE)

nvme_mi_admin_identify_ctrl_list(cntid) ==
  [nvme_identify_args EXCEPT !.cns = CNS.CTRL_LIST, !.cntid = cntid]

nvme_mi_admin_identify_nsid_ctrl_list(nsid, cntid) ==
  [nvme_identify_args EXCEPT
     !.cns = CNS.NS_CTRL_LIST, !.nsid = nsid, !.cntid = cntid]

nvme_mi_admin_identify_allocated_ns_list(nsid) ==
  [nvme_identify_args EXCEPT !.cns = CNS.ALLOCATED_NS_LIST, !.nsid = nsid]

nvme_mi_admin_identify_active_ns_list(nsid) ==
  [nvme_identify_args EXCEPT !.cns = CNS.NS_ACTIVE_LIST, !.nsid = nsid]

nvme_mi_admin_identify_primary_ctrl(cntid) ==
  [nvme_identify_args EXCEPT !.cns = CNS.PRIMARY_CTRL_CAP, !.cntid = cntid]

nvme_mi_admin_identify_secondary_ctrl_list(cntid) ==
  [nvme_identify_args EXCEPT !.cns = CNS.SECONDARY_CTRL_LIST, !.cntid = cntid]

-----------------------------------------------------------------------------
(* Get Log Page.  Either function may need several commands.               *)

nvme_mi_admin_get_log(args)                == [args EXCEPT !.chunk = MiChunk]
nvme_mi_admin_get_log_page(xfer_len, args) == [args EXCEPT !.chunk = xfer_len]

nvme_mi_admin_get_nsid_log(rae, lid, nsid, len) ==
  nvme_mi_admin_get_log(
    [nvme_get_log_args EXCEPT
       !.lid = lid, !.len = len, !.nsid = nsid, !.rae = rae])

nvme_mi_admin_get_endgid_log(rae, lid, endgid, len) ==
  nvme_mi_admin_get_log(
    [nvme_get_log_args EXCEPT
       !.lid = lid, !.len = len, !.lsi = endgid, !.rae = rae])

nvme_mi_admin_get_log_simple(lid, len) ==
  nvme_mi_admin_get_nsid_log(FALSE, lid, NVME_NSID_ALL, len)

nvme_mi_admin_get_log_supported_log_pages(rae) ==
  nvme_mi_admin_get_nsid_log(rae, LID.SUPPORTED_LOG_PAGES, NVME_NSID_ALL,
                             nvme_supported_log_pages)

nvme_mi_admin_get_log_error(nr_entries, rae) ==
  nvme_mi_admin_get_nsid_log(rae, LID.ERROR, NVME_NSID_ALL,
                             (nvme_error_log_page * nr_entries) % U32)

(* Mutant: the health of the whole controller, whatever was asked for.     *)
nvme_mi_admin_get_log_smart_AllNs(nsid, rae) ==
  nvme_mi_admin_get_nsid_log(rae, LID.SMART, NVME_NSID_ALL, nvme_smart_log)

nvme_mi_admin_get_log_smart(nsid, rae) ==
  nvme_mi_admin_get_nsid_log(rae, LID.SMART, nsid, nvme_smart_log)

nvme_mi_admin_get_log_fw_slot(rae) ==
  nvme_mi_admin_get_nsid_log(rae, LID.FW_SLOT, NVME_NSID_ALL,
                             nvme_firmware_slot)

nvme_mi_admin_get_log_changed_ns_list(rae) ==
  nvme_mi_admin_get_nsid_log(rae, LID.CHANGED_NS, NVME_NSID_ALL, nvme_ns_list)

nvme_mi_admin_get_log_cmd_effects(csi) ==
  nvme_mi_admin_get_log(
    [nvme_get_log_args EXCEPT
       !.lid = LID.CMD_EFFECTS, !.len = nvme_cmd_effects_log,
       !.nsid = NVME_NSID_ALL, !.csi = csi])

nvme_mi_admin_get_log_device_self_test ==
  nvme_mi_admin_get_nsid_log(FALSE, LID.DEVICE_SELF_TEST, NVME_NSID_ALL,
                             nvme_self_test_log)

nvme_mi_admin_get_log_create_telemetry_host_mcda(mcda) ==
  nvme_mi_admin_get_log(
    [nvme_get_log_args EXCEPT
       !.lid = LID.TELEMETRY_HOST, !.len = nvme_telemetry_log,
       !.lsp = U8(mcda * 2 + NVME_LOG_TELEM_HOST_LSP_CREATE)])

nvme_mi_admin_get_log_create_telemetry_host ==
  nvme_mi_admin_get_log_create_telemetry_host_mcda(
    NVME_TELEMETRY_DA_CTRL_DETERMINE)

nvme_mi_admin_get_log_telemetry_host(offset, len) ==
  nvme_mi_admin_get_log(
    [nvme_get_log_args EXCEPT
       !.lpo = offset, !.lid = LID.TELEMETRY_HOST, !.len = len,
       !.lsp = NVME_LOG_TELEM_HOST_LSP_RETAIN])

nvme_mi_admin_get_log_telemetry_ctrl(rae, offset, len) ==
  nvme_mi_admin_get_log(
    [nvme_get_log_args EXCEPT
       !.lpo = offset, !.lid = LID.TELEMETRY_CTRL, !.len = len, !.rae = rae])

nvme_mi_admin_get_log_endurance_group(endgid) ==
  nvme_mi_admin_get_log(
    [nvme_get_log_args EXCEPT
       !.lid = LID.ENDURANCE_GROUP, !.len = nvme_endurance_group_log,
       !.lsi = endgid])

nvme_mi_admin_get_log_predictable_lat_nvmset(nvmsetid) ==
  nvme_mi_admin_get_log(
    [nvme_get_log_args EXCEPT
       !.lid = LID.PREDICTABLE_LAT_NVMSET,
       !.len = nvme_nvmset_predictable_lat_log, !.lsi = nvmsetid])

nvme_mi_admin_get_log_predictable_lat_event(rae, offset, len) ==
  nvme_mi_admin_get_log(
    [nvme_get_log_args EXCEPT
       !.lpo = offset, !.lid = LID.PREDICTABLE_LAT_AGG, !.len = len,
       !.rae = rae])

nvme_mi_admin_get_log_ana(lsp, rae, offset, len) ==
  nvme_mi_admin_get_log(
    [nvme_get_log_args EXCEPT
       !.lpo = offset, !.lid = LID.ANA, !.len = len, !.lsp = U8(lsp),
       !.rae = rae])

nvme_mi_admin_get_log_ana_groups(rae, len) ==
  nvme_mi_admin_get_log_ana(NVME_LOG_ANA_LSP_RGO_GROUPS_ONLY, rae, 0, len)

nvme_mi_admin_get_log_lba_status(rae, offset, len) ==
  nvme_mi_admin_get_log(
    [nvme_get_log_args EXCEPT
       !.lpo = offset, !.lid = LID.LBA_STATUS, !.len = len, !.rae = rae])

nvme_mi_admin_get_log_endurance_grp_evt(rae, offset, len) ==
  nvme_mi_admin_get_log(
    [nvme_get_log_args EXCEPT
       !.lpo = offset, !.lid = LID.ENDURANCE_GRP_EVT, !.len = len,
       !.rae = rae])

nvme_mi_admin_get_log_fid_supported_effects(rae) ==
  nvme_mi_admin_get_nsid_log(rae, LID.FID_SUPPORTED_EFFECTS, NVME_NSID_NONE,
                             nvme_fid_supported_effects_log)

nvme_mi_admin_get_log_mi_cmd_supported_effects(rae) ==
  nvme_mi_admin_get_nsid_log(rae, LID.MI_CMD_SUPPORTED_EFFECTS,
                             NVME_NSID_NONE, nvme_mi_cmd_supported_effects_log)

(* The argument lsp, which names the partition, is not used.               *)
nvme_mi_admin_get_log_boot_partition(rae, lsp, len) ==
  nvme_mi_admin_get_log(
    [nvme_get_log_args EXCEPT
       !.lid = LID.BOOT_PARTITION, !.len = len, !.lsp = NVME_LOG_LSP_NONE,
       !.rae = rae])

nvme_mi_admin_get_log_rotational_media_info(endgid, len) ==
  nvme_mi_admin_get_endgid_log(FALSE, LID.ROTATIONAL_MEDIA_INFO, endgid, len)

nvme_mi_admin_get_log_dispersed_ns_participating_nss(nsid, len) ==
  nvme_mi_admin_get_nsid_log(FALSE, LID.DISPERSED_NS_PARTICIPATING_NSS, nsid,
                             len)

nvme_mi_admin_get_log_mgmt_addr_list(len) ==
  nvme_mi_admin_get_log_simple(LID.MGMT_ADDR_LIST, len)

nvme_mi_admin_get_log_phy_rx_eom(lsp, controller, len) ==
  nvme_mi_admin_get_log(
    [nvme_get_log_args EXCEPT
       !.lid = LID.PHY_RX_EOM, !.len = len, !.lsi = controller, !.lsp = lsp])

nvme_mi_admin_get_log_reachability_groups(rgo, rae, len) ==
  nvme_mi_admin_get_log_page(4096,
    [nvme_get_log_args EXCEPT
       !.lid = LID.REACHABILITY_GROUPS, !.len = len, !.nsid = NVME_NSID_ALL,
       !.lsp = Bit(rgo), !.rae = rae])

nvme_mi_admin_get_log_reachability_associations(rao, rae, len) ==
  nvme_mi_admin_get_log_page(4096,
    [nvme_get_log_args EXCEPT
       !.lid = LID.REACHABILITY_ASSOCIATIONS, !.len = len,
       !.nsid = NVME_NSID_ALL, !.lsp = Bit(rao), !.rae = rae])

nvme_mi_admin_get_log_changed_alloc_ns_list(rae, len) ==
  nvme_mi_admin_get_nsid_log(rae, LID.CHANGED_ALLOC_NS_LIST, NVME_NSID_ALL, len)

nvme_mi_admin_get_log_discovery(rae, offset, len) ==
  nvme_mi_admin_get_log(
    [nvme_get_log_args EXCEPT
       !.lpo = offset, !.lid = LID.DISCOVER, !.len = len, !.rae = rae])

nvme_mi_admin_get_log_host_discover(allhoste, rae, len) ==
  nvme_mi_admin_get_log_page(4096,
    [nvme_get_log_args EXCEPT
       !.lid = LID.HOST_DISCOVER, !.len = len, !.nsid = NVME_NSID_ALL,
       !.lsp = Bit(allhoste), !.rae = rae])

nvme_mi_admin_get_log_ave_discover(rae, len) ==
  nvme_mi_admin_get_nsid_log(rae, LID.AVE_DISCOVER, NVME_NSID_ALL, len)

nvme_mi_admin_get_log_pull_model_ddc_req(rae, len) ==
  nvme_mi_admin_get_nsid_log(rae, LID.PULL_MODEL_DDC_REQ, NVME_NSID_ALL, len)

nvme_mi_admin_get_log_media_unit_stat(domid) ==
  nvme_mi_admin_get_log(
    [nvme_get_log_args EXCEPT
       !.lid = LID.MEDIA_UNIT_STATUS, !.len = nvme_media_unit_stat_log,
       !.lsi = domid])

nvme_mi_admin_get_log_support_cap_config_list(domid) ==
  nvme_mi_admin_get_log(
    [nvme_get_log_args EXCEPT
       !.lid = LID.SUPPORTED_CAP_CONFIG_LIST,
       !.len = nvme_supported_cap_config_list_log, !.lsi = domid])

nvme_mi_admin_get_log_reservation(rae) ==
  nvme_mi_admin_get_nsid_log(rae, LID.RESERVATION, NVME_NSID_ALL,
                             nvme_resv_notification_log)

nvme_mi_admin_get_log_sanitize(rae) ==
  nvme_mi_admin_get_nsid_log(rae, LID.SANITIZE, NVME_NSID_ALL,
                             nvme_sanitize_log_page)

nvme_mi_admin_get_log_zns_changed_zones(nsid, rae) ==
  nvme_mi_admin_get_log(
    [nvme_get_log_args EXCEPT
       !.lid = LID.ZNS_CHANGED_ZONES, !.len = nvme_zns_changed_zone_log,
       !.nsid = nsid, !.csi = CSI.ZNS, !.rae = rae])

nvme_mi_admin_get_log_persistent_event(action, size) ==
  nvme_mi_admin_get_log(
    [nvme_get_log_args EXCEPT
       !.lid = LID.PERSISTENT_EVENT, !.len = size, !.nsid = NVME_NSID_ALL,
       !.lsp = U8(action)])

nvme_mi_admin_get_log_lockdown(cnscp) ==
  nvme_mi_admin_get_log(
    [nvme_get_log_args EXCEPT
       !.lid = LID.CMD_AND_FEAT_LOCKDOWN, !.len = nvme_lockdown_log,
       !.nsid = NVME_NSID_ALL, !.lsp = cnscp])

-----------------------------------------------------------------------------
(* Features and namespaces.                                                *)

nvme_mi_admin_get_features_data(fid, nsid, data_len) ==
  [nvme_get_features_args EXCEPT
     !.fid = U8(fid), !.nsid = nsid, !.sel = NVME_GET_FEATURES_SEL_CURRENT,
     !.data_len = data_len]

nvme_mi_admin_get_features_simple(fid, nsid) ==
  nvme_mi_admin_get_features_data(fid, nsid, 0)

nvme_mi_admin_ns_mgmt_create(csi) ==
  [nvme_ns_mgmt_args EXCEPT
     !.nsid = NVME_NSID_NONE, !.sel = NVME_NS_MGMT_SEL.CREATE, !.csi = csi]

nvme_mi_admin_ns_mgmt_delete(nsid) ==
  [nvme_ns_mgmt_args EXCEPT !.nsid = nsid, !.sel = NVME_NS_MGMT_SEL.DELETE]

nvme_mi_admin_ns_attach_ctrls(nsid) ==
  [nvme_ns_attach_args EXCEPT
     !.nsid = nsid, !.sel = NVME_NS_ATTACH_SEL.CTRL_ATTACH]

nvme_mi_admin_ns_detach_ctrls(nsid) ==
  [nvme_ns_attach_args EXCEPT
     !.nsid = nsid, !.sel = NVME_NS_ATTACH_SEL.CTRL_DEATTACH]

-----------------------------------------------------------------------------
(* Configuration of the management endpoint: what an MI Configuration Get  *)
(* or Set sends, and what is made of the three bytes a Get answers.        *)

NVME_MI_CONFIG == [SMBUS_FREQ |-> 1, HEALTH_STATUS_CHANGE |-> 2, MCTP_MTU |-> 3, AE |-> 4]

(* The first doubleword: the configuration, its own field, and the port.   *)
ConfigDw0(port, field, id) == port * 16777216 + field * 256 + id

nvme_mi_mi_config_get_smbus_freq(port, tmp) ==
  [dw0 |-> ConfigDw0(port, 0, NVME_MI_CONFIG.SMBUS_FREQ), dw1 |-> 0, freq |-> tmp % 4]

nvme_mi_mi_config_set_smbus_freq(port, freq) ==
  [dw0 |-> ConfigDw0(port, freq % 4, NVME_MI_CONFIG.SMBUS_FREQ), dw1 |-> 0]

nvme_mi_mi_config_set_health_status_change(mask) ==
  [dw0 |-> NVME_MI_CONFIG.HEALTH_STATUS_CHANGE, dw1 |-> mask]

nvme_mi_mi_config_get_mctp_mtu(port, tmp) ==
  [dw0 |-> ConfigDw0(port, 0, NVME_MI_CONFIG.MCTP_MTU), dw1 |-> 0, mtu |-> U16(tmp)]

nvme_mi_mi_config_set_mctp_mtu(port, mtu) ==
  [dw0 |-> ConfigDw0(port, 0, NVME_MI_CONFIG.MCTP_MTU), dw1 |-> mtu]

(* An acknowledgement sets no event: a list of nothing but its header, of  *)
(* five bytes, for no kind of function and without delays.                 *)
nvme_mi_aem_enable_list_header == [aeelhl |-> 5, aeelver |-> 0, aeetl |-> 5, numaee |-> 0]

nvme_mi_aem_ack ==
  [id |-> NVME_MI_CONFIG.AE, functions |-> {}, aemd |-> 0, aerd |-> 0,
   list |-> nvme_mi_aem_enable_list_header]
=============================================================================
