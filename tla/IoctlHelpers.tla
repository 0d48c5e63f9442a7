--------------------------- MODULE IoctlHelpers ---------------------------
(***************************************************************************)
(* The inline functions of ioctl.h: the arguments each passes to the       *)
(* function of libnvme that it calls.  A field that a function sets to a   *)
(* _NONE constant is not repeated here: those constants are 0, which is    *)
(* what nvme_..._args holds.  Buffers are given by the caller.             *)
(***************************************************************************)
EXTENDS NvmeTypes

NVME_LOG_PAGE_PDU_SIZE == 4096

-----------------------------------------------------------------------------
(* Identify.  Every function ends in nvme_identify.                        *)

nvme_identify_cns_nsid(cns, nsid) ==
  [nvme_identify_args EXCEPT !.cns = cns, !.csi = CSI.NVM, !.nsid = nsid]

nvme_identify_ctrl == nvme_identify_cns_nsid(CNS.CTRL, NVME_NSID_NONE)

nvme_identify_ns(nsid) == nvme_identify_cns_nsid(CNS.NS, nsid)

nvme_identify_allocated_ns(nsid) ==
  nvme_identify_cns_nsid(CNS.ALLOCATED_NS, nsid)

nvme_identify_active_ns_list(nsid) ==
  nvme_identify_cns_nsid(CNS.NS_ACTIVE_LIST, nsid)

nvme_identify_allocated_ns_list(nsid) ==
  nvme_identify_cns_nsid(CNS.ALLOCATED_NS_LIST, nsid)

nvme_identify_ctrl_list(cntid) ==
  [nvme_identify_args EXCEPT !.cns = CNS.CTRL_LIST, !.cntid = cntid]

nvme_identify_nsid_ctrl_list(nsid, cntid) ==
  [nvme_identify_args EXCEPT
     !.cns = CNS.NS_CTRL_LIST, !.nsid = nsid, !.cntid = cntid]

nvme_identify_ns_descs(nsid) == nvme_identify_cns_nsid(CNS.NS_DESC_LIST, nsid)

nvme_identify_nvmset_list(nvmsetid) ==
  [nvme_identify_args EXCEPT
     !.cns = CNS.NVMSET_LIST, !.cns_specific_id = nvmsetid]

nvme_identify_primary_ctrl(cntid) ==
  [nvme_identify_args EXCEPT !.cns = CNS.PRIMARY_CTRL_CAP, !.cntid = cntid]

nvme_identify_secondary_ctrl_list(cntid) ==
  [nvme_identify_args EXCEPT !.cns = CNS.SECONDARY_CTRL_LIST, !.cntid = cntid]

nvme_identify_ns_granularity ==
  nvme_identify_cns_nsid(CNS.NS_GRANULARITY, NVME_NSID_NONE)

nvme_identify_uuid == nvme_identify_cns_nsid(CNS.UUID_LIST, NVME_NSID_NONE)

nvme_identify_ns_csi(nsid, uuidx, csi) ==
  [nvme_identify_args EXCEPT
     !.cns = CNS.CSI_NS, !.csi = csi, !.nsid = nsid, !.uuidx = uuidx]

nvme_identify_ctrl_csi(csi) ==
  [nvme_identify_args EXCEPT !.cns = CNS.CSI_CTRL, !.csi = csi]

nvme_identify_active_ns_list_csi(nsid, csi) ==
  [nvme_identify_args EXCEPT
     !.cns = CNS.CSI_NS_ACTIVE_LIST, !.csi = csi, !.nsid = nsid]

nvme_identify_allocated_ns_list_csi(nsid, csi) ==
  [nvme_identify_args EXCEPT
     !.cns = CNS.CSI_ALLOCATED_NS_LIST, !.csi = csi, !.nsid = nsid]

nvme_identify_independent_identify_ns(nsid) ==
  nvme_identify_cns_nsid(CNS.CSI_INDEPENDENT_ID_NS, nsid)

nvme_identify_ns_csi_user_data_format(user_data_format, uuidx, csi) ==
  [nvme_identify_args EXCEPT
     !.cns = CNS.NS_USER_DATA_FORMAT, !.csi = csi,
     !.cns_specific_id = user_data_format, !.uuidx = uuidx]

nvme_identify_iocs_ns_csi_user_data_format(user_data_format, uuidx, csi) ==
  [nvme_identify_args EXCEPT
     !.cns = CNS.CSI_NS_USER_DATA_FORMAT, !.csi = csi,
     !.cns_specific_id = user_data_format, !.uuidx = uuidx]

nvme_nvm_identify_ctrl == nvme_identify_ctrl_csi(CSI.NVM)

nvme_identify_domain_list(domid) ==
  [nvme_identify_args EXCEPT !.cns = CNS.DOMAIN_LIST, !.cns_specific_id = domid]

nvme_identify_endurance_group_list(endgrp_id) ==
  [nvme_identify_args EXCEPT
     !.cns = CNS.ENDURANCE_GROUP_ID, !.cns_specific_id = endgrp_id]

nvme_identify_iocs(cntlid) ==
  [nvme_identify_args EXCEPT !.cns = CNS.COMMAND_SET_STRUCTURE, !.cntid = cntlid]

nvme_zns_identify_ns(nsid) ==
  nvme_identify_ns_csi(nsid, NVME_UUID_NONE, CSI.ZNS)

nvme_zns_identify_ctrl == nvme_identify_ctrl_csi(CSI.ZNS)

-----------------------------------------------------------------------------
(* Get Log Page.  nvme_get_log is one command, nvme_get_log_page one for   *)
(* each xfer_len bytes.                                                    *)

nvme_get_log(args)                 == args
nvme_get_log_page(xfer_len, args)  == [args EXCEPT !.chunk = xfer_len]

LogPage(args) == nvme_get_log_page(NVME_LOG_PAGE_PDU_SIZE, args)

nvme_get_nsid_log(rae, lid, nsid, len) ==
  LogPage([nvme_get_log_args EXCEPT
             !.lid = lid, !.len = len, !.nsid = nsid, !.rae = rae])

nvme_get_endgid_log(rae, lid, endgid, len) ==
  LogPage([nvme_get_log_args EXCEPT
             !.lid = lid, !.len = len, !.lsi = endgid, !.rae = rae])

nvme_get_log_simple(lid, len) == nvme_get_nsid_log(FALSE, lid, NVME_NSID_ALL, len)

nvme_get_log_supported_log_pages(rae) ==
  nvme_get_nsid_log(rae, LID.SUPPORTED_LOG_PAGES, NVME_NSID_ALL,
                    nvme_supported_log_pages)

(* The product is a size_t; the parameter it is passed to has 32 bits.     *)
nvme_get_log_error(nr_entries, rae) ==
  nvme_get_nsid_log(rae, LID.ERROR, NVME_NSID_ALL,
                    (nvme_error_log_page * nr_entries) % U32)

(* Mutant: the argument rae is not passed on.                              *)
nvme_get_log_smart_DropsRae(nsid, rae) ==
  nvme_get_nsid_log(FALSE, LID.SMART, nsid, nvme_smart_log)

nvme_get_log_smart(nsid, rae) ==
  nvme_get_nsid_log(rae, LID.SMART, nsid, nvme_smart_log)

nvme_get_log_fw_slot(rae) ==
  nvme_get_nsid_log(rae, LID.FW_SLOT, NVME_NSID_ALL, nvme_firmware_slot)

nvme_get_log_changed_ns_list(rae) ==
  nvme_get_nsid_log(rae, LID.CHANGED_NS, NVME_NSID_ALL, nvme_ns_list)

nvme_get_log_cmd_effects(csi) ==
  LogPage([nvme_get_log_args EXCEPT
             !.lid = LID.CMD_EFFECTS, !.len = nvme_cmd_effects_log,
             !.nsid = NVME_NSID_ALL, !.csi = csi])

nvme_get_log_device_self_test ==
  nvme_get_nsid_log(FALSE, LID.DEVICE_SELF_TEST, NVME_NSID_ALL,
                    nvme_self_test_log)

nvme_get_log_create_telemetry_host_mcda(mcda) ==
  LogPage([nvme_get_log_args EXCEPT
             !.lid = LID.TELEMETRY_HOST, !.len = nvme_telemetry_log,
             !.lsp = U8(mcda * 2 + NVME_LOG_TELEM_HOST_LSP_CREATE)])

nvme_get_log_create_telemetry_host ==
  nvme_get_log_create_telemetry_host_mcda(NVME_TELEMETRY_DA_CTRL_DETERMINE)

(* Mutant: asks for a new capture with every read.                         *)
nvme_get_log_telemetry_host_Creates(offset, len) ==
  LogPage([nvme_get_log_args EXCEPT
             !.lpo = offset, !.lid = LID.TELEMETRY_HOST, !.len = len,
             !.lsp = NVME_LOG_TELEM_HOST_LSP_CREATE])

nvme_get_log_telemetry_host(offset, len) ==
  LogPage([nvme_get_log_args EXCEPT
             !.lpo = offset, !.lid = LID.TELEMETRY_HOST, !.len = len,
             !.lsp = NVME_LOG_TELEM_HOST_LSP_RETAIN])

nvme_get_log_telemetry_ctrl(rae, offset, len) ==
  LogPage([nvme_get_log_args EXCEPT
             !.lpo = offset, !.lid = LID.TELEMETRY_CTRL, !.len = len,
             !.rae = rae])

nvme_get_log_endurance_group(endgid) ==
  LogPage([nvme_get_log_args EXCEPT
             !.lid = LID.ENDURANCE_GROUP, !.len = nvme_endurance_group_log,
             !.lsi = endgid])

nvme_get_log_predictable_lat_nvmset(nvmsetid) ==
  LogPage([nvme_get_log_args EXCEPT
             !.lid = LID.PREDICTABLE_LAT_NVMSET,
             !.len = nvme_nvmset_predictable_lat_log, !.lsi = nvmsetid])

nvme_get_log_predictable_lat_event(rae, offset, len) ==
  LogPage([nvme_get_log_args EXCEPT
             !.lpo = offset, !.lid = LID.PREDICTABLE_LAT_AGG, !.len = len,
             !.rae = rae])

nvme_get_log_fdp_configurations(egid, offset, len) ==
  nvme_get_log([nvme_get_log_args EXCEPT
                  !.lpo = offset, !.lid = LID.FDP_CONFIGS, !.len = len,
                  !.lsi = egid])

nvme_get_log_reclaim_unit_handle_usage(egid, offset, len) ==
  nvme_get_log([nvme_get_log_args EXCEPT
                  !.lpo = offset, !.lid = LID.FDP_RUH_USAGE, !.len = len,
                  !.lsi = egid])

nvme_get_log_fdp_stats(egid, offset, len) ==
  nvme_get_log([nvme_get_log_args EXCEPT
                  !.lpo = offset, !.lid = LID.FDP_STATS, !.len = len,
                  !.lsi = egid])

nvme_get_log_fdp_events(egid, host_events, offset, len) ==
  nvme_get_log([nvme_get_log_args EXCEPT
                  !.lpo = offset, !.lid = LID.FDP_EVENTS, !.len = len,
                  !.lsi = egid, !.lsp = Bit(host_events)])

nvme_get_log_ana(lsp, rae, offset, len) ==
  LogPage([nvme_get_log_args EXCEPT
             !.lpo = offset, !.lid = LID.ANA, !.len = len, !.lsp = U8(lsp),
             !.rae = rae])

nvme_get_log_ana_groups(rae, len) ==
  nvme_get_log_ana(NVME_LOG_ANA_LSP_RGO_GROUPS_ONLY, rae, 0, len)

nvme_get_log_lba_status(rae, offset, len) ==
  LogPage([nvme_get_log_args EXCEPT
             !.lpo = offset, !.lid = LID.LBA_STATUS, !.len = len, !.rae = rae])

nvme_get_log_endurance_grp_evt(rae, offset, len) ==
  LogPage([nvme_get_log_args EXCEPT
             !.lpo = offset, !.lid = LID.ENDURANCE_GRP_EVT, !.len = len,
             !.rae = rae])

nvme_get_log_fid_supported_effects(rae) ==
  nvme_get_nsid_log(rae, LID.FID_SUPPORTED_EFFECTS, NVME_NSID_NONE,
                    nvme_fid_supported_effects_log)

nvme_get_log_mi_cmd_supported_effects(rae) ==
  nvme_get_nsid_log(rae, LID.MI_CMD_SUPPORTED_EFFECTS, NVME_NSID_NONE,
                    nvme_mi_cmd_supported_effects_log)

nvme_get_log_boot_partition(rae, lsp, len) ==
  LogPage([nvme_get_log_args EXCEPT
             !.lid = LID.BOOT_PARTITION, !.len = len, !.lsp = lsp, !.rae = rae])

nvme_get_log_rotational_media_info(endgid, len) ==
  nvme_get_endgid_log(FALSE, LID.ROTATIONAL_MEDIA_INFO, endgid, len)

nvme_get_log_dispersed_ns_participating_nss(nsid, len) ==
  nvme_get_nsid_log(FALSE, LID.DISPERSED_NS_PARTICIPATING_NSS, nsid, len)

nvme_get_log_mgmt_addr_list(len) == nvme_get_log_simple(LID.MGMT_ADDR_LIST, len)

nvme_get_log_phy_rx_eom(lsp, controller, len) ==
  LogPage([nvme_get_log_args EXCEPT
             !.lid = LID.PHY_RX_EOM, !.len = len, !.lsi = controller,
             !.lsp = lsp])

nvme_get_log_reachability_groups(rgo, rae, len) ==
  LogPage([nvme_get_log_args EXCEPT
             !.lid = LID.REACHABILITY_GROUPS, !.len = len,
             !.nsid = NVME_NSID_ALL, !.lsp = Bit(rgo), !.rae = rae])

nvme_get_log_reachability_associations(rao, rae, len) ==
  LogPage([nvme_get_log_args EXCEPT
             !.lid = LID.REACHABILITY_ASSOCIATIONS, !.len = len,
             !.nsid = NVME_NSID_ALL, !.lsp = Bit(rao), !.rae = rae])

nvme_get_log_changed_alloc_ns_list(rae, len) ==
  nvme_get_nsid_log(rae, LID.CHANGED_ALLOC_NS_LIST, NVME_NSID_ALL, len)

nvme_get_log_discovery(rae, offset, len) ==
  LogPage([nvme_get_log_args EXCEPT
             !.lpo = offset, !.lid = LID.DISCOVER, !.len = len, !.rae = rae])

nvme_get_log_host_discover(allhoste, rae, len) ==
  LogPage([nvme_get_log_args EXCEPT
             !.lid = LID.HOST_DISCOVER, !.len = len, !.nsid = NVME_NSID_ALL,
             !.lsp = Bit(allhoste), !.rae = rae])

nvme_get_log_ave_discover(rae, len) ==
  nvme_get_nsid_log(rae, LID.AVE_DISCOVER, NVME_NSID_ALL, len)

nvme_get_log_pull_model_ddc_req(rae, len) ==
  nvme_get_nsid_log(rae, LID.PULL_MODEL_DDC_REQ, NVME_NSID_ALL, len)

nvme_get_log_media_unit_stat(domid) ==
  LogPage([nvme_get_log_args EXCEPT
             !.lid = LID.MEDIA_UNIT_STATUS, !.len = nvme_media_unit_stat_log,
             !.lsi = domid])

nvme_get_log_support_cap_config_list(domid) ==
  LogPage([nvme_get_log_args EXCEPT
             !.lid = LID.SUPPORTED_CAP_CONFIG_LIST,
             !.len = nvme_supported_cap_config_list_log, !.lsi = domid])

nvme_get_log_reservation(rae) ==
  nvme_get_nsid_log(rae, LID.RESERVATION, NVME_NSID_ALL,
                    nvme_resv_notification_log)

nvme_get_log_sanitize(rae) ==
  nvme_get_nsid_log(rae, LID.SANITIZE, NVME_NSID_ALL, nvme_sanitize_log_page)

nvme_get_log_zns_changed_zones(nsid, rae) ==
  LogPage([nvme_get_log_args EXCEPT
             !.lid = LID.ZNS_CHANGED_ZONES, !.len = nvme_zns_changed_zone_log,
             !.nsid = nsid, !.csi = CSI.ZNS, !.rae = rae])

nvme_get_log_persistent_event(action, size) ==
  LogPage([nvme_get_log_args EXCEPT
             !.lid = LID.PERSISTENT_EVENT, !.len = size,
             !.nsid = NVME_NSID_ALL, !.lsp = U8(action)])

nvme_get_log_lockdown(cnscp) ==
  LogPage([nvme_get_log_args EXCEPT
             !.lid = LID.CMD_AND_FEAT_LOCKDOWN, !.len = nvme_lockdown_log,
             !.nsid = NVME_NSID_ALL, !.lsp = cnscp])

-----------------------------------------------------------------------------
(* Features, namespaces, directives, FDP and zones.                        *)

nvme_set_features_data(fid, nsid, cdw11, save, data_len) ==
  [nvme_set_features_args EXCEPT
     !.fid = fid, !.nsid = nsid, !.cdw11 = cdw11, !.save = save,
     !.data_len = data_len]

nvme_set_features_simple(fid, nsid, cdw11, save) ==
  nvme_set_features_data(fid, nsid, cdw11, save, 0)

nvme_get_features_data(fid, nsid, data_len) ==
  [nvme_get_features_args EXCEPT
     !.fid = U8(fid), !.nsid = nsid, !.sel = NVME_GET_FEATURES_SEL_CURRENT,
     !.data_len = data_len]

nvme_get_features_simple(fid, nsid) == nvme_get_features_data(fid, nsid, 0)

nvme_ns_mgmt_create(csi) ==
  [nvme_ns_mgmt_args EXCEPT
     !.nsid = NVME_NSID_NONE, !.sel = NVME_NS_MGMT_SEL.CREATE, !.csi = csi]

nvme_ns_mgmt_delete_timeout(nsid) ==
  [nvme_ns_mgmt_args EXCEPT !.nsid = nsid, !.sel = NVME_NS_MGMT_SEL.DELETE]

nvme_ns_mgmt_delete(nsid) == nvme_ns_mgmt_delete_timeout(nsid)

nvme_ns_attach_ctrls(nsid) ==
  [nvme_ns_attach_args EXCEPT
     !.nsid = nsid, !.sel = NVME_NS_ATTACH_SEL.CTRL_ATTACH]

nvme_ns_detach_ctrls(nsid) ==
  [nvme_ns_attach_args EXCEPT
     !.nsid = nsid, !.sel = NVME_NS_ATTACH_SEL.CTRL_DEATTACH]

nvme_directive_send_stream_release_identifier(nsid, stream_id) ==
  [nvme_directive_args EXCEPT
     !.nsid = nsid, !.dtype = NVME_DIRECTIVE_DTYPE.STREAMS,
     !.doper = NVME_DIRECTIVE_SEND.STREAMS_DOPER_RELEASE_IDENTIFIER,
     !.dspec = stream_id]

nvme_directive_send_stream_release_resource(nsid) ==
  [nvme_directive_args EXCEPT
     !.nsid = nsid, !.dtype = NVME_DIRECTIVE_DTYPE.STREAMS,
     !.doper = NVME_DIRECTIVE_SEND.STREAMS_DOPER_RELEASE_RESOURCE]

nvme_directive_recv_identify_parameters(nsid) ==
  [nvme_directive_args EXCEPT
     !.nsid = nsid, !.dtype = NVME_DIRECTIVE_DTYPE.IDENTIFY,
     !.doper = NVME_DIRECTIVE_RECEIVE.IDENTIFY_DOPER_PARAM,
     !.data_len = nvme_id_directives]

nvme_directive_recv_stream_parameters(nsid) ==
  [nvme_directive_args EXCEPT
     !.nsid = nsid, !.dtype = NVME_DIRECTIVE_DTYPE.STREAMS,
     !.doper = NVME_DIRECTIVE_RECEIVE.STREAMS_DOPER_PARAM,
     !.data_len = nvme_streams_directive_params]

(* Refused with EINVAL, before any command, for more entries than there    *)
(* are identifiers.                                                        *)
nvme_directive_recv_stream_status_checks(nr_entries) ==
  nr_entries <= NVME_STREAM_ID_MAX

nvme_directive_recv_stream_status(nsid, nr_entries) ==
  [nvme_directive_args EXCEPT
     !.nsid = nsid, !.dtype = NVME_DIRECTIVE_DTYPE.STREAMS,
     !.doper = NVME_DIRECTIVE_RECEIVE.STREAMS_DOPER_STATUS,
     !.data_len = (nvme_streams_directive_status + nr_entries * 2) % U32]

nvme_directive_recv_stream_allocate(nsid, nsr) ==
  [nvme_directive_args EXCEPT
     !.nsid = nsid, !.dtype = NVME_DIRECTIVE_DTYPE.STREAMS,
     !.doper = NVME_DIRECTIVE_RECEIVE.STREAMS_DOPER_RESOURCE, !.cdw12 = nsr]

nvme_fdp_reclaim_unit_handle_status(nsid, data_len) ==
  [nvme_io_mgmt_args EXCEPT
     !.nsid = nsid, !.mo = NVME_IO_MGMT_RECV_RUH_STATUS, !.data_len = data_len]

(* The number of placement identifiers is 0-based in the command.          *)
nvme_fdp_reclaim_unit_handle_update(nsid, npids) ==
  [nvme_io_mgmt_args EXCEPT
     !.nsid = nsid, !.mo = NVME_IO_MGMT_SEND_RUH_UPDATE,
     !.data_len = (npids * 2) % U32, !.mos = U16(npids - 1)]

report_action(extended) ==
  IF extended THEN NVME_ZNS_ZRA.EXTENDED_REPORT_ZONES ELSE NVME_ZNS_ZRA.REPORT_ZONES

nvme_zns_report_zones(nsid, slba, opts, extended, partial, data_len) ==
  [nvme_zns_mgmt_recv_args EXCEPT
     !.slba = slba, !.nsid = nsid,
     !.zra = report_action(extended),
     !.data_len = data_len, !.zrasf = U16(opts), !.zras_feat = partial]
=============================================================================
