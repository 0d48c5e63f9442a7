----------------------------- MODULE NvmeSizes -----------------------------
(***************************************************************************)
(* The sizes in bytes of the structures of types.h that a log page, an     *)
(* Identify or a Directive Receive command fills: the sum of the sizes of  *)
(* the fields, in their order, reserved ones included.  Fields of one byte *)
(* that follow each other are added up.                                    *)
(***************************************************************************)
EXTENDS Naturals

(* Limits of types.h that are the lengths of arrays below.                 *)
NVME_LOG_SUPPORTED_LOG_PAGES_MAX           == 256
NVME_ID_NVMSET_LIST_MAX                    == 31
NVME_ID_UUID_LIST_MAX                      == 127
NVME_ID_CTRL_LIST_MAX                      == 2047
NVME_ID_NS_LIST_MAX                        == 1024
NVME_ID_SECONDARY_CTRL_MAX                 == 127
NVME_ID_DOMAIN_LIST_MAX                    == 31
NVME_ID_ENDURANCE_GROUP_LIST_MAX           == 2047
NVME_ID_ND_DESCRIPTOR_MAX                  == 16
NVME_LOG_ST_MAX_RESULTS                    == 20
NVME_LOG_FID_SUPPORTED_EFFECTS_MAX         == 256
NVME_LOG_MI_CMD_SUPPORTED_EFFECTS_MAX      == 256
NVME_LOG_MI_CMD_SUPPORTED_EFFECTS_RESERVED == 768
NVME_ZNS_CHANGED_ZONES_MAX                 == 511
NVME_NQN_LENGTH                            == 256

(* Log pages.  A trailing array without a length adds nothing: sizeof of   *)
(* those logs is the size of their header.                                 *)
nvme_supported_log_pages == NVME_LOG_SUPPORTED_LOG_PAGES_MAX * 4
nvme_error_log_page == 8 + 4 * 2 + 8 + 4 + 4 + 8 + 2 + 21 + 1
nvme_smart_log ==
  1 + 2 + 4 + 25 + 16 + 16 + 16 + 16 + 16 + 16 + 16 + 16 + 16 + 16 + 2 * 4 +
  8 * 2 + 4 * 4 + 280
nvme_firmware_slot == 1 + 7 + 56 + 448
nvme_ns_list == NVME_ID_NS_LIST_MAX * 4
nvme_cmd_effects_log == 256 * 4 + 256 * 4 + 2048
nvme_st_result == 4 + 8 + 4 + 8 + 2 + 2
nvme_self_test_log == 2 + 2 + NVME_LOG_ST_MAX_RESULTS * nvme_st_result
nvme_endurance_group_log ==
  6 + 2 + 24 + 16 + 16 + 16 + 16 + 16 + 16 + 16 + 16 + 16 + 16 + 320
nvme_nvmset_predictable_lat_log == 2 + 2 + 28 + 5 * 8 + 56 + 3 * 8 + 360
nvme_fid_supported_effects_log == NVME_LOG_FID_SUPPORTED_EFFECTS_MAX * 4
nvme_mi_cmd_supported_effects_log ==
  NVME_LOG_MI_CMD_SUPPORTED_EFFECTS_MAX * 4 +
  NVME_LOG_MI_CMD_SUPPORTED_EFFECTS_RESERVED * 4
nvme_media_unit_stat_log == 3 * 2 + 10
nvme_supported_cap_config_list_log == 1 + 15
nvme_resv_notification_log == 8 + 2 + 2 + 4 + 48
nvme_sanitize_log_page == 2 * 2 + 8 * 4 + 1 + 475
nvme_zns_changed_zone_log == 2 + 6 + NVME_ZNS_CHANGED_ZONES_MAX * 8
nvme_lockdown_log == 1 + 2 + 1 + 508

(* The union of ths and hostdgn or tcs is one byte.                        *)
nvme_telemetry_log == 5 + 3 + 3 * 2 + 2 + 4 + 360 + 1 + 1 + 2 + 128

(* Identify data structures and the lists that Identify returns.           *)
nvme_id_psd == 2 + 2 + 2 * 4 + 4 + 2 + 2 + 2 + 6 + 4
nvme_id_ctrl ==
  2 * 2 + 20 + 40 + 8 + 1 + 3 + 2 + 2 + 5 * 4 + 2 + 2 + 4 + 2 + 2 + 16 +
  3 * 2 + 1 + 118 + 3 + 2 + 8 + 3 * 2 + 2 * 4 + 16 + 16 + 4 + 2 + 2 + 4 * 2 +
  2 * 4 + 3 * 2 + 2 + 3 * 4 + 2 + 2 + 2 + 6 + 16 + 2 + 2 + 124 + 2 + 2 + 4 +
  2 * 2 + 2 + 2 * 2 + 2 + 2 * 2 + 2 * 4 + 16 + 2 * 4 + 2 + 2 * 2 + 4 + 5 * 2 +
  180 + NVME_NQN_LENGTH + 768 + 2 * 4 + 2 + 2 + 2 + 1 + 241 +
  32 * nvme_id_psd + 1024
nvme_lbaf == 2 + 2
nvme_id_ns ==
  3 * 8 + 10 + 7 * 2 + 16 + 6 * 2 + 4 + 4 + 4 + 4 + 4 + 3 + 1 + 2 * 2 + 16 +
  8 + 64 * nvme_lbaf + 3712
nvme_ctrl_list == 2 + NVME_ID_CTRL_LIST_MAX * 2
nvme_nvmset_attr == 2 * 2 + 4 + 2 * 4 + 16 + 16 + 80
nvme_id_nvmset_list == 1 + 127 + NVME_ID_NVMSET_LIST_MAX * nvme_nvmset_attr
nvme_primary_ctrl_cap ==
  2 * 2 + 1 + 27 + 2 * 4 + 4 * 2 + 16 + 2 * 4 + 4 * 2 + 4016
nvme_secondary_ctrl == 2 * 2 + 1 + 3 + 3 * 2 + 18
nvme_secondary_ctrl_list ==
  1 + 31 + NVME_ID_SECONDARY_CTRL_MAX * nvme_secondary_ctrl
nvme_id_ns_granularity_desc == 2 * 8
nvme_id_ns_granularity_list ==
  4 + 1 + 27 + NVME_ID_ND_DESCRIPTOR_MAX * nvme_id_ns_granularity_desc + 3808
nvme_id_uuid_list_entry == 1 + 15 + 16
nvme_id_uuid_list == 32 + NVME_ID_UUID_LIST_MAX * nvme_id_uuid_list_entry
nvme_id_independent_id_ns == 4 + 4 + 2 + 2 * 2 + 2 + 2 + 2 + 4 + 4072
nvme_id_ctrl_nvm == 4 + 4 + 8 + 2 + 2 + 4 + 1 + 4071
nvme_id_domain_attr == 2 + 14 + 16 + 16 + 16 + 64
nvme_id_domain_list == 1 + 127 + NVME_ID_DOMAIN_LIST_MAX * nvme_id_domain_attr
nvme_id_endurance_group_list == 2 + NVME_ID_ENDURANCE_GROUP_LIST_MAX * 2
nvme_id_iocs == 512 * 8
nvme_zns_lbafe == 8 + 1 + 7
nvme_zns_id_ns ==
  2 * 2 + 11 * 4 + 2 * 2 + 1 + 2763 + 64 * nvme_zns_lbafe + 256
nvme_zns_id_ctrl == 1 + 4095
nvme_id_directives == 32 + 32 + 4032
nvme_streams_directive_params == 3 * 2 + 1 + 9 + 4 + 3 * 2 + 6
nvme_streams_directive_status == 2

(* Every Identify command transfers this many bytes.                       *)
NVME_IDENTIFY_DATA_SIZE == 4096
=============================================================================
