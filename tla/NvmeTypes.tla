----------------------------- MODULE NvmeTypes -----------------------------
(***************************************************************************)
(* The numbers of types.h that the commands carry, and the argument        *)
(* structures of api-types.h with every field at zero: a designated        *)
(* initializer of the helpers sets the fields it names and leaves the      *)
(* others there.  File descriptors, timeouts and pointers are left out.    *)
(***************************************************************************)
EXTENDS NvmeSizes, Integers

CONSTANT U32   \* 2^32; runs give it a smaller value

ASSUME U32Assumption == U32 \in Nat /\ U32 > 1

U8(n)  == n % 256
U16(n) == n % 65536
Bit(b) == IF b THEN 1 ELSE 0    \* a C bool in an integer field

NVME_NSID_NONE       == 0
NVME_NSID_ALL        == U32 - 1
NVME_UUID_NONE       == 0
NVME_LOG_LSP_NONE    == 0
NVME_STREAM_ID_MAX   == 65535

CSI == [NVM |-> 0, KV |-> 1, ZNS |-> 2, SLM |-> 3, CP |-> 4]

CNS ==
  [NS |-> 0, CTRL |-> 1, NS_ACTIVE_LIST |-> 2, NS_DESC_LIST |-> 3,
   NVMSET_LIST |-> 4, CSI_NS |-> 5, CSI_CTRL |-> 6, CSI_NS_ACTIVE_LIST |-> 7,
   CSI_INDEPENDENT_ID_NS |-> 8, NS_USER_DATA_FORMAT |-> 9,
   CSI_NS_USER_DATA_FORMAT |-> 10, ALLOCATED_NS_LIST |-> 16,
   ALLOCATED_NS |-> 17, NS_CTRL_LIST |-> 18, CTRL_LIST |-> 19,
   PRIMARY_CTRL_CAP |-> 20, SECONDARY_CTRL_LIST |-> 21,
   NS_GRANULARITY |-> 22, UUID_LIST |-> 23, DOMAIN_LIST |-> 24,
   ENDURANCE_GROUP_ID |-> 25, CSI_ALLOCATED_NS_LIST |-> 26,
   COMMAND_SET_STRUCTURE |-> 28]

LID ==
  [SUPPORTED_LOG_PAGES |-> 0, ERROR |-> 1, SMART |-> 2, FW_SLOT |-> 3,
   CHANGED_NS |-> 4, CMD_EFFECTS |-> 5, DEVICE_SELF_TEST |-> 6,
   TELEMETRY_HOST |-> 7, TELEMETRY_CTRL |-> 8, ENDURANCE_GROUP |-> 9,
   PREDICTABLE_LAT_NVMSET |-> 10, PREDICTABLE_LAT_AGG |-> 11, ANA |-> 12,
   PERSISTENT_EVENT |-> 13, LBA_STATUS |-> 14, ENDURANCE_GRP_EVT |-> 15,
   MEDIA_UNIT_STATUS |-> 16, SUPPORTED_CAP_CONFIG_LIST |-> 17,
   FID_SUPPORTED_EFFECTS |-> 18, MI_CMD_SUPPORTED_EFFECTS |-> 19,
   CMD_AND_FEAT_LOCKDOWN |-> 20, BOOT_PARTITION |-> 21,
   ROTATIONAL_MEDIA_INFO |-> 22, DISPERSED_NS_PARTICIPATING_NSS |-> 23,
   MGMT_ADDR_LIST |-> 24, PHY_RX_EOM |-> 25, REACHABILITY_GROUPS |-> 26,
   REACHABILITY_ASSOCIATIONS |-> 27, CHANGED_ALLOC_NS_LIST |-> 28,
   FDP_CONFIGS |-> 32, FDP_RUH_USAGE |-> 33, FDP_STATS |-> 34,
   FDP_EVENTS |-> 35, DISCOVER |-> 112, HOST_DISCOVER |-> 113,
   AVE_DISCOVER |-> 114, PULL_MODEL_DDC_REQ |-> 115, RESERVATION |-> 128,
   SANITIZE |-> 129, ZNS_CHANGED_ZONES |-> 191]

NVME_LOG_TELEM_HOST_LSP_RETAIN     == 0
NVME_LOG_TELEM_HOST_LSP_CREATE     == 1
NVME_TELEMETRY_DA_CTRL_DETERMINE   == 0
NVME_LOG_ANA_LSP_RGO_GROUPS_ONLY   == 1

NVME_GET_FEATURES_SEL_CURRENT      == 0
NVME_NS_MGMT_SEL                   == [CREATE |-> 0, DELETE |-> 1]
NVME_NS_ATTACH_SEL                 == [CTRL_ATTACH |-> 0, CTRL_DEATTACH |-> 1]
NVME_DIRECTIVE_DTYPE               == [IDENTIFY |-> 0, STREAMS |-> 1]
NVME_DIRECTIVE_RECEIVE ==
  [IDENTIFY_DOPER_PARAM |-> 1, STREAMS_DOPER_PARAM |-> 1,
   STREAMS_DOPER_STATUS |-> 2, STREAMS_DOPER_RESOURCE |-> 3]
NVME_DIRECTIVE_SEND ==
  [STREAMS_DOPER_RELEASE_IDENTIFIER |-> 1, STREAMS_DOPER_RELEASE_RESOURCE |-> 2]
NVME_IO_MGMT_RECV_RUH_STATUS       == 1
NVME_IO_MGMT_SEND_RUH_UPDATE       == 1
NVME_ZNS_ZRA                       == [REPORT_ZONES |-> 0, EXTENDED_REPORT_ZONES |-> 1]

-----------------------------------------------------------------------------
nvme_identify_args ==
  [cns |-> 0, csi |-> 0, nsid |-> 0, cntid |-> 0, cns_specific_id |-> 0,
   uuidx |-> 0]

(* chunk is not a field: it is how the function that takes the arguments   *)
(* may split the read, 0 for a single command.                             *)
nvme_get_log_args ==
  [lid |-> 0, nsid |-> 0, csi |-> 0, lsi |-> 0, lsp |-> 0, lpo |-> 0,
   uuidx |-> 0, rae |-> FALSE, len |-> 0, chunk |-> 0]

nvme_set_features_args ==
  [fid |-> 0, nsid |-> 0, cdw11 |-> 0, cdw12 |-> 0, cdw13 |-> 0, cdw15 |-> 0,
   save |-> FALSE, uuidx |-> 0, data_len |-> 0]

nvme_get_features_args ==
  [fid |-> 0, nsid |-> 0, sel |-> 0, cdw11 |-> 0, uuidx |-> 0, data_len |-> 0]

nvme_ns_mgmt_args == [nsid |-> 0, sel |-> 0, csi |-> 0]

nvme_ns_attach_args == [nsid |-> 0, sel |-> 0]

nvme_directive_args ==
  [nsid |-> 0, doper |-> 0, dtype |-> 0, cdw12 |-> 0, dspec |-> 0,
   data_len |-> 0]

nvme_io_mgmt_args == [nsid |-> 0, mo |-> 0, mos |-> 0, data_len |-> 0]

nvme_zns_mgmt_recv_args ==
  [slba |-> 0, nsid |-> 0, zra |-> 0, zrasf |-> 0, zras_feat |-> FALSE,
   data_len |-> 0]
=============================================================================
