--------------------------- MODULE AdminCommands ---------------------------
(***************************************************************************)
(* Callers read log pages and identify data of one controller: through the *)
(* crate (controller.rs, namespace.rs), through the inline functions of    *)
(* ioctl.h, or over the management interface with those of mi.h.  A read   *)
(* is one command or several, one for each chunk.  The controller changes  *)
(* its pages at any time, announces the change with an event that a read   *)
(* without Retain Asynchronous Event takes back, and captures its          *)
(* telemetry anew when a command asks for it.                              *)
(***************************************************************************)
EXTENDS IoctlHelpers, MiHelpers, Ioctl

CONSTANTS
  Caller,      \* threads
  Request,     \* Request[c]: what c may ask for
  Announced,   \* log pages whose changes the controller announces (external)
  NoCall,      \* no call, or no command
  USize,       \* usize::MAX + 1
  MaxCapture   \* bound on the telemetry captures

(* A request names a function of one of the tables below and gives it the  *)
(* arguments, of which it uses those it has.  id stands for a controller,  *)
(* an NVM set, an endurance group, a domain or a format; flag for rgo,     *)
(* rao, allhoste and host_events; n counts entries.                        *)
AnyRequest ==
  [via : {"crate", "ioctl", "mi"}, op : STRING, rae : BOOLEAN, nsid : Nat,
   lsp : Nat, offset : Nat, len : Nat, id : Nat, csi : Nat, n : Nat,
   flag : BOOLEAN]

(* The functions with an argument rae.                                     *)
HasRae ==
  {"supported_log_pages", "error", "smart", "fw_slot", "changed_ns_list",
   "telemetry_ctrl", "predictable_lat_event", "ana", "ana_groups", "lba_status",
   "endurance_grp_evt", "fid_supported_effects", "mi_cmd_supported_effects",
   "boot_partition", "reachability_groups", "reachability_associations",
   "changed_alloc_ns_list", "discovery", "host_discover", "ave_discover",
   "pull_model_ddc_req", "reservation", "sanitize", "zns_changed_zones"}

VARIABLES
  events,   \* pages that changed since a read took their event back
  capture,  \* number of the host-initiated telemetry capture
  phase,    \* phase[c]: whether c has a call, and how far it is
  call      \* call[c]: the call
vars == <<events, capture, phase, call>>

-----------------------------------------------------------------------------
(* controller.rs.  lid is an u8; the size of the type is cast to u32.      *)

get_log_page(lid, nsid, size_of_T) ==
  nvme_get_log([nvme_get_log_args EXCEPT
                  !.lid = U8(lid), !.nsid = nsid, !.len = size_of_T % U32])

(* Mutant: takes the size of the structure of another page.                *)
smart_log_OtherType == get_log_page(LID.SMART, NVME_NSID_ALL, nvme_self_test_log)

smart_log == get_log_page(LID.SMART, NVME_NSID_ALL, nvme_smart_log)

fw_slot_log == get_log_page(LID.FW_SLOT, NVME_NSID_ALL, nvme_firmware_slot)

(* The vector has max_entries entries, zeroed, whatever the command asks   *)
(* for.                                                                    *)
error_log(max_entries) ==
  LET total_len == nvme_error_log_page * max_entries IN
  nvme_get_log([nvme_get_log_args EXCEPT
                  !.lid = LID.ERROR, !.nsid = NVME_NSID_ALL,
                  !.len = total_len % U32])

CrateLog(r) ==
  [smart_log |-> smart_log, fw_slot_log |-> fw_slot_log,
   error_log |-> error_log(r.n)]

-----------------------------------------------------------------------------
(* What each function sends for a request.                                 *)

IoctlLog(r) ==
  [supported_log_pages     |-> nvme_get_log_supported_log_pages(r.rae),
   error                   |-> nvme_get_log_error(r.n, r.rae),
   smart                   |-> nvme_get_log_smart(r.nsid, r.rae),
   fw_slot                 |-> nvme_get_log_fw_slot(r.rae),
   changed_ns_list         |-> nvme_get_log_changed_ns_list(r.rae),
   cmd_effects             |-> nvme_get_log_cmd_effects(r.csi),
   device_self_test        |-> nvme_get_log_device_self_test,
   create_telemetry_host   |-> nvme_get_log_create_telemetry_host,
   create_telemetry_host_mcda |-> nvme_get_log_create_telemetry_host_mcda(r.lsp),
   telemetry_host          |-> nvme_get_log_telemetry_host(r.offset, r.len),
   telemetry_ctrl          |-> nvme_get_log_telemetry_ctrl(r.rae, r.offset, r.len),
   endurance_group         |-> nvme_get_log_endurance_group(r.id),
   predictable_lat_nvmset  |-> nvme_get_log_predictable_lat_nvmset(r.id),
   predictable_lat_event   |-> nvme_get_log_predictable_lat_event(r.rae, r.offset, r.len),
   ana                     |-> nvme_get_log_ana(r.lsp, r.rae, r.offset, r.len),
   ana_groups              |-> nvme_get_log_ana_groups(r.rae, r.len),
   lba_status              |-> nvme_get_log_lba_status(r.rae, r.offset, r.len),
   endurance_grp_evt       |-> nvme_get_log_endurance_grp_evt(r.rae, r.offset, r.len),
   fid_supported_effects   |-> nvme_get_log_fid_supported_effects(r.rae),
   mi_cmd_supported_effects |-> nvme_get_log_mi_cmd_supported_effects(r.rae),
   boot_partition          |-> nvme_get_log_boot_partition(r.rae, r.lsp, r.len),
   rotational_media_info   |-> nvme_get_log_rotational_media_info(r.id, r.len),
   dispersed_ns_participating_nss |->
     nvme_get_log_dispersed_ns_participating_nss(r.nsid, r.len),
   mgmt_addr_list          |-> nvme_get_log_mgmt_addr_list(r.len),
   phy_rx_eom              |-> nvme_get_log_phy_rx_eom(r.lsp, r.id, r.len),
   reachability_groups     |-> nvme_get_log_reachability_groups(r.flag, r.rae, r.len),
   reachability_associations |->
     nvme_get_log_reachability_associations(r.flag, r.rae, r.len),
   changed_alloc_ns_list   |-> nvme_get_log_changed_alloc_ns_list(r.rae, r.len),
   discovery               |-> nvme_get_log_discovery(r.rae, r.offset, r.len),
   host_discover           |-> nvme_get_log_host_discover(r.flag, r.rae, r.len),
   ave_discover            |-> nvme_get_log_ave_discover(r.rae, r.len),
   pull_model_ddc_req      |-> nvme_get_log_pull_model_ddc_req(r.rae, r.len),
   media_unit_stat         |-> nvme_get_log_media_unit_stat(r.id),
   support_cap_config_list |-> nvme_get_log_support_cap_config_list(r.id),
   reservation             |-> nvme_get_log_reservation(r.rae),
   sanitize                |-> nvme_get_log_sanitize(r.rae),
   zns_changed_zones       |-> nvme_get_log_zns_changed_zones(r.nsid, r.rae),
   persistent_event        |-> nvme_get_log_persistent_event(r.lsp, r.len),
   lockdown                |-> nvme_get_log_lockdown(r.lsp)]

(* Only over an ioctl.                                                     *)
IoctlFdpLog(r) ==
  [fdp_configurations |-> nvme_get_log_fdp_configurations(r.id, r.offset, r.len),
   reclaim_unit_handle_usage |->
     nvme_get_log_reclaim_unit_handle_usage(r.id, r.offset, r.len),
   fdp_stats  |-> nvme_get_log_fdp_stats(r.id, r.offset, r.len),
   fdp_events |-> nvme_get_log_fdp_events(r.id, r.flag, r.offset, r.len)]

MiLog(r) ==
  [supported_log_pages     |-> nvme_mi_admin_get_log_supported_log_pages(r.rae),
   error                   |-> nvme_mi_admin_get_log_error(r.n, r.rae),
   smart                   |-> nvme_mi_admin_get_log_smart(r.nsid, r.rae),
   fw_slot                 |-> nvme_mi_admin_get_log_fw_slot(r.rae),
   changed_ns_list         |-> nvme_mi_admin_get_log_changed_ns_list(r.rae),
   cmd_effects             |-> nvme_mi_admin_get_log_cmd_effects(r.csi),
   device_self_test        |-> nvme_mi_admin_get_log_device_self_test,
   create_telemetry_host   |-> nvme_mi_admin_get_log_create_telemetry_host,
   create_telemetry_host_mcda |->
     nvme_mi_admin_get_log_create_telemetry_host_mcda(r.lsp),
   telemetry_host          |-> nvme_mi_admin_get_log_telemetry_host(r.offset, r.len),
   telemetry_ctrl          |->
     nvme_mi_admin_get_log_telemetry_ctrl(r.rae, r.offset, r.len),
   endurance_group         |-> nvme_mi_admin_get_log_endurance_group(r.id),
   predictable_lat_nvmset  |-> nvme_mi_admin_get_log_predictable_lat_nvmset(r.id),
   predictable_lat_event   |->
     nvme_mi_admin_get_log_predictable_lat_event(r.rae, r.offset, r.len),
   ana                     |-> nvme_mi_admin_get_log_ana(r.lsp, r.rae, r.offset, r.len),
   ana_groups              |-> nvme_mi_admin_get_log_ana_groups(r.rae, r.len),
   lba_status              |-> nvme_mi_admin_get_log_lba_status(r.rae, r.offset, r.len),
   endurance_grp_evt       |->
     nvme_mi_admin_get_log_endurance_grp_evt(r.rae, r.offset, r.len),
   fid_supported_effects   |-> nvme_mi_admin_get_log_fid_supported_effects(r.rae),
   mi_cmd_supported_effects |->
     nvme_mi_admin_get_log_mi_cmd_supported_effects(r.rae),
   boot_partition          |->
     nvme_mi_admin_get_log_boot_partition(r.rae, r.lsp, r.len),
   rotational_media_info   |->
     nvme_mi_admin_get_log_rotational_media_info(r.id, r.len),
   dispersed_ns_participating_nss |->
     nvme_mi_admin_get_log_dispersed_ns_participating_nss(r.nsid, r.len),
   mgmt_addr_list          |-> nvme_mi_admin_get_log_mgmt_addr_list(r.len),
   phy_rx_eom              |-> nvme_mi_admin_get_log_phy_rx_eom(r.lsp, r.id, r.len),
   reachability_groups     |->
     nvme_mi_admin_get_log_reachability_groups(r.flag, r.rae, r.len),
   reachability_associations |->
     nvme_mi_admin_get_log_reachability_associations(r.flag, r.rae, r.len),
   changed_alloc_ns_list   |->
     nvme_mi_admin_get_log_changed_alloc_ns_list(r.rae, r.len),
   discovery               |-> nvme_mi_admin_get_log_discovery(r.rae, r.offset, r.len),
   host_discover           |->
     nvme_mi_admin_get_log_host_discover(r.flag, r.rae, r.len),
   ave_discover            |-> nvme_mi_admin_get_log_ave_discover(r.rae, r.len),
   pull_model_ddc_req      |-> nvme_mi_admin_get_log_pull_model_ddc_req(r.rae, r.len),
   media_unit_stat         |-> nvme_mi_admin_get_log_media_unit_stat(r.id),
   support_cap_config_list |-> nvme_mi_admin_get_log_support_cap_config_list(r.id),
   reservation             |-> nvme_mi_admin_get_log_reservation(r.rae),
   sanitize                |-> nvme_mi_admin_get_log_sanitize(r.rae),
   zns_changed_zones       |-> nvme_mi_admin_get_log_zns_changed_zones(r.nsid, r.rae),
   persistent_event        |-> nvme_mi_admin_get_log_persistent_event(r.lsp, r.len),
   lockdown                |-> nvme_mi_admin_get_log_lockdown(r.lsp)]

(* nvme_ctrl_identify and nvme_ns_identify are external.                   *)
CrateIdentify(r) ==
  [identify_ctrl |-> [nvme_identify_args EXCEPT !.cns = CNS.CTRL],
   identify_ns   |-> [nvme_identify_args EXCEPT !.cns = CNS.NS, !.nsid = r.nsid]]

(* What both transports can identify.                                      *)
IoctlIdentify(r) ==
  [identify_ctrl                |-> nvme_identify_ctrl,
   identify_ns                  |-> nvme_identify_ns(r.nsid),
   identify_ns_descs            |-> nvme_identify_ns_descs(r.nsid),
   identify_allocated_ns        |-> nvme_identify_allocated_ns(r.nsid),
   identify_ctrl_list           |-> nvme_identify_ctrl_list(r.id),
   identify_nsid_ctrl_list      |-> nvme_identify_nsid_ctrl_list(r.nsid, r.id),
   identify_allocated_ns_list   |-> nvme_identify_allocated_ns_list(r.nsid),
   identify_active_ns_list      |-> nvme_identify_active_ns_list(r.nsid),
   identify_primary_ctrl        |-> nvme_identify_primary_ctrl(r.id),
   identify_secondary_ctrl_list |-> nvme_identify_secondary_ctrl_list(r.id)]

MiIdentify(r) ==
  [identify_ctrl                |-> nvme_mi_admin_identify_ctrl,
   identify_ns                  |-> nvme_mi_admin_identify_ns(r.nsid),
   identify_ns_descs            |-> nvme_mi_admin_identify_ns_descs(r.nsid),
   identify_allocated_ns        |-> nvme_mi_admin_identify_allocated_ns(r.nsid),
   identify_ctrl_list           |-> nvme_mi_admin_identify_ctrl_list(r.id),
   identify_nsid_ctrl_list |->
     nvme_mi_admin_identify_nsid_ctrl_list(r.nsid, r.id),
   identify_allocated_ns_list   |-> nvme_mi_admin_identify_allocated_ns_list(r.nsid),
   identify_active_ns_list      |-> nvme_mi_admin_identify_active_ns_list(r.nsid),
   identify_primary_ctrl        |-> nvme_mi_admin_identify_primary_ctrl(r.id),
   identify_secondary_ctrl_list |-> nvme_mi_admin_identify_secondary_ctrl_list(r.id)]

(* Only over an ioctl.  lsp stands for the UUID index.                     *)
IoctlIdentifyMore(r) ==
  [identify_nvmset_list           |-> nvme_identify_nvmset_list(r.id),
   identify_ns_granularity        |-> nvme_identify_ns_granularity,
   identify_uuid                  |-> nvme_identify_uuid,
   identify_ns_csi                |-> nvme_identify_ns_csi(r.nsid, r.lsp, r.csi),
   identify_ctrl_csi              |-> nvme_identify_ctrl_csi(r.csi),
   identify_active_ns_list_csi    |-> nvme_identify_active_ns_list_csi(r.nsid, r.csi),
   identify_allocated_ns_list_csi |->
     nvme_identify_allocated_ns_list_csi(r.nsid, r.csi),
   identify_independent_identify_ns |-> nvme_identify_independent_identify_ns(r.nsid),
   identify_ns_csi_user_data_format |->
     nvme_identify_ns_csi_user_data_format(r.id, r.lsp, r.csi),
   identify_iocs_ns_csi_user_data_format |->
     nvme_identify_iocs_ns_csi_user_data_format(r.id, r.lsp, r.csi),
   identify_domain_list           |-> nvme_identify_domain_list(r.id),
   identify_endurance_group_list  |-> nvme_identify_endurance_group_list(r.id),
   identify_iocs                  |-> nvme_identify_iocs(r.id),
   nvm_identify_ctrl              |-> nvme_nvm_identify_ctrl,
   zns_identify_ns                |-> nvme_zns_identify_ns(r.nsid),
   zns_identify_ctrl              |-> nvme_zns_identify_ctrl]

(* Commands of other opcodes, with the length of their data; the last two  *)
(* over both transports.                                                   *)
IoctlOther(r) ==
  [directive_identify |-> nvme_directive_recv_identify_parameters(r.nsid),
   stream_parameters  |-> nvme_directive_recv_stream_parameters(r.nsid),
   stream_status      |-> nvme_directive_recv_stream_status(r.nsid, r.n),
   stream_allocate    |-> nvme_directive_recv_stream_allocate(r.nsid, r.n),
   stream_release_identifier |->
     nvme_directive_send_stream_release_identifier(r.nsid, r.id),
   stream_release_resource |-> nvme_directive_send_stream_release_resource(r.nsid),
   fdp_handle_status  |-> nvme_fdp_reclaim_unit_handle_status(r.nsid, r.len),
   fdp_handle_update  |-> nvme_fdp_reclaim_unit_handle_update(r.nsid, r.n),
   set_features_data  |->
     nvme_set_features_data(r.id, r.nsid, r.lsp, r.flag, r.len),
   set_features_simple |-> nvme_set_features_simple(r.id, r.nsid, r.lsp, r.flag),
   get_features_data  |-> nvme_get_features_data(r.id, r.nsid, r.len),
   get_features_simple |-> nvme_get_features_simple(r.id, r.nsid)]

MiOther(r) ==
  [get_features_data   |-> nvme_mi_admin_get_features_data(r.id, r.nsid, r.len),
   get_features_simple |-> nvme_mi_admin_get_features_simple(r.id, r.nsid)]

(* The functions that the transport of a request has.                      *)
Offered(r) ==
  CASE r.via = "crate" -> DOMAIN CrateLog(r) \cup DOMAIN CrateIdentify(r)
    [] r.via = "mi"    -> DOMAIN MiLog(r) \cup DOMAIN MiIdentify(r) \cup DOMAIN MiOther(r)
    [] r.via = "ioctl" ->
         DOMAIN IoctlLog(r) \cup DOMAIN IoctlFdpLog(r) \cup DOMAIN IoctlIdentify(r)
           \cup DOMAIN IoctlIdentifyMore(r) \cup DOMAIN IoctlOther(r)

ASSUME RequestAssumption ==
  /\ Request \in [Caller -> SUBSET AnyRequest]
  /\ \A c \in Caller : \A r \in Request[c] :
       r.op \in Offered(r) /\ (r.rae => r.op \in HasRae)

ASSUME BoundsAssumption == MaxCapture \in Nat /\ USize \in Nat \ {0}

(* 2^32 is more than a call for every stream identifier transfers.         *)
ASSUME WidthAssumption ==
  U32 > nvme_streams_directive_status + 2 * NVME_STREAM_ID_MAX

IsCreate(r) ==
  r.op \in {"create_telemetry_host", "create_telemetry_host_mcda"}

Sent(r) ==
  CASE r.via = "crate" /\ r.op \in DOMAIN CrateLog(r)      -> CrateLog(r)[r.op]
    [] r.via = "crate" /\ r.op \in DOMAIN CrateIdentify(r) -> CrateIdentify(r)[r.op]
    [] r.via = "mi" /\ r.op \in DOMAIN MiLog(r)            -> MiLog(r)[r.op]
    [] r.via = "mi" /\ r.op \in DOMAIN MiIdentify(r)       -> MiIdentify(r)[r.op]
    [] r.via = "mi" /\ r.op \in DOMAIN MiOther(r)          -> MiOther(r)[r.op]
    [] r.via = "ioctl" /\ r.op \in DOMAIN IoctlLog(r)      -> IoctlLog(r)[r.op]
    [] r.via = "ioctl" /\ r.op \in DOMAIN IoctlFdpLog(r)   -> IoctlFdpLog(r)[r.op]
    [] r.via = "ioctl" /\ r.op \in DOMAIN IoctlIdentify(r) -> IoctlIdentify(r)[r.op]
    [] r.via = "ioctl" /\ r.op \in DOMAIN IoctlIdentifyMore(r) ->
         IoctlIdentifyMore(r)[r.op]
    [] r.via = "ioctl" /\ r.op \in DOMAIN IoctlOther(r)    -> IoctlOther(r)[r.op]

(* The structures that the functions take a pointer to.                    *)
Structure ==
  [smart_log |-> nvme_smart_log, fw_slot_log |-> nvme_firmware_slot,
   supported_log_pages    |-> nvme_supported_log_pages,
   smart                  |-> nvme_smart_log,
   fw_slot                |-> nvme_firmware_slot,
   changed_ns_list        |-> nvme_ns_list,
   cmd_effects            |-> nvme_cmd_effects_log,
   device_self_test       |-> nvme_self_test_log,
   create_telemetry_host  |-> nvme_telemetry_log,
   create_telemetry_host_mcda |-> nvme_telemetry_log,
   endurance_group        |-> nvme_endurance_group_log,
   predictable_lat_nvmset |-> nvme_nvmset_predictable_lat_log,
   fid_supported_effects  |-> nvme_fid_supported_effects_log,
   mi_cmd_supported_effects |-> nvme_mi_cmd_supported_effects_log,
   media_unit_stat        |-> nvme_media_unit_stat_log,
   support_cap_config_list |-> nvme_supported_cap_config_list_log,
   reservation            |-> nvme_resv_notification_log,
   sanitize               |-> nvme_sanitize_log_page,
   zns_changed_zones      |-> nvme_zns_changed_zone_log,
   lockdown               |-> nvme_lockdown_log,
   identify_ctrl          |-> nvme_id_ctrl,
   identify_ns            |-> nvme_id_ns,
   identify_ns_descs      |-> NVME_IDENTIFY_DATA_SIZE,
   identify_allocated_ns  |-> nvme_id_ns,
   identify_ctrl_list     |-> nvme_ctrl_list,
   identify_nsid_ctrl_list |-> nvme_ctrl_list,
   identify_allocated_ns_list |-> nvme_ns_list,
   identify_active_ns_list |-> nvme_ns_list,
   identify_primary_ctrl  |-> nvme_primary_ctrl_cap,
   identify_secondary_ctrl_list |-> nvme_secondary_ctrl_list,
   identify_nvmset_list   |-> nvme_id_nvmset_list,
   identify_ns_granularity |-> nvme_id_ns_granularity_list,
   identify_uuid          |-> nvme_id_uuid_list,
   identify_ns_csi        |-> NVME_IDENTIFY_DATA_SIZE,
   identify_ctrl_csi      |-> NVME_IDENTIFY_DATA_SIZE,
   identify_active_ns_list_csi |-> nvme_ns_list,
   identify_allocated_ns_list_csi |-> nvme_ns_list,
   identify_independent_identify_ns |-> nvme_id_independent_id_ns,
   identify_ns_csi_user_data_format |-> NVME_IDENTIFY_DATA_SIZE,
   identify_iocs_ns_csi_user_data_format |-> NVME_IDENTIFY_DATA_SIZE,
   identify_domain_list   |-> nvme_id_domain_list,
   identify_endurance_group_list |-> nvme_id_endurance_group_list,
   identify_iocs          |-> nvme_id_iocs,
   nvm_identify_ctrl      |-> nvme_id_ctrl_nvm,
   zns_identify_ns        |-> nvme_zns_id_ns,
   zns_identify_ctrl      |-> nvme_zns_id_ctrl,
   directive_identify     |-> nvme_id_directives,
   stream_parameters      |-> nvme_streams_directive_params]

(* The caller's buffer.                                                    *)
NoData ==
  {"stream_allocate", "stream_release_identifier", "stream_release_resource",
   "set_features_simple", "get_features_simple"}

Buffer(r) ==
  CASE r.op \in DOMAIN Structure          -> Structure[r.op]
    [] r.op \in {"error", "error_log"}    -> nvme_error_log_page * r.n
    [] r.op = "stream_status" -> nvme_streams_directive_status + 2 * r.n
    [] r.op = "fdp_handle_update"         -> 2 * r.n
    [] r.op \in NoData                    -> 0
    [] OTHER                              -> r.len

-----------------------------------------------------------------------------
Init ==
  /\ events = {}
  /\ capture = 0
  /\ phase = [c \in Caller |-> "idle"]
  /\ call = [c \in Caller |-> NoCall]

NewCall(r, sent, reply) ==
  [request |-> r, sent |-> sent, pos |-> 0, reply |-> reply]

(* Replies made without a command: no entry was asked for, the length does *)
(* not fit, more streams were asked for than there are, or the crate's     *)
(* lazy open failed.                                                       *)
NothingAsked(r) == r.op = "error_log" /\ r.n = 0
Overflows(r)    == r.op = "error_log" /\ nvme_error_log_page * r.n >= USize
TooMany(r) ==
  r.op = "stream_status" /\ ~nvme_directive_recv_stream_status_checks(r.n)

EarlyReply(r) ==
  IF NothingAsked(r) THEN {check_ret(0)}
  ELSE IF Overflows(r) THEN {OsError, InvalidArgument}
  ELSE IF TooMany(r) THEN {check_ret(-1)}
  ELSE IF r.via = "crate" THEN {OsError} ELSE {}

Refuse(c) ==
  /\ phase[c] = "idle"
  /\ phase' = [phase EXCEPT ![c] = "refused"]
  /\ \E r \in Request[c] : \E reply \in EarlyReply(r) :
       call' = [call EXCEPT ![c] = NewCall(r, NoCall, reply)]
  /\ UNCHANGED <<events, capture>>

Begin(c) ==
  /\ phase[c] = "idle"
  /\ phase' = [phase EXCEPT ![c] = "runs"]
  /\ \E r \in Request[c] :
       /\ ~NothingAsked(r) /\ ~Overflows(r) /\ ~TooMany(r)
       /\ call' = [call EXCEPT ![c] = NewCall(r, Sent(r), check_ret(0))]
  /\ UNCHANGED <<events, capture>>

(* What the controller does with one command of a call (external).         *)
IsLog(sent) == "lid" \in DOMAIN sent
Captures(sent) ==
  IsLog(sent) /\ sent.lid = LID.TELEMETRY_HOST
              /\ sent.lsp % 2 = NVME_LOG_TELEM_HOST_LSP_CREATE
Length(sent) ==
  CASE IsLog(sent)                 -> sent.len
    [] "data_len" \in DOMAIN sent  -> sent.data_len
    [] OTHER                       -> NVME_IDENTIFY_DATA_SIZE
NextPos(k) ==
  LET left == Length(k.sent) - k.pos IN
  IF IsLog(k.sent) /\ k.sent.chunk \in 1 .. left
  THEN k.pos + k.sent.chunk ELSE k.pos + left

(* Whether every command of a split read carries rae, or those before the  *)
(* last one retain the event, is not said; nor what reading nothing does.  *)
TakesBack(k) ==
  IF ~IsLog(k.sent) \/ k.sent.rae THEN {FALSE}
  ELSE IF NextPos(k) = Length(k.sent) /\ k.sent.len > 0 THEN {TRUE}
  ELSE BOOLEAN

Executes(k) ==
  /\ Captures(k.sent) => capture < MaxCapture
  /\ capture' = IF Captures(k.sent) THEN capture + 1 ELSE capture
  /\ \E takes \in TakesBack(k) :
       events' = IF takes THEN events \ {k.sent.lid} ELSE events

Transfer(c) ==
  /\ phase[c] = "runs"
  /\ Executes(call[c])
  /\ call' = [call EXCEPT ![c].pos = NextPos(call[c])]
  /\ phase' = IF NextPos(call[c]) = Length(call[c].sent)
               THEN [phase EXCEPT ![c] = "done"] ELSE phase

Fails(c, ret) ==
  /\ phase[c] = "runs"
  /\ phase' = [phase EXCEPT ![c] = "done"]
  /\ call' = [call EXCEPT ![c].reply = check_ret(ret)]

(* The controller refuses the command.                                     *)
Reject(c) == Fails(c, InvalidField) /\ UNCHANGED <<events, capture>>

(* The command timed out; the controller executed it all the same, or did  *)
(* not.                                                                    *)
TimeOut(c) ==
  /\ Fails(c, -1)
  /\ Executes(call[c]) \/ UNCHANGED <<events, capture>>

Return(c) ==
  /\ phase[c] \in {"done", "refused"}
  /\ phase' = [phase EXCEPT ![c] = "idle"]
  /\ call' = [call EXCEPT ![c] = NoCall]
  /\ UNCHANGED <<events, capture>>

Change(lid) ==
  /\ events' = events \cup {lid}
  /\ UNCHANGED <<capture, phase, call>>

Next ==
  \/ \E c \in Caller :
       Refuse(c) \/ Begin(c) \/ Transfer(c) \/ Reject(c) \/ TimeOut(c) \/ Return(c)
  \/ \E lid \in Announced : Change(lid)

Spec == Init /\ [][Next]_vars

-----------------------------------------------------------------------------
TypeOK ==
  /\ events \subseteq Announced
  /\ capture \in 0 .. MaxCapture
  /\ phase \in [Caller -> {"idle", "runs", "done", "refused"}]
  /\ DOMAIN call = Caller
  /\ \A c \in Caller : phase[c] # "idle" =>
       call[c] \in [request : Request[c], sent : {NoCall, Sent(call[c].request)},
                   pos : Nat, reply : Reply]

(* The length of an Error Information read loses its upper half, that of   *)
(* a list of placement identifiers its upper bits.                         *)
LengthCut(r) ==
  \/ r.op \in {"error", "error_log"} /\ nvme_error_log_page * r.n >= U32
  \/ r.op = "fdp_handle_update" /\ 2 * r.n >= U32

(* The controller never uses more than the buffer that a caller passed for *)
(* a page, an Identify structure or a directive, and a call that returns   *)
(* Ok has used all of it, except where error_log (controller.rs),          *)
(* nvme_get_log_error or nvme_fdp_reclaim_unit_handle_update cut the       *)
(* length to 32 bits: there the caller gets entries that were never read,  *)
(* or some of its identifiers are never sent.                              *)
BufferSafe ==
  \A c \in Caller : phase[c] # "idle" =>
    LET r == call[c].request IN
    /\ call[c].pos <= Buffer(r)
    /\ phase[c] # "runs" /\ call[c].reply = check_ret(0) =>
         call[c].pos = Buffer(r) \/ LengthCut(r)

(* What the controller is asked for does not depend on the transport: the  *)
(* functions of mi.h and of ioctl.h, and the crate's own, put the same     *)
(* command together.  Known exception: the Boot Partition log over the     *)
(* management interface drops the partition that was named.                *)
OnWire(sent) == IF IsLog(sent) THEN [sent EXCEPT !.chunk = 0] ELSE sent

OverIoctl(r) ==
  CASE r.op = "smart_log"   -> nvme_get_log_smart(NVME_NSID_ALL, FALSE)
    [] r.op = "fw_slot_log" -> nvme_get_log_fw_slot(FALSE)
    [] r.op = "error_log"   -> nvme_get_log_error(r.n, FALSE)
    [] OTHER                -> Sent([r EXCEPT !.via = "ioctl"])

TransportsAgree ==
  \A c \in Caller : phase[c] \in {"runs", "done"} =>
    LET r == call[c].request IN
    \/ OnWire(call[c].sent) = OnWire(OverIoctl(r))
    \/ r.via = "mi" /\ r.op = "boot_partition" /\ r.lsp # NVME_LOG_LSP_NONE

Moves(c) == phase'[c] # phase[c] \/ call'[c] # call[c]

(* An event is taken back only by a read of its page whose caller did not  *)
(* ask for it to be retained, so that a monitor that looks at a page with  *)
(* rae does not hide the change from the thread that waits for the event.  *)
RetainKept ==
  [][\A lid \in events \ events' :
       \E c \in Caller : /\ phase[c] = "runs" /\ Moves(c)
                         /\ call[c].sent.lid = lid
                         /\ ~call[c].request.rae]_vars

(* The telemetry that a sequence of reads collects piece by piece is not   *)
(* replaced by one of the reads: only the first command of a call that     *)
(* creates a capture makes a new one.                                      *)
OnlyCreateCaptures ==
  [][capture' # capture =>
       \E c \in Caller : /\ phase[c] = "runs" /\ Moves(c)
                         /\ IsCreate(call[c].request) /\ call[c].pos = 0]_vars
=============================================================================
