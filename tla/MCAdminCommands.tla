-------------------------- MODULE MCAdminCommands --------------------------
(***************************************************************************)
(* An instance of AdminCommands for TLC: one thread calls every function   *)
(* of the tables, over both transports, another one the few that may get   *)
(* in its way.  2^32 is scaled to 2^18, so that 4096 entries of 64 bytes   *)
(* are cut to a length of 0 as 2^26 are.                                   *)
(***************************************************************************)
EXTENDS AdminCommands, TLC

CONSTANTS c1, c2

MCUSize     == U32 * 4096
MCAnnounced == {LID.SMART, LID.ANA}

Base ==
  [via |-> "ioctl", op |-> "smart", rae |-> FALSE, nsid |-> NVME_NSID_ALL,
   lsp |-> 0, offset |-> 0, len |-> 64, id |-> 1, csi |-> CSI.ZNS, n |-> 1,
   flag |-> TRUE]

Ops(via)        == Offered([Base EXCEPT !.via = via])
Calls(via, ops) == { [Base EXCEPT !.via = via, !.op = op] : op \in ops }

(* Every function once; those whose arguments matter more often: reads     *)
(* that retain, reads in two chunks, entries that do not fit 32 bits, none *)
(* at all, more streams than there are, and identifiers that do not fit.   *)
Every ==
  UNION { Calls(via, Ops(via)) : via \in {"ioctl", "mi", "crate"} }
Retaining(vias) ==
  { [Base EXCEPT !.via = v, !.op = op, !.rae = TRUE, !.lsp = 1, !.len = 6000, !.nsid = 1] :
    v \in vias, op \in HasRae }
Entries ==
  { [Base EXCEPT !.via = v[1], !.op = v[2], !.n = n] :
    v \in {<<"ioctl", "error">>, <<"mi", "error">>, <<"crate", "error_log">>},
    n \in {0, 3, 4096, 4097} }
Streams == { [Base EXCEPT !.op = "stream_status", !.n = n] : n \in {0, NVME_STREAM_ID_MAX + 1} }
Handles == { [Base EXCEPT !.op = "fdp_handle_update", !.n = n] : n \in {128, 131073} }
Large ==
  { [Base EXCEPT !.via = v, !.op = op, !.len = 6000] :
    v \in {"ioctl", "mi"}, op \in {"ana", "telemetry_host"} }

Rivals ==
  Calls("ioctl", {"create_telemetry_host", "smart"}) \cup Calls("crate", {"smart_log"})
MCCaller   == {c1, c2}
MCRequests ==
  (c1 :> Every \cup Retaining({"ioctl", "mi"}) \cup Entries \cup Streams \cup Handles \cup Large)
  @@ (c2 :> Rivals)

(* Namespaces are created, deleted, attached and detached alike over both  *)
(* transports; a handle update counts its placement identifiers from 0.    *)
ASSUME NamespaceHelpersAgree ==
  \A nsid \in {0, 1, NVME_NSID_ALL} : \A csi \in {CSI.NVM, CSI.ZNS} :
    /\ nvme_ns_mgmt_create(csi) = nvme_mi_admin_ns_mgmt_create(csi)
    /\ nvme_ns_mgmt_delete(nsid) = nvme_mi_admin_ns_mgmt_delete(nsid)
    /\ nvme_ns_attach_ctrls(nsid) = nvme_mi_admin_ns_attach_ctrls(nsid)
    /\ nvme_ns_detach_ctrls(nsid) = nvme_mi_admin_ns_detach_ctrls(nsid)

(* The frequency and the unit size a port is set to are what is read back  *)
(* from an endpoint that answers with the field or doubleword it was sent. *)
ASSUME ConfigReadsBack ==
  \A port \in {0, 1, 127} :
    /\ \A freq \in 1 .. 3 :
         LET set == nvme_mi_mi_config_set_smbus_freq(port, freq)
             get == nvme_mi_mi_config_get_smbus_freq(port, (set.dw0 \div 256) % 256)
         IN  get.freq = freq /\ set.dw0 = get.dw0 + 256 * freq
    /\ \A mtu \in {64, 65535} :
         LET set == nvme_mi_mi_config_set_mctp_mtu(port, mtu)
             get == nvme_mi_mi_config_get_mctp_mtu(port, set.dw1)
         IN  get.mtu = mtu /\ set.dw0 = get.dw0

ASSUME HandleUpdateCounts ==
  \A npids \in 1 .. 128 :
    LET a == nvme_fdp_reclaim_unit_handle_update(1, npids) IN
    a.data_len = 2 * (a.mos + 1)
=============================================================================
