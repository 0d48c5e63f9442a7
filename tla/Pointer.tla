------------------------------ MODULE Pointer ------------------------------
(***************************************************************************)
(* What libnvme returns for an object that is not there.                   *)
(***************************************************************************)
CONSTANT NULL
=============================================================================
