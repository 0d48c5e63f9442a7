----------------------------- MODULE MCFabrics -----------------------------
(***************************************************************************)
(* Fabrics for TLC: two handles, which may be of one object, and names     *)
(* that are used again.  Allocations, handles and names are               *)
(* interchangeable, and the properties are safety properties.              *)
(***************************************************************************)
EXTENDS Fabrics, TLC

Symmetry == Permutations(Obj) \cup Permutations(Handle) \cup Permutations(Inst)
=============================================================================
