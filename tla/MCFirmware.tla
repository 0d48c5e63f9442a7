----------------------------- MODULE MCFirmware -----------------------------
(***************************************************************************)
(* An instance of Firmware for TLC: images of two pieces, of one, and of   *)
(* as many as the scaled 2^32; two slots; two callers of which one makes   *)
(* every update and the other may interfere.                               *)
(***************************************************************************)
EXTENDS Firmware, TLC

CONSTANTS a, b, l, c1, c2

MCImage  == {a, b, l}
MCCaller == {c1, c2}
MCPieces == (a :> 2) @@ (b :> 1) @@ (l :> 3)
MCSlot   == {1, 6}

Loads(images) == { [op |-> "download", image |-> i] : i \in images }
Commits6(actions) ==
  { [op |-> "commit", slot |-> 6, action |-> x, bpid |-> TRUE] : x \in actions }
MCRequests ==
  (c1 :> Loads({a, l}) \cup Commits6(CA))
  @@ (c2 :> Loads({b}) \cup {[op |-> "log"]}
            \cup Commits6({FirmwareAction.Replace}))
=============================================================================
