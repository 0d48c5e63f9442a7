--------------------------- MODULE MCHandleTree ---------------------------
(***************************************************************************)
(* A tree of up to three hosts and, below one of them, a list of up to two *)
(* subsystems, with two iterators that run at the same time.               *)
(***************************************************************************)
EXTENDS HandleTree

CONSTANTS h1, h2, h3, hosts, subs

MCList  == {hosts, subs}
MCOwner == [l \in MCList |-> IF l = hosts THEN Top ELSE h1]

(* A scan finds one host, or two in either order.                          *)
MCTopology ==
  { [member |-> [l \in MCList |-> IF l = hosts THEN {h1} ELSE {}],
     before |-> [l \in MCList |-> {}]],
    [member |-> [l \in MCList |-> IF l = hosts THEN {h1, h2} ELSE {h3}],
     before |-> [l \in MCList |-> IF l = hosts THEN {<<h1, h2>>} ELSE {}]] }
=============================================================================
