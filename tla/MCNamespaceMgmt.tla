-------------------------- MODULE MCNamespaceMgmt --------------------------
(***************************************************************************)
(* An instance of NamespaceMgmt for TLC: lists of at most two controllers. *)
(***************************************************************************)
EXTENDS NamespaceMgmt

CONSTANTS p1, p2

MCProcess == {p1, p2}
MCUser    == {p1}
MCCntlid  == 0 .. 2

Req(op, n, ids) == [op |-> op, nsid |-> n, ids |-> ids]

(* Management by two processes, with lists that are empty, full and too    *)
(* long, and an identifier that does not exist.                            *)
MCRequests ==
  {Req("create", 0, <<>>), Req("delete", 1, <<>>),
   Req("attach", 1, <<1>>), Req("attach", 1, <<1, 2>>),
   Req("attach", 1, <<1, 2, 1>>), Req("attach", 9, <<>>),
   Req("detach", 1, <<2, 1>>)}
=============================================================================
