------------------------------- MODULE MCZns -------------------------------
(***************************************************************************)
(* An instance of Zns for TLC: two zones of three blocks, appends of one   *)
(* and two blocks (as many as NlbMax), and of none and three, which are    *)
(* refused; one caller reports the zones into buffers with room for both,  *)
(* for one, and for less than the header; the other one manages them.      *)
(***************************************************************************)
EXTENDS Zns, TLC

CONSTANTS c1, c2
MCCaller == {c1, c2}

Appends(zslbas, nlbs) ==
  { [op |-> "append", zslba |-> s, nlb |-> n, len |-> n * LbaSize] :
    s \in zslbas, n \in nlbs }
Sends(actions, slbas, all) ==
  { [op |-> "send", action |-> a, slba |-> s, select_all |-> all] :
    a \in actions, s \in slbas }
Recvs(filters, partials, lens) ==
  { [op |-> "recv", action |-> "Report", slba |-> 0, filter |-> f, partial |-> p, len |-> l] :
    f \in filters, p \in partials, l \in lens }

MCRequests ==
  (c1 :> Appends({0}, {0, 1, 2, 3}) \cup Appends({1}, {1})
            \cup Recvs({"All"}, BOOLEAN, {63, 128, 192}) \cup Recvs({"All"}, {FALSE}, {None})
            \cup Recvs({"Full", "Empty"}, {TRUE}, {192, 256}))
  @@ (c2 :> Appends({0}, {1}) \cup Appends({3}, {2})
            \cup Sends(DOMAIN ZoneSendAction, {0}, FALSE)
            \cup Sends({"Close", "Finish", "Open", "Reset", "Offline"}, {3}, TRUE))
=============================================================================
