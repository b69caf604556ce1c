---------------------------- MODULE MCOpenOrders ----------------------------
(***************************************************************************)
(* OpenOrders with one order: orders do not interact but through the       *)
(* table's capacity.  A member modifies only orders of one unit without a  *)
(* TTL that the venue has acknowledged.                                    *)
(***************************************************************************)
EXTENDS OpenOrders

CONSTANTS o1

OneOrder == {o1}

SmallModify(o) ==
  /\ venue[o].qty = 1 /\ ord[o].st = "live" /\ ~ord[o].timed
  /\ Modify(o)

MCNext == Handles \/ \E o \in Oids : SmallModify(o)
MCSpec == Init /\ [][MCNext]_vars /\ Fairness
=============================================================================
