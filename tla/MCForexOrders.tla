--------------------------- MODULE MCForexOrders ---------------------------
(* The small instances of ForexOrders that TLC checks. *)
EXTENDS ForexOrders

CONSTANTS o1, o2

OneOrder == {o1}
TwoOrders == {o1, o2}
=============================================================================
