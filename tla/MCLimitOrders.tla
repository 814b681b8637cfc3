--------------------------- MODULE MCLimitOrders ---------------------------
(* The small instance of LimitOrders that TLC checks. *)
EXTENDS LimitOrders

CONSTANTS c1, c2, p1

MCOrders == {1}
MCPairOf == [o \in MCOrders |-> "USD:EUR"]
MCExpiring == {1}
MCCalls == {c1, c2}
MCPasses == {p1}
=============================================================================
