--------------------------- MODULE OrderLifecycle ---------------------------
(***************************************************************************)
(* What a forex order promises its user, whatever the retries behind it:   *)
(* it is placed once, the wallets are traded at most once, it ends         *)
(* COMPLETED when they were and FAILED when they were not, and it ends.    *)
(* ForexOrders implements this as long as nothing crashes, stalls or gets  *)
(* lost.                                                                   *)
(***************************************************************************)
EXTENDS Naturals

CONSTANT Orders

VARIABLES
  status,    \* the status the user sees
  trades     \* how often the wallet service traded for the order

vars == <<status, trades>>

TypeOK ==
  /\ status \in [Orders -> {"NONE", "PENDING", "COMPLETED", "FAILED"}]
  /\ trades \in [Orders -> {0, 1}]

Init ==
  /\ status = [o \in Orders |-> "NONE"]
  /\ trades = [o \in Orders |-> 0]

Place(o) ==
  /\ status[o] = "NONE"
  /\ status' = [status EXCEPT ![o] = "PENDING"]
  /\ UNCHANGED trades

Trade(o) ==
  /\ status[o] = "PENDING"
  /\ trades[o] = 0
  /\ trades' = [trades EXCEPT ![o] = 1]
  /\ UNCHANGED status

Complete(o) ==
  /\ status[o] = "PENDING"
  /\ trades[o] = 1
  /\ status' = [status EXCEPT ![o] = "COMPLETED"]
  /\ UNCHANGED trades

Fail(o) ==
  /\ status[o] = "PENDING"
  /\ trades[o] = 0
  /\ status' = [status EXCEPT ![o] = "FAILED"]
  /\ UNCHANGED trades

Settle(o) == Trade(o) \/ Complete(o) \/ Fail(o)

Next == \E o \in Orders : Place(o) \/ Settle(o)

\* A placed order does not stay pending.
Spec == Init /\ [][Next]_vars /\ \A o \in Orders : WF_vars(Settle(o))
=============================================================================
