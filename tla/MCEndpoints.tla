---------------------------- MODULE MCEndpoints ----------------------------
(* The small instances of Endpoints that TLC checks. *)
EXTENDS Endpoints

CONSTANTS ada, ben, usd, r1, r2

MCUsers == {ada, ben}
MCCurrencies == {usd}
MCRequests == {r1, r2}
MCAmounts == {1}
MCOpeningBalances == {1}
=============================================================================
