-------------------------- MODULE MCWalletService --------------------------
(* The small instances of WalletService that TLC checks. *)
EXTENDS WalletService

CONSTANTS ada, ben, usd, ngn, r1, r2

MCUsers == {ada, ben}
MCCurrencies == {usd, ngn}
MCRequests == {r1, r2}
MCAmounts == {1, 2}
MCForexAmounts == {2, -1}
MCRates == {3}
MCOpeningBalances == {2}
=============================================================================
