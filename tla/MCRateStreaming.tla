-------------------------- MODULE MCRateStreaming --------------------------
(* The small instances of RateStreaming that TLC checks. *)
EXTENDS RateStreaming, TLC

CONSTANTS c1, c2, usdEur

MCClients == {c1, c2}
MCPairs == {usdEur}
\* One client that may subscribe and then unsubscribe or ask, and another.
MCMaxSaid == c1 :> 2 @@ c2 :> 1
=============================================================================
