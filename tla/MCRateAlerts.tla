---------------------------- MODULE MCRateAlerts ----------------------------
(* The small instances of RateAlerts that TLC checks. *)
EXTENDS RateAlerts

CONSTANTS a1, c1, c2

MCAlerts == {a1}
MCTerms == [target : {3}, condition : Conditions, repeat : BOOLEAN, notify : BOOLEAN]
\* With a tolerance of 2, a rate of 4 equals the target and one of 5 does not.
MCRates == {2, 4, 5}
MCCalls == {c1, c2}
=============================================================================
