-------------------------- MODULE MCExchangeRates --------------------------
(* The small instance of ExchangeRates that TLC checks. *)
EXTENDS ExchangeRates

CONSTANTS usd, eur, ngn, first, t1, t2

ThreeCurrencies == {usd, eur, ngn}
OnePair == {<<eur, ngn>>}
TwoRefreshes == {t1, t2}
=============================================================================
