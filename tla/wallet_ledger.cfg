\* A balance against the sum of its transactions when handlers overlap.
SPECIFICATION Spec
CONSTANTS
  ada = ada
  ben = ben
  usd = usd
  ngn = ngn
  r1 = r1
  r2 = r2
  Users <- MCUsers
  Currencies <- MCCurrencies
  Requests <- MCRequests
  Amounts <- MCAmounts
  ForexAmounts <- MCForexAmounts
  Rates <- MCRates
  OpeningBalances <- MCOpeningBalances
INVARIANT BalanceIsLedger
