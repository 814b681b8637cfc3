\* Whose wallet a buyForex debits.
SPECIFICATION Spec
CONSTANTS
  ada = ada
  ben = ben
  usd = usd
  ngn = ngn
  r1 = r1
  r2 = r2
  Users <- MCUsers
  Currencies <- MCCurrencies
  Requests <- MCRequests
  Amounts <- MCAmounts
  ForexAmounts <- MCForexAmounts
  Rates <- MCRates
  OpeningBalances <- MCOpeningBalances
INVARIANT TradesOwnWallet
