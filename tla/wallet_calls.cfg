\* Two calls of any kind, two users with up to two wallets each.
SPECIFICATION FairSpec
CONSTANTS
  ada = ada
  ben = ben
  usd = usd
  ngn = ngn
  r1 = r1
  r2 = r2
  Users <- MCUsers
  Currencies <- MCCurrencies
  Requests <- MCRequests
  Amounts <- MCAmounts
  ForexAmounts <- MCForexAmounts
  Rates <- MCRates
  OpeningBalances <- MCOpeningBalances
INVARIANTS
  TypeOK
  OnlyCreditsOverdraw
  SerialConsistency
PROPERTIES
  BalanceChangeRecorded
  EveryCallAnswered
