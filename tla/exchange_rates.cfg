\* Three currencies, two refreshes that may overlap, and one fault or one update.
SPECIFICATION FairSpec
CONSTANTS
  usd = usd
  eur = eur
  ngn = ngn
  first = first
  t1 = t1
  t2 = t2
  Currencies <- ThreeCurrencies
  Base <- usd
  First <- first
  Updated <- OnePair
  Refreshes <- TwoRefreshes
  MaxVersion = 2
  MaxFaults = 1
INVARIANT TypeOK
PROPERTIES
  RefreshIsComplete
  RatesFollow
