\* Two clients that send two messages and one, a pair whose rate is set up to twice and
\* broadcast once.
SPECIFICATION FairSpec
CONSTANTS
  c1 = c1
  c2 = c2
  usdEur = usdEur
  Clients <- MCClients
  Pairs <- MCPairs
  MaxSaid <- MCMaxSaid
  MaxRate = 2
  MaxUpdates = 1
INVARIANTS
  TypeOK
  UpdatesOnlyWhileSubscribed
  AnsweredOnce
  NoGapAtSubscription
PROPERTIES
  LookupsEnd
\* Every client is gone and every rate is set: the system rests.
CHECK_DEADLOCK FALSE
