\* Two requests of any kind by two users, and one fault.
SPECIFICATION FairSpec
CONSTANTS
  ada = ada
  ben = ben
  usd = usd
  r1 = r1
  r2 = r2
  Users <- MCUsers
  Currencies <- MCCurrencies
  Requests <- MCRequests
  Amounts <- MCAmounts
  OpeningBalances <- MCOpeningBalances
  MaxFaults = 1
INVARIANTS
  TypeOK
  DoneIsDone
  UnsuccessfulMovedNothing
  OneSignUpWins
  WalletsHaveAccounts
PROPERTY
  EveryRequestEnds
