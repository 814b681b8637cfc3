\* One alert of any kind, two calls at a time with three rates, the expiry at any time.
SPECIFICATION FairSpec
CONSTANTS
  a1 = a1
  c1 = c1
  c2 = c2
  Alerts <- MCAlerts
  Terms <- MCTerms
  Expiring <- MCAlerts
  Rates <- MCRates
  Tolerance = 2
  Calls <- MCCalls
INVARIANTS
  TypeOK
  OneShotTellsOnce
  ToldIsRecorded
PROPERTIES
  SerialLifecycle
  DueAlertsLeaveActive
