\* Two orders, no faults, the default number of retries.
SPECIFICATION FairSpec
CONSTANTS
  o1 = o1
  o2 = o2
  Orders <- TwoOrders
  MaxRetries = 3
  MaxFaults = 0
INVARIANT MailMatchesStatus
PROPERTIES
  ImplementsLifecycle
  EveryOrderReported
