\* One order, two calls and a pass that recurs, the expiry at any time.
SPECIFICATION FairSpec
CONSTANTS
  c1 = c1
  c2 = c2
  p1 = p1
  Orders <- MCOrders
  PairOf <- MCPairOf
  Expiring <- MCExpiring
  Calls <- MCCalls
  Passes <- MCPasses
INVARIANTS
  TypeOK
  CompletedIsAudited
PROPERTIES
  SerialLifecycle
  DueOrdersLeavePending
\* With the order settled and every task over, the system rests.
CHECK_DEADLOCK FALSE
