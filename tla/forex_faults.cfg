\* One order, two retries, up to three faults of any kind.
SPECIFICATION FairSpec
CONSTANTS
  o1 = o1
  o2 = o2
  Orders <- OneOrder
  MaxRetries = 2
  MaxFaults = 3
INVARIANTS
  TypeOK
  AttemptsBounded
  SuccessIsReal
PROPERTY
  RetriesEnd
