\* A FAILED order and the money it moved.
SPECIFICATION Spec
CONSTANTS
  o1 = o1
  o2 = o2
  Orders <- OneOrder
  MaxRetries = 3
  MaxFaults = 1
INVARIANT FailedNeedsNoRollback
