\* A COMPLETED order whose job runs a second time.
SPECIFICATION Spec
CONSTANTS
  o1 = o1
  o2 = o2
  Orders <- OneOrder
  MaxRetries = 3
  MaxFaults = 1
PROPERTY CompletedNotReexecuted
