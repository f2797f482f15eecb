\* An event published while close() releases the lock.
SPECIFICATION Spec
CONSTANTS
  Flushers = {f1}
  MaxEvents = 2
  MaxFaults = 0
  MaxOpens = 0
INVARIANT WritesHoldTheLease
CHECK_DEADLOCK FALSE
