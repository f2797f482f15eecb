\* Three events, two flush callers, one failure, two further opens.
SPECIFICATION FairSpec
CONSTANTS
  Flushers = {f1, f2}
  MaxEvents = 3
  MaxFaults = 1
  MaxOpens = 2
INVARIANTS TypeOK StoredInOrder NothingLost NeverStranded
PROPERTY HandleSettles
CHECK_DEADLOCK FALSE
