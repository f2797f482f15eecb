\* Two attempts on one session, in one process each or both in one; two stops.
SPECIFICATION FairSpec
CONSTANTS
  a1 = a1
  a2 = a2
  p1 = p1
  p2 = p2
  Nobody = Nobody
  Attempts = {a1, a2}
  Processes = {p1, p2}
  Homes <- MCHomes
  MaxStops = 2
INVARIANTS
  SingleWriter
  NothingLeft
PROPERTIES
  KeepsContract
  Settles
CHECK_DEADLOCK FALSE
