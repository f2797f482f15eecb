\* Two sessions of one id and a third, two observers, twelve calls, three dispatches deep.
SPECIFICATION FairSpec
CONSTANTS
  s1 = s1
  s2 = s2
  s3 = s3
  i1 = i1
  i2 = i2
  Sessions = {s1, s2, s3}
  Ids = {i1, i2}
  IdOf <- MCIdOf
  Observers = 2
  MaxCalls = 12
  MaxDepth = 3
INVARIANT ObserversAgree
PROPERTY DetachHappens
CHECK_DEADLOCK FALSE
