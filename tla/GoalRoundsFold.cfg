\* A goal of one round, edited while its round's step is being prepared.
SPECIFICATION Spec
CONSTANTS
  Caps = {1}
  MaxEvents = 2
INVARIANT FoldNeverFails
CHECK_DEADLOCK FALSE
