\* Two jobs and two calls on them; job ids and calls are interchangeable.
SPECIFICATION Spec
CONSTANTS
  Jobs = {j1, j2}
  Callers = {c1, c2}
  MaxActive = 2
  Reports = {"completed"}
SYMMETRY JobSymmetry
INVARIANTS TypeOK ToldOnce OutputExactlyOnce DisposalAwaitsCancelled
PROPERTY FirstOutcomeWins
CHECK_DEADLOCK FALSE
