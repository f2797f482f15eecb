\* Two turns and two steps, of one turn or one of each; two crashes or forks.
SPECIFICATION Spec
CONSTANTS
  Requests <- MCRequests
  MaxTurns = 2
  MaxSteps = 2
  MaxCrashes = 2
INVARIANTS BalancedBetweenTurns RecoveryCodesTruthful RepairResumable
CHECK_DEADLOCK FALSE
