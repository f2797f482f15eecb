\* The log: two messages, turns of up to three tool steps, batches of two calls;
\* progress if everything the driver awaits settles.
SPECIFICATION FairSpec
CONSTANTS
  Messages = {m1, m2}
  Causes = {"user", "disposed"}
  MaxSteps = 3
  MaxAttempts = 2
  MaxCalls = 2
INVARIANTS TypeOK LogBalanced DriverDiscipline OneFate
PROPERTIES AbortDiscipline WritesTurnLog Converges LatchedWakeRuns
