\* A driver that lets go of waking input.
SPECIFICATION Spec
CONSTANTS
  Messages = {m1, m2}
  Causes = {"user", "disposed"}
  MaxSteps = 2
  MaxAttempts = 2
  MaxCalls = 1
PROPERTY LiveDriversClaim
