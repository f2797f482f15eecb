\* Three calls over a pool of two; progress if every started tool settles.
SPECIFICATION FairSpec
CONSTANTS
  N = 3
  MaxParallel = 2
INVARIANTS LogReplays NeverSettlesOverWork OverlapBounded AbortCodesTruthful
PROPERTIES BatchSettles
CHECK_DEADLOCK FALSE
