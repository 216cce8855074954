CONSTANTS
  w1 = w1
  w2 = w2
  Workers <- TwoWorkers
  Script <- MixedScript
SPECIFICATION FairSpec
INVARIANT InOrder
PROPERTY EveryPostCalled
CHECK_DEADLOCK FALSE
