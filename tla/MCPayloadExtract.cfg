CONSTANTS
  w1 = w1
  w2 = w2
  Workers <- TwoWorkers
  Plan <- TwoImages
  Faults <- EveryFault
  MaxFailures = 1
SPECIFICATION FairSpec
INVARIANTS UndisturbedIsWhole QuietWhenReported
PROPERTY EndsUnlessJammed
CHECK_DEADLOCK FALSE
