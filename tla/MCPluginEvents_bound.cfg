CONSTANTS
  w1 = w1
  w2 = w2
  v1 = v1
  NoView = NoView
  Workers <- TwoWorkers
  Views <- OneView
  MaxEvents <- SeveralEach
  EarlyHook = TRUE
SPECIFICATION FairSpec
INVARIANTS NoLostWakeUp SeenInOrder
PROPERTY EventsArrive
CHECK_DEADLOCK FALSE
