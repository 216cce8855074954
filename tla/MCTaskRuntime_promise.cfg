CONSTANTS
  p1 = p1
  b1 = b1
  x1 = x1
  j1 = j1
  j2 = j2
  PlainRuns <- OnePlain
  BracketRuns <- None
  OtherRuns <- OneOther
  Jobs <- TwoJobs
  StartMayFail <- RunsMayFail
  AfterMayFail <- None
SPECIFICATION FairSpec
INVARIANTS Exclusion FinalizedOnce
PROPERTY ImplementsPromise
CHECK_DEADLOCK FALSE
