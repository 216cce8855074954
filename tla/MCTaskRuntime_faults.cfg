CONSTANTS
  p1 = p1
  b1 = b1
  x1 = x1
  j1 = j1
  j2 = j2
  PlainRuns <- OnePlain
  BracketRuns <- OneBracket
  OtherRuns <- None
  Jobs <- TwoJobs
  StartMayFail <- AnyMayFail
  AfterMayFail <- TwoJobs
SPECIFICATION FairSpec
INVARIANT GateAccounted
PROPERTIES EveryRunReported GateFreed
CHECK_DEADLOCK FALSE
