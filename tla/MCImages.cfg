SPECIFICATION MCSpec
CONSTANTS
  ReadAhead = 1
  GroupBounds = 4
  ZeroLimit = 2
  Images <- MCImageSet
  Versions <- MCVersions
  Sizes <- MCSizes
  PartCounts <- MCPartCounts
  MaxContents = 2
  MaxConversions = 2
INVARIANTS
  
  RoundTrip
  
  
  ConvertedIsSource
CHECK_DEADLOCK FALSE
