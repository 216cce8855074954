SPECIFICATION MCSpec
CONSTANTS
  Placed <- MCPlaced
  ImageSize <- MCImageSize
  Sizes <- MCSizes
  MaxRuns = 2
  MaxSelected = 2
  Forms <- MCForms
  Projects = {p, q}
  p = p
  q = q
  Names <- MCNames
  Holdings <- MCHoldings
  Shipped <- MCShipped
  MaxExtracted = 2
  MaxPrepared = 2
  MaxEdited = 2
 
PROPERTIES
  UnpackedIsPacked
  SuccessIsFresh
  RemovedIsPacked
CHECK_DEADLOCK FALSE
