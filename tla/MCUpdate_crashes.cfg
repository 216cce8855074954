SPECIFICATION Spec
CONSTANTS
  Files <- MCFiles
  Held <- MCHeld
  Stubborn <- MCStubborn
  MaxVersion = 3
  MaxCrashes = 1
  MaxFailures = 1
  Faults <- AllFaults
INVARIANTS Startable NothingLost 
PROPERTIES Settles
