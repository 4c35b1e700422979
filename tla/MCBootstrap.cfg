SPECIFICATION FairBootSpec
CONSTANTS
  NumNodes = 1
  MaxPolls = 2
  MaxPods = 2
  MaxReadings = 2
  MaxUploads = 3
  Size <- MCSize
INVARIANTS
  BootTypeOK
  SilentUpWasReady
  StableIsOneTarball
  SilentUpWasDeployed
PROPERTIES
  ReadinessAllows
  UpEnds
