SPECIFICATION Spec
CONSTANTS
  Threads <- MCThreads
  Starter = "c2"
  DirKeys <- MCDir
  SoloKeys <- MCSolo
  MaxReady = 1
  MaxSource = 2
  Asks <- MCAsks
  ReadKeys <- MCSolo
  UpdateKeys <- MCUpdate
  Dated = FALSE
  Routed = FALSE
  DeleteKeys <- MCDelete
INVARIANTS
  TypeOK
  SelfRefreshed
  CurrentUnlessTorn
  PromisedResident
  ColdWithinLimit
  WaitsEnd
