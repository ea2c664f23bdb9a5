SPECIFICATION Spec
CONSTANTS
  Threads <- MCOne
  Starter = "none"
  DirKeys <- MCDir
  SoloKeys <- MCSolo
  MaxReady = 1
  MaxSource = 2
  Asks <- MCReader
  ReadKeys <- MCSolo
  UpdateKeys <- MCUpdate
  DeleteKeys = {}
  Dated = TRUE
  Routed = TRUE
INVARIANTS
  RefreshedBeforeUse
