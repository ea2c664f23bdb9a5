SPECIFICATION Spec
CONSTANTS
  Writers <- MCWriters
  SlowHolders = TRUE
  MaxAges = 2
INVARIANTS
  TypeOK
  HolderOwnsFile
PROPERTIES
  ImplementsMutex
  WaitersAnswered
