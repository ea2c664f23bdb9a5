SPECIFICATION Spec
CONSTANTS
  Writers <- MCWriters
  SlowHolders = FALSE
  MaxAges = 1
INVARIANT
  MutualExclusion
