SPECIFICATION SearchSpec
CONSTANTS
  orient = orient
  tools = tools
  Repos <- MCRepos
  Terms <- MCTerms
  MaxSaves = 3
  MaxChanges = 1
  MaxAborts = 0
  MaxOutside = 1
SYMMETRY MCSymmetry
INVARIANTS
  StableHitsFound
PROPERTIES
  FailsOnPrunedOnly
