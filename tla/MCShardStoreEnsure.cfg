SPECIFICATION Spec
CONSTANTS
  orient = orient
  tools = tools
  Repos <- MCRepos
  Terms <- MCTerms
  MaxSaves = 3
  MaxChanges = 1
  MaxAborts = 0
  MaxOutside = 0
SYMMETRY MCSymmetry
PROPERTY
  EnsureKeepsShards
