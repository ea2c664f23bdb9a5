SPECIFICATION Spec
CONSTANTS
  orient = orient
  tools = tools
  Repos <- MCRepos
  Terms <- MCTerms
  MaxSaves = 2
  MaxChanges = 1
  MaxAborts = 1
  MaxOutside = 0
SYMMETRY MCSymmetry
INVARIANT
  FreshIsFound
