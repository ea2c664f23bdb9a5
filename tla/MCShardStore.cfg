SPECIFICATION Spec
CONSTANTS
  orient = orient
  tools = tools
  Repos <- MCRepos
  Terms <- MCTerms
  MaxSaves = 4
  MaxChanges = 2
  MaxAborts = 1
  MaxOutside = 1
INVARIANTS
  TypeOK
  TrustedFilesAgree
  CleanRecall
  CleanOpens
PROPERTIES
  OnlyForceDrops
SYMMETRY MCSymmetry
