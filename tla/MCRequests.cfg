SPECIFICATION Spec
CONSTANTS
  Repos <- MCRepos
  Dirs <- MCDirs
  MaxReady = 2
  Process = "outside"
  RootChoices <- MCRootChoices
  Args <- MCArgs
  Starts <- MCStarts
  DefaultLimit = 1
  Grams <- MCGrams
  Within <- MCWithin
  Long <- MCLong
  NoSymbols <- MCNoSymbols
  Corpora <- MCCorpora
  Queries <- MCQueries
  Order <- MCOrder
  LangOf <- MCLangOf
  ExtractorOf <- MCExtractorOf
  MaxBytes = 2
  Trees <- MCTrees
  Edits <- MCEdits
INVARIANTS
  FollowUpsStay
  StatusTellsRoute
  CheckoutReached
  RefreshStaysScoped
  CmdFollowUpsStay
  CommandFormsStay
  SearchAutoFinds
  SurfacesAgree
  FollowUpsAccepted
  RetriesRelax
  SearchesAgree
  TermsFound
  RefreshConverges
