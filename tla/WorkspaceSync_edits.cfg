\* One page, two files; two edits, two structural operations, one upset.
SPECIFICATION Spec
CONSTANTS
  main = main
  util = util
  Paths <- MCPaths
  Starters <- MCStarters
  MaxEdits = 2
  MaxRequests = 2
  MaxOps = 2
  MaxUpsets = 1
INVARIANTS
  TypeOK
  SavedIsStored
PROPERTIES
  RunTakesShown
  ComesToRest
CHECK_DEADLOCK FALSE
