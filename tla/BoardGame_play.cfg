\* One page, two requests at a time; one reset; one reload, crash or failure.
SPECIFICATION Spec
CONSTANTS
  Boards <- MCBoards
  MaxRequests = 2
  MaxResets = 1
  MaxUpsets = 1
INVARIANTS
  Inv
  GameIsPlayed
  PassDeserved
  RowIsMemory
CHECK_DEADLOCK FALSE
