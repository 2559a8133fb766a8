SPECIFICATION Spec
CONSTANTS
  Char <- MCChar
  InitialLength = 3
  InsertLength = 2
  MaxEdits = 2
  FreshChunks = 2
  StaleChunks = 2
INVARIANTS
  IntentPreserved
CHECK_DEADLOCK FALSE
