SPECIFICATION Spec
CONSTANTS
  Char <- MCChar
  InitialLength = 3
  InsertLength = 2
  MaxEdits = 3
  FreshChunks = 2
  StaleChunks = 1
INVARIANTS
  IntentPreserved LostOnlyInside RecordedFits
CHECK_DEADLOCK FALSE
