SPECIFICATION Spec
CONSTANTS
  r1 = r1 r2 = r2 x1 = x1 x2 = x2 a = a b = b
  Requests = {r1, r2}
  Editor = Editor
  Ticker = Ticker
  Copies = {x1, x2}
  NoCopy = NoCopy
  NoPath = NoPath
  NoProc = NoProc
  Paths = {a, b}
  MaxFiles = 2
  MaxObjects = 3
  MaxEdits = 1
  MaxFailures = 1
INVARIANTS
  TypeOK OnePathOneFile NothingDangles OwnText NothingRefersToDeleted HoldersGoOn
SYMMETRY Symmetry
CHECK_DEADLOCK FALSE
