SPECIFICATION FairSpec
CONSTANTS
  f1 = f1 f2 = f2 c1 = c1 c2 = c2 r1 = r1
  x1 = x1 x2 = x2 x3 = x3 x4 = x4 ticker = ticker
  Files = {f1}
  Clients = {c1}
  Readers = {r1}
  Ticker = ticker
  Copies = {x1}
  NoProc = NoProc
  NoFile = NoFile
  NoCopy = NoCopy
  CacheSize = 1
  MinChangesThreshold = 1
  SnapshotCheckpoint = 3
  MaxSnapshotDiffChain = 1
  WarmCopy <- MCWarmOne
  Purging = TRUE
  MaxVersion = 2
  MaxFailures = 1
  MaxCrashes = 0
PROPERTIES
  StoredForGood EveryJobEnds ImplementsDoc
