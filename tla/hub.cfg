SPECIFICATION FairSpec
CONSTANTS
  s1 = s1 s2 = s2
  Subs = {s1, s2}
  NoSub = NoSub
  Kinds = {"chunk", "event"}
  QueueSize = 1
  MaxVersion = 2
  MaxOthers = 1
INVARIANTS
  TypeOK MissesNothing NeverBack Reachable
PROPERTIES
  StopEndsAll ImplementsFeed
CHECK_DEADLOCK FALSE
