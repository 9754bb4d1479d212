CONSTANTS
  scan = scan
  registry = registry
  Nothing = Nothing
  Objects <- Commands
  Kind <- KindOf
  MaxLog = 2
  MaxEnds = 1
  ChanCap = 1
  PoolSize = 1
SPECIFICATION FairSpec
INVARIANTS TypeOK NotLost AtMostOncePerWatch
PROPERTIES EveryCommandHandled
\* The cluster may not change again and every command be handled.
CHECK_DEADLOCK FALSE
