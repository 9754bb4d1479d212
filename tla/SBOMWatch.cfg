\* Up to three events, watches that end at any time, connections that fail.
CONSTANTS
  MaxEvents = 3
  MaxTokens = 3
SPECIFICATION FairSpec
INVARIANTS TypeOK ScansInOrder WatchIsReplaced
PROPERTIES WatchRestored
\* The loop and its handler can wait for each other: Deadlocked, see sbom_deadlock.
CHECK_DEADLOCK FALSE
