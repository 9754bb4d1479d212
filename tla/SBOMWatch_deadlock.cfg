\* The second event is read before the first one's command is received.
CONSTANTS
  MaxEvents = 2
  MaxTokens = 3
SPECIFICATION FairSpec
PROPERTIES ChangesProcessed
CHECK_DEADLOCK FALSE
