\* More tracked scans than the channels and timers hold: a worker blocks for ever,
\* with no error from Kubescape.
CONSTANTS
  c1 = c1
  c2 = c2
  c3 = c3
  c4 = c4
  c5 = c5
  NoCommand = NoCommand
  Commands <- FiveCommands
  Tracked <- FiveCommands
  Unpatched = {}
  PoolSize = 1
  LimCap = 1
  RespCap = 1
  Timers = 1
SPECIFICATION ErrorFreeSpec
PROPERTIES StatusUpdated
CHECK_DEADLOCK FALSE
