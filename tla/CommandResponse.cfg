\* One tracked scan more than the channels and timers hold, two workers; the patches
\* of one command may fail.
CONSTANTS
  c1 = c1
  c2 = c2
  c3 = c3
  c4 = c4
  c5 = c5
  NoCommand = NoCommand
  Commands <- FourCommands
  Tracked <- FourCommands
  Unpatched = {c4}
  PoolSize = 2
  LimCap = 1
  RespCap = 1
  Timers = 1
SPECIFICATION OrderedSpec
INVARIANTS TypeOK InOnePlace JammedOnlyWhenOverloaded
PROPERTIES TracksScans JobsFinish
\* Every command is processed in the end, or the channels are jammed.
CHECK_DEADLOCK FALSE
