\* Two reviews while two bindings change twice; a limit of one alert per minute.
CONSTANTS
  exec = exec
  portForward = portForward
  all = all
  some = some
  Names = {all, some}
  Contents <- MCContents
  Descriptors <- MCDescriptors
  NoBinding = NoBinding
  NoRules = NoRules
  NoName = NoName
  MaxChanges = 2
  Reviews = {exec, portForward}
  Target <- MCTarget
  Breaks <- MCBreaks
  Within <- MCWithin
  MaxAlerts = 1
SPECIFICATION FairSpec
INVARIANTS TypeOK CacheIsCurrent UntouchedBindingsApply
PROPERTIES FailuresAreTold
\* Every review comes to its end.
CHECK_DEADLOCK FALSE
