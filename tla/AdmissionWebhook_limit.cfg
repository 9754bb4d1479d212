\* Three reviews that fail within a minute; a limit of one alert.
CONSTANTS
  exec = exec
  portForward = portForward
  all = all
  some = some
  Names = {all}
  Contents <- MCContents
  Descriptors <- MCDescriptors
  NoBinding = NoBinding
  NoRules = NoRules
  NoName = NoName
  MaxChanges = 1
  Reviews = {exec, exec2, exec3}
  Target <- MCTarget
  Breaks <- MCBreaks
  Within <- MCWithin
  MaxAlerts = 1
SPECIFICATION Spec
INVARIANT AlertsLimited
\* Every review comes to its end.
CHECK_DEADLOCK FALSE
