\* Two watches, one of which ends once, two changes per object, a channel of one place.
CONSTANTS
  k1 = k1
  k2 = k2
  g1 = g1
  g2 = g2
  NoKey = NoKey
  Keys = {k1, k2}
  MaxPuts = 4
  GVRs = {g1, g2}
  GVROf <- TwoResources
  Owned = {}
  ChanCap = 1
  MaxVersion = 2
  MaxEnds = 1
SPECIFICATION FairServiceSpec
INVARIANTS ServiceTypeOK NewestIsSomewhere NewerBehindOlder
PROPERTIES NothingStale UsesQueue IsMailbox LatestIsScanned DeletedIsCleaned ShutdownCompletes
\* A stopped service has no step left, and the cluster may not change again.
CHECK_DEADLOCK FALSE
