\* A replica and a naked pod, whose events wait for its guard time.
CONSTANTS
  replica1 = replica1
  replica2 = replica2
  single = single
  rs = rs
  deployment = deployment
  c1 = c1
  c2 = c2
  i1 = i1
  i2 = i2
  Nothing = Nothing
  Deleted = Deleted
  Pods <- Mixed
  Naked <- NakedPods
  Template <- TemplateOf
  Workload <- WorkloadOf
  Containers <- OneContainer
  Images <- TwoImages
  MaxChanges = 1
  MaxDelayed = 2
SPECIFICATION FairSpec
INVARIANTS TypeOK RecordedWasScanned CachedIsRecorded
PROPERTIES ImagesRecorded
\* Every event is handled in the end and the cluster may not change again.
CHECK_DEADLOCK FALSE
