\* Two workers; two replicas with two containers each.
CONSTANTS
  images = images
  pods = pods
  noId = noId
  set = set
  update = update
  delete = delete
  again = again
  p1 = p1
  p2 = p2
  ns1 = ns1
  ns2 = ns2
  deployment = deployment
  n1 = n1
  n2 = n2
  c1 = c1
  c2 = c2
  CronRequests = {}
  Op <- MCOp
  Targets <- MCTargets
  Names = {n1, n2}
  NoName = NoName
  ScanRequests = {images, pods, noId}
  Itemized = {pods, noId}
  Scope <- MCScope
  AllSpaces <- MCAllSpaces
  Excluded = {ns2}
  Pods = {p1, p2}
  NamespaceOf <- MCNamespaceOf
  TemplateOf <- MCTemplateOf
  Containers = {c1, c2}
  NoContainer = NoContainer
  NoPod = NoPod
  MaxRefused = 1
  MaxChanges = 1
  PoolSize = 2
  NoId = {noId}
SPECIFICATION FairSpec
INVARIANTS TypeOK SuccessMeansCovered ImageOncePerRequest
PROPERTIES RequestsEnd
\* Every request ends.
CHECK_DEADLOCK FALSE
