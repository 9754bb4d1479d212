\* Four commands on cron jobs, which may be for the same name, and two workers.
CONSTANTS
  images = images
  pods = pods
  noId = noId
  set = set
  update = update
  delete = delete
  again = again
  p1 = p1
  p2 = p2
  ns1 = ns1
  ns2 = ns2
  deployment = deployment
  n1 = n1
  n2 = n2
  c1 = c1
  c2 = c2
  CronRequests = {set, update, delete, again}
  Op <- MCOp
  Targets <- MCTargets
  Names = {n1, n2}
  NoName = NoName
  ScanRequests = {}
  Itemized = {}
  Scope <- MCScope
  AllSpaces <- MCAllSpaces
  Excluded = {ns2}
  Pods = {p1, p2}
  NamespaceOf <- MCNamespaceOf
  TemplateOf <- MCTemplateOf
  Containers = {c1, c2}
  NoContainer = NoContainer
  NoPod = NoPod
  MaxRefused = 1
  MaxChanges = 0
  PoolSize = 2
  NoId = {}
SPECIFICATION Spec
INVARIANTS CronJobHasConfigMap OrphanOnlyAfterError
\* Every request ends.
CHECK_DEADLOCK FALSE
