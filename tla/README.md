# Formal models of the Kubescape operator

TLA+ modules that model the concurrent parts of this repository (the Kubescape operator, `github.com/kubescape/operator`),
TLC configurations that check them on small instances, and TLAPS proofs of their main safety properties for every value of
the constants. Paths below are relative to the repository (`src/` in `PROJECT.json`).

## 1. The system

The operator watches a Kubernetes cluster, turns what it sees (pods, SBOMs, application profiles, `OperatorCommand`
objects, changed resources, REST requests) into *commands*, and runs them in one pool of workers that calls the scanners
(Kubescape, Kubevuln) over HTTP or changes Kubernetes objects. Next to that it reviews requests as an admission webhook.

| component | state | operations | interacts by | what is hard | correct when |
|---|---|---|---|---|---|
| worker pool, `mainhandler/handlerequests.go` | the pool's workers | `Invoke`, `handleRequest`, `runCommand` | blocking `Invoke`; HTTP; status patches | everybody's producer; a blocked worker blocks producers | a command leaves its worker unless the channels jam, a status that is patched tells what happened |
| command response polling, `mainhandler/handlecommandresponse.go`, `kubescapehandler.go` | two bounded channels, 10 timer goroutines, one dispatcher | insert, wait for the timer, poll, rehandle | blocking sends in a cycle | loss, duplication, deadlock when full | each polled scan is polled until its end is reported, once |
| operator command status, `utils/types.go` | the `OperatorCommand`'s status | `SetOperatorCommandStatus` | patches from worker and dispatcher | order of the patches | the last patch is true |
| scoped requests, `mainhandler/handlerequests.go`, `vulnscan.go` | slugs scanned in this request | both scoped handlers, build and post image scans | calls, HTTP with retries | errors of some pods only, profiles completed meanwhile | the worker is freed, success covers each container there is data of, none is sent twice |
| cron jobs, `mainhandler/cronjobhandler.go`, `vulnscanhandler.go`, `kubescapehandler.go` | cron job and config map | set, update, delete | Kubernetes API | partial failure, read-change-write | no cron job without config map, no orphan without an error |
| registry commands, `watcher/registryhandler.go` | secret, config map, cron job, job per registry | create, update, delete, check | Kubernetes API, an errgroup | partial failure | success hides no failed part |
| registry scans, `mainhandler/vulnscan.go` | none | load the secret, list images, post each, report | HTTP | one of several posts refused | what is reported is what was sent |
| cooldown queue, `watcher/cooldownqueue.go` | expiring cache, closed flag, unbuffered channel | `Enqueue`, expiry callback, `Stop` | two mutexes, one channel | override against a callback in progress; `Stop` against pending entries | mailbox with one place per key |
| watch retry, `watcher/watchretry.go`, `commandswatcher.go` | resource version | list, watch, resume | API server, cooldown queue | what is repeated or missed across the end of a watch | nothing is lost |
| operator commands, `watcher/commandswatcher.go`, `commandshandler.go` | receivers, cooldown queue | `CommandWatch`, `AddHandler`, `invokeCommand` | receivers' channels (100) | registration race, Modified overriding Added, redelivery | each command runs once |
| SBOM watcher, `watcher/sbomwatcher.go` | current watch, token goroutines | select loop, `HandleSBOMEvents` | four unbuffered channels | mutual waiting, stale tokens, replaced watches | each change is scanned, an ended watch is replaced |
| application profile watcher, `watcher/applicationprofilewatcher.go` | as above, with a cooldown queue in between | same | same | same | same |
| pod watcher, `watcher/podwatcher.go` | `SlugToImageID`, `WlidAndImageID`, delayed events | `handlePodWatcher` | caches shared by goroutines; cooldown queue | check-then-act on caches, delayed stale events | each image of a workload is scanned, once |
| continuous scanning, `continuousscanning/` | watches, cooldown queue, shutdown channel | `Launch`, `listen`, `work`, `Stop`, two handlers | channels, wait group | start barrier, repeated events, failed deletions, shutdown | a scan is triggered for an object's last version, the results of a deleted one are deleted unless that fails, `Stop` returns |
| rule bindings, `admission/rulebinding/cache/` | two maps | add, modify, delete, list | webhook reads | update in several steps, map by map | a review meets each binding before or after its change |
| admission webhook and rules, `admission/webhook/`, `admission/rules/` | none of its own | review: list the rules, evaluate, alert | the cache, the exporter | concurrent reviews, cache changing underneath | the bound rules judge |
| alert exporter, `admission/exporter/` | counter per minute, notified flag | `SendAdmissionAlert` | concurrent callers | flag outside the lock, failed calls | at most the limit, and for each failed rule a call of the backend |
| service discovery, `servicehandler/` | current services, wait group | one cycle per interval | pool | failed listing | only services that are gone are deleted |
| REST API, configuration, object cache | none that changes | | | | |

`PROJECT.json` lists each component with its status, and under `hazards` each hard place with its line and the properties
that cover it.

## 2. The modules

| module | what it is | checked by | proofs |
|---|---|---|---|
| `CommandResponse` | the pool and the polling of Kubescape scans | `MCCommandResponse` | `CommandResponse_proofs` |
| `ScanTracking` | what they promise: a triggered scan is tracked until its end is reported, once | as a property | refinement, safety part |
| `CronJobs`, `ScopedScan` | commands on cron jobs; scoped scans and their image scans | through `RequestHandler` | `RequestHandler_proofs` |
| `RequestHandler` | extends both: the pool that runs them, the status | `MCRequestHandler` | `RequestHandler_proofs` |
| `RegistryCommands` | registry commands and registry scans | `MCRegistryCommands` | `RegistryCommands_proofs` |
| `CooldownQueue` | the cooldown queue, its producers, its consumer and the caller of `Stop` | through `ContinuousScanning` | `ContinuousScanning_proofs` |
| `Mailbox` | what it promises: one place per key, newest event wins, in order | as a property | refinement, safety part |
| `ContinuousScanning` | extends `CooldownQueue`: the continuous scanning service around its queue | `MCContinuousScanning` | `ContinuousScanning_proofs` |
| `WatchRetry` | the watch loop and its queue, seen as the mailbox | through `CommandWatch` | `CommandWatch_proofs` |
| `CommandWatch` | extends `WatchRetry`: delivery to the receivers and their loops | `MCCommandWatch` | `CommandWatch_proofs` |
| `SBOMWatch` | the SBOM watcher's loop and handler | `MCSBOMWatch` | `SBOMWatch_proofs` |
| `PodWatch` | the pod watcher's loop, its delayed events and the two caches | `MCPodWatch` | `PodWatch_proofs` |
| `RuleBindings` | the cache of rule bindings | through `AdmissionWebhook` | |
| `AdmissionWebhook` | extends `RuleBindings`: concurrent reviews and their alerts | `MCAdmissionWebhook` | `AdmissionWebhook_proofs` |

A module that extends another adds the surroundings of a component: its next-state relation is either a step of the
component with its own variables unchanged, or both at once. `ContinuousScanning` states that as a property (`UsesQueue`:
whatever the service does, the queue does what `CooldownQueue` says), which is proved, too, so that what is proved of the queue
holds in it.

### CommandResponse

`job[c]` is where `handleRequest` is with command `c`: `pending` (its producer is in `pool.Invoke`), `post` (the POST of
`kubescapeScan`), `insert` (blocked in `insertNewCommandResponseData`), `succeed`/`fail` (it is about to patch the status),
`done`. `lim` and `resp` are the two channels, `waiting` the ids of the timer goroutines (a symmetric group: its size is
the bound on the set), `disp` the dispatcher. `scan` is Kubescape's state, `status` the last outcome patched. Every action is one handler step between
two operations another goroutine can notice. HTTP errors are actions (`PostFails`, `PostAnswersError`, `PollFails`).
A patch of the status of a command in `Unpatched` may fail, which is only logged and leaves the status as it was.
Left out: the waits of 40 s (`WaitTimeForKubescapeScanResponse`), the payload of the status, the other commands of `runCommand` (they only occupy a worker; a command
without parent, not in `Tracked`, stands for them).

The abstract `ScanTracking` has the outstanding and the reported scans and whether the tracker is jammed; while it has room,
every outstanding scan is reported in the end. The refinement maps `outstanding` to
`InTransit`: the ids in `insert`, in a channel, with a timer goroutine or with the dispatcher.

### ScopedScan, CronJobs and RequestHandler

`ScopedScan` follows one request through the loops of `HandleScopedRequest` and `HandleImageScanningScopedRequest`:
namespaces left, pods left (listed namespace by namespace), containers left of the current pod, the slugs already scanned.
A container is sent alone or, when its workload's profile is complete at that moment, as the profile, which covers the
whole template. A refused connection is tried again up to `MaxRefused` times; other errors end the container, a failed list
ends the namespace, and either makes the outcome an error. A container without data, as it has no image id yet or the lookup of
its pod's parent fails, is passed over without an error (`SkipNoData`): `seen` has only those that reached `TriggerScan`. Pods start and stop and profiles are completed meanwhile
(`ClusterChanges`). A namespace in `Excluded` is passed over.

`CronJobs` has `set` (config map, then cron job, once per target), `update` (read, change, write with the version that was
read) and `delete` (cron job, then config map). Names may collide, as `fixK8sNameLimit` may cut off the random part.
`broken` remembers the names a command ended in error on.

`RequestHandler` has the pool: at most `PoolSize` requests run; their outcome becomes their status, except that a request
without an id returns without one (`handlerequests.go:267`, `RejectEmptyId`) and that the patch may fail, which is only logged
(`PatchFails`, status `lost`). Either way the worker is free.

### RegistryCommands

A resource holds the number of the command it was applied by. `Upsert` runs the three goroutines of the errgroup, the one for the jobs
with two calls (job, then cron job when a frequency is set); the deletion goes cron job, secret, config map and stops at the first error. The commands
come one after the other (one goroutine executes them). Each worker's scan loads the secret, lists the images and posts one after the other.

### CooldownQueue and ContinuousScanning

`pending` is the cache (the event of each key that waits), `evictor` the cache's goroutine in its callback: `lock` before
`chanMu.Lock()`, `send` while it holds the lock and sends. The n-th event of a key is the number n, which is all the
properties need. Expiry is an action that may come at any time after `Enqueue`; the cooldown itself (a reset timer) is not
modelled. `Mailbox` is implemented with `open` mapped to `~closed`.

`ContinuousScanning` has a watch per resource (`none`, `open`, `ended`: made again at once), the channel, the listener that
puts events into the queue, and a worker with the two handlers. `Launch` waits until every resource was watched once
(the wait group). A watch that is made again delivers each object once more, and never those that were deleted meanwhile
(`missed`). `scanned` is the version a scan was last *triggered* for: the scan runs in the pool, and when it stores its results is not
modelled. The deletion of results may fail and is not tried again (`CleanFails`); `left` has the objects whose last deletion failed.
After the shutdown the watch goroutines may stay blocked in `out <- event`; the goroutines of the queue do not.

### WatchRetry and CommandWatch

`log` is what the API server recorded, `version` the resource version the loop resumes from: it follows every event, the
error event's empty one, too. Without version the server sends all objects as Added. `queue` is the mailbox, `evicted` what
its evictor sends. `List` precedes the watch and may fail.

`CommandWatch` takes an event, filters (only Added, not completed, young enough), and delivers the command to the channel of each
registered receiver; a full channel blocks `AddHandler` and all other receivers. `handler[r]` is one receiver's loop. The receiver for
scans waits for the pool. That a command is too old is a choice (`old`), as clocks are not modelled. `missed` holds the
commands dropped in one of three ways: overridden by Modified, passed over when the watch ended within its initial list, or delivered before their
receiver had registered.

### SBOMWatch

`loop` is the place of the select loop: `select`, the class of the event it sends to the handler, `submit`, `connect` or
`sleep`. `handler` waits to read, or to send a command or an error. `tokens` counts the goroutines of `notifyWatcherDown`.
Events carry their number and a class, which is what the handler's tests on type and annotations come to.

### PodWatch

`handler[0]` is the event loop in `handlePodWatcher`, `handler[i]` a `time.AfterFunc` goroutine: it keeps the pod of its
event (`img`) while the cluster (`pods`) goes on. `queue` is the cooldown queue seen as the mailbox that `CooldownQueue`
implements. Between the look-up of a slug and its recording there are up to five steps, as in the code: look-up, container
data and caching, check of `WlidAndImageID`, scan, recording. `covered` is `noContainerSlugs`, `Template` and `Workload` give
slugs and wlids. That a wlid is computed and an application profile found is a choice (`NoContainerData`,
`ScanApplicationProfile`).
`failed` holds the keys nobody will record: the container data could not be computed, or the GET of the delayed pod failed, which
drops the event for any error (`GetFails`).
Left out: `listPods`, pods with equal concatenated keys (`watcher/utils.go:49`).

### RuleBindings and AdmissionWebhook

`rb` and `rules` are the cache's two maps. The library that watches calls one handler at a time (`handler`, `told`); a
modification deletes from both maps and adds to both, so it takes four steps. `CreateRule` looks an entry up by id, then by
name, then by tags.

`review[r]` goes through `Validate`: the bindings are listed and selected one after the other (namespace, then object
labels), their rules fetched, the rules judged, and the first that fails sends an alert, which first asks the limit. `excused`
holds the bindings a review may miss: those the handler worked on while it read, and those whose namespaces could not be
listed. The exporter's flag is read and written outside the lock, with the HTTP call between (`limit`, `notified`). A call that
fails or is not answered with success is only logged (`Exports`, answered `lost`), and the flag is set all the same.
Left out of the cache: an object that cannot be converted to a binding, for which the handlers return at once and leave the old
binding (`cache.go:125`, `cache.go:143`); the schema of the CRD keeps such objects out.

## 3. The runs

| run | module / cfg | bounds | states | shows |
|---|---|---|---|---|
| `response` | `CommandResponse.cfg` | 4 tracked commands, one of which patches may fail for, capacities 1 + 1 and 1 timer, 2 workers | 491,467 | `InOnePlace`; a jam needs overload (`JammedOnlyWhenOverloaded`); `TracksScans` (refinement with its liveness); `JobsFinish` |
| `continuous` | `ContinuousScanning.cfg` | 2 objects of 2 resources, 2 changes each, 1 end of a watch, a channel of 1 | 295,426 | `UsesQueue`, `NewestIsSomewhere`, `NewerBehindOlder`, `NothingStale`, `IsMailbox`; `LatestIsScanned`, `DeletedIsCleaned`, `ShutdownCompletes` |
| `sbom` | `SBOMWatch.cfg` | 3 events, 3 tokens | 663 | `ScansInOrder`, `WatchIsReplaced`, `WatchRestored` |
| `pods` | `PodWatch.cfg` | a replica and a naked pod, 1 container, 2 images, 1 change, 2 delayed events | 92,959 | `RecordedWasScanned`, `CachedIsRecorded`, `ImagesRecorded` |
| `commands` | `CommandWatch.cfg` | a command per receiver, a log of 2 events, 1 end of the watch, channels of 1, 1 worker | 337,059 | `NotLost`, `AtMostOncePerWatch`, `EveryCommandHandled` |
| `registry` | `RegistryCommands.cfg` | 3 commands, 2 images, 1 worker that scans | 794,395 | `SuccessIsComplete`, `LeftoversAreStuck`, `InProgressMeansAllSent` |
| `scans` | `RequestHandler_scans.cfg` | 3 scoped requests, 2 workers, 2 replicas of 2 containers, 1 refused post, 1 change | 217,623 | `SuccessMeansCovered`, `ImageOncePerRequest`, `RequestsEnd` |
| `cron` | `RequestHandler_cron.cfg` | 2 sets (one with 2 targets), an update, a delete; 2 names, 2 workers | 743,116 | `CronJobHasConfigMap`, `OrphanOnlyAfterError` |
| `webhook` | `AdmissionWebhook.cfg` | 2 reviews, 2 bindings with 2 changes, a limit of 1 alert | 180,972 | `CacheIsCurrent`, `UntouchedBindingsApply`, `FailuresAreTold` |
| `response_jam` | violation | 5 tracked, capacities 1, no error anywhere | | a worker blocks for ever, the status is never updated, though no patch fails |
| `sbom_deadlock` | violation | 2 events | | loop and handler wait for each other |
| `alert_limit` | violation | 3 reviews, a limit of 1 | | alerts go on after the notice of the limit |

Every module's type invariant is checked by a passing run, too.

**Why the bounds are enough.** The code's capacities (10, 100, 10 timers) matter only by their sum against the number of
polled scans; the instance is one command beyond that sum, so it has behaviours that jam and behaviours that do not, and the theorems hold for all. The tracked
commands are alike but for the one whose patches may fail, so they are submitted in one order and the answers to the three others come
in that order, too (`OrderedSpec`): until then only their names tell them apart, so every other behaviour is one of these with
commands renamed, with failing patches for the last that is submitted; one such command shows that no property of the run rests on a status. In the
cooldown queue a key's events meet in three places (cache, evictor, consumer); two changes of an object and a watch that
repeats them put three and more into the queue, and two objects suffice for one to disturb the other, as the evictor holds one at a time.
In `SBOMWatch` the pipeline from watch to pool holds three events. A naked pod needs two delayed events to race with itself and with
the loop; `MaxDelayed` is the number of events there can be in its run, so it never holds an event back. A
command's Added and Modified event fill a log of two, as do two commands that compete for the channel; one end of the watch leads through both ways
back (closed and error). Three registry commands are a create, a change of it and a deletion, with every order of failures. The scoped requests
need two replicas and two containers for a slug to be met twice in both ways, and one change between them. Two commands can hold one cron job's
name at a time in two workers, and four of three kinds meet in all pairs. Two reviews with a limit of one alert meet in the notice.
`MaxPuts`, `MaxEvents`, `MaxTokens`, `MaxChanges`, `MaxVersion`, `MaxEnds`, `MaxLog`, `MaxCommands` and `MaxRefused` (5 in
the code) bound what the environment does; `MaxTokens` also how often the loop may find its watch closed while tokens wait.

Deadlock is not checked in any run: all of them end in states where the environment has nothing more to do (the last
command handled, the service stopped, every review answered).

**Fairness.** Weak fairness of a goroutine's next step: the Go scheduler runs what can run, and a goroutine blocked on a
channel or a mutex is queued first come, first served. `ScanEnds` is fair: Kubescape ends its scans. No fairness for
errors, for `Enqueue`, `Stop`, changes of the cluster or the end of a watch. Beyond that:

- `SBOMWatch`: strong fairness for the cases of the select, as Go chooses at random among the ready ones, and for
  `ConnectSucceeds`: an API server that is asked for ever answers once;
- `PodWatch` and `WatchRetry`: strong fairness for each key's event, as the cooldown queue's expiry takes the entry of every
  key in its turn whenever the loop reads;
- `WatchRetry`: `List` (which may list only some objects), `Connect` and `ReadEvent` are fair; the ends of a watch, closed or by an error,
  are not, and there are at most `MaxEnds`;
- `CommandWatch`: the receivers' loops and an `Invoke` that finds a free worker are fair. That a job ends is not, as a worker may
  block for ever (`response_jam`): `EveryCommandHandled` allows for workers that are all busy from some moment on (`PoolBusy`),
  and asks that everything is handled otherwise, though the pool may be full again and again;
- `ContinuousScanning`: `MakeWatch` is fair, that is, an attempt succeeds in the end; the attempts before it are a busy loop
  (`watchbuilder.go:77`) that changes nothing;
- `RequestHandler`, `AdmissionWebhook`: the next step of each worker, of the cache's handler and of each review.

Failures that the code only logs and never repairs are steps like any other, and a property excuses exactly what they
touched: `left` in `DeletedIsCleaned`, `failed` in `ImagesRecorded`, the status `lost` in `RequestsEnd`, the answer `lost` in
`FailuresAreTold`, `Unpatched` in `StatusUpdated`.

## 4. What is proved

All with TLAPS, for every value of the constants that satisfies the assumptions named in the modules (finite sets; positive
capacities; constants that stand for "nothing" are different from what they stand beside).

`CommandResponse_proofs`: the inductive invariant is `TypeOK /\ InOnePlace /\ PolledWereTriggered`. The last part says that
what is on its way is a tracked command whose job has passed its POST; it is what lets `WorkerInsert` conclude
that the id it inserts is new everywhere, and what types the refinement. From it
- `TypeCorrect`, `IdInOnePlace`: the first two parts as theorems of `Spec`;
- `JamNeedsOverload`: in a jam the two full channels (injective, so as many ids as places), the timers and the dispatcher
  hold disjoint sets of ids, whose cardinalities add up to more than the capacity;
- `EnoughCapacity`: with at most `LimCap + Timers + RespCap` tracked commands, hence, nothing ever jams;
- `TracksScansSafely`: every step is a step of `ScanTracking` or leaves its variables alone. That nothing leaves a jam,
  which `ScanTracking` promises, is a lemma of its own (`JamStays`).

The lemmas at the head of the module are facts about sequences without duplicates: what a send and a receive do to the set of
values, to injectivity, and that length is the cardinality of the values.

`ContinuousScanning_proofs`, first part, the queue: the inductive invariant `Inv` is the conjunction of `TypeOK`,
`NewestIsSomewhere` and `NewerBehindOlder` with the few facts on who holds an event. Theorems `TypeCorrect`, `NothingLost`,
`InOrder` and `MailboxSafety` (the refinement's safety part), of `Spec`, the queue alone.

Second part, the service: `ServiceUsesQueue` (every step of the service is a step of the queue or leaves it alone) carries
these over; `QueueInService` and `ServiceMailbox` state them again for the service, the latter as the composition of two
refinements. Its invariant `ServiceInv` adds
- `EventsInOrder`: stream of a watch, channel and the queue's history are, one behind the other, sequences in which of two
  events of an object the later one tells of a later change, or both say that it is there in the same version, as a watch
  that is made again repeats what it finds. No event is ahead of its object (`Fits`), which is what lets `ChangeKeeps` and
  `MakeWatchKeeps` add at the end;
- `HandledInOrder`: what was scanned and cleaned last are versions of events the worker received, and of earlier ones than
  the event at hand. The queue's numbers increase (`InOrder`), so the events they stand for are in the order of the history;
- `LatestIsTold`: while its watch is open, an object's last change is in one of the three sequences, and so is its deletion
  unless a watch missed it. An event that moves leaves one and arrives in the next; what the end of a watch cuts off
  (`SuffixHasTheRest`) is either of an object that is there, and the next watch repeats it, or becomes `missed`.

Theorems `ServiceTypeCorrect`, `NeverStale` (the action property `NothingStale`: scans and clean-ups of an object only go
forward; this is the safety half of `DeletedIsCleaned`) and `LatestTold`. `HandledInOrder` and `LatestIsTold` were checked by TLC on three instances
before.

`CommandWatch_proofs`: `NotLost` is made inductive by `EventsOK` (an event anywhere is of a command the log knows, and has it
completed only when its handler received it), `LatestExists` (the choice of a command's latest event is one) and
`WorkWasReceived`. For `AtMostOncePerWatch` the invariant `CopiesBounded` counts: what a handler received, what is in
its receiver's channel (`Received`) and what may still come from stream, queue, evictor and a delivery in progress (`OnWay`), plus the lists and watches
to come, is at most two and one more per watch that ended. Each step moves one unit from one place to the next or drops it. A command
is announced once in log and stream (`AddedOnce`), so the stream holds one unit at most. Theorems `TypeCorrect`,
`NothingElseLost`, `HandledAtMost`. Two assumptions had to be named: the value for "no event" is none of the events and that for "no
command" none of the commands (`NothingIsNoEvent`, `NothingAssumption`), and a handler's states without a command are no commands (`StatesAssumption`).

`PodWatch_proofs`: the inductive invariant adds to `TypeOK`, `RecordedWasScanned` and `CachedIsRecorded` that the slugs
left to a handler have an image (`TodoStarted`: it makes every key it builds a key), that a handler about to set or record
has scanned the key or its template's profile (`AddsScanned`), and that `covered` is only true after a profile scan
(`CoveredIsProfiled`). Theorems `TypeCorrect`, `RecordedOnlyScanned` and `CachedRecorded`. The last one needs the
assumption that a template belongs to one workload (`TemplateAssumption`): the slug's image is looked up by one pod and
ignored by another, and only then the two mean the same key.

`SBOMWatch_proofs`: `ScansInOrder` speaks of the pipeline, the concatenation of what is submitted and what loop and handler
hold. It becomes inductive with `OnlyRead`: whatever is on its way has a number that was read, so the next event's number is greater than all
of them. Each step either leaves the pipeline as it is (the event moves to the next place) or adds at its end. Theorems
`TypeCorrect`, `InOrder`, `Replaced`.

`RequestHandler_proofs`: two workers may run commands on one name, and what keeps `CronJobHasConfigMap` is
`HoldsName`: a command between the config map and the cron job has the name for itself. The config map it made keeps
others from creating one, and there is no cron job yet that a deletion could begin with. Theorems `ConfigMapThere` and
`OrphansExplained`. For the scoped scans (`ScanInv`) the invariant speaks of one request's record and histories, so that a
step is looked at for one request: a container it came to and had data of was accepted, or its profile was, or one of the two is being posted,
or the request has an error, which stays (`CoversAll`); a container accepted by itself is remembered, and none that is
remembered is posted (`RemembersSent`). Theorems `SuccessCovers` and `SentOnce`. `PoolInv` has the pool and that a status is its own request's outcome; with
`SuccessCovers` it gives `StatusTellsTruth`: an `OperatorCommand` that says success stands for containers that were all
accepted, those without data apart. `TypeCorrect` has the limit of the pool.

`RegistryCommands_proofs`: `UpsertInv` (a goroutine that ended without error has applied its resource for this command),
`DeleteInv` (a deletion that has come to a resource has deleted those before it, and found the cron job) and `ScanInv` (what
was sent or is left is among what was wanted). From it the action properties `CompleteSuccess` and `StuckLeftovers`, and
`ReportsAreTrue`. `SuccessIsComplete` is about the parts a command applies or deletes; what it leaves alone is named at the property
and in section 5.

`AdmissionWebhook_proofs`: `CacheInv` says that the two maps agree but for the binding in the handler's hands (`MapsAgree`)
and that the last call about a binding, to come, running or done, tells what the cluster has (`CatchesUp`). Theorem `CacheCurrent`. `ReviewsApply`
adds, per review, that a binding nobody changed since the review began is as it was when its rules were fetched.
`TypeCorrect` includes that the alert count is the number of reviews counted since it began. `LimitHoldsUntilNotice` says how far
`AlertsLimited`, which the run `alert_limit` finds violated, is true: until the notice of a minute is written down, the alerts sent are
of reviews that were counted within the limit (`Allowed`), and these are never more than the limit.

Only model-checked: every liveness property (`JobsFinish`, `WatchRestored`, `ImagesRecorded`, `EveryCommandHandled`,
`LatestIsScanned`, `DeletedIsCleaned`, `ShutdownCompletes`, `RequestsEnd`, `FailuresAreTold`, and the fairness of
`ScanTracking` and `Mailbox`), as the prover handles neither fairness nor ENABLED. Every safety property that a passing run checks is a theorem.
That no more jobs of `CommandWatch` run than the pool has workers is in its guard (a fold over the jobs) and not a theorem: what a fold
computes takes induction over data.

## 5. Disagreements met

Three places where the code does something else than a comment of it says; each is a run TLC must find violated, with the
quote in `PROJECT.json` under `findings`:

1. more than 120 polled scans block the polling, and then the workers, for ever (`response_jam`);
2. two SBOM events in a row can block the SBOM watcher for good (`sbom_deadlock`);
3. once the notice of the alert limit is sent, the alerts of that minute that follow are sent, too (`alert_limit`).

Other things the models do as the code does, which a maintainer may want to know. No document says otherwise, so no
run claims the contrary:

- an `OperatorCommand` says success when its scan was only triggered (`handlerequests.go:212`); an error that Kubescape
  answers to the POST is patched first and success over it, and a merge patch leaves the older error in place;
- `Stop` of the cooldown queue with entries pending leads to a send on the closed channel (`cooldownqueue.go:44`). The
  operator itself never stops the continuous scanning service;
- a command whose status cannot be patched keeps none (`utils/types.go:117`); a scoped command with an empty id never gets one
  (`handlerequests.go:267`);
- results of a deleted object that could not be deleted stay for good (`continuousscanning/handlers.go:233`);
- any error of the GET drops the delayed scan of a naked pod (`podwatcher.go:63`);
- the notice of the alert limit counts as given when its call failed (`http_exporter.go:113`);
- a scan of images passes over the containers it has no data of and still succeeds (`handlerequests.go:415`);
- stale tokens stop a healthy SBOM watch, which is then replaced (`sbomwatcher.go:40`);
- replicas that run different image ids under one tag are scanned on every ordinary event (`podwatcher.go:112`);
- an `OperatorCommand` is never run when a Modified event comes within the cooldown of its Added event, when the watch ends
  within the objects it sends at its start, or when its receiver has not registered yet; it runs twice when it is
  delivered again before its status is patched; the order between two commands is not kept;
- a deletion of a registry never deletes the job of its first scan; an update without `ScanFrequency` leaves the old cron job; credentials without cron job are never
  deleted (`LeftoversAreStuck` states it);
- `SkipNamespace("")` is true when an include list is set, so a cluster-wide request then does nothing and succeeds (`config.go:210`, `handlerequests.go:382`);
- one profile is scanned once per container and replica: the slug that is remembered is the profile's, and the next container looks for its
  own (`handlerequests.go:417`);
- each config map of several Kubescape cron jobs has the names of all targets;
- deletions while a watch of the continuous scanning is down are never cleaned up, and `Launch` does not return while one
  resource cannot be watched;
- the namespace selector of a rule binding is matched with `strings.Contains` (`cache.go:98`).

## 6. Not modelled, and what is left

- *Application profile watcher*: the loop, handler and tokens of `SBOMWatch` with a cooldown queue in between; a third copy
  would ask no new question, but its composition with `CooldownQueue` is not checked.
- *Service discovery*: cycles that run one after the other over the network; its one dropped error is listed as a hazard.
- *Webhook server*: start, restart and shutdown (`server.go`). `Run` may wait for a goroutine that sends on a channel
  nobody reads any more (`server.go:142`), after which `main` ends the process.
- *REST API*, *configuration and start*, *object cache*: decode, read once, hand out a client. `Invoke` and `SkipNamespace`
  are in the modules that use them.
- *Pod watcher*: the parts named in section 2.

Next: the composition of an `SBOMWatch` loop with `CooldownQueue` as in the application profile watcher; service discovery;
that `WatchRetry`'s queue, seen as the mailbox, may be replaced by the queue itself.
