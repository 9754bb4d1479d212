------------------------------- MODULE PodWatch -------------------------------
(***************************************************************************)
(* watcher/podwatcher.go: pod events and the image scans they cause.       *)
(*                                                                         *)
(* One loop takes the events out of the cooldown queue, here the mailbox   *)
(* CooldownQueue implements: per pod the newest event.  The event of a     *)
(* young pod without parent is handled later, in a goroutine of its own;   *)
(* every other one by the loop.  Handlers share two caches, each locked    *)
(* for one operation: SlugToImageID and WlidAndImageID.                    *)
(*                                                                         *)
(* A pod's state is the image id of each of its containers.  A slug is the *)
(* pod's template (its ReplicaSet, its own name if it is naked) with a     *)
(* container, a key of WlidAndImageID the pod's workload with a container  *)
(* and an image.                                                           *)
(***************************************************************************)
EXTENDS Naturals, FiniteSets

CONSTANTS
  Pods, Naked,        \* the pods, and those without a parent
  Template, Workload, \* per pod its template and its workload
  Containers, Images,
  Nothing,            \* no event, no image, no container
  Deleted,            \* a pod that is gone, and the event that tells it
  MaxChanges,         \* bound on the changes of pods after the start
  MaxDelayed          \* bound on the events waiting for a guard time

Loop == 0
Handlers == 0 .. MaxDelayed

\* The image of a container that has not started is empty.
PodStates == [Containers -> Images \cup {Nothing}]
Templates == {Template[p] : p \in Pods}
Slugs == Templates \X Containers
Workloads == {Workload[p] : p \in Pods}
Keys == Workloads \X Containers \X Images

ASSUME BoundsAssumption == MaxChanges \in Nat /\ MaxDelayed \in Nat
ASSUME PodsAssumption == /\ Naked \subseteq Pods
                         /\ Nothing \notin Pods \cup Containers \cup Images \cup PodStates
                         /\ Deleted \notin PodStates \cup {Nothing}
\* A template (a ReplicaSet, a naked pod) belongs to one workload.
ASSUME TemplateAssumption ==
  \A p, q \in Pods : Template[p] = Template[q] => Workload[p] = Workload[q]

VARIABLES
  pods,           \* the cluster: per pod its state, or Deleted
  young,          \* naked pods that have not reached the guard time
  changes,        \* number of changes so far
  queue,          \* eventQueue: per pod the event that is due
  handler,        \* per goroutine: what it does with which event
  SlugToImageID,
  WlidAndImageID,
  scanned,        \* history: keys of the image scans given to the worker pool
  profiled,       \* history: templates whose application profile was scanned
  failed          \* history: keys given up: no container data, or no answer for a delayed pod

cluster == <<pods, young, changes>>
caches == <<SlugToImageID, WlidAndImageID>>
history == <<scanned, profiled, failed>>
vars == <<cluster, queue, handler, caches, history>>

Free == [at |-> "free", pod |-> Nothing, img |-> Nothing, todo |-> {},
         cont |-> Nothing, covered |-> FALSE]

\* listPods puts an event for every pod that runs already.
Init == /\ pods \in [Pods -> PodStates]
        /\ young = Naked
        /\ changes = 0
        /\ queue = pods
        /\ handler = [i \in Handlers |-> Free]
        /\ SlugToImageID = [s \in Slugs |-> Nothing]
        /\ WlidAndImageID = {}
        /\ scanned = {} /\ profiled = {} /\ failed = {}

-----------------------------------------------------------------------------
(* The cluster and the watch. *)

\* A pod changes (or only its status does): the event overrides the one that waits.
Changes(p) == /\ pods[p] # Deleted
              /\ changes < MaxChanges
              /\ changes' = changes + 1
              /\ \E new \in PodStates \cup {Deleted} : pods' = [pods EXCEPT ![p] = new]
              /\ queue' = [queue EXCEPT ![p] = pods'[p]]
              /\ UNCHANGED <<young, handler, caches, history>>

Matures(p) == /\ p \in young
              /\ young' = young \ {p}
              /\ UNCHANGED <<pods, changes, queue, handler, caches, history>>

-----------------------------------------------------------------------------
(* The event loop. *)

\* Mutated form: a container without an image id is handled like the others.
StartAll(p, img) == [at |-> "next", pod |-> p, img |-> img, todo |-> Containers,
                     cont |-> Nothing, covered |-> FALSE]

\* mapSlugsToImageIDs: a container without an image id is passed over.
Start(p, img) == [at |-> "next", pod |-> p, img |-> img,
                  todo |-> {c \in Containers : img[c] # Nothing},
                  cont |-> Nothing, covered |-> FALSE]

\* Events other than Added and Modified are skipped.
SkipEvent(p) == /\ handler[Loop].at = "free"
                /\ queue[p] = Deleted
                /\ queue' = [queue EXCEPT ![p] = Nothing]
                /\ UNCHANGED <<cluster, handler, caches, history>>

TakeEvent(p) == /\ handler[Loop].at = "free"
                /\ queue[p] \in PodStates
                /\ queue' = [queue EXCEPT ![p] = Nothing]

HandleEvent(p) == /\ p \notin young
                  /\ TakeEvent(p)
                  /\ handler' = [handler EXCEPT ![Loop] = Start(p, queue[p])]
                  /\ UNCHANGED <<cluster, caches, history>>

\* A young naked pod: time.AfterFunc keeps the pod as it is in this event.
DelayEvent(p) == /\ p \in young
                 /\ TakeEvent(p)
                 /\ \E i \in Handlers \ {Loop} :
                      /\ handler[i].at = "free"
                      /\ handler' = [handler EXCEPT ![i] =
                                       [Start(p, queue[p]) EXCEPT !.at = "delayed"]]
                 /\ UNCHANGED <<cluster, caches, history>>

\* The timer fires; the event is handled if the pod still exists.
TimerFires(i) == /\ handler[i].at = "delayed"
                 /\ handler[i].pod \notin young
                 /\ handler' = [handler EXCEPT ![i] =
                      IF pods[@.pod] = Deleted THEN Free ELSE [@ EXCEPT !.at = "next"]]
                 /\ UNCHANGED <<cluster, queue, caches, history>>

\* The keys of the event that handler i has.
EventKeys(i) == {<<Workload[handler[i].pod], c, handler[i].img[c]>> : c \in handler[i].todo}

\* Any other error of the GET passes for a pod that is gone: the event is dropped.
GetFails(i) == /\ handler[i].at = "delayed"
               /\ handler[i].pod \notin young
               /\ failed' = failed \cup EventKeys(i)
               /\ handler' = [handler EXCEPT ![i] = Free]
               /\ UNCHANGED <<cluster, queue, caches, scanned, profiled>>

-----------------------------------------------------------------------------
(* handlePodWatcher: goroutine i goes through the slugs of its event. *)

Slug(i) == <<Template[handler[i].pod], handler[i].cont>>

\* getWlidAndImageID.
Key(i) == <<Workload[handler[i].pod], handler[i].cont, handler[i].img[handler[i].cont]>>

GoTo(i, stage) == handler' = [handler EXCEPT ![i].at = stage]

\* The next slug is looked up: cached with this image, with another one, or not.
NextSlug(i) ==
  /\ handler[i].at = "next"
  /\ \E c \in handler[i].todo :
       LET image == handler[i].img[c]
           cached == SlugToImageID[<<Template[handler[i].pod], c>>]
       IN handler' = [handler EXCEPT ![i].todo = @ \ {c}, ![i].cont = c,
                        ![i].at = CASE cached = image   -> "next"
                                    [] cached = Nothing -> "new"
                                    [] OTHER            -> "changed"]
  /\ UNCHANGED <<cluster, queue, caches, history>>

NoMoreSlugs(i) == /\ handler[i].at = "next"
                  /\ handler[i].todo = {}
                  /\ handler' = [handler EXCEPT ![i] = Free]
                  /\ UNCHANGED <<cluster, queue, caches, history>>

\* PodToContainerData fails: its workload or its image cannot be found.
NoContainerData(i) == /\ handler[i].at \in {"new", "changed"}
                      /\ failed' = failed \cup {Key(i)}
                      /\ GoTo(i, "next")
                      /\ UNCHANGED <<cluster, queue, caches, scanned, profiled>>

CacheSlug(i) == SlugToImageID' = [SlugToImageID EXCEPT ![Slug(i)] = handler[i].img[handler[i].cont]]

\* Mutated form: the slug is cached though the container data may be missing.
NewSlugUnchecked(i) == /\ handler[i].at = "new"
                       /\ CacheSlug(i)
                       /\ \E stage \in {"check", "next"} : GoTo(i, stage)
                       /\ UNCHANGED <<cluster, queue, WlidAndImageID, history>>

\* A new slug is cached before anything else is done about it.
NewSlug(i) == /\ handler[i].at = "new"
              /\ CacheSlug(i)
              /\ GoTo(i, "check")
              /\ UNCHANGED <<cluster, queue, WlidAndImageID, history>>

\* ... and scanned unless its workload's image is recorded, or its profile was just scanned.
CheckKey(i) == /\ handler[i].at = "check"
               /\ GoTo(i, CASE Key(i) \in WlidAndImageID -> "next"
                            [] handler[i].covered        -> "add"
                            [] OTHER                     -> "scan new")
               /\ UNCHANGED <<cluster, queue, caches, history>>

\* Mutated form: a changed image passes for scanned when it was only cached.
ChangedImageAdded(i) == /\ handler[i].at = "changed"
                        /\ GoTo(i, "set")
                        /\ UNCHANGED <<cluster, queue, caches, history>>

ChangedImage(i) == /\ handler[i].at = "changed"
                   /\ GoTo(i, IF handler[i].covered THEN "set" ELSE "scan changed")
                   /\ UNCHANGED <<cluster, queue, caches, history>>

AfterScan(stage) == IF stage = "scan new" THEN "add" ELSE "set"

\* scanImage: no application profile fit for a relevancy scan is found.
ScanImage(i) == /\ handler[i].at \in {"scan new", "scan changed"}
                /\ scanned' = scanned \cup {Key(i)}
                /\ GoTo(i, AfterScan(handler[i].at))
                /\ UNCHANGED <<cluster, queue, caches, profiled, failed>>

\* scanApplicationProfile: the profile covers the other slugs of the event as well.
ScanApplicationProfile(i) ==
  /\ handler[i].at \in {"scan new", "scan changed"}
  /\ profiled' = profiled \cup {Template[handler[i].pod]}
  /\ handler' = [handler EXCEPT ![i].at = AfterScan(@), ![i].covered = TRUE]
  /\ UNCHANGED <<cluster, queue, caches, scanned, failed>>

SetSlug(i) == /\ handler[i].at = "set"
              /\ CacheSlug(i)
              /\ GoTo(i, "add")
              /\ UNCHANGED <<cluster, queue, WlidAndImageID, history>>

\* Mutated form: the goroutine goes on without recording the key.
AddKeyForgotten(i) == /\ handler[i].at = "add"
                      /\ GoTo(i, "next")
                      /\ UNCHANGED <<cluster, queue, caches, history>>

AddKey(i) == /\ handler[i].at = "add"
             /\ WlidAndImageID' = WlidAndImageID \cup {Key(i)}
             /\ GoTo(i, "next")
             /\ UNCHANGED <<cluster, queue, SlugToImageID, history>>

-----------------------------------------------------------------------------
HandlerStep(i) == \/ TimerFires(i) \/ GetFails(i)
                  \/ NextSlug(i) \/ NoMoreSlugs(i)
                  \/ NoContainerData(i)
                  \/ NewSlug(i) \/ CheckKey(i)
                  \/ ChangedImage(i)
                  \/ ScanImage(i) \/ ScanApplicationProfile(i)
                  \/ SetSlug(i) \/ AddKey(i)

LoopStep(p) == SkipEvent(p) \/ HandleEvent(p) \/ DelayEvent(p)

Next == \/ \E p \in Pods : Changes(p) \/ Matures(p) \/ LoopStep(p)
        \/ \E i \in Handlers : HandlerStep(i)

\* The goroutines run on; the cooldown queue forwards every key's event in its
\* turn; the guard time passes.
Fairness == /\ \A i \in Handlers : WF_vars(HandlerStep(i))
            /\ \A p \in Pods : WF_vars(Matures(p)) /\ SF_vars(LoopStep(p))

Spec == Init /\ [][Next]_vars

FairSpec == Spec /\ Fairness

-----------------------------------------------------------------------------
(* Properties. *)

Stages == {"free", "delayed", "next", "new", "check", "changed", "scan new",
           "scan changed", "set", "add"}

HandlerStates == [at : Stages, pod : Pods \cup {Nothing}, img : PodStates \cup {Nothing},
                  todo : SUBSET Containers, cont : Containers \cup {Nothing}, covered : BOOLEAN]

\* Type invariant: a busy handler has an event, one past the look-up a slug with an image.
TypeOK ==
  /\ pods \in [Pods -> PodStates \cup {Deleted}]
  /\ young \subseteq Naked
  /\ changes \in 0 .. MaxChanges
  /\ queue \in [Pods -> PodStates \cup {Deleted, Nothing}]
  /\ handler \in [Handlers -> HandlerStates]
  /\ \A i \in Handlers :
       /\ handler[i].at # "free" => handler[i].pod \in Pods /\ handler[i].img \in PodStates
       /\ handler[i].at \notin {"free", "delayed", "next"} => Key(i) \in Keys
  /\ SlugToImageID \in [Slugs -> Images \cup {Nothing}]
  /\ WlidAndImageID \subseteq Keys /\ scanned \subseteq Keys /\ failed \subseteq Keys
  /\ profiled \subseteq Templates

\* An image is recorded for a workload only after it, or the application profile of
\* one of the workload's templates, was given to the pool: no interleaving of the
\* handlers and no early `continue` records what nobody scans.
RecordedWasScanned ==
  \A key \in WlidAndImageID :
    key \in scanned \/ \E p \in Pods : Workload[p] = key[1] /\ Template[p] \in profiled

\* An image that is cached for a slug, and so ignored from then on, is recorded
\* for its workload or a handler is about to decide on it.
CachedIsRecorded ==
  \A p \in Pods, c \in Containers :
    LET image == SlugToImageID[<<Template[p], c>>]
    IN image # Nothing =>
         \/ <<Workload[p], c, image>> \in WlidAndImageID
         \/ \E i \in Handlers : /\ handler[i].at \in {"check", "scan new", "add"}
                                /\ Key(i) = <<Workload[p], c, image>>

\* The image of every container that keeps it is recorded in the end, unless its
\* container data could not be computed or the GET of its delayed pod failed: no other
\* delayed, overridden or ignored event leaves an image out.
ImagesRecorded ==
  \A p \in Pods, c \in Containers, image \in Images :
    (pods[p] # Deleted /\ pods[p][c] = image) ~>
      \/ <<Workload[p], c, image>> \in WlidAndImageID \cup failed
      \/ pods[p] = Deleted
      \/ pods[p][c] # image
=============================================================================
