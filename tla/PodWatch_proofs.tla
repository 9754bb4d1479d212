--------------------------- MODULE PodWatch_proofs ---------------------------
(***************************************************************************)
(* Theorems about PodWatch, for any pods, templates, containers, images    *)
(* and any number of delayed events.                                       *)
(***************************************************************************)
EXTENDS PodWatch, TLAPS

\* The slugs left to a handler have an image.
TodoStarted == \A i \in Handlers : \A c \in handler[i].todo :
                 handler[i].at # "free" => handler[i].img[c] # Nothing

\* The key a handler is about to record was scanned, alone or with its template's profile.
ScannedBefore(i) == Key(i) \in scanned \/ Template[handler[i].pod] \in profiled
AddsScanned == \A i \in Handlers : handler[i].at \in {"set", "add"} => ScannedBefore(i)

\* A handler that passes slugs over has scanned the profile of its pod's template.
CoveredIsProfiled ==
  \A i \in Handlers : handler[i].covered => Template[handler[i].pod] \in profiled

Inv == /\ TypeOK /\ TodoStarted /\ AddsScanned /\ CoveredIsProfiled
       /\ RecordedWasScanned /\ CachedIsRecorded

-----------------------------------------------------------------------------
(* The start, and what one step of a handler leaves alone. *)

\* No handler runs and nothing is cached at the start.
LEMMA InitInv == Init => Inv
<1>. SUFFICES ASSUME Init PROVE Inv
  OBVIOUS
<1>. USE BoundsAssumption, PodsAssumption DEF Init
<1>1. Free \in HandlerStates /\ Free.at = "free" /\ Free.covered = FALSE
  BY DEF Free, HandlerStates, Stages
<1>2. \A i \in Handlers : handler[i] = Free
  OBVIOUS
<1>3. TypeOK
  BY <1>1, <1>2 DEF TypeOK
<1>4. TodoStarted /\ AddsScanned /\ CoveredIsProfiled
  BY <1>1, <1>2 DEF TodoStarted, AddsScanned, CoveredIsProfiled
<1>5. RecordedWasScanned
  BY DEF RecordedWasScanned
<1>6. CachedIsRecorded
  BY DEF CachedIsRecorded, Slugs, Templates
<1>. QED  BY <1>3, <1>4, <1>5, <1>6 DEF Inv

\* What a handler's step to another stage leaves as it is.
LEMMA GoToEffect ==
  ASSUME TypeOK, NEW i \in Handlers, NEW stage \in Stages, GoTo(i, stage)
  PROVE  /\ handler' \in [Handlers -> HandlerStates]
         /\ handler'[i].at = stage
         /\ \A j \in Handlers : /\ j # i => handler'[j] = handler[j]
                                /\ handler'[j].pod = handler[j].pod
                                /\ handler'[j].img = handler[j].img
                                /\ handler'[j].todo = handler[j].todo
                                /\ handler'[j].cont = handler[j].cont
                                /\ handler'[j].covered = handler[j].covered
                                /\ Key(j)' = Key(j)
<1>1. handler' = [handler EXCEPT ![i].at = stage] /\ handler \in [Handlers -> HandlerStates]
  BY DEF GoTo, TypeOK
<1>2. handler'[i] = [handler[i] EXCEPT !.at = stage] /\ \A j \in Handlers \ {i} : handler'[j] = handler[j]
  BY <1>1
<1>3. handler[i] \in HandlerStates
  BY <1>1
<1>4. handler'[i] \in HandlerStates /\ handler'[i].at = stage
      /\ handler'[i].pod = handler[i].pod /\ handler'[i].img = handler[i].img
      /\ handler'[i].todo = handler[i].todo /\ handler'[i].cont = handler[i].cont
      /\ handler'[i].covered = handler[i].covered
  BY <1>2, <1>3 DEF HandlerStates
<1>5. handler' \in [Handlers -> HandlerStates]
  BY <1>1, <1>2, <1>4
<1>. QED  BY <1>2, <1>4, <1>5 DEF Key

\* The part of the invariant that speaks of the handlers.
HandlersOK ==
  /\ handler \in [Handlers -> HandlerStates]
  /\ \A i \in Handlers :
       /\ handler[i].at # "free" => handler[i].pod \in Pods /\ handler[i].img \in PodStates
       /\ handler[i].at \notin {"free", "delayed", "next"} => Key(i) \in Keys
  /\ TodoStarted /\ AddsScanned /\ CoveredIsProfiled

\* The other parts of the type invariant.
ClusterOK == /\ pods \in [Pods -> PodStates \cup {Deleted}]
             /\ young \subseteq Naked
             /\ changes \in 0 .. MaxChanges
             /\ queue \in [Pods -> PodStates \cup {Deleted, Nothing}]

CachesOK == /\ SlugToImageID \in [Slugs -> Images \cup {Nothing}]
            /\ WlidAndImageID \subseteq Keys /\ scanned \subseteq Keys /\ failed \subseteq Keys
            /\ profiled \subseteq Templates

\* A step from one stage of a slug to the next keeps it, unless it forgets a scan.
LEMMA GoToKeepsHandlers ==
  ASSUME TypeOK, HandlersOK, NEW i \in Handlers,
         handler[i].at \notin {"free", "delayed", "next"},
         NEW stage \in Stages \ {"free", "delayed"}, GoTo(i, stage),
         scanned \subseteq scanned', profiled \subseteq profiled',
         stage \in {"set", "add"} => ScannedBefore(i)'
  PROVE  HandlersOK'
<1>. USE GoToEffect DEF HandlersOK
<1>1. handler' \in [Handlers -> HandlerStates]
  OBVIOUS
<1>2. ASSUME NEW j \in Handlers
      PROVE  /\ handler'[j].at # "free" => handler'[j].pod \in Pods /\ handler'[j].img \in PodStates
             /\ handler'[j].at \notin {"free", "delayed", "next"} => Key(j)' \in Keys
  BY <1>2
<1>3. TodoStarted'
  BY DEF TodoStarted
<1>4. AddsScanned'
  BY DEF AddsScanned, ScannedBefore
<1>5. CoveredIsProfiled'
  BY DEF CoveredIsProfiled
<1>. QED  BY <1>1, <1>2, <1>3, <1>4, <1>5

\* Scans are never taken back: only a new key can be one that was not scanned.
LEMMA RecordedKeeps ==
  ASSUME RecordedWasScanned, scanned \subseteq scanned', profiled \subseteq profiled',
         \A key \in WlidAndImageID' \ WlidAndImageID :
           key \in scanned' \/ \E p \in Pods : Workload[p] = key[1] /\ Template[p] \in profiled'
  PROVE  RecordedWasScanned'
BY DEF RecordedWasScanned

\* A handler at one of these stages will decide on the key of its slug, which is cached.
Decides(i) == handler[i].at \in {"check", "scan new", "add"}

\* No handler drops its decision.
LEMMA CachedKeeps ==
  ASSUME CachedIsRecorded, SlugToImageID' = SlugToImageID, WlidAndImageID \subseteq WlidAndImageID',
         \A i \in Handlers : Decides(i) => \/ Decides(i)' /\ Key(i)' = Key(i)
                                           \/ Key(i) \in WlidAndImageID'
  PROVE  CachedIsRecorded'
BY DEF CachedIsRecorded, Decides

\* The handler that caches a slug decides on it; the slug's template has one workload.
LEMMA CacheSlugKeeps ==
  ASSUME TypeOK, CachedIsRecorded, NEW i \in Handlers, CacheSlug(i), handler[i].pod \in Pods,
         WlidAndImageID' = WlidAndImageID, Decides(i)',
         \A j \in Handlers : Key(j)' = Key(j) /\ (Decides(j) => Decides(j)')
  PROVE  CachedIsRecorded'
<1>. SUFFICES ASSUME NEW p \in Pods, NEW c \in Containers,
                     SlugToImageID'[<<Template[p], c>>] # Nothing
              PROVE  LET key == <<Workload[p], c, SlugToImageID'[<<Template[p], c>>]>>
                     IN  \/ key \in WlidAndImageID'
                         \/ \E j \in Handlers : Decides(j)' /\ Key(j)' = key
  BY DEF CachedIsRecorded, Decides
<1>. DEFINE slug == <<Template[p], c>>
<1>1. slug \in Slugs /\ SlugToImageID \in [Slugs -> Images \cup {Nothing}]
  BY DEF Slugs, Templates, TypeOK
<1>2. CASE slug = Slug(i)
  <2>1. SlugToImageID'[slug] = handler[i].img[handler[i].cont]
    BY <1>1, <1>2 DEF CacheSlug
  <2>2. Template[p] = Template[handler[i].pod] /\ c = handler[i].cont
    BY <1>2 DEF Slug
  <2>3. Key(i) = <<Workload[p], c, SlugToImageID'[slug]>>
    BY <2>1, <2>2, TemplateAssumption DEF Key
  <2>. QED  BY <2>3
<1>3. CASE slug # Slug(i)
  <2>1. SlugToImageID'[slug] = SlugToImageID[slug]
    BY <1>1, <1>3 DEF CacheSlug
  <2>. QED  BY <2>1 DEF CachedIsRecorded, Decides
<1>. QED  BY <1>2, <1>3

\* A handler with no decision to take turns to another event or another slug of its own.
LEMMA TurnKeeps ==
  ASSUME HandlersOK, CachedIsRecorded, UNCHANGED <<caches, scanned, profiled>>,
         NEW i \in Handlers, ~Decides(i),
         NEW h \in HandlerStates, handler' = [handler EXCEPT ![i] = h],
         h.at \in {"free", "delayed", "next", "new", "changed"},
         h.covered => Template[h.pod] \in profiled,
         h.at # "free" => /\ h.pod \in Pods /\ h.img \in PodStates
                          /\ \A c \in h.todo : h.img[c] # Nothing,
         h.at \in {"new", "changed"} => h.cont \in Containers /\ h.img[h.cont] # Nothing
  PROVE  HandlersOK' /\ CachedIsRecorded'
<1>. USE DEF HandlersOK, caches, history
<1>1. handler' \in [Handlers -> HandlerStates] /\ handler'[i] = h
      /\ \A j \in Handlers \ {i} : handler'[j] = handler[j]
  OBVIOUS
<1>2. \A j \in Handlers \ {i} : Key(j)' = Key(j)
  BY <1>1 DEF Key
<1>3. h.at \in {"new", "changed"} => Key(i)' \in Keys
  BY <1>1 DEF Key, Keys, Workloads, PodStates
<1>4. \A j \in Handlers :
        /\ handler'[j].at # "free" => handler'[j].pod \in Pods /\ handler'[j].img \in PodStates
        /\ handler'[j].at \notin {"free", "delayed", "next"} => Key(j)' \in Keys
  BY <1>1, <1>2, <1>3
<1>5. TodoStarted'
  BY <1>1 DEF TodoStarted
<1>6. AddsScanned'
  BY <1>1, <1>2 DEF AddsScanned, ScannedBefore
<1>7. CoveredIsProfiled'
  BY <1>1 DEF CoveredIsProfiled
<1>8. CachedIsRecorded'
  BY <1>1, <1>2, CachedKeeps DEF Decides
<1>. QED  BY <1>1, <1>4, <1>5, <1>6, <1>7, <1>8

\* An event's handling starts with the containers that have an image.
LEMMA StartEffect ==
  ASSUME NEW p \in Pods, NEW img \in PodStates
  PROVE  /\ Start(p, img) \in HandlerStates
         /\ Start(p, img).at = "next" /\ Start(p, img).pod = p /\ Start(p, img).img = img
         /\ \A c \in Start(p, img).todo : img[c] # Nothing
         /\ Start(p, img).covered = FALSE
BY DEF Start, HandlerStates, Stages

-----------------------------------------------------------------------------
(* Every step keeps the invariant. *)

\* The cluster's changes and the loop that takes the events.
LEMMA PodStepInv ==
  ASSUME Inv, NEW p \in Pods, Changes(p) \/ Matures(p) \/ LoopStep(p)
  PROVE  Inv'
<1>0. TypeOK /\ HandlersOK /\ RecordedWasScanned /\ CachedIsRecorded /\ ClusterOK /\ CachesOK
      /\ Loop \in Handlers
  BY BoundsAssumption DEF Inv, HandlersOK, ClusterOK, CachesOK, TypeOK, Loop, Handlers
<1>. SUFFICES ClusterOK' /\ HandlersOK' /\ CachedIsRecorded' /\ UNCHANGED <<caches, history>>
  BY <1>0 DEF Inv, HandlersOK, ClusterOK, CachesOK, TypeOK, RecordedWasScanned, caches, history
<1>. USE <1>0
<1>1. ASSUME UNCHANGED <<handler, caches, history>>
      PROVE  HandlersOK' /\ CachedIsRecorded'
  <2>. USE <1>1 DEF caches, history
  <2>1. \A i \in Handlers : Key(i)' = Key(i)
    BY DEF Key
  <2>2. HandlersOK'
    BY <2>1 DEF HandlersOK, TodoStarted, AddsScanned, ScannedBefore, CoveredIsProfiled
  <2>3. CachedIsRecorded'
    BY <2>1, CachedKeeps DEF Decides
  <2>. QED  BY <2>2, <2>3
<1>2. ASSUME Changes(p)
      PROVE  ClusterOK' /\ UNCHANGED <<handler, caches, history>>
  BY <1>2, BoundsAssumption DEF Changes, ClusterOK
<1>3. ASSUME Matures(p)
      PROVE  ClusterOK' /\ UNCHANGED <<handler, caches, history>>
  BY <1>3 DEF Matures, ClusterOK
<1>4. ASSUME SkipEvent(p)
      PROVE  ClusterOK' /\ UNCHANGED <<handler, caches, history>>
  BY <1>4 DEF SkipEvent, ClusterOK, cluster
<1>5. ASSUME HandleEvent(p)
      PROVE  ClusterOK' /\ HandlersOK' /\ CachedIsRecorded' /\ UNCHANGED <<caches, history>>
  <2>1. ClusterOK' /\ UNCHANGED <<caches, history>> /\ queue[p] \in PodStates
        /\ ~Decides(Loop)
    BY <1>5 DEF HandleEvent, TakeEvent, ClusterOK, cluster, Decides
  <2>. DEFINE h == Start(p, queue[p])
  <2>2. handler' = [handler EXCEPT ![Loop] = h]
    BY <1>5 DEF HandleEvent
  <2>3. /\ h \in HandlerStates /\ h.at = "next" /\ h.pod = p /\ h.img = queue[p]
        /\ \A c \in h.todo : h.img[c] # Nothing
        /\ h.covered = FALSE
    BY <2>1, StartEffect DEF Start
  <2>. HIDE DEF h
  <2>4. HandlersOK' /\ CachedIsRecorded'
    BY <2>1, <2>2, <2>3, TurnKeeps DEF history
  <2>. QED  BY <2>1, <2>4
<1>6. ASSUME DelayEvent(p)
      PROVE  ClusterOK' /\ HandlersOK' /\ CachedIsRecorded' /\ UNCHANGED <<caches, history>>
  <2>1. PICK i \in Handlers \ {Loop} :
          /\ handler[i].at = "free"
          /\ handler' = [handler EXCEPT ![i] = [Start(p, queue[p]) EXCEPT !.at = "delayed"]]
    BY <1>6 DEF DelayEvent
  <2>2. ClusterOK' /\ UNCHANGED <<caches, history>> /\ queue[p] \in PodStates
        /\ ~Decides(i)
    BY <1>6, <2>1 DEF DelayEvent, TakeEvent, ClusterOK, cluster, Decides
  <2>. DEFINE h == [Start(p, queue[p]) EXCEPT !.at = "delayed"]
  <2>3. /\ h \in HandlerStates /\ h.at = "delayed" /\ h.pod = p /\ h.img = queue[p]
        /\ h.covered = FALSE
        /\ \A c \in h.todo : h.img[c] # Nothing
    BY <2>2, StartEffect DEF HandlerStates, Stages, Start
  <2>4. handler' = [handler EXCEPT ![i] = h]
    BY <2>1
  <2>. HIDE DEF h
  <2>5. HandlersOK' /\ CachedIsRecorded'
    BY <2>2, <2>3, <2>4, TurnKeeps DEF history
  <2>. QED  BY <2>2, <2>5
<1>. QED  BY <1>1, <1>2, <1>3, <1>4, <1>5, <1>6 DEF LoopStep

\* The steps of a handler between two slugs.
LEMMA TurnInv ==
  ASSUME Inv, NEW i \in Handlers, TimerFires(i) \/ NextSlug(i) \/ NoMoreSlugs(i)
  PROVE  Inv'
<1>0. TypeOK /\ HandlersOK /\ CachedIsRecorded
  BY DEF Inv, HandlersOK, TypeOK
<1>1. UNCHANGED <<cluster, queue, caches, history>> /\ ~Decides(i)
  BY DEF TimerFires, NextSlug, NoMoreSlugs, Decides
<1>2. /\ handler[i] \in HandlerStates
      /\ handler[i].covered => Template[handler[i].pod] \in profiled
      /\ handler[i].at # "free" => /\ handler[i].pod \in Pods /\ handler[i].img \in PodStates
                                   /\ \A c \in handler[i].todo : handler[i].img[c] # Nothing
  BY <1>0 DEF HandlersOK, TodoStarted, CoveredIsProfiled
<1>3. SUFFICES HandlersOK' /\ CachedIsRecorded'
  BY <1>1 DEF Inv, HandlersOK, TypeOK, RecordedWasScanned, cluster, caches, history
<1>4. ASSUME handler' = [handler EXCEPT ![i] = Free]
      PROVE  HandlersOK' /\ CachedIsRecorded'
  <2>1. Free \in HandlerStates /\ Free.at = "free" /\ Free.covered = FALSE
    BY DEF Free, HandlerStates, Stages
  <2>. QED  BY <1>0, <1>1, <1>4, <2>1, TurnKeeps DEF history
<1>5. CASE TimerFires(i)
  <2>. DEFINE h == [handler[i] EXCEPT !.at = "next"]
  <2>1. CASE handler' = [handler EXCEPT ![i] = h]
    <3>1. /\ h \in HandlerStates /\ h.at = "next"
          /\ h.pod = handler[i].pod /\ h.img = handler[i].img
          /\ h.todo = handler[i].todo /\ h.covered = handler[i].covered
      BY <1>2 DEF HandlerStates, Stages
    <3>2. handler[i].at # "free"
      BY <1>5 DEF TimerFires
    <3>. HIDE DEF h
    <3>. QED  BY <1>0, <1>1, <1>2, <2>1, <3>1, <3>2, TurnKeeps DEF history
  <2>2. handler' = [handler EXCEPT ![i] = Free] \/ handler' = [handler EXCEPT ![i] = h]
    BY <1>5 DEF TimerFires
  <2>. QED  BY <1>4, <2>1, <2>2
<1>6. CASE NextSlug(i)
  <2>0. handler[i].at = "next"
    BY <1>6 DEF NextSlug
  <2>1. PICK c \in handler[i].todo, stage \in {"next", "new", "changed"} :
          handler' = [handler EXCEPT ![i].todo = @ \ {c}, ![i].cont = c, ![i].at = stage]
    BY <1>6 DEF NextSlug
  <2>. DEFINE h == [handler[i] EXCEPT !.todo = @ \ {c}, !.cont = c, !.at = stage]
  <2>2. c \in Containers /\ handler[i].img[c] # Nothing
    BY <1>2, <2>0 DEF HandlerStates
  <2>3. /\ h \in HandlerStates /\ h.at = stage /\ h.cont = c
        /\ h.pod = handler[i].pod /\ h.img = handler[i].img
        /\ h.todo \subseteq handler[i].todo /\ h.covered = handler[i].covered
    BY <1>2, <2>2 DEF HandlerStates, Stages
  <2>4. handler' = [handler EXCEPT ![i] = h]
    BY <2>1
  <2>. HIDE DEF h
  <2>. QED  BY <1>0, <1>1, <1>2, <2>0, <2>2, <2>3, <2>4, TurnKeeps DEF history
<1>7. CASE NoMoreSlugs(i)
  BY <1>4, <1>7 DEF NoMoreSlugs
<1>. QED  BY <1>5, <1>6, <1>7

\* A delayed event is dropped: its keys are given up, and nothing is cached.
LEMMA DropInv ==
  ASSUME Inv, NEW i \in Handlers, GetFails(i)
  PROVE  Inv'
<1>0. TypeOK /\ HandlersOK /\ CachedIsRecorded
  BY DEF Inv, HandlersOK, TypeOK
<1>1. /\ UNCHANGED <<cluster, queue, caches, scanned, profiled>> /\ ~Decides(i)
      /\ failed' = failed \cup EventKeys(i)
      /\ handler' = [handler EXCEPT ![i] = Free]
      /\ handler[i].at = "delayed"
  BY DEF GetFails, Decides
<1>2. /\ handler[i] \in HandlerStates /\ handler[i].pod \in Pods /\ handler[i].img \in PodStates
      /\ \A c \in handler[i].todo : handler[i].img[c] # Nothing
  BY <1>0, <1>1 DEF HandlersOK, TodoStarted
<1>3. \A c \in handler[i].todo : c \in Containers /\ handler[i].img[c] \in Images
  BY <1>2 DEF HandlerStates, PodStates
<1>4. EventKeys(i) \subseteq Keys
  BY <1>2, <1>3 DEF EventKeys, Keys, Workloads
<1>5. failed' \subseteq Keys
  BY <1>0, <1>1, <1>4 DEF TypeOK
<1>6. HandlersOK' /\ CachedIsRecorded'
  <2>1. Free \in HandlerStates /\ Free.at = "free" /\ Free.covered = FALSE
    BY DEF Free, HandlerStates, Stages
  <2>. QED  BY <1>0, <1>1, <2>1, TurnKeeps DEF history
<1>. QED
  BY <1>1, <1>5, <1>6 DEF Inv, HandlersOK, TypeOK, RecordedWasScanned, cluster, caches

\* The steps of a handler that decide on one slug.
LEMMA SlugInv ==
  ASSUME Inv, NEW i \in Handlers,
         \/ NoContainerData(i) \/ NewSlug(i) \/ CheckKey(i) \/ ChangedImage(i)
         \/ ScanImage(i) \/ SetSlug(i) \/ AddKey(i)
  PROVE  Inv'
<1>0. TypeOK /\ HandlersOK /\ CachesOK /\ RecordedWasScanned /\ CachedIsRecorded
  BY DEF Inv, HandlersOK, CachesOK, TypeOK
<1>1. /\ handler[i].at \notin {"free", "delayed", "next"}
      /\ scanned \subseteq scanned' /\ profiled' = profiled
      /\ UNCHANGED <<cluster, queue>>
  BY DEF NoContainerData, NewSlug, CheckKey, ChangedImage, ScanImage, SetSlug, AddKey, caches, history
<1>2. Key(i) \in Keys /\ handler[i].pod \in Pods
  BY <1>0, <1>1 DEF HandlersOK
<1>3. SUFFICES HandlersOK' /\ CachesOK' /\ RecordedWasScanned' /\ CachedIsRecorded'
  BY <1>1 DEF Inv, HandlersOK, CachesOK, TypeOK, cluster
<1>4. handler[i].covered => Template[handler[i].pod] \in profiled
  BY <1>0 DEF HandlersOK, CoveredIsProfiled
<1>5. ASSUME CacheSlug(i)
      PROVE  SlugToImageID' \in [Slugs -> Images \cup {Nothing}]
  <2>1. handler[i].img[handler[i].cont] \in Images
    BY <1>2 DEF Key, Keys
  <2>. QED  BY <1>0, <1>5, <2>1 DEF CacheSlug, CachesOK
<1>6. CASE NoContainerData(i)
  <2>1. GoTo(i, "next") /\ ~Decides(i) /\ UNCHANGED <<caches, scanned, profiled>>
        /\ failed' = failed \cup {Key(i)}
    BY <1>6 DEF NoContainerData, Decides
  <2>2. HandlersOK'
    BY <1>0, <1>1, <2>1, GoToKeepsHandlers DEF Stages
  <2>3. CachesOK' /\ RecordedWasScanned'
    BY <1>0, <1>2, <2>1 DEF CachesOK, RecordedWasScanned, caches
  <2>4. CachedIsRecorded'
    BY <1>0, <2>1, GoToEffect, CachedKeeps DEF Decides, Stages, caches
  <2>. QED  BY <2>2, <2>3, <2>4
<1>7. CASE NewSlug(i)
  <2>1. GoTo(i, "check") /\ CacheSlug(i) /\ UNCHANGED <<WlidAndImageID, history>>
    BY <1>7 DEF NewSlug
  <2>2. HandlersOK'
    BY <1>0, <1>1, <2>1, GoToKeepsHandlers DEF Stages
  <2>3. CachesOK' /\ RecordedWasScanned'
    BY <1>0, <1>5, <2>1 DEF CachesOK, RecordedWasScanned, history
  <2>4. CachedIsRecorded'
    BY <1>0, <1>2, <2>1, GoToEffect, CacheSlugKeeps DEF Decides, Stages
  <2>. QED  BY <2>2, <2>3, <2>4
<1>8. CASE CheckKey(i)
  <2>1. PICK stage \in {"next", "add", "scan new"} :
          /\ GoTo(i, stage) /\ UNCHANGED <<caches, history>>
          /\ stage = "next" => Key(i) \in WlidAndImageID
          /\ stage = "add" => handler[i].covered
    BY <1>8 DEF CheckKey
  <2>2. stage = "add" => ScannedBefore(i)'
    BY <1>0, <1>4, <2>1, GoToEffect DEF ScannedBefore, history, Stages
  <2>3. HandlersOK'
    BY <1>0, <1>1, <2>1, <2>2, GoToKeepsHandlers DEF Stages
  <2>4. CachesOK' /\ RecordedWasScanned'
    BY <1>0, <2>1 DEF CachesOK, RecordedWasScanned, caches, history
  <2>5. CachedIsRecorded'
    BY <1>0, <2>1, GoToEffect, CachedKeeps DEF Decides, Stages, caches
  <2>. QED  BY <2>3, <2>4, <2>5
<1>9. CASE ChangedImage(i)
  <2>1. PICK stage \in {"set", "scan changed"} :
          /\ GoTo(i, stage) /\ UNCHANGED <<caches, history>>
          /\ stage = "set" => handler[i].covered
          /\ ~Decides(i)
    BY <1>9 DEF ChangedImage, Decides
  <2>2. stage = "set" => ScannedBefore(i)'
    BY <1>0, <1>4, <2>1, GoToEffect DEF ScannedBefore, history, Stages
  <2>3. HandlersOK'
    BY <1>0, <1>1, <2>1, <2>2, GoToKeepsHandlers DEF Stages
  <2>4. CachesOK' /\ RecordedWasScanned'
    BY <1>0, <2>1 DEF CachesOK, RecordedWasScanned, caches, history
  <2>5. CachedIsRecorded'
    BY <1>0, <2>1, GoToEffect, CachedKeeps DEF Decides, Stages, caches
  <2>. QED  BY <2>3, <2>4, <2>5
<1>10. CASE ScanImage(i)
  <2>1. PICK stage \in {"set", "add"} :
          /\ GoTo(i, stage) /\ UNCHANGED <<caches, profiled, failed>>
          /\ scanned' = scanned \cup {Key(i)}
          /\ Decides(i) => stage = "add"
    BY <1>10 DEF ScanImage, AfterScan, Decides
  <2>2. ScannedBefore(i)'
    BY <1>0, <2>1, GoToEffect DEF ScannedBefore, Stages
  <2>3. HandlersOK'
    BY <1>0, <1>1, <2>1, <2>2, GoToKeepsHandlers DEF Stages
  <2>4. CachesOK' /\ RecordedWasScanned'
    BY <1>0, <1>2, <2>1 DEF CachesOK, RecordedWasScanned, caches
  <2>5. CachedIsRecorded'
    BY <1>0, <2>1, GoToEffect, CachedKeeps DEF Decides, Stages, caches
  <2>. QED  BY <2>3, <2>4, <2>5
<1>11. CASE SetSlug(i)
  <2>1. GoTo(i, "add") /\ CacheSlug(i) /\ UNCHANGED <<WlidAndImageID, history>> /\ ScannedBefore(i)
    BY <1>0, <1>11 DEF SetSlug, HandlersOK, AddsScanned
  <2>2. ScannedBefore(i)'
    BY <1>0, <2>1, GoToEffect DEF ScannedBefore, history, Stages
  <2>3. HandlersOK'
    BY <1>0, <1>1, <2>1, <2>2, GoToKeepsHandlers DEF Stages
  <2>4. CachesOK' /\ RecordedWasScanned'
    BY <1>0, <1>5, <2>1 DEF CachesOK, RecordedWasScanned, history
  <2>5. CachedIsRecorded'
    BY <1>0, <1>2, <2>1, GoToEffect, CacheSlugKeeps DEF Decides, Stages
  <2>. QED  BY <2>3, <2>4, <2>5
<1>12. CASE AddKey(i)
  <2>1. GoTo(i, "next") /\ WlidAndImageID' = WlidAndImageID \cup {Key(i)}
        /\ UNCHANGED <<SlugToImageID, history>> /\ ScannedBefore(i)
    BY <1>0, <1>12 DEF AddKey, HandlersOK, AddsScanned
  <2>2. HandlersOK'
    BY <1>0, <1>1, <2>1, GoToKeepsHandlers DEF Stages
  <2>3. CachesOK'
    BY <1>0, <1>2, <2>1 DEF CachesOK, history
  <2>4. Key(i)[1] = Workload[handler[i].pod]
    BY DEF Key
  <2>5. RecordedWasScanned'
    BY <1>0, <1>2, <2>1, <2>4, RecordedKeeps DEF ScannedBefore, history
  <2>6. CachedIsRecorded'
    BY <1>0, <2>1, GoToEffect, CachedKeeps DEF Decides, Stages
  <2>. QED  BY <2>2, <2>3, <2>5, <2>6
<1>. QED  BY <1>6, <1>7, <1>8, <1>9, <1>10, <1>11, <1>12

\* The application profile's scan makes the pod's template a profiled one.
LEMMA ProfileInv ==
  ASSUME Inv, NEW i \in Handlers, ScanApplicationProfile(i)
  PROVE  Inv'
<1>. USE DEF ScanApplicationProfile, caches
<1>0. TypeOK /\ HandlersOK /\ RecordedWasScanned /\ CachedIsRecorded
  BY DEF Inv, HandlersOK, TypeOK
<1>1. PICK stage \in {"set", "add"} :
        /\ handler' = [handler EXCEPT ![i].at = stage, ![i].covered = TRUE]
        /\ Decides(i) => stage = "add"
  BY DEF AfterScan, Decides
<1>2. handler[i] \in HandlerStates /\ Key(i) \in Keys /\ handler[i].pod \in Pods
  BY <1>0 DEF HandlersOK
<1>. DEFINE h == [handler[i] EXCEPT !.at = stage, !.covered = TRUE]
<1>a. /\ h \in HandlerStates /\ h.at = stage /\ h.covered = TRUE
      /\ h.pod = handler[i].pod /\ h.img = handler[i].img
      /\ h.todo = handler[i].todo /\ h.cont = handler[i].cont
  BY <1>2 DEF HandlerStates, Stages
<1>b. handler' = [handler EXCEPT ![i] = h] /\ handler \in [Handlers -> HandlerStates]
  BY <1>0, <1>1 DEF HandlersOK
<1>. HIDE DEF h
<1>3. /\ handler'[i] \in HandlerStates /\ handler'[i].at = stage
      /\ handler'[i].pod = handler[i].pod /\ handler'[i].img = handler[i].img
      /\ handler'[i].todo = handler[i].todo /\ handler'[i].cont = handler[i].cont
      /\ \A j \in Handlers \ {i} : handler'[j] = handler[j]
  BY <1>a, <1>b
<1>4. \A j \in Handlers : Key(j)' = Key(j) /\ (Decides(j) => Decides(j)')
  BY <1>1, <1>3 DEF Key, Decides
<1>5. handler' \in [Handlers -> HandlerStates]
  BY <1>0, <1>1, <1>3 DEF HandlersOK
<1>6. \A j \in Handlers :
        /\ handler'[j].at # "free" => handler'[j].pod \in Pods /\ handler'[j].img \in PodStates
        /\ handler'[j].at \notin {"free", "delayed", "next"} => Key(j)' \in Keys
  BY <1>0, <1>3, <1>4 DEF HandlersOK
<1>7. TodoStarted'
  <2>1. handler[i].at # "free"
    OBVIOUS
  <2>. QED  BY <1>0, <1>3, <2>1 DEF HandlersOK, TodoStarted
<1>8. AddsScanned' /\ CoveredIsProfiled'
  <2>1. scanned' = scanned /\ profiled' = profiled \cup {Template[handler[i].pod]}
    OBVIOUS
  <2>2. ScannedBefore(i)' /\ Template[handler'[i].pod] \in profiled'
    BY <1>3, <2>1 DEF ScannedBefore
  <2>3. \A j \in Handlers \ {i} :
          /\ handler[j].at \in {"set", "add"} => ScannedBefore(j)
          /\ handler[j].covered => Template[handler[j].pod] \in profiled
          /\ handler'[j] = handler[j] /\ Key(j)' = Key(j)
    BY <1>0, <1>3, <1>4 DEF HandlersOK, AddsScanned, CoveredIsProfiled
  <2>4. \A j \in Handlers \ {i} : /\ handler'[j].at \in {"set", "add"} => ScannedBefore(j)'
                                  /\ handler'[j].covered => Template[handler'[j].pod] \in profiled'
    BY <2>1, <2>3 DEF ScannedBefore
  <2>. QED  BY <2>2, <2>4 DEF AddsScanned, CoveredIsProfiled
<1>9. RecordedWasScanned'
  BY <1>0 DEF RecordedWasScanned
<1>10. CachedIsRecorded'
  BY <1>0, <1>4, CachedKeeps
<1>11. profiled' \subseteq Templates
  BY <1>0, <1>2 DEF Templates, TypeOK
<1>. QED  BY <1>5, <1>6, <1>7, <1>8, <1>9, <1>10, <1>11 DEF Inv, TypeOK, cluster

\* Inv is inductive.
LEMMA NextInv == Inv /\ [Next]_vars => Inv'
<1>. SUFFICES ASSUME Inv, [Next]_vars PROVE Inv'
  OBVIOUS
<1>1. ASSUME NEW p \in Pods, Changes(p) \/ Matures(p) \/ LoopStep(p)
      PROVE  Inv'
  BY <1>1, PodStepInv
<1>2. ASSUME NEW i \in Handlers, HandlerStep(i)
      PROVE  Inv'
  BY <1>2, TurnInv, DropInv, SlugInv, ProfileInv DEF HandlerStep
<1>3. CASE UNCHANGED vars
  <2>. USE <1>3 DEF vars, cluster, caches, history
  <2>1. \A i \in Handlers : Key(i)' = Key(i) /\ (ScannedBefore(i)' <=> ScannedBefore(i))
    BY DEF Key, ScannedBefore
  <2>2. TypeOK'
    BY <2>1 DEF Inv, TypeOK
  <2>3. TodoStarted' /\ AddsScanned' /\ CoveredIsProfiled' /\ RecordedWasScanned'
    BY <2>1 DEF Inv, TodoStarted, AddsScanned, CoveredIsProfiled, RecordedWasScanned
  <2>4. CachedIsRecorded'
    BY <2>1, CachedKeeps DEF Inv, Decides
  <2>. QED  BY <2>2, <2>3, <2>4 DEF Inv
<1>. QED  BY <1>1, <1>2, <1>3 DEF Next

-----------------------------------------------------------------------------

\* The inductive invariant holds in every reachable state.
THEOREM Invariance == Spec => []Inv
<1>. QED  BY InitInv, NextInv, PTL DEF Spec

\* The variables keep their types; a handler past the look-up has a slug whose
\* container has an image, so SlugToImageID and WlidAndImageID hold no empty image.
THEOREM TypeCorrect == Spec => []TypeOK
<1>1. Inv => TypeOK
  BY DEF Inv
<1>. QED  BY Invariance, <1>1, PTL

\* Whatever the handlers of any number of delayed pods do between each other's cache
\* operations, an image is recorded for a workload only after it, or the profile
\* of one of the workload's templates, was given to the worker pool.
THEOREM RecordedOnlyScanned == Spec => []RecordedWasScanned
<1>1. Inv => RecordedWasScanned
  BY DEF Inv
<1>. QED  BY Invariance, <1>1, PTL

\* An image that later events ignore, since it is cached for their slug, is recorded
\* for the workload or about to be decided on: caching first loses no image, though
\* replicas share the slug and another handler may cache another image meanwhile.
THEOREM CachedRecorded == Spec => []CachedIsRecorded
<1>1. Inv => CachedIsRecorded
  BY DEF Inv
<1>. QED  BY Invariance, <1>1, PTL
=============================================================================
