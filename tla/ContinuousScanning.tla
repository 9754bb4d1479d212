-------------------------- MODULE ContinuousScanning --------------------------
(***************************************************************************)
(* The continuous scanning service (continuousscanning/): a watch per      *)
(* resource, made again whenever it ends (watchbuilder.go), sends its      *)
(* events to one channel; the listener puts them into the cooldown queue   *)
(* (service.go); the worker takes them out and gives each to the two       *)
(* handlers (handlers.go): one triggers a scan of an object that was added *)
(* or modified, the other deletes the results of a deleted one and         *)
(* triggers a scan that reports the deletion.                              *)
(*                                                                         *)
(* The queue, its evictor and its Stop are those of CooldownQueue, which   *)
(* numbers a key's events; `events` tells what they were.  The worker pool *)
(* that takes the scans and the storage are external.                      *)
(***************************************************************************)
EXTENDS CooldownQueue, Sequences

CONSTANTS GVRs,         \* the resources of the matching rules
          GVROf,        \* of an object
          Owned,        \* objects of a kind that has a parent (isOrphanWorkload)
          ChanCap,      \* capacity of resourceEventsCh (100)
          MaxVersion,   \* bound on the changes of an object
          MaxEnds       \* bound on the ends of watches

ASSUME ServiceAssumption == /\ GVROf \in [Keys -> GVRs] /\ Owned \subseteq Keys
                            /\ ChanCap \in Nat \ {0}
                            /\ MaxVersion \in Nat /\ MaxEnds \in Nat

VARIABLES
  version,     \* per object: how often it was changed
  exists,      \* the objects that are there
  watch,       \* per resource: "none", "open" or "ended"
  stream,      \* per resource: what the watch has not sent to the channel yet
  ends,
  channel,     \* resourceEventsCh
  launched,    \* Launch returned: listener and worker run
  shutdown,    \* Stop was called
  events,      \* history: per object the events put into the queue
  work,        \* what the worker does with the event it handles
  scanned,     \* history: per object the version a scan was triggered for last
  cleaned,     \* history: per object the version whose results were deleted last
  left,        \* history: the objects whose last deletion of results failed
  missed       \* history: the objects a watch missed a deletion of

clusterVars == <<version, exists, missed>>
watchVars == <<watch, stream, ends>>
workVars == <<work, scanned, cleaned, left>>
serviceVars == <<clusterVars, watchVars, channel, launched, shutdown, events, workVars>>

Event(k, type, v) == [key |-> k, type |-> type, version |-> v]
NoWork == [at |-> "none", key |-> NoKey]

ServiceInit == /\ Init
               /\ version = [k \in Keys |-> 0]
               /\ exists = {}
               /\ watch = [g \in GVRs |-> "none"]
               /\ stream = [g \in GVRs |-> <<>>]
               /\ ends = 0
               /\ channel = <<>>
               /\ launched = FALSE
               /\ shutdown = FALSE
               /\ events = [k \in Keys |-> <<>>]
               /\ work = NoWork
               /\ scanned = [k \in Keys |-> 0]
               /\ cleaned = [k \in Keys |-> 0]
               /\ missed = {}
               /\ left = {}

-----------------------------------------------------------------------------
(* The cluster.  A deletion that no watch tells of is missed for good. *)

Change(k, type) ==
  LET g == GVROf[k]
  IN  /\ version[k] < MaxVersion
      /\ version' = [version EXCEPT ![k] = @ + 1]
      /\ stream' = IF watch[g] = "open"
                     THEN [stream EXCEPT ![g] = Append(@, Event(k, type, version'[k]))]
                     ELSE stream
      /\ UNCHANGED <<vars, watch, ends, channel, launched, shutdown, events, workVars>>

Write(k) == /\ Change(k, "present")
            /\ exists' = exists \cup {k}
            /\ missed' = missed \ {k}

Delete(k) == /\ k \in exists
             /\ Change(k, "deleted")
             /\ exists' = exists \ {k}
             /\ missed' = IF watch[GVROf[k]] = "open" THEN missed ELSE missed \cup {k}

-----------------------------------------------------------------------------
(* SelfHealingWatch: Run and RunUntilWatchCloses. *)

Known(g) == {k \in exists : GVROf[k] = g}

\* Mutated form: a watch is made once.
MakeWatchOnce(g) ==
  /\ watch[g] = "none"
  /\ watch' = [watch EXCEPT ![g] = "open"]
  /\ \E order \in [1 .. Cardinality(Known(g)) -> Known(g)] :
       /\ \A k \in Known(g) : \E i \in DOMAIN order : order[i] = k
       /\ stream' = [stream EXCEPT
            ![g] = [i \in DOMAIN order |-> Event(order[i], "present", version[order[i]])]]
  /\ UNCHANGED <<vars, clusterVars, ends, channel, launched, shutdown, events, workVars>>

\* A watch without resource version begins with the objects that are there, in any order.
\* An attempt that fails is followed by the next at once.
MakeWatch(g) ==
  /\ watch[g] # "open"
  /\ stream[g] = <<>>
  /\ watch' = [watch EXCEPT ![g] = "open"]
  /\ \E order \in [1 .. Cardinality(Known(g)) -> Known(g)] :
       /\ \A k \in Known(g) : \E i \in DOMAIN order : order[i] = k
       /\ stream' = [stream EXCEPT
            ![g] = [i \in DOMAIN order |-> Event(order[i], "present", version[order[i]])]]
  /\ UNCHANGED <<vars, clusterVars, ends, channel, launched, shutdown, events, workVars>>

Deletions(s) == {e \in {s[i] : i \in DOMAIN s} : e.type = "deleted"}

\* The API server ends the watch; some of what it had to tell may still be read.
WatchEnds(g) ==
  /\ watch[g] = "open"
  /\ ends < MaxEnds
  /\ ends' = ends + 1
  /\ watch' = [watch EXCEPT ![g] = "ended"]
  /\ \E n \in 0 .. Len(stream[g]) :
       /\ stream' = [stream EXCEPT ![g] = SubSeq(@, 1, n)]
       /\ missed' = missed \cup {k \in Keys \ exists :
            \E e \in Deletions(SubSeq(stream[g], n + 1, Len(stream[g]))) :
              e.key = k /\ e.version = version[k]}
  /\ UNCHANGED <<vars, version, exists, channel, launched, shutdown, events, workVars>>

\* Mutated form: the channel has no limit.
ForwardAnyway(g) ==
  /\ stream[g] # <<>>
  /\ channel' = Append(channel, Head(stream[g]))
  /\ stream' = [stream EXCEPT ![g] = Tail(@)]
  /\ UNCHANGED <<vars, clusterVars, watch, ends, launched, shutdown, events, workVars>>

\* Mutated form: each event waits for the channel in a goroutine of its own, and a later
\* one may be the first to send.
ForwardLatest(g) ==
  /\ stream[g] # <<>>
  /\ Len(channel) < ChanCap
  /\ channel' = Append(channel, stream[g][Len(stream[g])])
  /\ stream' = [stream EXCEPT ![g] = SubSeq(@, 1, Len(@) - 1)]
  /\ UNCHANGED <<vars, clusterVars, watch, ends, launched, shutdown, events, workVars>>

\* out <- event blocks while the channel is full.
Forward(g) ==
  /\ stream[g] # <<>>
  /\ Len(channel) < ChanCap
  /\ channel' = Append(channel, Head(stream[g]))
  /\ stream' = [stream EXCEPT ![g] = Tail(@)]
  /\ UNCHANGED <<vars, clusterVars, watch, ends, launched, shutdown, events, workVars>>

-----------------------------------------------------------------------------
(* Launch, the listener and Stop. *)

\* WatchPool.Run waits for every watch to have been made once.
Launch == /\ ~launched
          /\ \A g \in GVRs : watch[g] # "none"
          /\ launched' = TRUE
          /\ UNCHANGED <<vars, clusterVars, watchVars, channel, shutdown, events, workVars>>

\* The listener's select takes an event, whether shutdown is requested or not.
Listen == /\ launched
          /\ stopper = "none"
          /\ channel # <<>>
          /\ LET e == Head(channel)
             IN  /\ Enqueue(e.key)
                 /\ events' = [events EXCEPT ![e.key] = Append(@, e)]
          /\ channel' = Tail(channel)
          /\ UNCHANGED <<clusterVars, watchVars, launched, shutdown, workVars>>

Stop == /\ launched
        /\ ~shutdown
        /\ shutdown' = TRUE
        /\ UNCHANGED <<vars, clusterVars, watchVars, channel, launched, events, workVars>>

\* Mutated form: the listener closes the channel itself, without the queue's mutexes.
ListenerCloses == /\ ~panicked
                  /\ shutdown
                  /\ stopper = "none"
                  /\ stopper' = "returned"
                  /\ closed' = TRUE
                  /\ UNCHANGED <<pending, evictor, panicked, consumer, put, got, serviceVars>>

\* Or it takes the shutdown and returns, and the deferred call stops the queue.
ListenerEnds == /\ shutdown
                /\ StopCalled
                /\ UNCHANGED serviceVars

QueueStep == /\ \/ \E k \in Keys : Expire(k)
                \/ LockChan \/ SendOnClosed \/ StopCloses
             /\ UNCHANGED serviceVars

-----------------------------------------------------------------------------
(* The worker: each event goes to the triggering handler, then to the cleaner. *)

Receive == /\ Send
           /\ work' = [at |-> "trigger", key |-> evictor.key]
           /\ UNCHANGED <<clusterVars, watchVars, channel, launched, shutdown, events, scanned,
                          cleaned, left>>

WorkerEnds == /\ launched
              /\ RangeEnds
              /\ UNCHANGED serviceVars

Current == events[work.key][got[work.key]]
Handling(stage) == ~panicked /\ consumer = "handle" /\ work.at = stage

HandlerStep == UNCHANGED <<clusterVars, watchVars, channel, launched, shutdown, events>>

\* poolInvokerHandler.Handle: an object that has a parent is not scanned.
Trigger == /\ Handling("trigger")
           /\ work' = [work EXCEPT !.at = "clean"]
           /\ scanned' = IF Current.type = "present" /\ work.key \notin Owned
                           THEN [scanned EXCEPT ![work.key] = Current.version]
                           ELSE scanned
           /\ HandlerStep
           /\ UNCHANGED <<vars, cleaned, left>>

\* deletedCleanerHandler.Handle: its two early returns.
NothingToClean == /\ Handling("clean")
                  /\ Current.type # "deleted" \/ work.key \in Owned
                  /\ Handled
                  /\ work' = NoWork
                  /\ HandlerStep
                  /\ UNCHANGED <<scanned, cleaned, left>>

\* Mutated form: an object that is scanned again by now keeps its results.
CleanUnlessScanned ==
  /\ Handling("clean")
  /\ Current.type = "deleted" /\ work.key \notin Owned
  /\ cleaned' = IF scanned[work.key] = 0 THEN [cleaned EXCEPT ![work.key] = Current.version]
                                         ELSE cleaned
  /\ work' = [work EXCEPT !.at = "report"]
  /\ HandlerStep
  /\ UNCHANGED <<vars, scanned, left>>

\* deleteScanArtifacts: the scan and its summary are deleted.
Clean == /\ Handling("clean")
         /\ Current.type = "deleted" /\ work.key \notin Owned
         /\ cleaned' = [cleaned EXCEPT ![work.key] = Current.version]
         /\ left' = left \ {work.key}
         /\ work' = [work EXCEPT !.at = "report"]
         /\ HandlerStep
         /\ UNCHANGED <<vars, scanned>>

\* Or one of the two calls fails, which is logged and not tried again: the summary, or
\* both, stay.
CleanFails == /\ Handling("clean")
              /\ Current.type = "deleted" /\ work.key \notin Owned
              /\ left' = left \cup {work.key}
              /\ work' = [work EXCEPT !.at = "report"]
              /\ HandlerStep
              /\ UNCHANGED <<vars, scanned, cleaned>>

\* The scan that reports the deletion, whether the results are deleted or not.
Report == /\ Handling("report")
          /\ Handled
          /\ work' = NoWork
          /\ HandlerStep
          /\ UNCHANGED <<scanned, cleaned, left>>

Worker == Receive \/ WorkerEnds \/ Trigger \/ NothingToClean \/ Clean \/ CleanFails \/ Report

-----------------------------------------------------------------------------
ServiceNext == \/ \E k \in Keys : Write(k) \/ Delete(k)
               \/ \E g \in GVRs : MakeWatch(g) \/ WatchEnds(g) \/ Forward(g)
               \/ Launch \/ Listen \/ Stop \/ ListenerEnds
               \/ QueueStep \/ Worker

serviceAll == <<vars, serviceVars>>

ServiceSpec == ServiceInit /\ [][ServiceNext]_serviceAll

\* Every goroutine goes on; the listener's select does not pass over the shutdown for ever.
ServiceFairness == /\ \A g \in GVRs : WF_serviceAll(MakeWatch(g)) /\ WF_serviceAll(Forward(g))
                   /\ WF_serviceAll(Launch) /\ WF_serviceAll(Listen)
                   /\ WF_serviceAll(ListenerEnds)
                   /\ WF_serviceAll(StopCloses /\ UNCHANGED serviceVars)
                   /\ \A k \in Keys : WF_serviceAll(Expire(k) /\ UNCHANGED serviceVars)
                   /\ WF_serviceAll((LockChan \/ SendOnClosed) /\ UNCHANGED serviceVars)
                   /\ WF_serviceAll(Worker)

FairServiceSpec == ServiceSpec /\ ServiceFairness

-----------------------------------------------------------------------------
(* Properties. *)

EventsOf(k) == [key : {k}, type : {"present", "deleted"}, version : 1 .. MaxVersion]

\* Type invariant of the service.
ServiceTypeOK ==
  /\ TypeOK
  /\ version \in [Keys -> 0 .. MaxVersion] /\ exists \subseteq Keys /\ missed \subseteq Keys
  /\ watch \in [GVRs -> {"none", "open", "ended"}] /\ ends \in 0 .. MaxEnds
  /\ \A g \in GVRs : stream[g] \in Seq(UNION {EventsOf(k) : k \in Keys})
  /\ channel \in Seq(UNION {EventsOf(k) : k \in Keys}) /\ Len(channel) <= ChanCap
  /\ launched \in BOOLEAN /\ shutdown \in BOOLEAN
  /\ \A k \in Keys : events[k] \in Seq(EventsOf(k)) /\ Len(events[k]) = put[k]
  /\ work.at \in {"none", "trigger", "clean", "report"} /\ work.key \in Keys \cup {NoKey}
  /\ scanned \in [Keys -> 0 .. MaxVersion] /\ cleaned \in [Keys -> 0 .. MaxVersion]
  /\ left \subseteq Keys

\* The service uses the cooldown queue as CooldownQueue says, which the theorems about
\* the queue are for.
UsesQueue == Spec

\* What the worker does never goes back, whatever watches made anew, the channel and the
\* queue's override do to the events: a scan is triggered for no state of an object that
\* is older than one scanned before, and none after the clean-up of its deletion.
NothingStale ==
  [][\A k \in Keys :
       /\ scanned'[k] # scanned[k] => scanned'[k] > scanned[k] /\ scanned'[k] > cleaned[k]
       /\ cleaned'[k] # cleaned[k] => cleaned'[k] > cleaned[k] /\ cleaned'[k] > scanned[k]
    ]_serviceAll

\* An object is scanned in its last version in the end, though watches end, events
\* override each other in the queue and the channel is full, unless the service stops.
LatestIsScanned ==
  \/ <>shutdown
  \/ <>[](\A k \in exists \ Owned : scanned[k] = version[k])

\* The results of a deleted object are deleted once its last scan was triggered, unless
\* its watch was down when it was deleted or the deletion of the results failed, which
\* nothing repairs: no older event makes the service trigger a scan after the clean-up.
\* When the scan stores its results is the business of the pool that runs it.
DeletedIsCleaned ==
  \/ <>shutdown
  \/ <>[](\A k \in Keys \ (exists \cup Owned \cup missed) :
            scanned[k] # 0 => \/ k \in left
                              \/ cleaned[k] = version[k] /\ scanned[k] < cleaned[k])

\* Stop returns and leaves no goroutine of the queue behind: the listener stops the queue
\* though its evictor is in the send, and the worker's loop ends though events wait, unless
\* one of them ends the program.
ShutdownCompletes == shutdown ~> ((consumer = "ended" /\ stopper = "returned") \/ panicked)
=============================================================================
