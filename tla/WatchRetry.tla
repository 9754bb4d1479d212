------------------------------ MODULE WatchRetry ------------------------------
(***************************************************************************)
(* The watch loop of watcher/watchretry.go (pods) and of                   *)
(* watcher/commandswatcher.go (OperatorCommands): it reads a watch of the  *)
(* API server into a cooldown queue and opens it again, from the resource  *)
(* version of the last event it read, when it ends.  Without a resource    *)
(* version the API server first sends every object there is as Added.      *)
(*                                                                         *)
(* The resource version of an event is its place in the log of the API     *)
(* server.  The queue is the one CooldownQueue is shown to be: a mailbox   *)
(* with one place per object, which its evictor goroutine empties.  The    *)
(* backoff between two attempts takes time only, and is left out.          *)
(***************************************************************************)
EXTENDS Naturals, Sequences, FiniteSets, SequencesExt

CONSTANTS Objects,
          Nothing,   \* no event
          MaxLog,    \* bound on the events of the API server
          MaxEnds    \* bound on the times the watch ends

ASSUME ObjectsAssumption == IsFiniteSet(Objects)
ASSUME LogAssumption == MaxLog \in Nat /\ MaxEnds \in Nat

VARIABLES
  log,       \* the API server's events, oldest first
  watch,     \* "list" before the objects are listed, then "connect" or "open"
  stream,    \* what the open watch delivers next
  version,   \* watchOpts.ResourceVersion, 0 for the empty one
  ends,      \* how often the watch ended
  queue,     \* the cooldown queue: per object the event that waits
  evicted    \* the event its evictor took out and sends on ResultChan

watchVars == <<log, watch, stream, version, ends, queue, evicted>>

\* An event of the API server: with the object's status as it was then.
Event(o, type, done) == [obj |-> o, type |-> type, done |-> done, ver |-> Len(log) + 1]
Events == [obj : Objects, type : {"Added", "Modified"}, done : BOOLEAN, ver : 1 .. MaxLog]

ASSUME NothingIsNoEvent == Nothing \notin Events

\* The objects there are, and each one's latest event.
Existing == {e.obj : e \in ToSet(log)}
Latest(o) == log[CHOOSE i \in DOMAIN log :
                    log[i].obj = o /\ \A j \in DOMAIN log : log[j].obj = o => j <= i]
Done(o) == o \in Existing /\ Latest(o).done
AsAdded(o) == [Latest(o) EXCEPT !.type = "Added"]

WatchInit == /\ log = <<>>
             /\ watch = "list"
             /\ stream = <<>>
             /\ version = 0
             /\ ends = 0
             /\ queue = [o \in Objects |-> Nothing]
             /\ evicted = Nothing

\* The API server records a change and an open watch is sent it.
Record(e) == /\ log' = Append(log, e)
             /\ stream' = IF watch = "open" THEN Append(stream, e) ELSE stream

\* The list ends with every object in the queue, or with those before its error.
\* Nobody reads the queue yet.
List == /\ watch = "list"
        /\ watch' = "connect"
        /\ \E listed \in SUBSET Existing :
             queue' = [o \in Objects |-> IF o \in listed THEN AsAdded(o) ELSE Nothing]
        /\ UNCHANGED <<log, stream, version, ends, evicted>>

\* Mutated form: the first watch starts with what happens from now on.
ConnectFromNow == /\ watch = "connect"
                  /\ watch' = "open"
                  /\ stream' = IF version = 0 THEN <<>>
                               ELSE SubSeq(log, version + 1, Len(log))
                  /\ UNCHANGED <<log, version, ends, queue, evicted>>

\* Watch succeeds.  The objects there are come in the order of their names.
Connect == /\ watch = "connect"
           /\ watch' = "open"
           /\ IF version = 0
                THEN \E objects \in SetToSeqs(Existing) :
                       stream' = [i \in DOMAIN objects |-> AsAdded(objects[i])]
                ELSE stream' = SubSeq(log, version + 1, Len(log))
           /\ UNCHANGED <<log, version, ends, queue, evicted>>

\* An event is read and enqueued; it overrides the one of its object that waits.
ReadEvent == /\ watch = "open"
             /\ stream # <<>>
             /\ LET e == Head(stream)
                IN  /\ version' = e.ver
                    /\ queue' = [queue EXCEPT ![e.obj] = e]
             /\ stream' = Tail(stream)
             /\ UNCHANGED <<log, watch, ends, evicted>>

\* The watch ends: its channel is closed, or an error event comes, whose object
\* carries no resource version.
End == /\ watch = "open"
       /\ ends < MaxEnds
       /\ ends' = ends + 1
       /\ watch' = "connect"
       /\ stream' = <<>>
       /\ UNCHANGED <<log, queue, evicted>>

WatchClosed == End /\ UNCHANGED version
WatchError == End /\ version' = 0

\* Mutated form: an event that was sent may be sent again.
EvictAgain(o) == /\ evicted = Nothing
                 /\ queue[o] # Nothing
                 /\ evicted' = queue[o]
                 /\ UNCHANGED <<log, watch, stream, version, ends, queue>>

\* The queue's evictor takes an expired event out.
Evict(o) == /\ evicted = Nothing
            /\ queue[o] # Nothing
            /\ evicted' = queue[o]
            /\ queue' = [queue EXCEPT ![o] = Nothing]
            /\ UNCHANGED <<log, watch, stream, version, ends>>

WatchStep == List \/ Connect \/ ReadEvent \/ WatchClosed \/ WatchError
             \/ \E o \in Objects : Evict(o)

\* The API server takes connections; the loop and the evictor run on.
WatchFairness == /\ WF_watchVars(List) /\ WF_watchVars(Connect) /\ WF_watchVars(ReadEvent)
                 /\ \A o \in Objects : SF_watchVars(Evict(o))

WatchTypeOK == /\ log \in Seq(Events) /\ Len(log) <= MaxLog
               /\ watch \in {"list", "connect", "open"}
               /\ stream \in Seq(Events)
               /\ version \in 0 .. Len(log)
               /\ ends \in 0 .. MaxEnds
               /\ queue \in [Objects -> Events \cup {Nothing}]
               /\ evicted \in Events \cup {Nothing}
=============================================================================
