----------------------------- MODULE CommandWatch -----------------------------
(***************************************************************************)
(* OperatorCommands from the API server to their handlers:                 *)
(* watcher/commandswatcher.go takes the events of WatchRetry's queue and   *)
(* delivers each new command to the channels of all registered receivers,  *)
(* watcher/commandshandler.go ("api") gives its commands to the worker     *)
(* pool, watcher/registryhandler.go ("registry") executes its own.  All    *)
(* three are goroutines mainhandler/handlerequests.go starts.              *)
(*                                                                         *)
(* A command counts as done when status.Completed is patched.  What a      *)
(* registry command does is in RegistryCommands, what a job does in        *)
(* CommandResponse, ScopedScan and CronJobs.                               *)
(***************************************************************************)
EXTENDS WatchRetry

CONSTANTS Kind,      \* per command: the receiver that handles its type
          ChanCap,   \* capacity of a receiver's channel (100)
          PoolSize   \* config.ConcurrencyWorkers()

Receivers == {"api", "registry"}

ASSUME KindAssumption == Kind \in [Objects -> Receivers]
ASSUME CapacityAssumption == ChanCap \in Nat \ {0} /\ PoolSize \in Nat \ {0}
ASSUME NothingAssumption == Nothing \notin Objects
ASSUME StatesAssumption == {"down", "idle"} \cap Objects = {}

VARIABLES
  old,         \* commands found to be created more than minOperatorCommandAge ago
  chan,        \* per receiver: its channel
  target,      \* the command AddHandler delivers, or Nothing
  to,          \* the receivers it has not delivered it to yet
  handler,     \* per receiver: "down", "idle" or the command it works on
  jobs,        \* per command: its jobs in the worker pool
  handled,     \* history: how often a command was received by its handler
  missed       \* history: commands that were dropped on the way, see Misses

deliveryVars == <<old, chan, target, to, handler, jobs, handled, missed>>
vars == <<watchVars, deliveryVars>>

\* commandReceivers: a handler registers when it starts.
registered == {r \in Receivers : handler[r] # "down"}

Init == /\ WatchInit
        /\ old = {}
        /\ chan = [r \in Receivers |-> <<>>]
        /\ target = Nothing
        /\ to = {}
        /\ handler = [r \in Receivers |-> "down"]
        /\ jobs = [c \in Objects |-> 0]
        /\ handled = [c \in Objects |-> 0]
        /\ missed = {}

-----------------------------------------------------------------------------
(* The cluster. *)

Create(c) == /\ c \notin Existing /\ Len(log) < MaxLog
             /\ Record(Event(c, "Added", FALSE))
             /\ UNCHANGED <<watch, version, ends, queue, evicted, deliveryVars>>

\* Anybody changes the command: a label, an annotation.
Touch(c) == /\ c \in Existing /\ Len(log) < MaxLog
            /\ Record(Event(c, "Modified", Done(c)))
            /\ UNCHANGED <<watch, version, ends, queue, evicted, deliveryVars>>

\* The status is patched with Completed set, or the patch fails and is only logged.
PatchStatus(c) == \/ Len(log) < MaxLog /\ Record(Event(c, "Modified", TRUE))
                  \/ UNCHANGED <<log, stream>>

-----------------------------------------------------------------------------
(* The watch, with the two ways in which it drops a command. *)

AddedIn(events, c) == \E e \in ToSet(events) : e.obj = c /\ e.type = "Added"

\* A Modified event overrides the Added one that waits: only Added is handled.
Overridden == {e.obj : e \in {Head(stream)}} \cap
              {c \in Objects : /\ queue[c] # Nothing /\ queue[c].type = "Added"
                               /\ Head(stream).type = "Modified"}

\* Objects sent at the start of a watch that ends before them, while the resource
\* version is already that of an object created later.
PassedOver == {c \in Objects : /\ version # 0
                               /\ AddedIn(stream, c)
                               /\ ~AddedIn(SubSeq(log, version + 1, Len(log)), c)}

Misses == IF watch # "open" THEN {}
          ELSE IF ends' # ends THEN (IF version' = 0 THEN {} ELSE PassedOver)
          ELSE IF stream # <<>> /\ version' = Head(stream).ver /\ Len(stream') < Len(stream)
               THEN Overridden ELSE {}

Watching == /\ WatchStep
            /\ missed' = missed \cup Misses
            /\ UNCHANGED <<old, chan, target, to, handler, jobs, handled>>

-----------------------------------------------------------------------------
(* CommandWatch and AddHandler. *)

\* Events that are not Added and commands that are completed by the event are skipped.
Skipped(e) == e.type # "Added" \/ e.done

\* A command may be found old from some moment on, and is then skipped as well; any
\* other is delivered to the receivers registered at the moment.
TakeEvent == /\ watch # "list"
             /\ target = Nothing
             /\ evicted # Nothing
             /\ evicted' = Nothing
             /\ \/ /\ Skipped(evicted)
                   /\ UNCHANGED <<old, target, to, missed>>
                \/ /\ ~Skipped(evicted)
                   /\ old' = old \cup {evicted.obj}
                   /\ UNCHANGED <<target, to, missed>>
                \/ /\ ~Skipped(evicted) /\ evicted.obj \notin old
                   /\ target' = IF registered = {} THEN Nothing ELSE evicted.obj
                   /\ to' = registered
                   /\ missed' = IF Kind[evicted.obj] \in registered THEN missed
                                ELSE missed \cup {evicted.obj}
                   /\ UNCHANGED old
             /\ UNCHANGED <<log, watch, stream, version, ends, queue, chan,
                            handler, jobs, handled>>

\* Mutated form: a channel has no capacity.
DeliverUnbounded(r) == /\ r \in to
                       /\ chan' = [chan EXCEPT ![r] = Append(@, target)]
                       /\ to' = to \ {r}
                       /\ target' = IF to = {r} THEN Nothing ELSE target
                       /\ UNCHANGED <<watchVars, old, handler, jobs, handled, missed>>

\* receiver <- *cmd blocks while the channel is full, and all other receivers with it.
Deliver(r) == /\ r \in to
              /\ Len(chan[r]) < ChanCap
              /\ chan' = [chan EXCEPT ![r] = Append(@, target)]
              /\ to' = to \ {r}
              /\ target' = IF to = {r} THEN Nothing ELSE target
              /\ UNCHANGED <<watchVars, old, handler, jobs, handled, missed>>

-----------------------------------------------------------------------------
(* The receivers. *)

\* The set is locked while its iterator still has receivers to hand out.
RegisterForCommands(r) == /\ handler[r] = "down"
                          /\ Cardinality(to) <= 1
                          /\ handler' = [handler EXCEPT ![r] = "idle"]
                          /\ UNCHANGED <<watchVars, old, chan, target, to, jobs, handled,
                                         missed>>

\* A command of another type is dropped.
Receive(r) == /\ handler[r] = "idle"
              /\ chan[r] # <<>>
              /\ chan' = [chan EXCEPT ![r] = Tail(@)]
              /\ LET c == Head(chan[r])
                 IN  IF Kind[c] = r
                       THEN /\ handler' = [handler EXCEPT ![r] = c]
                            /\ handled' = [handled EXCEPT ![c] = @ + 1]
                       ELSE UNCHANGED <<handler, handled>>
              /\ UNCHANGED <<watchVars, old, target, to, jobs, missed>>

Working(r, c) == handler[r] = c /\ handler' = [handler EXCEPT ![r] = "idle"]

\* The body is not an apis.Command: an error in the status.
RejectBody(c) == /\ Working("api", c)
                 /\ PatchStatus(c)
                 /\ UNCHANGED <<watch, version, ends, queue, evicted, old, chan,
                                target, to, jobs, handled, missed>>

\* pool.Invoke (external) blocks until a worker is free.
InvokeCommand(c) == /\ Working("api", c)
                    /\ FoldFunction(+, 0, jobs) < PoolSize
                    /\ jobs' = [jobs EXCEPT ![c] = @ + 1]
                    /\ UNCHANGED <<watchVars, old, chan, target, to, handled,
                                   missed>>

\* A registry command is executed and its status patched before the next is received.
ExecuteRegistryCommand(c) == /\ Working("registry", c)
                             /\ PatchStatus(c)
                             /\ UNCHANGED <<watch, version, ends, queue, evicted, old,
                                            chan, target, to, jobs, handled,
                                            missed>>

\* The worker patches the outcome and is free again.
JobEnds(c) == /\ jobs[c] > 0
              /\ jobs' = [jobs EXCEPT ![c] = @ - 1]
              /\ PatchStatus(c)
              /\ UNCHANGED <<watch, version, ends, queue, evicted, old, chan,
                             target, to, handler, handled, missed>>

HandlerStep(r) == \/ RegisterForCommands(r) \/ Receive(r) \/ Deliver(r)

CommandStep(c) == \/ RejectBody(c) \/ InvokeCommand(c) \/ ExecuteRegistryCommand(c)
                  \/ JobEnds(c)

Next == \/ \E c \in Objects : Create(c) \/ Touch(c) \/ CommandStep(c)
        \/ \E r \in Receivers : HandlerStep(r)
        \/ Watching
        \/ TakeEvent

\* Every goroutine that can run does.  A worker need not come free: its job may wait for
\* ever (the jam of CommandResponse).
Fairness == /\ WatchFairness
            /\ WF_vars(TakeEvent)
            /\ \A r \in Receivers : /\ WF_vars(RegisterForCommands(r))
                                    /\ WF_vars(Receive(r)) /\ WF_vars(Deliver(r))
            /\ \A c \in Objects : /\ WF_vars(RejectBody(c) \/ InvokeCommand(c))
                                  /\ WF_vars(ExecuteRegistryCommand(c))

Spec == Init /\ [][Next]_vars

FairSpec == Spec /\ Fairness

-----------------------------------------------------------------------------
(* Properties. *)

\* Type invariant.
TypeOK == /\ WatchTypeOK
          /\ old \subseteq Existing
          /\ chan \in [Receivers -> Seq(Objects)]
          /\ \A r \in Receivers : Len(chan[r]) <= ChanCap
          /\ target \in Objects \cup {Nothing} /\ to \subseteq registered
          /\ (target = Nothing) <=> (to = {})
          /\ handler \in [Receivers -> {"down", "idle"} \cup Objects]
          /\ jobs \in [Objects -> Nat] /\ handled \in [Objects -> Nat]
          /\ missed \subseteq Existing

\* Where a command can be before its handler has it.
OnItsWay(c) ==
  \/ watch = "list"
  \/ watch = "connect" /\ (version = 0 \/ AddedIn(SubSeq(log, version + 1, Len(log)), c))
  \/ AddedIn(stream, c)
  \/ \E e \in {queue[c], evicted} \ {Nothing} : e.obj = c /\ e.type = "Added"
  \/ target = c /\ Kind[c] \in to
  \/ c \in ToSet(chan[Kind[c]])

\* A command is lost in three ways only: a Modified event overrides its Added event in
\* the queue, the watch passes it over at its start, or its receiver was not registered
\* when it was delivered.  No failed list, no end of the watch and no skip loses another.
NotLost == \A c \in Existing : \/ handled[c] > 0 \/ c \in old \/ c \in missed
                               \/ OnItsWay(c)

\* A command reaches its handler at most once for the list and once for every watch that
\* was opened: queue, evictor and receivers never double one within a watch.
AtMostOncePerWatch == \A c \in Objects : handled[c] <= 2 + ends

PoolBusy == FoldFunction(+, 0, jobs) = PoolSize

\* Unless from some moment on the workers are all busy with jobs that never end, the two
\* receivers' channels and the pool do not stop the watcher for good: each command is
\* handled in the end, if it is not lost as in NotLost and does not grow old.
EveryCommandHandled ==
  \/ <>[]PoolBusy
  \/ \A c \in Objects : (c \in Existing) ~> (handled[c] > 0 \/ c \in missed \cup old)
=============================================================================
