------------------------------ MODULE SBOMWatch ------------------------------
(***************************************************************************)
(* watcher/sbomwatcher.go: the event loop of SBOMWatch and the goroutine   *)
(* HandleSBOMEvents it feeds.  All their channels are unbuffered, so a     *)
(* send and the receive it meets are one step.                             *)
(*                                                                         *)
(* Events are numbered in the order the loop reads them.  The handler's    *)
(* tests on an event are abstracted to its class: "scan" (a valid SBOM,    *)
(* added or modified), "bad" (no SBOM, or without image id or tag: sent on *)
(* errorCh), "skip" (deleted, a bookmark, or not to be scanned yet).       *)
(* A token is a goroutine that waits to send on sbomWatcherUnavailable.    *)
(***************************************************************************)
EXTENDS Naturals, Sequences, FiniteSets, SequencesExt

CONSTANTS MaxEvents,  \* bound on the events the watches deliver
          MaxTokens   \* bound on the goroutines notifyWatcherDown has waiting

ASSUME BoundsAssumption == MaxEvents \in Nat /\ MaxTokens \in Nat \ {0}

Classes == {"scan", "bad", "skip"}

VARIABLES
  events,     \* sbomEvents: "silent" before the first watch, then "open" or "closed"
  tokens,     \* goroutines blocked in watcherDownCh <- struct{}{}
  loop,       \* the event loop: what it does, for which event
  handler,    \* HandleSBOMEvents: what it waits for, for which event
  read,       \* number of events read so far
  wanted,     \* history: the events that ask for a scan
  submitted   \* history: the events whose command was given to the worker pool

vars == <<events, tokens, loop, handler, read, wanted, submitted>>

Selecting == [at |-> "select", ev |-> 0]
Reading == [at |-> "read", ev |-> 0]

Init == /\ events = "silent"
        /\ tokens = 1
        /\ loop = Selecting
        /\ handler = Reading
        /\ read = 0
        /\ wanted = {}
        /\ submitted = <<>>

-----------------------------------------------------------------------------
(* The cases of the loop's select. *)

\* notifyWatcherDown: a goroutine with a token is started, then the loop sleeps.
NotifyWatcherDown == /\ tokens < MaxTokens
                     /\ tokens' = tokens + 1
                     /\ loop' = [at |-> "sleep", ev |-> 0]

\* An event is read; the loop blocks on inputEvents with it.
ReadEvent(class) == /\ loop = Selecting
                    /\ events = "open"
                    /\ read < MaxEvents
                    /\ read' = read + 1
                    /\ loop' = [at |-> class, ev |-> read + 1]
                    /\ wanted' = IF class = "scan" THEN wanted \cup {read + 1} ELSE wanted
                    /\ UNCHANGED <<events, tokens, handler, submitted>>

\* Mutated form: the closed channel is read and the loop only sleeps.
ReadClosedSilently == /\ loop = Selecting
                      /\ events = "closed"
                      /\ loop' = [at |-> "sleep", ev |-> 0]
                      /\ UNCHANGED <<events, tokens, handler, read, wanted, submitted>>

\* The channel of a watch that ended is read again and again: a token each time.
ReadClosed == /\ loop = Selecting
              /\ events = "closed"
              /\ NotifyWatcherDown
              /\ UNCHANGED <<events, handler, read, wanted, submitted>>

\* A command is received from the handler; the loop blocks in AddCommandToChannel.
ReceiveCommand == /\ loop = Selecting
                  /\ handler.at = "command"
                  /\ loop' = [at |-> "submit", ev |-> handler.ev]
                  /\ handler' = Reading
                  /\ UNCHANGED <<events, tokens, read, wanted, submitted>>

\* An error is received from the handler and logged.
ReceiveError == /\ loop = Selecting
                /\ handler.at = "error"
                /\ handler' = Reading
                /\ UNCHANGED <<events, tokens, loop, read, wanted, submitted>>

\* A token is received: the current watch, healthy or not, is stopped.
ReceiveToken == /\ loop = Selecting
                /\ tokens > 0
                /\ tokens' = tokens - 1
                /\ loop' = [at |-> "connect", ev |-> 0]
                /\ events' = IF events = "open" THEN "closed" ELSE events
                /\ UNCHANGED <<handler, read, wanted, submitted>>

-----------------------------------------------------------------------------
(* What the loop does before it selects again. *)

\* getSBOMWatcher succeeds: the loop reads from the new watch.
ConnectSucceeds == /\ loop.at = "connect"
                   /\ events' = "open"
                   /\ loop' = Selecting
                   /\ UNCHANGED <<tokens, handler, read, wanted, submitted>>

\* Mutated forms: a failed getSBOMWatcher is not followed by a new token; the
\* loop reads from the channel of the watch it did not get.
ConnectFailsSilently == /\ loop.at = "connect"
                        /\ loop' = [at |-> "sleep", ev |-> 0]
                        /\ UNCHANGED <<events, tokens, handler, read, wanted, submitted>>

ConnectFailsUnchecked == /\ loop.at = "connect"
                         /\ NotifyWatcherDown
                         /\ events' = "nil"
                         /\ UNCHANGED <<handler, read, wanted, submitted>>

\* getSBOMWatcher fails: the loop goes on with the old channel.
ConnectFails == /\ loop.at = "connect"
                /\ NotifyWatcherDown
                /\ UNCHANGED <<events, handler, read, wanted, submitted>>

WakeUp == /\ loop.at = "sleep"
          /\ loop' = Selecting
          /\ UNCHANGED <<events, tokens, handler, read, wanted, submitted>>

\* What the handler does with an event, up to its next channel operation.
Handling(class, ev) == CASE class = "scan" -> [at |-> "command", ev |-> ev]
                         [] class = "bad"  -> [at |-> "error", ev |-> ev]
                         [] class = "skip" -> Reading

\* Mutated form: the loop gives an event up when the handler is not ready.
FeedOrDrop == /\ loop.at \in Classes
              /\ handler' = IF handler = Reading THEN Handling(loop.at, loop.ev) ELSE handler
              /\ loop' = Selecting
              /\ UNCHANGED <<events, tokens, read, wanted, submitted>>

\* inputEvents <- sbomEvent meets the handler's range.
Feed == /\ loop.at \in Classes
        /\ handler = Reading
        /\ handler' = Handling(loop.at, loop.ev)
        /\ loop' = Selecting
        /\ UNCHANGED <<events, tokens, read, wanted, submitted>>

\* pool.Invoke (external) blocks until a worker takes the command.
Submit == /\ loop.at = "submit"
          /\ submitted' = Append(submitted, loop.ev)
          /\ loop' = Selecting
          /\ UNCHANGED <<events, tokens, handler, read, wanted>>

-----------------------------------------------------------------------------
\* The API server ends a watch.
WatchEnds == /\ events = "open"
             /\ events' = "closed"
             /\ UNCHANGED <<tokens, loop, handler, read, wanted, submitted>>

Next == \/ \E class \in Classes : ReadEvent(class)
        \/ ReadClosed \/ ReceiveCommand \/ ReceiveError \/ ReceiveToken
        \/ ConnectSucceeds \/ ConnectFails
        \/ WakeUp \/ Feed \/ Submit
        \/ WatchEnds

\* The loop and the handler run on; select picks at random among the ready cases, so
\* none is passed over for ever; a connection that is tried for ever succeeds; a
\* worker becomes free for Submit.
Fairness == /\ WF_vars(WakeUp) /\ WF_vars(Feed) /\ WF_vars(Submit)
            /\ WF_vars(ReadClosed)
            /\ SF_vars(ReceiveCommand) /\ SF_vars(ReceiveError) /\ SF_vars(ReceiveToken)
            /\ SF_vars(ConnectSucceeds) /\ WF_vars(ConnectSucceeds \/ ConnectFails)

Spec == Init /\ [][Next]_vars

FairSpec == Spec /\ Fairness

-----------------------------------------------------------------------------
(* Properties. *)

\* Type invariant.
TypeOK == /\ events \in {"silent", "open", "closed"}
          /\ tokens \in 0 .. MaxTokens
          /\ loop \in [at : Classes \cup {"select", "sleep", "connect", "submit"},
                       ev : 0 .. MaxEvents]
          /\ handler \in [at : {"read", "command", "error"}, ev : 0 .. MaxEvents]
          /\ read \in 0 .. MaxEvents
          /\ wanted \subseteq 1 .. MaxEvents
          /\ submitted \in Seq(1 .. MaxEvents)

\* The scans on their way between the two goroutines, oldest first.
Submitting == IF loop.at = "submit" THEN <<loop.ev>> ELSE <<>>
Handled == IF handler.at = "command" THEN <<handler.ev>> ELSE <<>>
Feeding == IF loop.at = "scan" THEN <<loop.ev>> ELSE <<>>
Pipeline == submitted \o Submitting \o Handled \o Feeding

\* Every event that asks for a scan is submitted or on its way, once, and the scans
\* are submitted in the order of the events: no case of the select loses or
\* overtakes one while watches end and are replaced.
ScansInOrder == /\ ToSet(Pipeline) = wanted
                /\ \A i, j \in DOMAIN Pipeline : i < j => Pipeline[i] < Pipeline[j]

\* Without a live watch there is always something that makes the loop connect again:
\* a token, a closed channel to read, or the connection being tried.
WatchIsReplaced ==
  events = "silent" => tokens > 0 \/ loop.at = "connect"

\* The loop waits for the handler to read and the handler for the loop to receive.
Deadlocked == loop.at \in Classes /\ handler.at \in {"command", "error"}

\* A watch that ended is replaced, unless loop and handler wait for each other.
WatchRestored == (events # "open") ~> (events = "open" \/ Deadlocked)

\* "SBOMWatch watches and processes changes on SBOMs" (sbomwatcher.go:21): the scan an
\* event asks for is submitted.
ChangesProcessed ==
  \A n \in 1 .. MaxEvents : (n \in wanted) ~> (n \in ToSet(submitted))
=============================================================================
