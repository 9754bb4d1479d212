--------------------------- MODULE CommandResponse ---------------------------
(***************************************************************************)
(* The main handler's worker pool and the polling of Kubescape scans.      *)
(*                                                                         *)
(* A pool worker (mainhandler/handlerequests.go, handleRequest) runs a     *)
(* command: it POSTs the scan to Kubescape and, when the command comes     *)
(* from an OperatorCommand, queues the scan id for polling.  Ten           *)
(* goroutines take queued ids, wait for the id's timer and pass the id to  *)
(* the response channel; one dispatcher polls Kubescape for each id it     *)
(* receives and queues the id again while the scan is busy                 *)
(* (mainhandler/handlecommandresponse.go).  Both channels are bounded and  *)
(* every send on them blocks, the worker's and the dispatcher's alike.     *)
(*                                                                         *)
(* A goroutine of a symmetric group has no name here: the busy workers are *)
(* the commands in a running stage, the timer goroutines' ids are a set,   *)
(* and the size of a group bounds them.  A timer always expires, so an id  *)
(* in `waiting` is one whose send on the response channel is due or will   *)
(* be; how long it waits is left out.                                      *)
(***************************************************************************)
EXTENDS Naturals, Sequences, FiniteSets, SequencesExt

CONSTANTS
  Commands,   \* RunKubescape commands submitted to the pool, each once
  Tracked,    \* those created by an OperatorCommand (ParentCommandDetails # nil)
  Unpatched,  \* those of them whose patches of the status may fail
  PoolSize,   \* config.ConcurrencyWorkers()
  LimCap,     \* capacity of limitedGoRoutinesCommandResponseChannel (10)
  RespCap,    \* capacity of commandResponseChannel (100)
  Timers,     \* MaxLimitationInsertToCommandResponseChannelGoRoutine (10)
  NoCommand   \* the dispatcher holds nothing

ASSUME CommandsAssumption == /\ IsFiniteSet(Commands)
                             /\ Tracked \subseteq Commands /\ Unpatched \subseteq Tracked
                             /\ NoCommand \notin Commands
ASSUME SizesAssumption == /\ PoolSize \in Nat \ {0}
                          /\ LimCap \in Nat \ {0}
                          /\ RespCap \in Nat \ {0}
                          /\ Timers \in Nat \ {0}

VARIABLES
  job,        \* per command: where its pool job is
  scan,       \* per command: its scan at Kubescape
  status,     \* per command: the last outcome patched into its OperatorCommand
  lim,        \* limitedGoRoutinesCommandResponseChannel
  waiting,    \* ids held by the timer goroutines
  resp,       \* commandResponseChannel
  disp,       \* the dispatcher goroutine: what it does and for which id
  reported    \* history: ids whose polling ended (the callback returned false)

vars == <<job, scan, status, lim, waiting, resp, disp, reported>>

-----------------------------------------------------------------------------
(* The pool: handleRequest / kubescapeScan. *)

\* A command occupies a worker from Invoke until handleRequest returns.
RunningStages == {"post", "insert", "succeed", "fail"}
Running == {c \in Commands : job[c] \in RunningStages}

JobStages == {"pending", "done"} \cup RunningStages
ScanStates == {"none", "busy", "ended"}
Outcomes == {"none", "success", "error"}
DispStages == {"receive", "poll", "insert"}

\* A command without an OperatorCommand has no status; a patch that fails is only logged.
SetOperatorCommandStatus(c, outcome) ==
  \/ c \in Tracked /\ status' = [status EXCEPT ![c] = outcome]
  \/ c \notin Tracked \ Unpatched /\ UNCHANGED status

DispIdle == [at |-> "receive", cmd |-> NoCommand]

Init == /\ job = [c \in Commands |-> "pending"]
        /\ scan = [c \in Commands |-> "none"]
        /\ status = [c \in Commands |-> "none"]
        /\ lim = <<>>
        /\ waiting = {}
        /\ resp = <<>>
        /\ disp = DispIdle
        /\ reported = {}

\* AddCommandToChannel: pool.Invoke blocks its caller until a worker is free.
Invoke(c) == /\ job[c] = "pending"
             /\ Cardinality(Running) < PoolSize
             /\ job' = [job EXCEPT ![c] = "post"]
             /\ UNCHANGED <<scan, status, lim, waiting, resp, disp, reported>>

\* After the POST: only a command with ParentCommandDetails is queued for polling.
AfterPost(c) == IF c \in Tracked THEN "insert" ELSE "succeed"

\* The POST is accepted: the scan runs.  The success patch is left out of the code here.
PostAccepted(c) == /\ job[c] = "post"
                   /\ job' = [job EXCEPT ![c] = AfterPost(c)]
                   /\ scan' = [scan EXCEPT ![c] = "busy"]
                   /\ UNCHANGED <<status, lim, waiting, resp, disp, reported>>

\* Kubescape answers with an error response: it is patched into the status and
\* the function goes on as if the scan had been triggered.
PostAnswersError(c) == /\ job[c] = "post"
                       /\ SetOperatorCommandStatus(c, "error")
                       /\ job' = [job EXCEPT ![c] = AfterPost(c)]
                       /\ scan' = [scan EXCEPT ![c] = "ended"]
                       /\ UNCHANGED <<lim, waiting, resp, disp, reported>>

\* The POST or the parsing of its answer fails: kubescapeScan returns the error.
PostFails(c) == /\ job[c] = "post"
                /\ job' = [job EXCEPT ![c] = "fail"]
                /\ UNCHANGED <<scan, status, lim, waiting, resp, disp, reported>>

\* Mutated forms: the channel's capacity is ignored; the id is queued twice.
SendLimitedUnbounded(c) == lim' = Append(lim, c)
SendLimitedTwice(c) == /\ Len(lim) < LimCap
                       /\ lim' = lim \o <<c, c>>

\* The blocking send of insertNewCommandResponseData.
SendLimited(c) == /\ Len(lim) < LimCap
                  /\ lim' = Append(lim, c)

\* insertNewCommandResponseData in the worker.
WorkerInsert(c) == /\ job[c] = "insert"
                   /\ SendLimited(c)
                   /\ job' = [job EXCEPT ![c] = "succeed"]
                   /\ UNCHANGED <<scan, status, waiting, resp, disp, reported>>

\* handleRequest patches what kubescapeScan returned and the worker is free again.
FinishJob(c) == /\ job[c] \in {"succeed", "fail"}
                /\ SetOperatorCommandStatus(c, IF job[c] = "fail" THEN "error" ELSE "success")
                /\ job' = [job EXCEPT ![c] = "done"]
                /\ UNCHANGED <<scan, lim, waiting, resp, disp, reported>>

-----------------------------------------------------------------------------
(* The timer goroutines: handleLimitedGoroutineOfCommandsResponse. *)

\* Mutated form: one timer goroutine too few is started.
TimerTakesOneLess == /\ lim # <<>>
                     /\ Cardinality(waiting) < Timers - 1
                     /\ waiting' = waiting \cup {Head(lim)}
                     /\ lim' = Tail(lim)
                     /\ UNCHANGED <<job, scan, status, resp, disp, reported>>

TimerTakes == /\ lim # <<>>
              /\ Cardinality(waiting) < Timers
              /\ waiting' = waiting \cup {Head(lim)}
              /\ lim' = Tail(lim)
              /\ UNCHANGED <<job, scan, status, resp, disp, reported>>

\* Mutated forms: an id is dropped when the response channel is full; the
\* goroutine does not forget the id it has sent.
TimerForwardsOrDrops(c) == /\ c \in waiting
                           /\ resp' = IF Len(resp) < RespCap THEN Append(resp, c) ELSE resp
                           /\ waiting' = waiting \ {c}
                           /\ UNCHANGED <<job, scan, status, lim, disp, reported>>
TimerForwardsAgain(c) == /\ c \in waiting
                         /\ Len(resp) < RespCap
                         /\ resp' = Append(resp, c)
                         /\ UNCHANGED <<job, scan, status, lim, waiting, disp, reported>>

\* waitFroTimer: the timer has expired and the blocking send goes through.
TimerForwards(c) == /\ c \in waiting
                    /\ Len(resp) < RespCap
                    /\ resp' = Append(resp, c)
                    /\ waiting' = waiting \ {c}
                    /\ UNCHANGED <<job, scan, status, lim, disp, reported>>

-----------------------------------------------------------------------------
(* The dispatcher: HandleCommandResponse with HandleKubescapeResponse.     *)

Receive == /\ disp.at = "receive"
           /\ resp # <<>>
           /\ disp' = [at |-> "poll", cmd |-> Head(resp)]
           /\ resp' = Tail(resp)
           /\ UNCHANGED <<job, scan, status, lim, waiting, reported>>

\* The callback's answer is final: status patched, the id not queued again.
EndPolling(outcome) == /\ SetOperatorCommandStatus(disp.cmd, outcome)
                       /\ reported' = reported \cup {disp.cmd}
                       /\ disp' = DispIdle

\* The GET or the parsing of its answer fails.
PollFails == /\ disp.at = "poll"
             /\ EndPolling("error")
             /\ UNCHANGED <<job, scan, lim, waiting, resp>>

\* The scan is no longer busy, however it ended.
PollEnded == /\ disp.at = "poll"
             /\ scan[disp.cmd] = "ended"
             /\ EndPolling("success")
             /\ UNCHANGED <<job, scan, lim, waiting, resp>>

PollBusy == /\ disp.at = "poll"
            /\ scan[disp.cmd] = "busy"
            /\ disp' = [disp EXCEPT !.at = "insert"]
            /\ UNCHANGED <<job, scan, status, lim, waiting, resp, reported>>

\* The id is rehandled: the dispatcher itself blocks on the limited channel.
DispatcherInserts == /\ disp.at = "insert"
                     /\ SendLimited(disp.cmd)
                     /\ disp' = DispIdle
                     /\ UNCHANGED <<job, scan, status, waiting, resp, reported>>

-----------------------------------------------------------------------------
(* Kubescape itself: a running scan ends. *)

ScanEnds(c) == /\ scan[c] = "busy"
               /\ scan' = [scan EXCEPT ![c] = "ended"]
               /\ UNCHANGED <<job, status, lim, waiting, resp, disp, reported>>

-----------------------------------------------------------------------------
PoolStep(c) == \/ Invoke(c)
               \/ PostAccepted(c)
               \/ PostAnswersError(c)
               \/ PostFails(c)
               \/ WorkerInsert(c)
               \/ FinishJob(c)

TimerStep == \/ TimerTakes
             \/ \E c \in Commands : TimerForwards(c)

DispatcherStep == \/ Receive
                  \/ PollFails
                  \/ PollEnded
                  \/ PollBusy
                  \/ DispatcherInserts

Next == \/ \E c \in Commands : PoolStep(c) \/ ScanEnds(c)
        \/ TimerStep
        \/ DispatcherStep

\* The Go scheduler runs every goroutine that can run, a goroutine blocked on
\* a channel is served in its turn, and a Kubescape scan ends.
Fairness == /\ \A c \in Commands : WF_vars(PoolStep(c)) /\ WF_vars(ScanEnds(c))
            /\ WF_vars(TimerTakes)
            /\ \A c \in Commands : WF_vars(TimerForwards(c))
            /\ WF_vars(DispatcherStep)

Spec == Init /\ [][Next]_vars

FairSpec == Spec /\ Fairness

-----------------------------------------------------------------------------
(* Properties. *)

DispCommands == IF disp.at = "receive" THEN {} ELSE {disp.cmd}

\* The ids on their way between two polls.
InTransit == {c \in Commands : job[c] = "insert"} \cup ToSet(lim) \cup waiting
             \cup ToSet(resp) \cup DispCommands

\* Type invariant of the pool, the two channels and the dispatcher.
TypeOK == /\ job \in [Commands -> JobStages]
          /\ scan \in [Commands -> ScanStates]
          /\ status \in [Commands -> Outcomes]
          /\ lim \in Seq(Commands) /\ Len(lim) <= LimCap
          /\ waiting \subseteq Commands /\ Cardinality(waiting) <= Timers
          /\ resp \in Seq(Commands) /\ Len(resp) <= RespCap
          /\ disp \in [at : DispStages, cmd : Commands \cup {NoCommand}]
          /\ (disp.at = "receive") <=> (disp.cmd = NoCommand)
          /\ reported \subseteq Commands

\* An id is in one place at a time: no channel holds it twice and no two places
\* hold it, however worker, timers and dispatcher interleave.
InOnePlace ==
  /\ IsInjective(lim)
  /\ IsInjective(resp)
  /\ ToSet(lim) \cap ToSet(resp) = {}
  /\ waiting \cap (ToSet(lim) \cup ToSet(resp)) = {}
  /\ DispCommands \cap (ToSet(lim) \cup ToSet(resp) \cup waiting) = {}
  /\ \A c \in Commands : job[c] = "insert" =>
        c \notin ToSet(lim) \cup waiting \cup ToSet(resp) \cup DispCommands

\* The channels, the timer goroutines and the dispatcher wait on each other:
\* the dispatcher for room in lim, the timers for room in resp.
Jammed == /\ disp.at = "insert" /\ Len(lim) = LimCap
          /\ Cardinality(waiting) = Timers /\ Len(resp) = RespCap

\* That can happen only when more scans are polled at once than both channels
\* and the timer goroutines hold (120 in the code): below, no send waits forever.
JammedOnlyWhenOverloaded ==
  Jammed => Cardinality(InTransit) > LimCap + Timers + RespCap

\* A polled scan is polled to its end: no worker, timer or dispatcher step
\* drops an id, duplicates it or polls it again after its end was reported, and
\* only a jam, for which it takes an overload, keeps an end from being reported.
Tracking == INSTANCE ScanTracking WITH Scans <- Tracked, Room <- LimCap + Timers + RespCap,
                                       outstanding <- InTransit, jammed <- Jammed
TracksScans == Tracking!Spec

\* Every command given to the pool leaves its worker, as commandshandler.go:81 counts on
\* ("status will be updated in the job"), unless the channels jam: the pool is empty again
\* and again (a command is submitted once).
JobsFinish == []<>(Running = {} \/ Jammed)

\* A command from an OperatorCommand that a worker took has its status updated, if the
\* patch does not fail.
StatusUpdated == \A c \in Tracked \ Unpatched : (job[c] = "post") ~> (status[c] # "none")
=============================================================================
