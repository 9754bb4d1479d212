---------------------------- MODULE RequestHandler ----------------------------
(***************************************************************************)
(* The worker pool of the main handler (mainhandler/handlerequests.go,     *)
(* handleRequest and runCommand) with the commands it runs besides those   *)
(* of CommandResponse: scoped scans and the commands on cron jobs.  The    *)
(* pool limits how many run at once; each command's outcome is patched     *)
(* into the status of the OperatorCommand it comes from, if the patch does *)
(* not fail.                                                               *)
(***************************************************************************)
EXTENDS CronJobs, ScopedScan

CONSTANTS PoolSize,   \* config.ConcurrencyWorkers()
          NoId        \* scoped requests without an id: designators only

Requests == CronRequests \cup ScanRequests

ASSUME HandlerAssumption == /\ PoolSize \in Nat \ {0}
                            /\ CronRequests \cap ScanRequests = {}
                            /\ NoId \subseteq ScanRequests

VARIABLES
  job,     \* per request: "pending", "running" or "done"
  status   \* per request: the outcome patched into its OperatorCommand, "none", or "lost"
           \* when the patch failed

vars == <<cronVars, scanVars, job, status>>

Init == /\ CronInit /\ ScanInit
        /\ job = [q \in Requests |-> "pending"]
        /\ status = [q \in Requests |-> "none"]

Running == {q \in Requests : job[q] = "running"}

\* Mutated form: the pool is not limited.
InvokeAtOnce(q) == /\ job[q] = "pending"
                   /\ job' = [job EXCEPT ![q] = "running"]
                   /\ UNCHANGED <<cronVars, scanVars, status>>

\* pool.Invoke, by the operator commands handler, the REST API or the actions at the
\* start, blocks until a worker is free.
Invoke(q) == /\ job[q] = "pending"
             /\ Cardinality(Running) < PoolSize
             /\ job' = [job EXCEPT ![q] = "running"]
             /\ UNCHANGED <<cronVars, scanVars, status>>

\* A scoped request with an empty id is only logged.
RejectEmptyId(q) == /\ job[q] = "running"
                    /\ q \in NoId
                    /\ job' = [job EXCEPT ![q] = "done"]
                    /\ UNCHANGED <<cronVars, scanVars, status>>

RunScan(q) == /\ job[q] = "running"
              /\ q \in ScanRequests \ NoId
              /\ ScanStep(q)
              /\ UNCHANGED <<cronVars, job, status>>

RunCron(q) == /\ job[q] = "running"
              /\ q \in CronRequests
              /\ CronStep(q)
              /\ UNCHANGED <<scanVars, job, status>>

Outcome(q) == IF q \in ScanRequests THEN scan[q].at ELSE cron[q].at

\* SetOperatorCommandStatus, and the worker is free.
FinishRequest(q) == /\ job[q] = "running"
                    /\ Outcome(q) \in {"success", "error"}
                    /\ status' = [status EXCEPT ![q] = Outcome(q)]
                    /\ job' = [job EXCEPT ![q] = "done"]
                    /\ UNCHANGED <<cronVars, scanVars>>

\* The patch fails, which is only logged: the worker is free all the same.
PatchFails(q) == /\ job[q] = "running"
                 /\ Outcome(q) \in {"success", "error"}
                 /\ status' = [status EXCEPT ![q] = "lost"]
                 /\ job' = [job EXCEPT ![q] = "done"]
                 /\ UNCHANGED <<cronVars, scanVars>>

Cluster == ClusterChanges /\ UNCHANGED <<cronVars, job, status>>

Worker(q) == \/ Invoke(q) \/ RejectEmptyId(q) \/ RunScan(q) \/ RunCron(q)
             \/ FinishRequest(q) \/ PatchFails(q)

Next == Cluster \/ \E q \in Requests : Worker(q)

Spec == Init /\ [][Next]_vars

\* A worker goes on with its request, and a free one takes the next.
FairSpec == Spec /\ \A q \in Requests : WF_vars(Worker(q))

-----------------------------------------------------------------------------
(* Properties. *)

\* Type invariant of the cron jobs, the scoped scans and the pool.
TypeOK == /\ CronTypeOK /\ ScanTypeOK
          /\ job \in [Requests -> {"pending", "running", "done"}]
          /\ Cardinality(Running) <= PoolSize
          /\ status \in [Requests -> {"none", "success", "error", "lost"}]

\* Every request given to the pool leaves its worker to the next in the end, a scanner that
\* refuses connections and lists that fail included, and its outcome is patched, or the
\* patch was tried and failed; only one without an id ends without any outcome.
RequestsEnd ==
  \A q \in Requests :
    (job[q] = "running") ~> (job[q] = "done" /\ (status[q] = "none" => q \in NoId))
=============================================================================
