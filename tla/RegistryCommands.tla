--------------------------- MODULE RegistryCommands ---------------------------
(***************************************************************************)
(* Registries: the commands that watcher/registryhandler.go executes one   *)
(* after the other, and the scans of mainhandler/vulnscan.go that the jobs *)
(* it creates ask the worker pool for.                                     *)
(*                                                                         *)
(* A registry is kept in four resources of its name: a secret with its     *)
(* credentials, a config map with the scan command, a cron job and, for a  *)
(* first scan, a job.  There is one registry here: its commands are of     *)
(* interest, which come in any order (the cooldown queue keeps none        *)
(* between two OperatorCommands).  What a resource was generated from is   *)
(* the number of the command.  Each call of the API server may fail.       *)
(***************************************************************************)
EXTENDS Naturals, FiniteSets

CONSTANTS MaxCommands,  \* bound on the registry commands
          Images,       \* what a registry may hold
          Workers       \* workers of the pool that run registry scans

ASSUME BoundsAssumption == MaxCommands \in Nat /\ IsFiniteSet(Images)

Kinds == {"secret", "configMap", "cronJob", "job"}
Types == {"create", "update", "delete", "check"}
Goroutines == {"secret", "configMap", "jobs"}   \* of upsertRegistry's errgroup

VARIABLES
  resources,  \* per kind: the command it was last applied by, 0 when it is not there
  count,      \* commands received
  cmd,        \* the command being executed: what comes next, type, ScanFrequency set?
  group,      \* per goroutine of the errgroup: its state
  hadCron,    \* history: there was a cron job when the deletion began
  status,     \* per command: what was patched into its status
  scans       \* per worker: its scan

handlerVars == <<count, cmd, group, hadCron, status>>
vars == <<resources, handlerVars, scans>>

Idle == [at |-> "receive", type |-> "check", scheduled |-> FALSE]
NoScan == [at |-> "idle", wanted |-> {}, left |-> {}, sent |-> {}, report |-> "none"]

Init == /\ resources = [k \in Kinds |-> 0]
        /\ count = 0
        /\ cmd = Idle
        /\ group = [g \in Goroutines |-> "ended"]
        /\ hadCron = FALSE
        /\ status = [n \in 1 .. MaxCommands |-> "none"]
        /\ scans = [w \in Workers |-> NoScan]

-----------------------------------------------------------------------------
(* RegistryCommandsHandler.Start. *)

\* The status is patched with the error or as completed; a failed patch is only logged.
PatchCommandStatus(outcome) ==
  /\ status' \in {status, [status EXCEPT ![count] = outcome]}
  /\ cmd' = Idle

\* A command is received.  A body that is no registry ends it at once.
Receive(type, scheduled) ==
  /\ cmd = Idle
  /\ count < MaxCommands
  /\ count' = count + 1
  /\ cmd' = [at |-> CASE type \in {"create", "update"} -> "upsert"
                      [] type = "delete" -> "cronJob"
                      [] type = "check" -> "check",
             type |-> type, scheduled |-> scheduled]
  /\ group' = IF type = "create" THEN [group EXCEPT !["secret"] = "run", !["configMap"] = "run",
                                                    !["jobs"] = "job"]
              ELSE IF type = "update"
              THEN [group EXCEPT !["secret"] = "run", !["configMap"] = "run",
                                 !["jobs"] = IF scheduled THEN "cronJob" ELSE "ended"]
              ELSE group
  /\ hadCron' = (resources["cronJob"] # 0)
  /\ UNCHANGED <<resources, status, scans>>

ReceiveGarbled(type) == /\ cmd = Idle
                        /\ count < MaxCommands
                        /\ count' = count + 1
                        /\ status' \in {status, [status EXCEPT ![count + 1] = "error"]}
                        /\ UNCHANGED <<resources, cmd, group, hadCron, scans>>

-----------------------------------------------------------------------------
(* upsertRegistry: three goroutines at the same time. *)

\* A resource is generated from the command alone.
Generated == count

Apply(k) == resources' = [resources EXCEPT ![k] = Generated]

\* The secret or the config map is applied.
ApplyResource(g) == /\ group[g] = "run"
                    /\ Apply(g)
                    /\ group' = [group EXCEPT ![g] = "ended"]
                    /\ UNCHANGED <<count, cmd, hadCron, status, scans>>

\* Creating a registry applies a job.  One that is there is left as it is, when nothing
\* changes for it, and else it cannot be changed, which is an error (ApplyFails).
ApplyJob == /\ group["jobs"] = "job"
            /\ IF resources["job"] = 0 THEN Apply("job") ELSE UNCHANGED resources
            /\ group' = [group EXCEPT !["jobs"] = IF cmd.scheduled THEN "cronJob" ELSE "ended"]
            /\ UNCHANGED <<count, cmd, hadCron, status, scans>>

ApplyCronJob == /\ group["jobs"] = "cronJob"
                /\ Apply("cronJob")
                /\ group' = [group EXCEPT !["jobs"] = "ended"]
                /\ UNCHANGED <<count, cmd, hadCron, status, scans>>

\* Mutated form: a goroutine logs its error and returns nil.
ApplyFailsSilently(g) == /\ group[g] \notin {"ended", "failed"}
                         /\ group' = [group EXCEPT ![g] = "ended"]
                         /\ UNCHANGED <<resources, count, cmd, hadCron, status, scans>>

\* The template is missing or the call fails; the other goroutines go on.
ApplyFails(g) == /\ group[g] \notin {"ended", "failed"}
                 /\ group' = [group EXCEPT ![g] = "failed"]
                 /\ UNCHANGED <<resources, count, cmd, hadCron, status, scans>>

\* Mutated form: the handler goes on at the first error.
WaitForFirstError == /\ cmd.at = "upsert"
                     /\ \E g \in Goroutines : group[g] = "failed"
                     /\ PatchCommandStatus("error")
                     /\ UNCHANGED <<resources, count, group, hadCron, scans>>

\* errGroup.Wait: the first error, if there was any, once all three have returned.
Wait == /\ cmd.at = "upsert"
        /\ \A g \in Goroutines : group[g] \in {"ended", "failed"}
        /\ PatchCommandStatus(IF \E g \in Goroutines : group[g] = "failed" THEN "error"
                              ELSE "success")
        /\ group' = [g \in Goroutines |-> "ended"]
        /\ UNCHANGED <<resources, count, hadCron, scans>>

-----------------------------------------------------------------------------
(* deleteRegistry: cron job, secret, config map, each only after the one before. *)

Following(k) == CASE k = "cronJob" -> "secret"
                  [] k = "secret" -> "configMap"
                  [] k = "configMap" -> "deleted"

\* Mutated form: what is not there any more counts as deleted.
DeleteOrGone(k) == /\ cmd.at = k
                   /\ resources' = [resources EXCEPT ![k] = 0]
                   /\ cmd' = [cmd EXCEPT !.at = Following(k)]
                   /\ UNCHANGED <<count, group, hadCron, status, scans>>

Delete(k) == /\ cmd.at = k
             /\ resources[k] # 0
             /\ resources' = [resources EXCEPT ![k] = 0]
             /\ cmd' = [cmd EXCEPT !.at = Following(k)]
             /\ UNCHANGED <<count, group, hadCron, status, scans>>

\* The call fails, as it does for a resource that is not there: nothing more is deleted.
DeleteFails(k) == /\ cmd.at = k
                  /\ PatchCommandStatus("error")
                  /\ UNCHANGED <<resources, count, group, hadCron, scans>>

Deleted == /\ cmd.at = "deleted"
           /\ PatchCommandStatus("success")
           /\ UNCHANGED <<resources, count, group, hadCron, scans>>

-----------------------------------------------------------------------------
\* checkRegistry: the repositories are the payload, or an error.
CheckRegistry == /\ cmd.at = "check"
                 /\ \E outcome \in {"success", "error"} : PatchCommandStatus(outcome)
                 /\ UNCHANGED <<resources, count, group, hadCron, scans>>

-----------------------------------------------------------------------------
(* Scans: scanRegistriesV2AndUpdateStatus in a worker. *)

SetScan(w, scan) == /\ scans' = [scans EXCEPT ![w] = scan]
                    /\ UNCHANGED <<resources, handlerVars>>

\* A pod of the job or the cron job posts the command of the config map.  One that the
\* worker cannot read, or gets with registry scans disabled, ends without a report.
StartScan(w) == /\ scans[w].at = "idle"
                /\ resources["configMap"] # 0
                /\ resources["job"] # 0 \/ resources["cronJob"] # 0
                /\ SetScan(w, [NoScan EXCEPT !.at = "secret"])

\* SendRegistryStatus, and the worker is free.
Report(w, outcome) == SetScan(w, [scans[w] EXCEPT !.at = "idle", !.report = outcome])

\* The secret of the name in the command is read when the scan runs.
LoadSecret(w) == /\ scans[w].at = "secret"
                 /\ resources["secret"] # 0
                 /\ SetScan(w, [scans[w] EXCEPT !.at = "images"])

GetImages(w) == /\ scans[w].at = "images"
                /\ \E found \in (SUBSET Images) \ {{}} :
                     SetScan(w, [scans[w] EXCEPT !.at = "send", !.wanted = found,
                                                 !.left = found])

NoImages(w) == scans[w].at = "images" /\ Report(w, "Completed")

\* No secret, no client, no list of images or no authorization for one of them.
ScanFails(w) == scans[w].at \in {"secret", "images"} /\ Report(w, "Failed")

\* An image is accepted by the scanner or not; the next one is sent all the same.
SendImage(w, image) ==
  /\ scans[w].at = "send"
  /\ image \in scans[w].left
  /\ \E sent \in {scans[w].sent, scans[w].sent \cup {image}} :
       SetScan(w, [scans[w] EXCEPT !.left = @ \ {image}, !.sent = sent])

\* Mutated form: the error of the last image decides.
AllSentUnlessLastFails(w) ==
  /\ scans[w].at = "send"
  /\ scans[w].left = {}
  /\ Report(w, IF scans[w].sent = {} THEN "Failed" ELSE "InProgress")

\* The errors are collected; images that were accepted are scanned in either case.
AllSent(w) == /\ scans[w].at = "send"
              /\ scans[w].left = {}
              /\ Report(w, IF scans[w].sent = scans[w].wanted THEN "InProgress" ELSE "Failed")

\* A job that has run is removed by the cluster.
JobExpires == /\ resources["job"] # 0
              /\ resources' = [resources EXCEPT !["job"] = 0]
              /\ UNCHANGED <<handlerVars, scans>>

-----------------------------------------------------------------------------
HandlerStep == \/ \E type \in Types, scheduled \in BOOLEAN : Receive(type, scheduled)
               \/ \E type \in Types : ReceiveGarbled(type)
               \/ \E g \in {"secret", "configMap"} : ApplyResource(g)
               \/ \E g \in Goroutines : ApplyFails(g)
               \/ ApplyJob \/ ApplyCronJob \/ Wait
               \/ \E k \in {"cronJob", "secret", "configMap"} : Delete(k) \/ DeleteFails(k)
               \/ Deleted \/ CheckRegistry

ScanStep(w) == \/ StartScan(w) \/ LoadSecret(w) \/ GetImages(w) \/ NoImages(w) \/ ScanFails(w)
               \/ \E image \in Images : SendImage(w, image)
               \/ AllSent(w)

Next == HandlerStep \/ JobExpires \/ \E w \in Workers : ScanStep(w)

Spec == Init /\ [][Next]_vars

-----------------------------------------------------------------------------
(* Properties. *)

\* Type invariant.
TypeOK == /\ resources \in [Kinds -> 0 .. count]
          /\ count \in 0 .. MaxCommands
          /\ cmd.at \in {"receive", "upsert", "cronJob", "secret", "configMap", "deleted",
                         "check"}
          /\ group \in [Goroutines -> {"run", "job", "cronJob", "ended", "failed"}]
          /\ (cmd.at # "upsert") => \A g \in Goroutines : group[g] = "ended"
          /\ status \in [1 .. MaxCommands -> {"none", "success", "error"}]
          /\ \A w \in Workers : scans[w].sent \cup scans[w].left \subseteq scans[w].wanted

\* When a step patches success, no part that the command is to apply or to delete failed.
\* After a create or an update the secret and the config map are of this command, and so is
\* the cron job if there is a scan frequency; after a deletion these three are gone.  Nothing
\* is said of the rest, which the commands leave as it was: the cron job of an update without
\* a frequency, the job when there was one before, and the job of a registry that is deleted.
SuccessIsComplete ==
  [][\A n \in 1 .. MaxCommands :
       status[n] = "none" /\ status'[n] = "success" =>
         CASE cmd.type \in {"create", "update"} ->
                /\ resources["secret"] = n /\ resources["configMap"] = n
                /\ cmd.scheduled => resources["cronJob"] = n
           [] cmd.type = "delete" -> \A k \in Kinds \ {"job"} : resources[k] = 0
           [] cmd.type = "check" -> TRUE]_vars

\* The credentials of a registry that has no cron job, because its schedule is empty or
\* because an earlier deletion failed half way, are removed by no later deletion.
LeftoversAreStuck ==
  [][resources["secret"] # 0 /\ resources'["secret"] = 0 => hadCron]_vars

\* A scan is reported to be in progress only when every image was accepted, and it is
\* reported in the end to have completed only when there was none.
InProgressMeansAllSent ==
  \A w \in Workers : LET s == scans[w] IN
    /\ s.report = "InProgress" => s.wanted # {} /\ s.sent = s.wanted
    /\ s.report = "Completed" => s.sent = {}
=============================================================================
