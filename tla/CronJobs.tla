------------------------------- MODULE CronJobs -------------------------------
(***************************************************************************)
(* The commands on cron jobs that the workers of the main handler run      *)
(* (mainhandler/kubescapehandler.go, vulnscanhandler.go,                   *)
(* cronjobhandler.go).  A cron job and the config map of its name, which   *)
(* holds what the job posts, are created and deleted by separate calls;    *)
(* each call, and each check of a command's arguments, may end the command *)
(* with an error, and what was done until then stays.                      *)
(*                                                                         *)
(* The name of a new cron job ends in a random number, which a long target *)
(* name cuts off (fixK8sNameLimit): a name may be there already.           *)
(***************************************************************************)
EXTENDS Naturals, Sequences

CONSTANTS CronRequests,
          Op,       \* per request: "set", "update" or "delete"
          Targets,  \* per request to set: how many cron jobs it asks for
          Names,
          NoName

ASSUME CronAssumption == /\ Op \in [CronRequests -> {"set", "update", "delete"}]
                         /\ Targets \in [CronRequests -> Nat \ {0}]
                         /\ NoName \notin Names

VARIABLES
  cronJob,    \* per name: its version, None when there is none
  configMap,  \* the names there is a config map of
  cron,       \* per request: where it is, for which name; targets left, version read
  broken      \* history: names for which a command ended in an error

cronVars == <<cronJob, configMap, cron, broken>>

\* A resource version: which request wrote it, and for its how manieth target from last.
Versions == CronRequests \X Nat
None == <<>>

Stages == {"pending", "configMap", "template", "create", "get", "update", "deleteCronJob",
           "deleteConfigMap", "success", "error"}

CronInit == /\ cronJob = [n \in Names |-> None]
            /\ configMap = {}
            /\ cron = [q \in CronRequests |->
                         [at |-> "pending", name |-> NoName, left |-> Targets[q], ver |-> None]]
            /\ broken = {}

Go(q, stage) == cron' = [cron EXCEPT ![q].at = stage]

\* The request names the cron job to change; a new one gets a name of its own.
StartCron(q) == /\ cron[q].at = "pending"
                /\ \E n \in Names :
                     cron' = [cron EXCEPT ![q] = [cron[q] EXCEPT
                       !.name = n, !.at = CASE Op[q] = "set" -> "configMap"
                                            [] Op[q] = "update" -> "get"
                                            [] Op[q] = "delete" -> "deleteCronJob"]]
                /\ UNCHANGED <<cronJob, configMap, broken>>

\* The scheduler is disabled, an argument is missing or invalid, or a call fails.
CronFails(q) == /\ cron[q].at \notin {"pending", "success", "error"}
                /\ Go(q, "error")
                /\ broken' = broken \cup {cron[q].name}
                /\ UNCHANGED <<cronJob, configMap>>

-----------------------------------------------------------------------------
(* setKubescapeCronJob, setVulnScanCronJob: the config map first. *)

CreateConfigMap(q) == /\ cron[q].at = "configMap"
                      /\ cron[q].name \notin configMap
                      /\ configMap' = configMap \cup {cron[q].name}
                      /\ Go(q, "template")
                      /\ UNCHANGED <<cronJob, broken>>

GetTemplate(q) == /\ cron[q].at = "template"
                  /\ Go(q, "create")
                  /\ UNCHANGED <<cronJob, configMap, broken>>

\* A new cron job: the template with the request, schedule and target put in.
NewCronJob(q) == <<q, cron[q].left>>

\* The cron job is created and, if there is one, the next target's name is made.
CreateCronJob(q) ==
  /\ cron[q].at = "create"
  /\ cronJob[cron[q].name] = None
  /\ cronJob' = [cronJob EXCEPT ![cron[q].name] = NewCronJob(q)]
  /\ IF cron[q].left = 1
       THEN Go(q, "success")
       ELSE \E n \in Names :
              cron' = [cron EXCEPT ![q] = [cron[q] EXCEPT !.at = "configMap", !.name = n,
                                                          !.left = cron[q].left - 1]]
  /\ UNCHANGED <<configMap, broken>>

-----------------------------------------------------------------------------
(* updateKubescapeCronJob, updateVulnScanCronJob: read, change, write. *)

GetCronJob(q) == /\ cron[q].at = "get"
                 /\ cronJob[cron[q].name] # None
                 /\ cron' = [cron EXCEPT ![q] = [cron[q] EXCEPT
                               !.at = "update", !.ver = cronJob[cron[q].name]]]
                 /\ UNCHANGED <<cronJob, configMap, broken>>

\* Mutated form: the update creates what is not there.
UpsertCronJob(q) == /\ cron[q].at = "update"
                    /\ cronJob' = [cronJob EXCEPT ![cron[q].name] = <<q, 0>>]
                    /\ Go(q, "success")
                    /\ UNCHANGED <<configMap, broken>>

\* The API server refuses an object that is not the one it has any more.
UpdateCronJob(q) == /\ cron[q].at = "update"
                    /\ cronJob[cron[q].name] = cron[q].ver
                    /\ cronJob' = [cronJob EXCEPT ![cron[q].name] = <<q, 0>>]
                    /\ Go(q, "success")
                    /\ UNCHANGED <<configMap, broken>>

-----------------------------------------------------------------------------
(* deleteKubescapeCronJob, deleteCronjob: the cron job first. *)

\* Mutated form: the config map is left behind.
DeleteOnlyCronJob(q) == /\ cron[q].at = "deleteCronJob"
                        /\ cronJob[cron[q].name] # None
                        /\ cronJob' = [cronJob EXCEPT ![cron[q].name] = None]
                        /\ Go(q, "success")
                        /\ UNCHANGED <<configMap, broken>>

DeleteCronJob(q) == /\ cron[q].at = "deleteCronJob"
                    /\ cronJob[cron[q].name] # None
                    /\ cronJob' = [cronJob EXCEPT ![cron[q].name] = None]
                    /\ Go(q, "deleteConfigMap")
                    /\ UNCHANGED <<configMap, broken>>

DeleteConfigMap(q) == /\ cron[q].at = "deleteConfigMap"
                      /\ cron[q].name \in configMap
                      /\ configMap' = configMap \ {cron[q].name}
                      /\ Go(q, "success")
                      /\ UNCHANGED <<cronJob, broken>>

CronStep(q) == \/ StartCron(q) \/ CronFails(q)
               \/ CreateConfigMap(q) \/ GetTemplate(q) \/ CreateCronJob(q)
               \/ GetCronJob(q) \/ UpdateCronJob(q)
               \/ DeleteCronJob(q) \/ DeleteConfigMap(q)

-----------------------------------------------------------------------------
(* Properties. *)

CronTypeOK == /\ cronJob \in [Names -> Versions \cup {None}]
              /\ configMap \subseteq Names
              /\ cron \in [CronRequests -> [at : Stages, name : Names \cup {NoName},
                                            left : Nat, ver : Versions \cup {None}]]
              /\ broken \subseteq Names

\* A cron job always has the config map that its jobs mount: no order of two commands
\* on one name creates a cron job without it or takes it away first.
CronJobHasConfigMap == \A n \in Names : cronJob[n] # None => n \in configMap

\* The commands that are between the config map and the cron job of a name.
Between(q, n) == cron[q].name = n /\ cron[q].at \in {"template", "create", "deleteConfigMap"}

\* A config map is left without its cron job only when a command on that name ended in an
\* error: no command that reports success leaves one.
OrphanOnlyAfterError ==
  \A n \in configMap : \/ cronJob[n] # None \/ n \in broken
                       \/ \E q \in CronRequests : Between(q, n)
=============================================================================
