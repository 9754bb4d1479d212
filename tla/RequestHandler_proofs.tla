------------------------ MODULE RequestHandler_proofs ------------------------
(***************************************************************************)
(* Theorems about the commands that the worker pool runs, for any number   *)
(* of commands and workers: those on cron jobs, for any names and cron     *)
(* jobs per command, and the scoped scans, for any pods and containers.    *)
(***************************************************************************)
EXTENDS RequestHandler, FiniteSetTheorems, TLAPS

Command == [at : Stages, name : Names \cup {NoName}, left : Nat \ {0},
            ver : Versions \cup {None}]

CronTyped == /\ cronJob \in [Names -> Versions \cup {None}]
             /\ configMap \subseteq Names
             /\ cron \in [CronRequests -> Command]
             /\ broken \subseteq Names
             /\ \A q \in CronRequests : /\ cron[q].at # "pending" => cron[q].name \in Names
                                        /\ cron[q].at = "update" => cron[q].ver # None

\* A command between the config map and the cron job of a name has the name for itself:
\* the config map keeps others from creating one, and there is no cron job to delete.
HoldsName == \A q \in CronRequests, n \in Names :
               Between(q, n) => /\ n \in configMap /\ cronJob[n] = None
                                /\ \A p \in CronRequests : Between(p, n) => p = q

CronInv == CronTyped /\ HoldsName /\ CronJobHasConfigMap /\ OrphanOnlyAfterError

-----------------------------------------------------------------------------
LEMMA NotNone == \A v \in Versions : v # None
BY DEF Versions, None

LEMMA CronStart == CronInit => CronInv
<1>. SUFFICES ASSUME CronInit PROVE CronInv
  OBVIOUS
<1>. USE CronAssumption DEF CronInit
<1>1. CronTyped
  BY DEF CronTyped, Command, Stages
<1>2. \A q \in CronRequests, n \in Names : ~Between(q, n)
  BY DEF Between
<1>. QED  BY <1>1, <1>2 DEF CronInv, HoldsName, CronJobHasConfigMap, OrphanOnlyAfterError

\* A step of one command, which holds no name after it that it did not hold before, and
\* changes no cron job and no config map.
LEMMA OnlyMoves ==
  ASSUME CronInv, NEW q \in CronRequests, CronTyped', UNCHANGED <<cronJob, configMap>>,
         \A p \in CronRequests \ {q} : cron'[p] = cron[p],
         \A n \in Names : Between(q, n)' => Between(q, n),
         \A n \in Names : Between(q, n) => Between(q, n)' \/ n \in broken',
         broken \subseteq broken'
  PROVE  CronInv'
<1>1. \A p \in CronRequests, n \in Names : Between(p, n)' => Between(p, n)
  BY DEF Between
<1>2. HoldsName'
  BY <1>1 DEF CronInv, HoldsName
<1>3. CronJobHasConfigMap'
  BY DEF CronInv, CronJobHasConfigMap
<1>4. OrphanOnlyAfterError'
  <2>. SUFFICES ASSUME NEW n \in configMap, cronJob[n] = None, n \notin broken'
                PROVE  \E p \in CronRequests : Between(p, n)'
    BY DEF OrphanOnlyAfterError
  <2>1. PICK p \in CronRequests : Between(p, n)
    BY DEF CronInv, OrphanOnlyAfterError
  <2>2. n \in Names
    BY DEF CronInv, CronTyped
  <2>3. Between(p, n)'
    BY <2>1, <2>2 DEF Between
  <2>. QED  BY <2>3
<1>. QED  BY <1>2, <1>3, <1>4 DEF CronInv

LEMMA CronStepKeepsInv ==
  ASSUME CronInv, NEW q \in CronRequests, CronStep(q) PROVE CronInv'
<1>0. CronTyped /\ HoldsName /\ CronJobHasConfigMap /\ OrphanOnlyAfterError
  BY DEF CronInv
<1>1. CASE StartCron(q)
  <2> DEFINE to == CASE Op[q] = "set" -> "configMap"
                     [] Op[q] = "update" -> "get"
                     [] Op[q] = "delete" -> "deleteCronJob"
  <2>1. PICK n \in Names : cron' = [cron EXCEPT ![q] = [cron[q] EXCEPT !.name = n, !.at = to]]
    BY <1>1 DEF StartCron
  <2>2. cron[q].at = "pending" /\ UNCHANGED <<cronJob, configMap, broken>>
    BY <1>1 DEF StartCron
  <2>3. to \in {"configMap", "get", "deleteCronJob"}
    BY CronAssumption
  <2>. HIDE DEF to
  <2>4. CronTyped'
    BY <1>0, <2>1, <2>2, <2>3 DEF CronTyped, Command, Stages
  <2>5. \A m \in Names : ~Between(q, m) /\ ~Between(q, m)'
    BY <1>0, <2>1, <2>2, <2>3 DEF Between, CronTyped, Command
  <2>. QED  BY <1>0, <2>1, <2>2, <2>4, <2>5, OnlyMoves DEF CronTyped
<1>2. CASE CronFails(q)
  <2>1. /\ cron[q].at # "pending" /\ cron' = [cron EXCEPT ![q].at = "error"]
        /\ broken' = broken \cup {cron[q].name} /\ UNCHANGED <<cronJob, configMap>>
    BY <1>2 DEF CronFails, Go
  <2>2. CronTyped'
    BY <1>0, <2>1 DEF CronTyped, Command, Stages
  <2>3. \A m \in Names : ~Between(q, m)' /\ (Between(q, m) => m \in broken')
    BY <1>0, <2>1 DEF Between, CronTyped, Command
  <2>. QED  BY <1>0, <2>1, <2>2, <2>3, OnlyMoves DEF CronTyped
<1>3. CASE CreateConfigMap(q)
  <2> DEFINE n == cron[q].name
  <2>1. /\ cron[q].at = "configMap" /\ n \notin configMap /\ configMap' = configMap \cup {n}
        /\ cron' = [cron EXCEPT ![q].at = "template"] /\ UNCHANGED <<cronJob, broken>>
    BY <1>3 DEF CreateConfigMap, Go
  <2>2. n \in Names /\ cronJob[n] = None
    BY <1>0, <2>1 DEF CronTyped, CronJobHasConfigMap
  <2>3. CronTyped'
    BY <1>0, <2>1, <2>2 DEF CronTyped, Command, Stages
  <2>4. \A m \in Names : ~Between(q, m) /\ (Between(q, m)' <=> m = n)
    BY <1>0, <2>1, <2>2 DEF Between, CronTyped, Command
  <2>5. \A p \in CronRequests \ {q}, m \in Names : Between(p, m)' <=> Between(p, m)
    BY <1>0, <2>1 DEF Between, CronTyped
  <2>6. \A p \in CronRequests \ {q} : ~Between(p, n)
    BY <1>0, <2>1, <2>2 DEF HoldsName
  <2>7. HoldsName'
    BY <1>0, <2>1, <2>2, <2>4, <2>5, <2>6 DEF HoldsName
  <2>8. CronJobHasConfigMap'
    BY <1>0, <2>1 DEF CronJobHasConfigMap
  <2>9. OrphanOnlyAfterError'
    <3>. SUFFICES ASSUME NEW m \in configMap', cronJob[m] = None, m \notin broken
                  PROVE  \E p \in CronRequests : Between(p, m)'
      BY <2>1 DEF OrphanOnlyAfterError
    <3>1. CASE m = n
      BY <2>2, <2>4, <3>1
    <3>2. CASE m # n
      <4>1. m \in configMap /\ m \in Names
        BY <1>0, <2>1, <3>2 DEF CronTyped
      <4>. QED  BY <1>0, <2>4, <2>5, <4>1 DEF OrphanOnlyAfterError
    <3>. QED  BY <3>1, <3>2
  <2>. QED  BY <2>3, <2>7, <2>8, <2>9 DEF CronInv
<1>4. CASE GetTemplate(q)
  <2>1. /\ cron[q].at = "template" /\ cron' = [cron EXCEPT ![q].at = "create"]
        /\ UNCHANGED <<cronJob, configMap, broken>>
    BY <1>4 DEF GetTemplate, Go
  <2>2. CronTyped'
    BY <1>0, <2>1 DEF CronTyped, Command, Stages
  <2>3. \A m \in Names : Between(q, m)' <=> Between(q, m)
    BY <1>0, <2>1 DEF Between, CronTyped, Command
  <2>. QED  BY <1>0, <2>1, <2>2, <2>3, OnlyMoves DEF CronTyped
<1>5. CASE CreateCronJob(q)
  <2> DEFINE n == cron[q].name
  <2>1. /\ cron[q].at = "create" /\ cronJob[n] = None
        /\ cronJob' = [cronJob EXCEPT ![n] = NewCronJob(q)]
        /\ UNCHANGED <<configMap, broken>>
    BY <1>5 DEF CreateCronJob
  <2>2. n \in Names /\ Between(q, n) /\ NewCronJob(q) \in Versions /\ cron[q].left \in Nat \ {0}
    BY <1>0, <2>1 DEF CronTyped, Between, NewCronJob, Versions, Command
  <2>3. /\ cronJob'[n] # None
        /\ \A m \in Names \ {n} : cronJob'[m] = cronJob[m]
    BY <1>0, <2>1, <2>2, NotNone DEF CronTyped
  <2>4. CronTyped' /\ cron'[q].at \in {"success", "configMap"}
        /\ \A p \in CronRequests \ {q} : cron'[p] = cron[p]
    <3>1. CASE cron[q].left = 1
      <4>1. cron' = [cron EXCEPT ![q].at = "success"]
        BY <1>5, <3>1 DEF CreateCronJob, Go
      <4>. QED  BY <1>0, <2>1, <2>2, <4>1 DEF CronTyped, Command, Stages
    <3>2. CASE cron[q].left # 1
      <4>1. PICK m \in Names :
              cron' = [cron EXCEPT ![q] = [cron[q] EXCEPT !.at = "configMap", !.name = m,
                                                          !.left = cron[q].left - 1]]
        BY <1>5, <3>2 DEF CreateCronJob
      <4>2. cron[q].left - 1 \in Nat \ {0}
        BY <2>2, <3>2
      <4>3. /\ [cron[q] EXCEPT !.at = "configMap", !.name = m, !.left = cron[q].left - 1]
                  \in Command
            /\ cron' \in [CronRequests -> Command]
        BY <1>0, <4>1, <4>2 DEF CronTyped, Command, Stages
      <4>4. /\ cron'[q].at = "configMap" /\ cron'[q].name = m
            /\ \A p \in CronRequests \ {q} : cron'[p] = cron[p]
        BY <1>0, <4>1 DEF CronTyped, Command
      <4>5. cronJob' \in [Names -> Versions \cup {None}]
        BY <1>0, <2>1, <2>2 DEF CronTyped
      <4>. QED  BY <1>0, <2>1, <4>3, <4>4, <4>5 DEF CronTyped
    <3>. QED  BY <3>1, <3>2
  <2>5. \A p \in CronRequests, m \in Names : Between(p, m)' <=> p # q /\ Between(p, m)
    BY <2>4 DEF Between
  <2>6. \A p \in CronRequests : Between(p, n) => p = q
    BY <1>0, <2>2 DEF HoldsName
  <2>7. HoldsName'
    BY <1>0, <2>1, <2>3, <2>5, <2>6 DEF HoldsName
  <2>8. CronJobHasConfigMap'
    BY <1>0, <2>1, <2>2, <2>3 DEF CronJobHasConfigMap, HoldsName
  <2>9. OrphanOnlyAfterError'
    <3>. SUFFICES ASSUME NEW m \in configMap, cronJob'[m] = None, m \notin broken
                  PROVE  \E p \in CronRequests : Between(p, m)'
      BY <2>1 DEF OrphanOnlyAfterError
    <3>1. m \in Names /\ m # n /\ cronJob[m] = None
      BY <1>0, <2>3 DEF CronTyped
    <3>2. PICK p \in CronRequests : Between(p, m)
      BY <1>0, <3>1 DEF OrphanOnlyAfterError
    <3>3. p # q
      BY <2>2, <3>1, <3>2 DEF Between
    <3>. QED  BY <2>5, <3>1, <3>2, <3>3
  <2>. QED  BY <2>4, <2>7, <2>8, <2>9 DEF CronInv
<1>6. CASE GetCronJob(q)
  <2>1. /\ cron[q].at = "get" /\ cronJob[cron[q].name] # None
        /\ cron' = [cron EXCEPT ![q] = [cron[q] EXCEPT !.at = "update",
                                                       !.ver = cronJob[cron[q].name]]]
        /\ UNCHANGED <<cronJob, configMap, broken>>
    BY <1>6 DEF GetCronJob
  <2>2. CronTyped'
    BY <1>0, <2>1 DEF CronTyped, Command, Stages
  <2>3. \A m \in Names : ~Between(q, m)' /\ ~Between(q, m)
    BY <1>0, <2>1 DEF Between, CronTyped, Command
  <2>. QED  BY <1>0, <2>1, <2>2, <2>3, OnlyMoves DEF CronTyped
<1>7. CASE UpdateCronJob(q)
  <2> DEFINE n == cron[q].name
  <2>1. /\ cron[q].at = "update" /\ cronJob[n] = cron[q].ver
        /\ cronJob' = [cronJob EXCEPT ![n] = <<q, 0>>]
        /\ cron' = [cron EXCEPT ![q].at = "success"]
        /\ UNCHANGED <<configMap, broken>>
    BY <1>7 DEF UpdateCronJob, Go
  <2>2. n \in Names /\ cronJob[n] # None /\ <<q, 0>> \in Versions
    BY <1>0, <2>1 DEF CronTyped, Versions
  <2>3. cronJob'[n] # None /\ \A m \in Names \ {n} : cronJob'[m] = cronJob[m]
    BY <1>0, <2>1, <2>2, NotNone DEF CronTyped
  <2>4. CronTyped'
    BY <1>0, <2>1, <2>2 DEF CronTyped, Command, Stages
  <2>5. \A p \in CronRequests, m \in Names : Between(p, m)' <=> Between(p, m)
    BY <1>0, <2>1 DEF Between, CronTyped, Command
  <2>6. HoldsName'
    BY <1>0, <2>1, <2>2, <2>3, <2>5 DEF HoldsName
  <2>7. CronJobHasConfigMap'
    BY <1>0, <2>1, <2>2, <2>3 DEF CronJobHasConfigMap
  <2>8. OrphanOnlyAfterError'
    BY <1>0, <2>1, <2>2, <2>3, <2>5 DEF OrphanOnlyAfterError, CronTyped
  <2>. QED  BY <2>4, <2>6, <2>7, <2>8 DEF CronInv
<1>8. CASE DeleteCronJob(q)
  <2> DEFINE n == cron[q].name
  <2>1. /\ cron[q].at = "deleteCronJob" /\ cronJob[n] # None
        /\ cronJob' = [cronJob EXCEPT ![n] = None]
        /\ cron' = [cron EXCEPT ![q].at = "deleteConfigMap"]
        /\ UNCHANGED <<configMap, broken>>
    BY <1>8 DEF DeleteCronJob, Go
  <2>2. n \in Names /\ n \in configMap
    BY <1>0, <2>1 DEF CronTyped, CronJobHasConfigMap
  <2>3. cronJob'[n] = None /\ \A m \in Names \ {n} : cronJob'[m] = cronJob[m]
    BY <1>0, <2>1, <2>2 DEF CronTyped
  <2>4. CronTyped'
    BY <1>0, <2>1, <2>2 DEF CronTyped, Command, Stages
  <2>5. \A m \in Names : ~Between(q, m) /\ (Between(q, m)' <=> m = n)
    BY <1>0, <2>1, <2>2 DEF Between, CronTyped, Command
  <2>6. \A p \in CronRequests \ {q}, m \in Names : Between(p, m)' <=> Between(p, m)
    BY <1>0, <2>1 DEF Between, CronTyped
  <2>7. \A p \in CronRequests \ {q} : ~Between(p, n)
    BY <1>0, <2>1, <2>2 DEF HoldsName
  <2>8. HoldsName'
    BY <1>0, <2>1, <2>2, <2>3, <2>5, <2>6, <2>7 DEF HoldsName
  <2>9. CronJobHasConfigMap'
    BY <1>0, <2>1, <2>3 DEF CronJobHasConfigMap
  <2>10. OrphanOnlyAfterError'
    <3>. SUFFICES ASSUME NEW m \in configMap, cronJob'[m] = None, m \notin broken
                  PROVE  \E p \in CronRequests : Between(p, m)'
      BY <2>1 DEF OrphanOnlyAfterError
    <3>1. CASE m = n
      BY <2>2, <2>5, <3>1
    <3>2. CASE m # n
      <4>1. m \in Names /\ cronJob[m] = None
        BY <1>0, <2>3, <3>2 DEF CronTyped
      <4>. QED  BY <1>0, <2>5, <2>6, <4>1 DEF OrphanOnlyAfterError
    <3>. QED  BY <3>1, <3>2
  <2>. QED  BY <2>4, <2>8, <2>9, <2>10 DEF CronInv
<1>9. CASE DeleteConfigMap(q)
  <2> DEFINE n == cron[q].name
  <2>1. /\ cron[q].at = "deleteConfigMap" /\ n \in configMap
        /\ configMap' = configMap \ {n}
        /\ cron' = [cron EXCEPT ![q].at = "success"]
        /\ UNCHANGED <<cronJob, broken>>
    BY <1>9 DEF DeleteConfigMap, Go
  <2>2. n \in Names /\ Between(q, n)
    BY <1>0, <2>1 DEF CronTyped, Between
  <2>3. cronJob[n] = None /\ \A p \in CronRequests : Between(p, n) => p = q
    BY <1>0, <2>2 DEF HoldsName
  <2>4. CronTyped'
    BY <1>0, <2>1, <2>2 DEF CronTyped, Command, Stages
  <2>5. \A p \in CronRequests, m \in Names : Between(p, m)' <=> p # q /\ Between(p, m)
    BY <1>0, <2>1 DEF Between, CronTyped, Command
  <2>6. HoldsName'
    BY <1>0, <2>1, <2>3, <2>5 DEF HoldsName
  <2>7. CronJobHasConfigMap'
    BY <1>0, <2>1, <2>3 DEF CronJobHasConfigMap
  <2>8. OrphanOnlyAfterError'
    <3>. SUFFICES ASSUME NEW m \in configMap', cronJob[m] = None, m \notin broken
                  PROVE  \E p \in CronRequests : Between(p, m)'
      BY <2>1 DEF OrphanOnlyAfterError
    <3>1. m \in Names /\ m # n /\ m \in configMap
      BY <1>0, <2>1 DEF CronTyped
    <3>2. PICK p \in CronRequests : Between(p, m)
      BY <1>0, <3>1 DEF OrphanOnlyAfterError
    <3>3. p # q
      BY <3>1, <3>2 DEF Between
    <3>. QED  BY <2>5, <3>1, <3>2, <3>3
  <2>. QED  BY <2>4, <2>6, <2>7, <2>8 DEF CronInv
<1>. QED
  BY <1>1, <1>2, <1>3, <1>4, <1>5, <1>6, <1>7, <1>8, <1>9 DEF CronStep

-----------------------------------------------------------------------------
(* The scoped scans. *)

Fields == {"at", "spaces", "pods", "pod", "left", "slug", "slugs", "refused", "errors"}
ScanAt == {"pending", "list", "pods", "containers", "post", "success", "error"}

\* One request: where it is, what was sent for it and which containers it came to.
ScanTyped(s, n, met) ==
  /\ DOMAIN s = Fields
  /\ s.at \in ScanAt /\ s.errors \in BOOLEAN /\ s.refused \in 0 .. MaxRefused
  /\ s.pods \subseteq Pods /\ s.left \subseteq Containers
  /\ s.at \in {"containers", "post"} => s.pod \in Pods
  /\ s.at = "success" => ~s.errors
  /\ (s.at = "post") <=> (s.slug \in Slugs)
  /\ n \in [Slugs -> Nat] /\ met \subseteq Slugs
  /\ s.slugs \subseteq {x \in Slugs : n[x] > 0}

StartsFresh(s, n, met) ==
  s.at = "pending" => /\ s.slugs = {} /\ met = {}
                      /\ \A x \in Slugs : n[x] = 0

\* Until there is an error a container the request came to was accepted, by itself or
\* with its workload's profile, or is being posted in one of these ways.
Covered(s, n, x) == LET profile == Slug(x[1], NoContainer)
                    IN  \/ n[x] > 0 \/ n[profile] > 0
                        \/ s.at = "post" /\ s.slug \in {x, profile}

CoversAll(s, n, met) == ~s.errors /\ s.at # "error" => \A x \in met : Covered(s, n, x)

\* A container that was accepted by itself is remembered, and one that is remembered is
\* not the one being posted.
RemembersSent(s, n) ==
  \A x \in Slugs : x[2] # NoContainer =>
    /\ n[x] <= 1
    /\ n[x] = 1 => x \in s.slugs
    /\ s.at = "post" /\ s.slug = x => x \notin s.slugs

RequestOK(s, n, met) == /\ ScanTyped(s, n, met) /\ StartsFresh(s, n, met)
                        /\ CoversAll(s, n, met) /\ RemembersSent(s, n)

ScanInv == /\ ready \subseteq Pods /\ profiles \subseteq Templates
           /\ changes \in 0 .. MaxChanges
           /\ scan = [q \in ScanRequests |-> scan[q]]
           /\ sent = [q \in ScanRequests |-> sent[q]]
           /\ seen = [q \in ScanRequests |-> seen[q]]
           /\ \A q \in ScanRequests : RequestOK(scan[q], sent[q], seen[q])

LEMMA SlugFacts == /\ \A t \in Templates, c \in Containers : Slug(t, c) \in Slugs
                   /\ \A t \in Templates : Slug(t, NoContainer) \in Slugs
                   /\ \A t, c : Slug(t, c)[1] = t /\ Slug(t, c)[2] = c
                   /\ \A x \in Slugs : x[1] \in Templates /\ x = <<x[1], x[2]>>
                   /\ \A p \in Pods : TemplateOf[p] \in Templates
                   /\ <<>> \notin Slugs
BY DEF Slug, Slugs, Templates

LEMMA ScanStart == ScanInit => ScanInv
<1>. SUFFICES ASSUME ScanInit PROVE ScanInv
  OBVIOUS
<1>1. ASSUME NEW q \in ScanRequests PROVE RequestOK(scan[q], sent[q], seen[q])
  <2>1. /\ scan[q] = NoScan /\ sent[q] = [x \in Slugs |-> 0] /\ seen[q] = {}
        /\ <<>> \notin Slugs
    BY SlugFacts DEF ScanInit
  <2>. QED  BY <2>1, ScanAssumption DEF RequestOK, ScanTyped, StartsFresh, CoversAll,
              RemembersSent, NoScan, Fields, ScanAt
<1>. QED  BY <1>1, ScanAssumption DEF ScanInit, ScanInv

\* A step of one request keeps what is true of the others.
LEMMA OneRequest ==
  ASSUME ScanInv, NEW q \in ScanRequests, NEW s, NEW n, NEW met,
         Progress(q, s), RequestOK(s, n, met),
         sent' = [sent EXCEPT ![q] = n], seen' = [seen EXCEPT ![q] = met]
  PROVE  ScanInv'
<1>1. /\ scan' = [scan EXCEPT ![q] = s]
      /\ ready' = ready /\ profiles' = profiles /\ changes' = changes
  BY DEF Progress
<1>2. /\ scan'[q] = s /\ sent'[q] = n /\ seen'[q] = met
      /\ \A p \in ScanRequests \ {q} : /\ scan'[p] = scan[p] /\ sent'[p] = sent[p]
                                       /\ seen'[p] = seen[p]
      /\ scan' = [p \in ScanRequests |-> scan'[p]]
      /\ sent' = [p \in ScanRequests |-> sent'[p]]
      /\ seen' = [p \in ScanRequests |-> seen'[p]]
  BY <1>1 DEF ScanInv
<1>3. \A p \in ScanRequests : RequestOK(scan'[p], sent'[p], seen'[p])
  BY <1>2 DEF ScanInv
<1>. QED  BY <1>1, <1>2, <1>3 DEF ScanInv

\* A step through the loops: nothing is sent and no container is met, and an error, once
\* there is one, stays.
LEMMA LoopStep ==
  ASSUME ScanInv, NEW q \in ScanRequests, NEW s, Progress(q, s), Still,
         DOMAIN s = Fields, s.at \in ScanAt \ {"pending", "post"}, s.errors \in BOOLEAN,
         s.refused \in 0 .. MaxRefused, s.pods \subseteq Pods, s.left \subseteq Containers,
         s.at = "containers" => s.pod \in Pods,
         s.at = "success" => ~s.errors,
         s.slug \notin Slugs, s.slugs = scan[q].slugs,
         \/ s.errors \/ s.at = "error"
         \/ ~scan[q].errors /\ scan[q].at \notin {"error", "post"}
  PROVE  ScanInv'
<1>1. RequestOK(scan[q], sent[q], seen[q])
  BY DEF ScanInv
<1>2. ScanTyped(s, sent[q], seen[q])
  BY <1>1 DEF RequestOK, ScanTyped, ScanAt
<1>3. CoversAll(s, sent[q], seen[q])
  BY <1>1 DEF RequestOK, CoversAll, Covered
<1>4. StartsFresh(s, sent[q], seen[q]) /\ RemembersSent(s, sent[q])
  BY <1>1 DEF RequestOK, StartsFresh, RemembersSent
<1>5. sent' = [sent EXCEPT ![q] = sent[q]] /\ seen' = [seen EXCEPT ![q] = seen[q]]
  BY DEF Still, ScanInv
<1>. QED  BY <1>2, <1>3, <1>4, <1>5, OneRequest DEF RequestOK

LEMMA ScanStepKeepsInv ==
  ASSUME ScanInv, NEW q \in ScanRequests, ScanStep(q) PROVE ScanInv'
<1> DEFINE r == scan[q]
           n == sent[q]
           met == seen[q]
<1>0. /\ RequestOK(r, n, met) /\ DOMAIN r = Fields
      /\ r.at # "post" => r.slug \notin Slugs
      /\ r.pods \subseteq Pods /\ r.left \subseteq Containers /\ r.errors \in BOOLEAN
      /\ r.refused \in 0 .. MaxRefused
      /\ <<>> \notin Slugs
  BY SlugFacts DEF ScanInv, RequestOK, ScanTyped
<1>. USE DEF Fields
<1>1. CASE StartScan(q)
  <2> DEFINE spaces == IF Scope[q] = <<>> THEN AllSpaces ELSE Scope[q]
             s == [NoScan EXCEPT !.at = "list", !.spaces = spaces]
  <2>1. r.at = "pending" /\ Progress(q, s) /\ Still
    BY <1>1 DEF StartScan
  <2>2. s.slugs = r.slugs /\ s.errors = FALSE /\ s.at = "list" /\ s.slug = <<>> /\ s.refused = 0
        /\ s.pods = {} /\ s.left = {} /\ DOMAIN s = Fields
    BY <1>0, <2>1 DEF NoScan, RequestOK, StartsFresh
  <2>3. 0 \in 0 .. MaxRefused
    BY ScanAssumption
  <2>4. CoversAll(s, n, met) /\ RemembersSent(s, n) /\ StartsFresh(s, n, met)
    BY <1>0, <2>1, <2>2 DEF RequestOK, StartsFresh, CoversAll, RemembersSent
  <2>5. ScanTyped(s, n, met)
    BY <1>0, <2>1, <2>2, <2>3 DEF RequestOK, ScanTyped, ScanAt
  <2>6. sent' = [sent EXCEPT ![q] = n] /\ seen' = [seen EXCEPT ![q] = met]
    BY <2>1 DEF Still, ScanInv
  <2>. QED  BY <2>1, <2>4, <2>5, <2>6, OneRequest DEF RequestOK
<1>2. CASE NamespacesFail(q)
  <2> DEFINE s == [NoScan EXCEPT !.at = "error"]
  <2>1. r.at = "pending" /\ Progress(q, s) /\ Still
    BY <1>2 DEF NamespacesFail
  <2>2. s.slugs = r.slugs /\ s.errors = FALSE /\ s.at = "error" /\ s.slug = <<>> /\ s.refused = 0
        /\ s.pods = {} /\ s.left = {} /\ DOMAIN s = Fields
    BY <1>0, <2>1 DEF NoScan, RequestOK, StartsFresh
  <2>3. 0 \in 0 .. MaxRefused
    BY ScanAssumption
  <2>. QED  BY <1>0, <2>1, <2>2, <2>3, LoopStep DEF ScanAt
<1>3. CASE SkipNamespace(q) \/ EndNamespace(q)
  <2> DEFINE s == NextNamespace(r)
  <2>1. r.at \in {"list", "pods"} /\ Progress(q, s) /\ Still
    BY <1>3 DEF SkipNamespace, EndNamespace
  <2>2. /\ DOMAIN s = Fields /\ s.at = "list" /\ s.pods = {} /\ s.left = r.left
        /\ s.errors = r.errors /\ s.slug = r.slug /\ s.slugs = r.slugs /\ s.refused = r.refused
    BY <1>0 DEF NextNamespace
  <2>. QED  BY <1>0, <2>1, <2>2, LoopStep DEF ScanAt
<1>4. CASE ListPods(q)
  <2> DEFINE pods == {p \in Pods : /\ NamespaceOf[p] = Head(scan[q].spaces)
                                   /\ q \in Itemized \/ p \in ready}
             s == [r EXCEPT !.at = "pods", !.pods = pods]
  <2>1. r.at = "list" /\ Progress(q, s) /\ Still
    BY <1>4 DEF ListPods
  <2>2. /\ DOMAIN s = Fields /\ s.at = "pods" /\ s.pods \subseteq Pods /\ s.left = r.left
        /\ s.errors = r.errors /\ s.slug = r.slug /\ s.slugs = r.slugs /\ s.refused = r.refused
    BY <1>0
  <2>. QED  BY <1>0, <2>1, <2>2, LoopStep DEF ScanAt
<1>5. CASE ListFails(q)
  <2> DEFINE s == [NextNamespace(r) EXCEPT !.errors = TRUE]
  <2>1. r.at \in {"list", "pods"} /\ Progress(q, s) /\ Still
    BY <1>5 DEF ListFails
  <2>2. /\ DOMAIN s = Fields /\ s.at = "list" /\ s.pods = {} /\ s.left = r.left
        /\ s.errors = TRUE /\ s.slug = r.slug /\ s.slugs = r.slugs /\ s.refused = r.refused
    BY <1>0 DEF NextNamespace
  <2>. QED  BY <1>0, <2>1, <2>2, LoopStep DEF ScanAt
<1>6. ASSUME NEW p \in Pods, NextPod(q, p) PROVE ScanInv'
  <2> DEFINE s == [r EXCEPT !.at = "containers", !.pods = r.pods \ {p}, !.pod = p,
                            !.left = Containers]
  <2>1. r.at = "pods" /\ Progress(q, s) /\ Still
    BY <1>6 DEF NextPod
  <2>2. /\ DOMAIN s = Fields /\ s.at = "containers" /\ s.pods \subseteq Pods /\ s.pod = p
        /\ s.left = Containers
        /\ s.errors = r.errors /\ s.slug = r.slug /\ s.slugs = r.slugs /\ s.refused = r.refused
    BY <1>0
  <2>. QED  BY <1>0, <2>1, <2>2, LoopStep DEF ScanAt
<1>7. ASSUME NEW p \in Pods, ItemizedPod(q, p) PROVE ScanInv'
  <2>1. PICK failed \in BOOLEAN :
          Progress(q, [r EXCEPT !.pods = r.pods \ {p}, !.errors = r.errors \/ failed])
    BY <1>7 DEF ItemizedPod
  <2> DEFINE s == [r EXCEPT !.pods = r.pods \ {p}, !.errors = r.errors \/ failed]
  <2>2. r.at = "pods" /\ Progress(q, s) /\ Still
    BY <1>7, <2>1 DEF ItemizedPod
  <2>3. /\ DOMAIN s = Fields /\ s.at = "pods" /\ s.pods \subseteq Pods /\ s.left = r.left
        /\ s.slug = r.slug /\ s.slugs = r.slugs /\ s.refused = r.refused
    BY <1>0, <2>2
  <2>4. s.errors \in BOOLEAN /\ (s.errors \/ ~r.errors)
    BY <1>0
  <2>. QED  BY <1>0, <2>2, <2>3, <2>4, LoopStep DEF ScanAt
<1>8. CASE EndPod(q)
  <2> DEFINE s == [r EXCEPT !.at = "pods", !.pod = NoPod]
  <2>1. r.at = "containers" /\ Progress(q, s) /\ Still
    BY <1>8 DEF EndPod
  <2>2. /\ DOMAIN s = Fields /\ s.at = "pods" /\ s.pods = r.pods /\ s.left = r.left
        /\ s.errors = r.errors /\ s.slug = r.slug /\ s.slugs = r.slugs /\ s.refused = r.refused
    BY <1>0
  <2>. QED  BY <1>0, <2>1, <2>2, LoopStep DEF ScanAt
<1>9. CASE EndScan(q)
  <2> DEFINE end == IF r.errors THEN "error" ELSE "success"
             s == [r EXCEPT !.at = end]
  <2>1. r.at = "list" /\ Progress(q, s) /\ Still
    BY <1>9 DEF EndScan
  <2>2. /\ DOMAIN s = Fields /\ s.at = end /\ s.pods = r.pods /\ s.left = r.left
        /\ s.errors = r.errors /\ s.slug = r.slug /\ s.slugs = r.slugs /\ s.refused = r.refused
    BY <1>0
  <2>. QED  BY <1>0, <2>1, <2>2, LoopStep DEF ScanAt
<1>10. ASSUME NEW c \in Containers, SkipScanned(q, c) \/ SkipNoData(q, c) PROVE ScanInv'
  <2> DEFINE s == [r EXCEPT !.left = r.left \ {c}]
  <2>1. r.at = "containers" /\ Progress(q, s) /\ Still
    BY <1>10 DEF SkipScanned, SkipNoData, AtContainer, Chosen
  <2>2. /\ DOMAIN s = Fields /\ s.at = "containers" /\ s.pods = r.pods
        /\ s.left \subseteq Containers /\ s.pod = r.pod
        /\ s.errors = r.errors /\ s.slug = r.slug /\ s.slugs = r.slugs /\ s.refused = r.refused
    BY <1>0, <2>1
  <2>3. s.pod \in Pods
    BY <1>0, <2>1, <2>2 DEF RequestOK, ScanTyped
  <2>. QED  BY <1>0, <2>1, <2>2, <2>3, LoopStep DEF ScanAt
<1>11. ASSUME NEW c \in Containers, TriggerScan(q, c) PROVE ScanInv'
  <2> DEFINE t == TemplateOf[r.pod]
             slug == IF t \in profiles THEN Slug(t, NoContainer) ELSE Slug(t, c)
             s == [[r EXCEPT !.left = r.left \ {c}] EXCEPT !.at = "post", !.refused = 0,
                                                           !.slug = slug]
             met2 == met \cup {Slug(t, c)}
  <2>1. /\ r.at = "containers" /\ c \in r.left /\ Slug(t, c) \notin r.slugs
        /\ Progress(q, s)
        /\ sent' = [sent EXCEPT ![q] = n] /\ seen' = [seen EXCEPT ![q] = met2]
    BY <1>11 DEF TriggerScan, AtContainer, IsScanned, ContainerSlug, Chosen, ScanCommand, ScanInv
  <2>2. r.pod \in Pods /\ t \in Templates /\ Slug(t, c) \in Slugs /\ slug \in Slugs
    BY <1>0, <2>1, SlugFacts DEF RequestOK, ScanTyped
  <2>3. /\ DOMAIN s = Fields /\ s.at = "post" /\ s.slug = slug /\ s.refused = 0
        /\ s.pods = r.pods /\ s.pod = r.pod /\ s.left \subseteq Containers
        /\ s.errors = r.errors /\ s.slugs = r.slugs
    BY <1>0
  <2>4. 0 \in 0 .. MaxRefused
    BY ScanAssumption
  <2>5. ScanTyped(s, n, met2)
    BY <1>0, <2>2, <2>3, <2>4 DEF RequestOK, ScanTyped, ScanAt
  <2>6. CoversAll(s, n, met2)
    <3>. SUFFICES ASSUME ~s.errors, NEW x \in met2 PROVE Covered(s, n, x)
      BY DEF CoversAll
    <3>1. CASE x = Slug(t, c)
      BY <2>3, <3>1, SlugFacts DEF Covered
    <3>2. CASE x \in met
      BY <1>0, <2>1, <2>3, <3>2 DEF RequestOK, CoversAll, Covered
    <3>. QED  BY <3>1, <3>2
  <2>7. RemembersSent(s, n)
    <3>1. slug[2] # NoContainer => slug \notin r.slugs
      BY <2>1, SlugFacts
    <3>. QED  BY <1>0, <2>3, <3>1 DEF RequestOK, RemembersSent
  <2>8. StartsFresh(s, n, met2)
    BY <2>3 DEF StartsFresh
  <2>. QED  BY <2>1, <2>5, <2>6, <2>7, <2>8, OneRequest DEF RequestOK
<1>12. CASE PostAccepted(q)
  <2> DEFINE x == r.slug
             s == [[r EXCEPT !.at = "containers", !.slug = <<>>] EXCEPT !.slugs = r.slugs \cup {x}]
             n2 == [n EXCEPT ![x] = n[x] + 1]
  <2>1. r.at = "post" /\ x \in Slugs /\ r.pod \in Pods /\ n \in [Slugs -> Nat]
    BY <1>0, <1>12 DEF PostAccepted, RequestOK, ScanTyped
  <2>2. /\ Progress(q, s)
        /\ sent' = [sent EXCEPT ![q] = n2] /\ seen' = [seen EXCEPT ![q] = met]
    BY <1>0, <1>12, <2>1 DEF PostAccepted, Posted, ScanInv
  <2>3. /\ DOMAIN s = Fields /\ s.at = "containers" /\ s.slug = <<>> /\ s.refused = r.refused
        /\ s.pods = r.pods /\ s.pod = r.pod /\ s.left = r.left
        /\ s.errors = r.errors /\ s.slugs = r.slugs \cup {x}
    BY <1>0
  <2>4. /\ n2 \in [Slugs -> Nat] /\ n2[x] = n[x] + 1
        /\ \A y \in Slugs \ {x} : n2[y] = n[y]
        /\ \A y \in Slugs : n2[y] >= n[y]
    BY <2>1
  <2>5. ScanTyped(s, n2, met)
    BY <1>0, <2>1, <2>3, <2>4 DEF RequestOK, ScanTyped, ScanAt
  <2>6. CoversAll(s, n2, met)
    <3>. SUFFICES ASSUME ~s.errors, NEW y \in met PROVE Covered(s, n2, y)
      BY DEF CoversAll
    <3>1. Covered(r, n, y) /\ y \in Slugs /\ Slug(y[1], NoContainer) \in Slugs
      BY <1>0, <2>1, <2>3, SlugFacts DEF RequestOK, CoversAll, ScanTyped
    <3>2. \A z \in Slugs : n[z] > 0 \/ z = x => n2[z] > 0
      BY <2>1, <2>4
    <3>. QED  BY <3>1, <3>2 DEF Covered
  <2>7. RemembersSent(s, n2)
    <3>. SUFFICES ASSUME NEW y \in Slugs, y[2] # NoContainer
                  PROVE  n2[y] <= 1 /\ (n2[y] = 1 => y \in s.slugs)
      BY <2>3 DEF RemembersSent
    <3>1. CASE y = x
      <4>1. n[x] = 0
        BY <1>0, <2>1, <3>1 DEF RequestOK, RemembersSent
      <4>. QED  BY <2>3, <2>4, <3>1, <4>1
    <3>2. CASE y # x
      BY <1>0, <2>3, <2>4, <3>2 DEF RequestOK, RemembersSent
    <3>. QED  BY <3>1, <3>2
  <2>8. StartsFresh(s, n2, met)
    BY <2>3 DEF StartsFresh
  <2>. QED  BY <2>2, <2>5, <2>6, <2>7, <2>8, OneRequest DEF RequestOK
<1>13. CASE PostRefused(q)
  <2> DEFINE s == [r EXCEPT !.refused = r.refused + 1]
  <2>1. /\ r.at = "post" /\ r.refused < MaxRefused /\ Progress(q, s)
        /\ sent' = [sent EXCEPT ![q] = n] /\ seen' = [seen EXCEPT ![q] = met]
    BY <1>13 DEF PostRefused, Still, ScanInv
  <2>2. /\ DOMAIN s = Fields /\ s.at = "post" /\ s.slug = r.slug /\ s.pods = r.pods
        /\ s.pod = r.pod /\ s.left = r.left /\ s.errors = r.errors /\ s.slugs = r.slugs
        /\ s.refused = r.refused + 1
    BY <1>0, <2>1
  <2>3. s.refused \in 0 .. MaxRefused
    BY <1>0, <2>1, <2>2, ScanAssumption
  <2>4. ScanTyped(s, n, met)
    BY <1>0, <2>1, <2>2, <2>3 DEF RequestOK, ScanTyped
  <2>5. CoversAll(s, n, met) /\ StartsFresh(s, n, met) /\ RemembersSent(s, n)
    BY <1>0, <2>1, <2>2 DEF RequestOK, CoversAll, Covered, StartsFresh, RemembersSent
  <2>. QED  BY <2>1, <2>4, <2>5, OneRequest DEF RequestOK
<1>14. CASE PostFails(q) \/ NoScanConfig(q)
  <2> DEFINE s == [[r EXCEPT !.at = "containers", !.slug = <<>>] EXCEPT !.errors = TRUE]
  <2>1. r.at = "post" /\ Progress(q, s) /\ Still
    BY <1>14 DEF PostFails, NoScanConfig, Posted
  <2>2. /\ DOMAIN s = Fields /\ s.at = "containers" /\ s.slug = <<>> /\ s.refused = r.refused
        /\ s.pods = r.pods /\ s.pod = r.pod /\ s.left = r.left
        /\ s.errors = TRUE /\ s.slugs = r.slugs
    BY <1>0
  <2>3. s.pod \in Pods
    BY <1>0, <2>1, <2>2 DEF RequestOK, ScanTyped
  <2>. QED  BY <1>0, <2>1, <2>2, <2>3, LoopStep DEF ScanAt
<1>. QED
  BY <1>1, <1>2, <1>3, <1>4, <1>5, <1>6, <1>7, <1>8, <1>9, <1>10, <1>11, <1>12, <1>13, <1>14
  DEF ScanStep

-----------------------------------------------------------------------------
(* The pool. *)

PoolInv == /\ job \in [Requests -> {"pending", "running", "done"}]
           /\ IsFiniteSet(Running) /\ Cardinality(Running) <= PoolSize
           /\ status \in [Requests -> {"none", "success", "error", "lost"}]
           /\ \A q \in Requests :
                status[q] # "none" => job[q] = "done" /\ status[q] \in {Outcome(q), "lost"}

Inv == CronInv /\ ScanInv /\ PoolInv

LEMMA PoolStart == Init => PoolInv
<1>. SUFFICES ASSUME Init PROVE PoolInv
  OBVIOUS
<1>1. Running = {}
  BY DEF Init, Running
<1>. QED  BY <1>1, FS_EmptySet, HandlerAssumption DEF Init, PoolInv

\* Requests that end leave the pool, and no other step but Invoke brings one into it.
LEMMA PoolShrinks ==
  ASSUME PoolInv, Running' \subseteq Running
  PROVE  IsFiniteSet(Running') /\ Cardinality(Running') <= PoolSize
<1>1. IsFiniteSet(Running') /\ Cardinality(Running') <= Cardinality(Running)
  BY FS_Subset DEF PoolInv
<1>2. Cardinality(Running) \in Nat /\ Cardinality(Running') \in Nat
  BY <1>1, FS_CardinalityType DEF PoolInv
<1>. QED  BY <1>1, <1>2, HandlerAssumption DEF PoolInv

LEMMA WorkerKeepsPool ==
  ASSUME Inv, NEW q \in Requests, Worker(q) PROVE PoolInv'
<1>0. /\ PoolInv /\ DOMAIN scan = ScanRequests /\ DOMAIN cron = CronRequests
  BY DEF Inv, ScanInv, CronInv, CronTyped
<1>1. CASE Invoke(q)
  <2>1. /\ job[q] = "pending" /\ Cardinality(Running) < PoolSize
        /\ job' = [job EXCEPT ![q] = "running"] /\ UNCHANGED <<status, scan, cron>>
    BY <1>1 DEF Invoke, cronVars, scanVars
  <2>2. Running' = Running \cup {q} /\ q \notin Running
    BY <1>0, <2>1 DEF Running, PoolInv
  <2>3. Cardinality(Running) \in Nat /\ IsFiniteSet(Running')
        /\ Cardinality(Running') = Cardinality(Running) + 1
    BY <1>0, <2>2, FS_AddElement, FS_CardinalityType DEF PoolInv
  <2>4. \A p \in Requests : Outcome(p)' = Outcome(p)
    BY <2>1 DEF Outcome
  <2>. QED  BY <1>0, <2>1, <2>3, <2>4, HandlerAssumption DEF PoolInv
<1>2. CASE RejectEmptyId(q)
  <2>1. /\ job[q] = "running" /\ job' = [job EXCEPT ![q] = "done"]
        /\ UNCHANGED <<status, scan, cron>>
    BY <1>2 DEF RejectEmptyId, cronVars, scanVars
  <2>2. Running' \subseteq Running
    BY <1>0, <2>1 DEF Running, PoolInv
  <2>3. \A p \in Requests : Outcome(p)' = Outcome(p)
    BY <2>1 DEF Outcome
  <2>. QED  BY <1>0, <2>1, <2>2, <2>3, PoolShrinks DEF PoolInv
<1>3. CASE RunScan(q) \/ RunCron(q)
  <2>1. job[q] = "running" /\ UNCHANGED <<job, status>> /\ Running' = Running
    BY <1>3 DEF RunScan, RunCron, Running
  <2>2. \A p \in Requests \ {q} : Outcome(p)' = Outcome(p)
    <3>1. CASE RunScan(q)
      <4>1. cron' = cron
        BY <3>1 DEF RunScan, cronVars
      <4>2. \A p \in ScanRequests \ {q} : scan'[p] = scan[p]
        BY <1>0, <3>1 DEF RunScan, ScanStep, Progress, StartScan, NamespacesFail,
             SkipNamespace, ListPods, ListFails, EndNamespace, EndPod, EndScan, NextPod,
             ItemizedPod, SkipScanned, SkipNoData, TriggerScan, PostAccepted, PostRefused,
             PostFails, NoScanConfig
      <4>. QED  BY <4>1, <4>2 DEF Outcome
    <3>2. CASE RunCron(q)
      <4>1. scan' = scan
        BY <3>2 DEF RunCron, scanVars
      <4>2. \A p \in CronRequests \ {q} : cron'[p] = cron[p]
        BY <1>0, <3>2 DEF RunCron, CronStep, Go, StartCron, CronFails, CreateConfigMap,
             GetTemplate, CreateCronJob, GetCronJob, UpdateCronJob, DeleteCronJob,
             DeleteConfigMap
      <4>. QED  BY <4>1, <4>2 DEF Outcome, Requests
    <3>. QED  BY <1>3, <3>1, <3>2
  <2>. QED  BY <1>0, <2>1, <2>2, PoolShrinks DEF PoolInv
<1>4. CASE FinishRequest(q) \/ PatchFails(q)
  <2>1. /\ job[q] = "running" /\ Outcome(q) \in {"success", "error"}
        /\ \/ status' = [status EXCEPT ![q] = Outcome(q)]
           \/ status' = [status EXCEPT ![q] = "lost"]
        /\ job' = [job EXCEPT ![q] = "done"]
        /\ UNCHANGED <<scan, cron>>
    BY <1>4 DEF FinishRequest, PatchFails, cronVars, scanVars
  <2>2. Running' \subseteq Running
    BY <1>0, <2>1 DEF Running, PoolInv
  <2>3. \A p \in Requests : Outcome(p)' = Outcome(p)
    BY <2>1 DEF Outcome
  <2>. QED  BY <1>0, <2>1, <2>2, <2>3, PoolShrinks DEF PoolInv
<1>. QED  BY <1>1, <1>2, <1>3, <1>4 DEF Worker

LEMMA NextInv == Inv /\ [Next]_vars => Inv'
<1>. SUFFICES ASSUME Inv, [Next]_vars PROVE Inv'
  OBVIOUS
<1>0. CronInv /\ ScanInv /\ PoolInv
  BY DEF Inv
<1>1. ASSUME UNCHANGED cronVars PROVE CronInv'
  BY <1>0, <1>1 DEF cronVars, CronInv, CronTyped, HoldsName, CronJobHasConfigMap,
                    OrphanOnlyAfterError, Between
<1>2. ASSUME UNCHANGED scanVars PROVE ScanInv'
  BY <1>0, <1>2 DEF scanVars, ScanInv
<1>3. ASSUME UNCHANGED <<job, status, scan, cron>> PROVE PoolInv'
  BY <1>0, <1>3 DEF PoolInv, Running, Outcome
<1>4. CASE Cluster
  <2>1. /\ UNCHANGED <<cronVars, job, status, scan, sent, seen>> /\ changes < MaxChanges
        /\ changes' = changes + 1
        /\ \/ \E p \in Pods : ready' = (ready \cup {p}) \ (ready \cap {p}) /\ UNCHANGED profiles
           \/ \E t \in Templates : profiles' = profiles \cup {t} /\ UNCHANGED ready
    BY <1>4 DEF Cluster, ClusterChanges
  <2>2. ready' \subseteq Pods /\ profiles' \subseteq Templates /\ changes' \in 0 .. MaxChanges
    BY <1>0, <2>1, ScanAssumption DEF ScanInv
  <2>3. ScanInv'
    BY <1>0, <2>1, <2>2 DEF ScanInv
  <2>. QED  BY <1>1, <1>3, <2>1, <2>3 DEF Inv, cronVars
<1>5. ASSUME NEW q \in Requests, Worker(q) PROVE Inv'
  <2>1. PoolInv'
    BY <1>5, WorkerKeepsPool
  <2>2. CASE RunCron(q)
    BY <1>0, <1>2, <2>1, <2>2, CronStepKeepsInv DEF RunCron, Inv
  <2>3. CASE RunScan(q)
    BY <1>0, <1>1, <2>1, <2>3, ScanStepKeepsInv DEF RunScan, Inv
  <2>4. CASE UNCHANGED <<cronVars, scanVars>>
    BY <1>1, <1>2, <2>1, <2>4 DEF Inv
  <2>. QED  BY <1>5, <2>2, <2>3, <2>4 DEF Worker, Invoke, RejectEmptyId, FinishRequest, PatchFails
<1>6. CASE UNCHANGED vars
  BY <1>1, <1>2, <1>3, <1>6 DEF vars, cronVars, scanVars, Inv
<1>. QED  BY <1>4, <1>5, <1>6 DEF Next

-----------------------------------------------------------------------------
\* The invariant of the cron jobs, the scoped scans and the pool that runs both holds in
\* every reachable state.
THEOREM Invariance == Spec => []Inv
<1>1. Init => Inv
  BY CronStart, ScanStart, PoolStart DEF Init, Inv
<1>. QED  BY <1>1, NextInv, PTL DEF Spec

\* Types of cron jobs, scoped scans and pool: what a request remembers as sent was
\* accepted by the scanner, and no more than PoolSize requests run at a time.
THEOREM TypeCorrect == Spec => []TypeOK
<1>1. Inv => TypeOK
  <2>. SUFFICES ASSUME Inv PROVE TypeOK
    OBVIOUS
  <2>1. CronTypeOK
    BY DEF Inv, CronInv, CronTyped, CronTypeOK, Command
  <2>2. \A q \in ScanRequests : ScanTyped(scan[q], sent[q], seen[q])
    BY DEF Inv, ScanInv, RequestOK
  <2>3. ScanTypeOK
    BY <2>2 DEF Inv, ScanInv, ScanTypeOK, ScanTyped, ScanAt
  <2>. QED  BY <2>1, <2>3 DEF Inv, PoolInv, TypeOK
<1>. QED  BY <1>1, Invariance, PTL

\* However many workers run commands on one name, and wherever each of them fails
\* (kubescapehandler.go and vulnscanhandler.go), a cron job has the config map that its
\* jobs mount: a command between the two has the name for itself.
THEOREM ConfigMapThere == Spec => []CronJobHasConfigMap
BY Invariance, PTL DEF Inv, CronInv

\* A config map without its cron job takes a command that ended in an error, or is still
\* between the two.
THEOREM OrphansExplained == Spec => []OrphanOnlyAfterError
BY Invariance, PTL DEF Inv, CronInv

\* A scoped scan of images (handlerequests.go) ends in success only when the scanner
\* accepted every container it came to and had data of, in whatever order pods and profiles
\* change and workers take their steps: an error, once there is one, stays to the end, and
\* without one such a container is left only when it, or its profile, was accepted.
THEOREM SuccessCovers == Spec => []SuccessMeansCovered
<1>1. Inv => SuccessMeansCovered
  <2>. SUFFICES ASSUME Inv, NEW q \in ScanRequests, scan[q].at = "success",
                       NEW x \in seen[q]
                PROVE  sent[q][x] > 0 \/ sent[q][Slug(x[1], NoContainer)] > 0
    BY DEF SuccessMeansCovered
  <2>1. CoversAll(scan[q], sent[q], seen[q]) /\ ~scan[q].errors
    BY DEF Inv, ScanInv, RequestOK, ScanTyped
  <2>. QED  BY <2>1 DEF CoversAll, Covered
<1>. QED  BY <1>1, Invariance, PTL

\* One request never sends a container by itself twice (handlerequests.go), though its
\* replicas come in different pages and a post is tried again when it is refused.
THEOREM SentOnce == Spec => []ImageOncePerRequest
<1>1. Inv => ImageOncePerRequest
  <2>. SUFFICES ASSUME Inv, NEW q \in ScanRequests, NEW t \in Templates, NEW c \in Containers
                PROVE  sent[q][Slug(t, c)] <= 1
    BY DEF ImageOncePerRequest
  <2>1. Slug(t, c) \in Slugs /\ Slug(t, c)[2] # NoContainer
    BY SlugFacts, ScanAssumption
  <2>. QED  BY <2>1 DEF Inv, ScanInv, RequestOK, RemembersSent
<1>. QED  BY <1>1, Invariance, PTL

\* When an OperatorCommand for a scan of images says success, each container the request
\* had data of (it passes over the others) was accepted: the status that a worker patches
\* (handlerequests.go) is its own request's outcome, which no other worker and no later step
\* changes.
StatusIsTrue ==
  \A q \in ScanRequests : status[q] = "success" =>
    /\ scan[q].at = "success"
    /\ \A x \in seen[q] : sent[q][x] > 0 \/ sent[q][Slug(x[1], NoContainer)] > 0

\* A status that says success is true of its own request, for any number of workers.
THEOREM StatusTellsTruth == Spec => []StatusIsTrue
<1>1. PoolInv /\ SuccessMeansCovered => StatusIsTrue
  BY DEF PoolInv, Outcome, Requests, SuccessMeansCovered, StatusIsTrue
<1>. QED  BY <1>1, Invariance, SuccessCovers, PTL DEF Inv
=============================================================================
