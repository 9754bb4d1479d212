------------------------------ MODULE ScopedScan ------------------------------
(***************************************************************************)
(* A command on a scope, which mainhandler/handlerequests.go itemises in   *)
(* one worker: for a scan of images each container of each pod is sent to  *)
(* the vulnerability scanner (mainhandler/vulnscan.go), alone or, when its *)
(* workload has a complete application profile, as that profile; for any   *)
(* other command each pod is a command of its own.  Pods and profiles      *)
(* change meanwhile.                                                       *)
(*                                                                         *)
(* Slug(t, c) identifies container c of template t, the same for all its   *)
(* replicas; Slug(t, NoContainer) the whole workload and its profile.      *)
(***************************************************************************)
EXTENDS Naturals, Sequences, FiniteSets

CONSTANTS ScanRequests,
          Itemized,     \* those that are no scan of images
          Scope,        \* per request: the namespaces of its id or designators, if any
          AllSpaces,    \* those the cluster lists
          Excluded,     \* namespaces that SkipNamespace tells to skip
          Pods,
          NamespaceOf, TemplateOf,   \* of a pod
          Containers,
          NoContainer, NoPod,
          MaxRefused,   \* posts tried again when the connection is refused (5)
          MaxChanges    \* bound on the changes of pods and profiles

Templates == {TemplateOf[p] : p \in Pods}
Slug(t, c) == <<t, c>>
Slugs == Templates \X (Containers \cup {NoContainer})

ASSUME ScanAssumption == /\ Itemized \subseteq ScanRequests
                         /\ NoContainer \notin Containers /\ NoPod \notin Pods
                         /\ MaxRefused \in Nat /\ MaxChanges \in Nat

VARIABLES
  ready,     \* pods that run and, when naked, are older than the guard time
  profiles,  \* templates whose application profile is complete
  changes,
  scan,      \* per request: where it is in its loops
  sent,      \* history: per request and slug, how many posts were answered "accepted"
  seen       \* history: per request, the slugs of the containers it had data of

scanVars == <<ready, profiles, changes, scan, sent, seen>>

NoScan == [at |-> "pending", spaces |-> <<>>, pods |-> {}, pod |-> NoPod, left |-> {},
           slug |-> <<>>, slugs |-> {}, refused |-> 0, errors |-> FALSE]

ScanInit == /\ ready \in SUBSET Pods
            /\ profiles = {}
            /\ changes = 0
            /\ scan = [q \in ScanRequests |-> NoScan]
            /\ sent = [q \in ScanRequests |-> [s \in Slugs |-> 0]]
            /\ seen = [q \in ScanRequests |-> {}]

-----------------------------------------------------------------------------
(* The cluster: pods start, stop or grow older, profiles are completed. *)

ClusterChanges == /\ changes < MaxChanges
                  /\ changes' = changes + 1
                  /\ \/ \E p \in Pods : ready' = (ready \cup {p}) \ (ready \cap {p})
                        /\ UNCHANGED profiles
                     \/ \E t \in Templates : profiles' = profiles \cup {t}
                        /\ UNCHANGED ready
                  /\ UNCHANGED <<scan, sent, seen>>

-----------------------------------------------------------------------------
(* The loops of HandleImageScanningScopedRequest and HandleScopedRequest. *)

Progress(q, s) == /\ scan' = [scan EXCEPT ![q] = s]
                  /\ UNCHANGED <<ready, profiles, changes>>
Still == UNCHANGED <<sent, seen>>

\* getNamespaces: those of the scope, or all of them.
StartScan(q) ==
  /\ scan[q].at = "pending"
  /\ Progress(q, [NoScan EXCEPT !.at = "list",
                                !.spaces = IF Scope[q] = <<>> THEN AllSpaces ELSE Scope[q]])
  /\ Still

\* The list of all cannot be had, which ends the request.
NamespacesFail(q) == /\ scan[q].at = "pending"
                     /\ Scope[q] = <<>>
                     /\ Progress(q, [NoScan EXCEPT !.at = "error"])
                     /\ Still

NextNamespace(s) == [s EXCEPT !.at = "list", !.spaces = Tail(@), !.pods = {}]

SkipNamespace(q) == /\ scan[q].at = "list"
                    /\ scan[q].spaces # <<>>
                    /\ Head(scan[q].spaces) \in Excluded
                    /\ Progress(q, NextNamespace(scan[q]))
                    /\ Still

\* The pods as they are when they are listed; one that is not ready is skipped.
ListPods(q) ==
  /\ scan[q].at = "list"
  /\ scan[q].spaces # <<>>
  /\ Head(scan[q].spaces) \notin Excluded
  /\ Progress(q, [scan[q] EXCEPT
                    !.at = "pods",
                    !.pods = {p \in Pods : /\ NamespaceOf[p] = Head(scan[q].spaces)
                                           /\ q \in Itemized \/ p \in ready}])
  /\ Still

\* A page of the list cannot be read: the rest of the namespace is given up.
ListFails(q) == /\ scan[q].at \in {"list", "pods"}
                /\ scan[q].spaces # <<>>
                /\ Head(scan[q].spaces) \notin Excluded
                /\ Progress(q, [NextNamespace(scan[q]) EXCEPT !.errors = TRUE])
                /\ Still

EndNamespace(q) == /\ scan[q].at = "pods"
                   /\ scan[q].pods = {}
                   /\ Progress(q, NextNamespace(scan[q]))
                   /\ Still

NextPod(q, p) == /\ scan[q].at = "pods"
                 /\ p \in scan[q].pods
                 /\ q \notin Itemized
                 /\ Progress(q, [scan[q] EXCEPT !.at = "containers", !.pods = @ \ {p},
                                                !.pod = p, !.left = Containers])
                 /\ Still

\* Any other command runs for the pod; a failure is one of the errors.
ItemizedPod(q, p) == /\ scan[q].at = "pods"
                     /\ p \in scan[q].pods
                     /\ q \in Itemized
                     /\ \E failed \in BOOLEAN :
                          Progress(q, [scan[q] EXCEPT !.pods = @ \ {p},
                                                      !.errors = @ \/ failed])
                     /\ Still

EndPod(q) == /\ scan[q].at = "containers"
             /\ scan[q].left = {}
             /\ Progress(q, [scan[q] EXCEPT !.at = "pods", !.pod = NoPod])
             /\ Still

\* The errors collected decide the outcome.
EndScan(q) == /\ scan[q].at = "list"
              /\ scan[q].spaces = <<>>
              /\ Progress(q, [scan[q] EXCEPT !.at = IF scan[q].errors THEN "error" ELSE "success"])
              /\ Still

-----------------------------------------------------------------------------
(* One container. *)

ContainerSlug(q, c) == Slug(TemplateOf[scan[q].pod], c)
Chosen(q, c) == [scan[q] EXCEPT !.left = @ \ {c}]

AtContainer(q, c) == scan[q].at = "containers" /\ c \in scan[q].left
IsScanned(q, c) == ContainerSlug(q, c) \in scan[q].slugs

SkipScanned(q, c) == /\ AtContainer(q, c) /\ IsScanned(q, c)
                     /\ Progress(q, Chosen(q, c))
                     /\ Still

\* There is no data of the container: it has no image id yet, or the lookup of the pod's
\* parent fails.  It is passed over, and that is no error.
SkipNoData(q, c) == /\ AtContainer(q, c) /\ ~IsScanned(q, c)
                    /\ Progress(q, Chosen(q, c))
                    /\ Still

\* What the command for a container scans: the profile, looked up for the workload, in
\* place of the image.
ScanCommand(q, c) == LET t == TemplateOf[scan[q].pod]
                     IN  IF t \in profiles THEN Slug(t, NoContainer) ELSE Slug(t, c)

TriggerScan(q, c) ==
  /\ AtContainer(q, c) /\ ~IsScanned(q, c)
  /\ Progress(q, [Chosen(q, c) EXCEPT !.at = "post", !.refused = 0, !.slug = ScanCommand(q, c)])
  /\ seen' = [seen EXCEPT ![q] = @ \cup {ContainerSlug(q, c)}]
  /\ UNCHANGED sent

-----------------------------------------------------------------------------
(* scanImage, scanApplicationProfile and sendWorkloadWithCredentials. *)

Posted(q) == [scan[q] EXCEPT !.at = "containers", !.slug = <<>>]

\* Mutated form: a slug is not remembered.
PostAcceptedAndForgotten(q) ==
  /\ scan[q].at = "post"
  /\ Progress(q, Posted(q))
  /\ sent' = [sent EXCEPT ![q][scan[q].slug] = @ + 1]
  /\ UNCHANGED seen

\* The slug that was sent is remembered: the profile's without container.
PostAccepted(q) == /\ scan[q].at = "post"
                   /\ Progress(q, [Posted(q) EXCEPT !.slugs = @ \cup {scan[q].slug}])
                   /\ sent' = [sent EXCEPT ![q][scan[q].slug] = @ + 1]
                   /\ UNCHANGED seen

\* Mutated form: there is no limit to the attempts.
PostRefusedAgain(q) == /\ scan[q].at = "post"
                       /\ Progress(q, [scan[q] EXCEPT !.refused = 1 - @])
                       /\ Still

PostRefused(q) == /\ scan[q].at = "post"
                  /\ scan[q].refused < MaxRefused
                  /\ Progress(q, [scan[q] EXCEPT !.refused = @ + 1])
                  /\ Still

\* Mutated form: a failure is logged and the slug counts as scanned.
PostFailsSilently(q) == /\ scan[q].at = "post"
                        /\ Progress(q, [Posted(q) EXCEPT !.slugs = @ \cup {scan[q].slug}])
                        /\ Still

\* The connection is refused too often or breaks, whether the scanner got the command or
\* not, it answers an error, or it is disabled: an error, and the next container.
PostFails(q) == /\ scan[q].at = "post"
                /\ Progress(q, [Posted(q) EXCEPT !.errors = TRUE])
                /\ Still

\* No credentials for the image can be had, so it is not sent.
NoScanConfig(q) == /\ scan[q].at = "post"
                   /\ scan[q].refused = 0
                   /\ scan[q].slug[2] # NoContainer
                   /\ Progress(q, [Posted(q) EXCEPT !.errors = TRUE])
                   /\ Still

ScanStep(q) == \/ StartScan(q) \/ NamespacesFail(q)
               \/ SkipNamespace(q) \/ ListPods(q) \/ ListFails(q)
               \/ EndNamespace(q) \/ EndPod(q) \/ EndScan(q)
               \/ \E p \in Pods : NextPod(q, p) \/ ItemizedPod(q, p)
               \/ \E c \in Containers : SkipScanned(q, c) \/ SkipNoData(q, c) \/ TriggerScan(q, c)
               \/ PostAccepted(q) \/ PostRefused(q) \/ PostFails(q)
               \/ NoScanConfig(q)

-----------------------------------------------------------------------------
(* Properties. *)

ScanTypeOK == /\ ready \subseteq Pods /\ profiles \subseteq Templates
              /\ changes \in 0 .. MaxChanges
              /\ \A q \in ScanRequests :
                   /\ scan[q].at \in {"pending", "list", "pods", "containers", "post", "success",
                                      "error"}
                   /\ scan[q].pods \subseteq Pods /\ scan[q].left \subseteq Containers
                   /\ scan[q].slugs \subseteq {s \in Slugs : sent[q][s] > 0}
                   /\ scan[q].refused \in 0 .. MaxRefused
                   /\ (scan[q].at = "post") <=> (scan[q].slug \in Slugs)
              /\ sent \in [ScanRequests -> [Slugs -> Nat]]
              /\ seen \in [ScanRequests -> SUBSET Slugs]

\* A request ends in success only if the scanner accepted every container it came to and
\* had data of, by itself or with its workload's profile, though profiles come up between
\* two containers and a replica is skipped for what another one was scanned for.  The
\* containers that are passed over (SkipNoData) count neither as covered nor as an error.
SuccessMeansCovered ==
  \A q \in ScanRequests : scan[q].at = "success" =>
    \A s \in seen[q] : sent[q][s] > 0 \/ sent[q][Slug(s[1], NoContainer)] > 0

\* What the scanner said it accepted is not sent to it again by the same request, however
\* many replicas there are and whatever fails in between.
ImageOncePerRequest ==
  \A q \in ScanRequests, t \in Templates, c \in Containers : sent[q][Slug(t, c)] <= 1
=============================================================================
