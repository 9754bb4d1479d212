--------------------------- MODULE MCRequestHandler ---------------------------
(* Instances of RequestHandler: an image scan of two namespaces, one of them excluded, *)
(* with two replicas of one workload in the other; a scoped request of another kind,   *)
(* one without id, and commands on cron jobs that may name the same one.               *)
EXTENDS RequestHandler

CONSTANTS images, pods, noId, set, update, delete, again, p1, p2, ns1, ns2, deployment, n1, n2, c1, c2

MCOp == [q \in CronRequests |-> CASE q \in {set, again} -> "set" [] q = update -> "update" [] q = delete -> "delete"]
MCTargets == [q \in CronRequests |-> IF q = set THEN 2 ELSE 1]
MCScope == [q \in ScanRequests |-> IF q = images THEN <<ns2, ns1>> ELSE <<>>]
MCAllSpaces == <<ns1>>
MCNamespaceOf == [p \in Pods |-> ns1]
MCTemplateOf == [p \in Pods |-> deployment]
=============================================================================
