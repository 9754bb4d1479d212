------------------------------ MODULE MCPodWatch ------------------------------
(* Small instances of PodWatch for TLC. *)
EXTENDS PodWatch

CONSTANTS replica1, replica2, single, rs, deployment, c1, c2, i1, i2

\* One replica and a naked pod.
Mixed == {replica1, single}
NakedPods == {single}

TemplateOf == [p \in Pods |-> IF p = single THEN single ELSE rs]
WorkloadOf == [p \in Pods |-> IF p = single THEN single ELSE deployment]

OneContainer == {c1}
TwoImages == {i1, i2}
=============================================================================
