-------------------------- MODULE MCAdmissionWebhook --------------------------
(* Instances of AdmissionWebhook: the two rules of the operator, a binding of all  *)
(* objects by rule id and one of a label and a namespace by tags; the reviews are  *)
(* of an exec into a pod and of an object without namespace.                       *)
EXTENDS AdmissionWebhook

CONSTANTS exec, portForward, all, some

MCDescriptors == {[id |-> "R2000", name |-> "Exec to pod", tags |-> {"exec"}],
                  [id |-> "R2001", name |-> "Port forward", tags |-> {"portforward"}]}

Entry(id, name, tags) == [id |-> id, name |-> name, tags |-> tags]
MCContents == {[entries |-> {Entry("R2000", "", {})}, labels |-> {}, namespaces |-> {}],
               [entries |-> {Entry("R1", "Port forward", {}), Entry("", "", {"exec"})},
                labels |-> {"app"}, namespaces |-> {"prod-eu"}]}

MCTarget == [r \in Reviews |->
  [namespace |-> IF r = portForward THEN NoName ELSE "prod", labels |-> {"app"},
   included |-> TRUE, fetched |-> r # portForward]]
MCBreaks == [r \in Reviews |-> IF r = portForward THEN {"R2001"} ELSE {"R2000"}]
MCWithin == [ns \in {"prod"} |-> {"prod", "prod-eu"}]
=============================================================================
