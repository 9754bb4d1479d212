---------------------------- MODULE ScanTracking ----------------------------
(***************************************************************************)
(* What the operator promises about the Kubescape scans it triggers for an *)
(* OperatorCommand: a triggered scan is tracked until its end is reported  *)
(* in the command's status, once, and it is reported in the end unless     *)
(* the tracking jams.  It jams for ever, and only when more scans are      *)
(* tracked at once than it has room for.                                   *)
(* CommandResponse is shown to implement this.                             *)
(***************************************************************************)
EXTENDS Naturals, FiniteSets

CONSTANTS Scans,        \* the scans that are tracked
          Room          \* how many the tracking has room for

VARIABLES outstanding,  \* scans triggered and not reported
          reported,     \* scans whose end was reported
          jammed        \* the tracking has come to a halt

vars == <<outstanding, reported, jammed>>

TypeOK == /\ outstanding \subseteq Scans
          /\ reported \subseteq Scans
          /\ jammed \in BOOLEAN

Init == /\ outstanding = {}
        /\ reported = {}
        /\ jammed = FALSE

Trigger(s) == /\ s \notin outstanding \cup reported
              /\ outstanding' = outstanding \cup {s}
              /\ UNCHANGED <<reported, jammed>>

Report(s) == /\ ~jammed
             /\ s \in outstanding
             /\ outstanding' = outstanding \ {s}
             /\ reported' = reported \cup {s}
             /\ UNCHANGED jammed

Jam == /\ Cardinality(outstanding) > Room
       /\ jammed' = TRUE
       /\ UNCHANGED <<outstanding, reported>>

Next == \/ \E s \in Scans : Trigger(s) \/ Report(s)
        \/ Jam

Spec == /\ Init
        /\ [][Next]_vars
        /\ \A s \in Scans : WF_vars(Report(s))
=============================================================================
