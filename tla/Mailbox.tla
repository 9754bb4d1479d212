------------------------------- MODULE Mailbox -------------------------------
(***************************************************************************)
(* What the cooldown queue promises: a mailbox with one place per key.  A  *)
(* later event of a key replaces an earlier one that was not delivered     *)
(* yet; a key's events are delivered in the order they were put, each at   *)
(* most once; while the mailbox is open a key's newest event is delivered  *)
(* in the end.                                                             *)
(***************************************************************************)
EXTENDS Naturals

CONSTANTS Keys,     \* what identifies an object
          MaxPuts   \* bound on the events put per key

VARIABLES put,      \* per key: the number of its newest event
          got,      \* per key: the number of the event delivered last
          open

vars == <<put, got, open>>

Init == /\ put = [k \in Keys |-> 0]
        /\ got = [k \in Keys |-> 0]
        /\ open = TRUE

Put(k) == /\ open
          /\ put[k] < MaxPuts
          /\ put' = [put EXCEPT ![k] = @ + 1]
          /\ UNCHANGED <<got, open>>

Deliver(k) == /\ open
              /\ \E n \in got[k] + 1 .. put[k] : got' = [got EXCEPT ![k] = n]
              /\ UNCHANGED <<put, open>>

Close == /\ open
         /\ open' = FALSE
         /\ UNCHANGED <<put, got>>

Next == \/ \E k \in Keys : Put(k) \/ Deliver(k)
        \/ Close

Spec == /\ Init
        /\ [][Next]_vars
        /\ \A k \in Keys : WF_vars(Deliver(k))
=============================================================================
