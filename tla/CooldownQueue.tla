---------------------------- MODULE CooldownQueue ----------------------------
(***************************************************************************)
(* watcher/cooldownqueue.go: events wait in an expiring cache, keyed by    *)
(* object; the cache's evictor goroutine takes an entry out when it has    *)
(* expired and hands it, in a callback, to the unbuffered ResultChan.      *)
(*                                                                         *)
(* The n-th event put for a key is the number n.  Enqueue and Closed hold  *)
(* `mu` for one step; the callback holds `chanMu` from the lock until its  *)
(* send went through, which is the time the evictor is in "send".  Time is *)
(* left out: an entry may expire at any moment after it was set.  An event *)
(* whose object has no metadata is dropped by Enqueue: no step.            *)
(***************************************************************************)
EXTENDS Naturals, FiniteSets

CONSTANTS Keys,     \* group/version/kind/namespace/name of the objects watched
          NoKey,
          MaxPuts   \* bound on the events put per key

ASSUME KeysAssumption == IsFiniteSet(Keys) /\ NoKey \notin Keys
ASSUME PutsAssumption == MaxPuts \in Nat

VARIABLES
  closed,     \* q.closed, and the channel is closed
  pending,    \* seenEvents: per key the event that waits, 0 when none does
  evictor,    \* the cache's goroutine and the event it took out
  stopper,    \* the caller of Stop
  panicked,   \* a send on the closed channel ended the program
  consumer,   \* the reader of ResultChan
  put,        \* history: per key the newest event accepted by Enqueue
  got         \* history: per key the event the consumer received last

queueVars == <<closed, pending, evictor, stopper, panicked>>
vars == <<queueVars, consumer, put, got>>

Idle == [at |-> "idle", key |-> NoKey, ev |-> 0]

Init == /\ closed = FALSE
        /\ pending = [k \in Keys |-> 0]
        /\ evictor = Idle
        /\ stopper = "none"
        /\ panicked = FALSE
        /\ consumer = "receive"
        /\ put = [k \in Keys |-> 0]
        /\ got = [k \in Keys |-> 0]

-----------------------------------------------------------------------------
\* Enqueue: refused after Stop, else the event overrides the one that waits.
Enqueue(k) == /\ ~panicked
              /\ ~closed
              /\ put[k] < MaxPuts
              /\ put' = [put EXCEPT ![k] = @ + 1]
              /\ pending' = [pending EXCEPT ![k] = put'[k]]
              /\ UNCHANGED <<closed, evictor, stopper, panicked, consumer, got>>

\* The cache (external) deletes an expired entry and calls the callback with it.
Expire(k) == /\ ~panicked
             /\ evictor.at = "idle"
             /\ pending[k] # 0
             /\ evictor' = [at |-> "lock", key |-> k, ev |-> pending[k]]
             /\ pending' = [pending EXCEPT ![k] = 0]
             /\ UNCHANGED <<closed, stopper, panicked, consumer, put, got>>

\* The callback: chanMu.Lock().  Stop holds chanMu within one step only.
LockChan == /\ ~panicked
            /\ evictor.at = "lock"
            /\ evictor' = [evictor EXCEPT !.at = "send"]
            /\ UNCHANGED <<closed, pending, stopper, panicked, consumer, put, got>>

\* Mutated forms: the entry is deleted when its callback returns; the evictor
\* does not give up the event it has sent.
SendThenDeletes ==
  /\ ~panicked
  /\ evictor.at = "send" /\ ~closed /\ consumer = "receive"
  /\ consumer' = "handle"
  /\ got' = [got EXCEPT ![evictor.key] = evictor.ev]
  /\ pending' = [pending EXCEPT ![evictor.key] = 0]
  /\ evictor' = Idle
  /\ UNCHANGED <<closed, stopper, panicked, put>>
SendKeepsEvent ==
  /\ ~panicked
  /\ evictor.at = "send" /\ ~closed /\ consumer = "receive"
  /\ consumer' = "handle"
  /\ got' = [got EXCEPT ![evictor.key] = evictor.ev]
  /\ evictor' = [evictor EXCEPT !.at = "idle"]
  /\ UNCHANGED <<closed, pending, stopper, panicked, put>>

\* The send meets the consumer's receive, and the callback unlocks chanMu.
Send == /\ ~panicked
        /\ evictor.at = "send"
        /\ ~closed
        /\ consumer = "receive"
        /\ consumer' = "handle"
        /\ got' = [got EXCEPT ![evictor.key] = evictor.ev]
        /\ evictor' = Idle
        /\ UNCHANGED <<closed, pending, stopper, panicked, put>>

\* An entry that still waited when Stop closed the channel expires afterwards.
SendOnClosed == /\ ~panicked
                /\ evictor.at = "send"
                /\ closed
                /\ panicked' = TRUE
                /\ UNCHANGED <<closed, pending, evictor, stopper, consumer, put, got>>

-----------------------------------------------------------------------------
StopCalled == /\ ~panicked
              /\ stopper = "none"
              /\ stopper' = "waiting"
              /\ UNCHANGED <<closed, pending, evictor, panicked, consumer, put, got>>

\* Stop has chanMu, so no callback is in its send, and mu, so no Enqueue runs.
StopCloses == /\ ~panicked
              /\ stopper = "waiting"
              /\ evictor.at # "send"
              /\ closed' = TRUE
              /\ stopper' = "returned"
              /\ UNCHANGED <<pending, evictor, panicked, consumer, put, got>>

-----------------------------------------------------------------------------
(* The consumer: for e := range q.ResultChan { handle e }. *)

\* Mutated form: the consumer stops reading after an event it failed to handle.
HandledOrGivesUp == /\ ~panicked
                    /\ consumer = "handle"
                    /\ consumer' \in {"receive", "ended"}
                    /\ UNCHANGED <<queueVars, put, got>>

Handled == /\ ~panicked
           /\ consumer = "handle"
           /\ consumer' = "receive"
           /\ UNCHANGED <<queueVars, put, got>>

RangeEnds == /\ ~panicked
             /\ consumer = "receive"
             /\ closed
             /\ consumer' = "ended"
             /\ UNCHANGED <<queueVars, put, got>>

-----------------------------------------------------------------------------
Next == \/ \E k \in Keys : Enqueue(k) \/ Expire(k)
        \/ LockChan \/ Send \/ SendOnClosed
        \/ StopCalled \/ StopCloses
        \/ Handled \/ RangeEnds

Spec == Init /\ [][Next]_vars

-----------------------------------------------------------------------------
(* Properties. *)

Stages == {"idle", "lock", "send"}

\* Type invariant.
TypeOK == /\ closed \in BOOLEAN /\ panicked \in BOOLEAN
          /\ pending \in [Keys -> 0 .. MaxPuts]
          /\ evictor \in [at : Stages, key : Keys \cup {NoKey}, ev : 0 .. MaxPuts]
          /\ evictor.at = "idle" <=> evictor.key = NoKey
          /\ stopper \in {"none", "waiting", "returned"}
          /\ consumer \in {"receive", "handle", "ended"}
          /\ put \in [Keys -> 0 .. MaxPuts]
          /\ got \in [Keys -> 0 .. MaxPuts]

\* The event of key k that the evictor took out, 0 when it holds none.
Held(k) == IF evictor.key = k THEN evictor.ev ELSE 0

\* The newest accepted event of a key is in the cache, with the evictor or delivered:
\* neither the override nor the hand-over to the channel loses it, before or after Stop.
NewestIsSomewhere == \A k \in Keys : put[k] \in {pending[k], Held(k), got[k]}

\* What waits is newer than what the evictor holds, and that than what was delivered:
\* an override never lets an older event of the key overtake a newer one.
NewerBehindOlder ==
  \A k \in Keys : /\ pending[k] # 0 => pending[k] > Held(k) /\ pending[k] > got[k]
                  /\ Held(k) # 0 => Held(k) > got[k]

\* The queue is a mailbox with one place per key.
MB == INSTANCE Mailbox WITH open <- ~closed
IsMailbox == MB!Spec
=============================================================================
