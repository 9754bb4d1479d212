---------------------- MODULE ContinuousScanning_proofs ----------------------
(***************************************************************************)
(* Theorems about CooldownQueue alone, for every finite set of keys and    *)
(* every bound on the events put, and then about ContinuousScanning, which *)
(* uses the queue, for all objects and resources.                          *)
(***************************************************************************)
EXTENDS ContinuousScanning, FiniteSetTheorems, TLAPS

-----------------------------------------------------------------------------
(* The queue. *)

\* The numbers of the events in the three places, against the newest one put.
NothingFromTheFuture ==
  \A k \in Keys : /\ pending[k] \in {0, put[k]}
                  /\ Held(k) <= put[k]
                  /\ got[k] <= put[k]

\* The evictor holds an event from the moment it took it out until it was sent.
HoldsAnEvent == evictor.at # "idle" <=> evictor.ev # 0

Inv == TypeOK /\ NewestIsSomewhere /\ NewerBehindOlder /\ NothingFromTheFuture /\ HoldsAnEvent

-----------------------------------------------------------------------------
LEMMA InitInv == Init => Inv
<1>. SUFFICES ASSUME Init PROVE Inv
  OBVIOUS
<1>. USE KeysAssumption, PutsAssumption DEF Init
<1>1. TypeOK
  <2>1. 0 \in 0 .. MaxPuts
    OBVIOUS
  <2>2. Idle \in [at : Stages, key : Keys \cup {NoKey}, ev : 0 .. MaxPuts]
    BY <2>1 DEF Idle, Stages
  <2>3. [k \in Keys |-> 0] \in [Keys -> 0 .. MaxPuts]
    BY <2>1
  <2>. QED  BY <2>2, <2>3 DEF TypeOK, Idle
<1>2. \A k \in Keys : put[k] = 0 /\ got[k] = 0 /\ pending[k] = 0 /\ Held(k) = 0
  BY DEF Held, Idle
<1>. QED
  BY <1>1, <1>2 DEF Inv, NewestIsSomewhere, NewerBehindOlder, NothingFromTheFuture,
                    HoldsAnEvent, Idle

LEMMA NextInv == Inv /\ [Next]_vars => Inv'
<1>. SUFFICES ASSUME Inv, [Next]_vars PROVE Inv'
  OBVIOUS
<1>. USE KeysAssumption, PutsAssumption DEF Inv
<1>0. /\ \A k \in Keys : put[k] \in Nat /\ got[k] \in Nat /\ pending[k] \in Nat /\ Held(k) \in Nat
      /\ evictor.ev \in Nat
  BY DEF TypeOK, Held
<1>1. ASSUME NEW k \in Keys, Enqueue(k) PROVE Inv'
  <2>1. /\ put[k] < MaxPuts
        /\ put' = [put EXCEPT ![k] = put[k] + 1]
        /\ pending' = [pending EXCEPT ![k] = put[k] + 1]
        /\ UNCHANGED <<closed, evictor, stopper, panicked, consumer, got>>
    BY <1>1 DEF Enqueue, TypeOK
  <2>2. \A j \in Keys : /\ put'[j] = IF j = k THEN put[k] + 1 ELSE put[j]
                        /\ pending'[j] = IF j = k THEN put[k] + 1 ELSE pending[j]
                        /\ got'[j] = got[j] /\ Held(j)' = Held(j)
    BY <2>1 DEF TypeOK, Held
  <2>3. TypeOK'
    <3>1. put[k] + 1 \in 0 .. MaxPuts
      BY <1>0, <2>1
    <3>. QED  BY <2>1, <3>1 DEF TypeOK
  <2>4. NewestIsSomewhere'
    BY <2>2 DEF NewestIsSomewhere
  <2>5. NewerBehindOlder' /\ NothingFromTheFuture'
    BY <1>0, <2>2 DEF NewerBehindOlder, NothingFromTheFuture
  <2>. QED  BY <2>1, <2>3, <2>4, <2>5 DEF HoldsAnEvent
<1>2. ASSUME NEW k \in Keys, Expire(k) PROVE Inv'
  <2>1. /\ evictor.at = "idle" /\ pending[k] # 0
        /\ evictor' = [at |-> "lock", key |-> k, ev |-> pending[k]]
        /\ pending' = [pending EXCEPT ![k] = 0]
        /\ UNCHANGED <<closed, stopper, panicked, consumer, put, got>>
    BY <1>2 DEF Expire
  <2>2. \A j \in Keys : /\ pending'[j] = IF j = k THEN 0 ELSE pending[j]
                        /\ Held(j) = 0
                        /\ Held(j)' = IF j = k THEN pending[k] ELSE 0
                        /\ got'[j] = got[j] /\ put'[j] = put[j]
    BY <2>1 DEF TypeOK, Held
  <2>3. TypeOK'
    BY <2>1 DEF TypeOK, Stages
  <2>4. NewestIsSomewhere'
    BY <2>2 DEF NewestIsSomewhere
  <2>5. NewerBehindOlder' /\ NothingFromTheFuture'
    BY <1>0, <2>1, <2>2 DEF NewerBehindOlder, NothingFromTheFuture
  <2>. QED  BY <2>1, <2>3, <2>4, <2>5 DEF HoldsAnEvent
<1>3. CASE LockChan
  <2>1. /\ evictor' = [evictor EXCEPT !.at = "send"] /\ evictor.at = "lock"
        /\ UNCHANGED <<closed, pending, stopper, panicked, consumer, put, got>>
    BY <1>3 DEF LockChan
  <2>2. evictor'.at = "send" /\ evictor'.key = evictor.key /\ evictor'.ev = evictor.ev
    BY <2>1 DEF TypeOK
  <2>3. \A j \in Keys : Held(j)' = Held(j)
    BY <2>2 DEF Held
  <2>4. TypeOK'
    BY <2>1, <2>2 DEF TypeOK, Stages
  <2>. QED
    BY <2>1, <2>2, <2>3, <2>4
       DEF NewestIsSomewhere, NewerBehindOlder, NothingFromTheFuture, HoldsAnEvent
<1>4. CASE Send
  <2>1. /\ evictor.at = "send" /\ evictor.key \in Keys
        /\ got' = [got EXCEPT ![evictor.key] = evictor.ev]
        /\ evictor' = Idle /\ consumer' = "handle"
        /\ UNCHANGED <<closed, pending, stopper, panicked, put>>
    BY <1>4 DEF Send, TypeOK
  <2>2. \A j \in Keys : /\ got'[j] = IF j = evictor.key THEN evictor.ev ELSE got[j]
                        /\ Held(j) = IF j = evictor.key THEN evictor.ev ELSE 0
                        /\ Held(j)' = 0
                        /\ pending'[j] = pending[j] /\ put'[j] = put[j]
    BY <2>1 DEF TypeOK, Held, Idle
  <2>3. TypeOK'
    BY <2>1 DEF TypeOK, Idle, Stages
  <2>4. evictor.ev # 0
    BY <2>1 DEF HoldsAnEvent
  <2>5. NewestIsSomewhere'
    <3>. SUFFICES ASSUME NEW j \in Keys PROVE put[j] \in {pending[j], got'[j]}
      BY <2>2 DEF NewestIsSomewhere
    <3>1. CASE j = evictor.key
      BY <1>0, <2>2, <2>4, <3>1 DEF NewestIsSomewhere, NewerBehindOlder, NothingFromTheFuture
    <3>2. CASE j # evictor.key
      BY <1>0, <2>2, <3>2 DEF NewestIsSomewhere, NothingFromTheFuture
    <3>. QED  BY <3>1, <3>2
  <2>6. NewerBehindOlder' /\ NothingFromTheFuture'
    BY <1>0, <2>2 DEF NewerBehindOlder, NothingFromTheFuture
  <2>7. HoldsAnEvent'
    BY <2>1 DEF HoldsAnEvent, Idle
  <2>. QED  BY <2>3, <2>5, <2>6, <2>7
<1>5. CASE UNCHANGED <<pending, evictor, put, got>>
           /\ (SendOnClosed \/ StopCalled \/ StopCloses \/ Handled \/ RangeEnds \/ UNCHANGED vars)
  <2>1. TypeOK'
    BY <1>5 DEF TypeOK, SendOnClosed, StopCalled, StopCloses, Handled, RangeEnds, queueVars, vars
  <2>2. \A j \in Keys : Held(j)' = Held(j)
    BY <1>5 DEF Held
  <2>. QED
    BY <1>5, <2>1, <2>2
       DEF NewestIsSomewhere, NewerBehindOlder, NothingFromTheFuture, HoldsAnEvent
<1>. QED
  BY <1>1, <1>2, <1>3, <1>4, <1>5
     DEF Next, SendOnClosed, StopCalled, StopCloses, Handled, RangeEnds, queueVars, vars

\* The inductive invariant holds in every reachable state.
THEOREM Invariance == Spec => []Inv
BY InitInv, NextInv, PTL DEF Spec

\* Every variable of the queue has its type.
THEOREM TypeCorrect == Spec => []TypeOK
<1>1. Inv => TypeOK
  BY DEF Inv
<1>. QED  BY <1>1, Invariance, PTL

\* An accepted event is never lost unless a newer one of the same object took its
\* place (Enqueue's override, cooldownqueue.go:82, and the callback's send, :44).
THEOREM NothingLost == Spec => []NewestIsSomewhere
<1>1. Inv => NewestIsSomewhere
  BY DEF Inv
<1>. QED  BY <1>1, Invariance, PTL

\* An object's events never overtake each other on their way to the consumer.
THEOREM InOrder == Spec => []NewerBehindOlder
<1>1. Inv => NewerBehindOlder
  BY DEF Inv
<1>. QED  BY <1>1, Invariance, PTL

-----------------------------------------------------------------------------
LEMMA InitMailbox == Init => MB!Init
BY DEF Init, MB!Init

LEMMA StepMailbox ==
  ASSUME Inv, [Next]_vars
  PROVE  [MB!Next]_(MB!vars)
<1>. USE KeysAssumption DEF Inv
<1>1. ASSUME NEW k \in Keys, Enqueue(k) PROVE MB!Next
  BY <1>1 DEF Enqueue, MB!Next, MB!Put
<1>2. CASE Send
  <2>1. /\ evictor.key \in Keys /\ ~closed /\ evictor.ev # 0
        /\ got' = [got EXCEPT ![evictor.key] = evictor.ev]
        /\ UNCHANGED <<closed, put>>
    BY <1>2 DEF Send, TypeOK, HoldsAnEvent
  <2>2. Held(evictor.key) = evictor.ev
    BY DEF Held
  <2>3. /\ evictor.ev > got[evictor.key] /\ evictor.ev <= put[evictor.key]
        /\ evictor.ev \in Nat /\ got[evictor.key] \in Nat /\ put[evictor.key] \in Nat
    BY <2>1, <2>2 DEF NewerBehindOlder, NothingFromTheFuture, TypeOK
  <2>4. evictor.ev \in got[evictor.key] + 1 .. put[evictor.key]
    BY <2>3
  <2>5. MB!Deliver(evictor.key)
    BY <2>1, <2>4 DEF MB!Deliver
  <2>. QED  BY <2>1, <2>5 DEF MB!Next
<1>3. CASE StopCloses
  BY <1>3 DEF StopCloses, MB!Next, MB!Close, MB!vars
<1>4. CASE UNCHANGED <<put, got, closed>>
  BY <1>4 DEF MB!vars
<1>. QED
  BY <1>1, <1>2, <1>3, <1>4
     DEF Next, Expire, LockChan, SendOnClosed, StopCalled, Handled, RangeEnds, queueVars, vars

\* The safety part of IsMailbox: the cache, its evictor, the two mutexes and the
\* channel together deliver like a mailbox with one place per object.
THEOREM MailboxSafety == Spec => MB!Init /\ [][MB!Next]_(MB!vars)
BY InitMailbox, StepMailbox, Invariance, PTL DEF Spec

-----------------------------------------------------------------------------
(* The service: its invariant. *)

AllEvents == UNION {EventsOf(k) : k \in Keys}

\* The type invariant, with the domains.
ServiceTyped ==
  /\ version \in [Keys -> 0 .. MaxVersion] /\ exists \subseteq Keys /\ missed \subseteq Keys
  /\ watch \in [GVRs -> {"none", "open", "ended"}] /\ ends \in 0 .. MaxEnds
  /\ stream \in [GVRs -> Seq(AllEvents)]
  /\ channel \in Seq(AllEvents) /\ Len(channel) <= ChanCap
  /\ launched \in BOOLEAN /\ shutdown \in BOOLEAN
  /\ events \in [Keys -> Seq(AllEvents)]
  /\ \A k \in Keys : Len(events[k]) = put[k] /\ \A i \in DOMAIN events[k] : events[k][i].key = k
  /\ work \in [at : {"none", "trigger", "clean", "report"}, key : Keys \cup {NoKey}]
  /\ scanned \in [Keys -> 0 .. MaxVersion] /\ cleaned \in [Keys -> 0 .. MaxVersion]
  /\ left \subseteq Keys

\* The worker handles an event it received, an object that is there was written, and
\* a resource's watch tells of its own objects.
ServiceOK == /\ work.at # "none" => work.key \in Keys /\ got[work.key] # 0
             /\ \A k \in exists : version[k] # 0
             /\ \A g \in GVRs : \A i \in DOMAIN stream[g] : GVROf[stream[g][i].key] = g

\* Of two events of an object the later one tells of a later change, or both of the
\* same object that is there, which a new watch tells of again.
Before(e, f) == \/ e.key # f.key
                \/ e.version < f.version
                \/ e.version = f.version /\ e.type = "present" /\ f.type = "present"

\* No event is ahead of its object.
Fits(e) == \/ e.version < version[e.key]
           \/ e.version = version[e.key] /\ (e.type = "present" <=> e.key \in exists)

\* Events keep their order in the stream of a watch, in the channel and in the queue,
\* and each was in the stream before it was in the channel, and there before the queue.
InSequence(s) == \A i, j \in DOMAIN s : i < j => Before(s[i], s[j])
Precedes(s, t) == \A i \in DOMAIN s, j \in DOMAIN t : Before(s[i], t[j])
AllFit(s) == \A i \in DOMAIN s : Fits(s[i])

EventsInOrder ==
  /\ InSequence(channel) /\ AllFit(channel)
  /\ \A k \in Keys : InSequence(events[k]) /\ AllFit(events[k]) /\ Precedes(events[k], channel)
  /\ \A g \in GVRs : InSequence(stream[g]) /\ AllFit(stream[g]) /\ Precedes(channel, stream[g])
  /\ \A k \in Keys, g \in GVRs : Precedes(events[k], stream[g])

\* What was scanned and cleaned last are events the worker received, and before the one
\* it is about to trigger a scan for or to clean.
HandledInOrder ==
  \A k \in Keys :
    /\ scanned[k] # 0 => \E i \in 1 .. got[k] :
         /\ events[k][i].type = "present" /\ events[k][i].version = scanned[k]
         /\ work.key = k /\ work.at = "trigger" => i < got[k]
    /\ cleaned[k] # 0 => \E i \in 1 .. got[k] :
         /\ events[k][i].type = "deleted" /\ events[k][i].version = cleaned[k]
         /\ work.key = k /\ work.at \in {"trigger", "clean"} => i < got[k]

\* A part of the service holds the event of an object's last change.
Tells(s, k, type) == \E i \in DOMAIN s : s[i] = Event(k, type, version[k])
Told(k, type) == \/ Tells(stream[GVROf[k]], k, type) \/ Tells(channel, k, type)
                 \/ Tells(events[k], k, type)

\* While its watch is open the service was told of an object as it is, and of its
\* deletion unless a watch missed it.
LatestIsTold ==
  \A k \in Keys : /\ k \in exists /\ watch[GVROf[k]] = "open" => Told(k, "present")
                  /\ k \notin exists \cup missed /\ version[k] # 0 => Told(k, "deleted")

ServiceInv == Inv /\ ServiceTyped /\ ServiceOK /\ EventsInOrder /\ HandledInOrder /\ LatestIsTold

-----------------------------------------------------------------------------
(* Events and sequences of events. *)

LEMMA EventFields ==
  ASSUME NEW e \in AllEvents
  PROVE  /\ e.key \in Keys /\ e.type \in {"present", "deleted"}
         /\ e.version \in Nat \ {0} /\ e.version <= MaxVersion
BY ServiceAssumption DEF AllEvents, EventsOf

LEMMA EventTyped ==
  ASSUME NEW k \in Keys, NEW type \in {"present", "deleted"}, NEW v \in 1 .. MaxVersion
  PROVE  /\ Event(k, type, v) \in AllEvents
         /\ Event(k, type, v).key = k /\ Event(k, type, v).type = type
         /\ Event(k, type, v).version = v
BY DEF Event, AllEvents, EventsOf

\* An event that comes last.
LEMMA AppendKeepsOrder ==
  ASSUME NEW s \in Seq(AllEvents), NEW e \in AllEvents
  PROVE  /\ Append(s, e) \in Seq(AllEvents) /\ Len(Append(s, e)) = Len(s) + 1
         /\ DOMAIN s = 1 .. Len(s) /\ Len(s) \in Nat /\ DOMAIN Append(s, e) = 1 .. Len(s) + 1
         /\ Append(s, e)[Len(s) + 1] = e /\ \A i \in 1 .. Len(s) : Append(s, e)[i] = s[i]
         /\ InSequence(s) /\ (\A i \in DOMAIN s : Before(s[i], e)) => InSequence(Append(s, e))
         /\ \A t : /\ Precedes(s, t) /\ (\A j \in DOMAIN t : Before(e, t[j])) => Precedes(Append(s, e), t)
                   /\ Precedes(t, s) /\ (\A j \in DOMAIN t : Before(t[j], e)) => Precedes(t, Append(s, e))
<1>. DEFINE a == Append(s, e)
<1>1. /\ a \in Seq(AllEvents) /\ Len(a) = Len(s) + 1
      /\ DOMAIN s = 1 .. Len(s) /\ Len(s) \in Nat /\ DOMAIN a = 1 .. Len(s) + 1
      /\ a[Len(s) + 1] = e /\ \A i \in 1 .. Len(s) : a[i] = s[i]
  OBVIOUS
<1>. HIDE DEF a
<1>2. ASSUME InSequence(s), \A i \in DOMAIN s : Before(s[i], e) PROVE InSequence(a)
  <2>. SUFFICES ASSUME NEW i \in DOMAIN a, NEW j \in DOMAIN a, i < j PROVE Before(a[i], a[j])
    BY DEF InSequence
  <2>1. i \in 1 .. Len(s) /\ a[i] = s[i]
    BY <1>1
  <2>2. CASE j \in 1 .. Len(s)
    BY <1>1, <1>2, <2>1, <2>2 DEF InSequence
  <2>3. CASE j = Len(s) + 1
    BY <1>1, <1>2, <2>1, <2>3
  <2>. QED  BY <1>1, <2>2, <2>3
<1>3. ASSUME NEW t, Precedes(s, t), \A j \in DOMAIN t : Before(e, t[j]) PROVE Precedes(a, t)
  <2>. SUFFICES ASSUME NEW i \in DOMAIN a, NEW j \in DOMAIN t PROVE Before(a[i], t[j])
    BY DEF Precedes
  <2>1. CASE i \in 1 .. Len(s)
    BY <1>1, <1>3, <2>1 DEF Precedes
  <2>2. CASE i = Len(s) + 1
    BY <1>1, <1>3, <2>2
  <2>. QED  BY <1>1, <2>1, <2>2
<1>4. ASSUME NEW t, Precedes(t, s), \A j \in DOMAIN t : Before(t[j], e) PROVE Precedes(t, a)
  <2>. SUFFICES ASSUME NEW i \in DOMAIN a, NEW j \in DOMAIN t PROVE Before(t[j], a[i])
    BY DEF Precedes
  <2>1. CASE i \in 1 .. Len(s)
    BY <1>1, <1>4, <2>1 DEF Precedes
  <2>2. CASE i = Len(s) + 1
    BY <1>1, <1>4, <2>2
  <2>. QED  BY <1>1, <2>1, <2>2
<1>5. InSequence(s) /\ (\A i \in DOMAIN s : Before(s[i], e)) => InSequence(a)
  BY <1>2
<1>6. \A t : /\ Precedes(s, t) /\ (\A j \in DOMAIN t : Before(e, t[j])) => Precedes(a, t)
             /\ Precedes(t, s) /\ (\A j \in DOMAIN t : Before(t[j], e)) => Precedes(t, a)
  BY <1>3, <1>4
<1>. QED  BY <1>1, <1>5, <1>6 DEF a

\* The event that comes first.
LEMMA TailKeepsOrder ==
  ASSUME NEW s \in Seq(AllEvents), s # <<>>
  PROVE  /\ Head(s) \in AllEvents /\ Head(s) = s[1] /\ 1 \in DOMAIN s
         /\ Tail(s) \in Seq(AllEvents) /\ Len(Tail(s)) = Len(s) - 1 /\ Len(s) \in Nat
         /\ DOMAIN s = 1 .. Len(s) /\ DOMAIN Tail(s) = 1 .. Len(s) - 1
         /\ \A i \in DOMAIN Tail(s) : Tail(s)[i] = s[i + 1] /\ i + 1 \in DOMAIN s
         /\ \A i \in DOMAIN s : s[i] = Head(s) \/ \E j \in DOMAIN Tail(s) : s[i] = Tail(s)[j]
         /\ InSequence(s) => /\ InSequence(Tail(s))
                             /\ \A i \in DOMAIN Tail(s) : Before(Head(s), Tail(s)[i])
         /\ \A t : Precedes(t, s) => Precedes(t, Tail(s)) /\ \A i \in DOMAIN t : Before(t[i], Head(s))
         /\ \A t : Precedes(s, t) => Precedes(Tail(s), t) /\ \A i \in DOMAIN t : Before(Head(s), t[i])
<1>. DEFINE r == Tail(s)
<1>1. /\ Head(s) \in AllEvents /\ Head(s) = s[1] /\ 1 \in DOMAIN s
      /\ r \in Seq(AllEvents) /\ Len(r) = Len(s) - 1 /\ Len(s) \in Nat
      /\ DOMAIN s = 1 .. Len(s) /\ DOMAIN r = 1 .. Len(s) - 1
      /\ \A i \in 1 .. Len(s) - 1 : r[i] = s[i + 1]
  OBVIOUS
<1>. HIDE DEF r
<1>2. \A i \in DOMAIN r : r[i] = s[i + 1] /\ i + 1 \in DOMAIN s /\ 1 < i + 1
  BY <1>1
<1>3. \A i \in DOMAIN s : s[i] = Head(s) \/ \E j \in DOMAIN r : s[i] = r[j]
  <2>. SUFFICES ASSUME NEW i \in DOMAIN s, i # 1 PROVE \E j \in DOMAIN r : s[i] = r[j]
    BY <1>1
  <2>1. i - 1 \in DOMAIN r /\ (i - 1) + 1 = i
    BY <1>1
  <2>. QED  BY <1>2, <2>1
<1>4. InSequence(s) => InSequence(r) /\ \A i \in DOMAIN r : Before(Head(s), r[i])
  BY <1>1, <1>2 DEF InSequence
<1>5. \A t : Precedes(t, s) => Precedes(t, r) /\ \A i \in DOMAIN t : Before(t[i], Head(s))
  BY <1>1, <1>2 DEF Precedes
<1>6. \A t : Precedes(s, t) => Precedes(r, t) /\ \A i \in DOMAIN t : Before(Head(s), t[i])
  BY <1>1, <1>2 DEF Precedes
<1>. QED  BY <1>1, <1>2, <1>3, <1>4, <1>5, <1>6 DEF r

\* What a watch that ended still delivers.
LEMMA PrefixKeepsOrder ==
  ASSUME NEW s \in Seq(AllEvents), NEW n \in 0 .. Len(s)
  PROVE  LET p == SubSeq(s, 1, n)
         IN  /\ p \in Seq(AllEvents) /\ DOMAIN p = 1 .. n /\ DOMAIN s = 1 .. Len(s)
             /\ \A i \in 1 .. n : p[i] = s[i] /\ i \in DOMAIN s
             /\ InSequence(s) => InSequence(p)
             /\ \A t : Precedes(t, s) => Precedes(t, p)
<1>. DEFINE p == SubSeq(s, 1, n)
<1>1. n \in Nat /\ Len(s) \in Nat /\ DOMAIN s = 1 .. Len(s)
  OBVIOUS
<1>2. /\ p \in Seq(AllEvents) /\ DOMAIN p = 1 .. n
      /\ \A i \in 1 .. n : p[i] = s[i] /\ i \in DOMAIN s
  BY <1>1
<1>. HIDE DEF p
<1>3. InSequence(s) => InSequence(p)
  BY <1>2 DEF InSequence
<1>4. \A t : Precedes(t, s) => Precedes(t, p)
  BY <1>2 DEF Precedes
<1>. QED  BY <1>1, <1>2, <1>3, <1>4 DEF p

-----------------------------------------------------------------------------
(* The start, and every step of the service as one of its queue. *)

LEMMA ServiceInitInv == ServiceInit => ServiceInv
<1>. SUFFICES ASSUME ServiceInit PROVE ServiceInv
  OBVIOUS
<1>. USE ServiceAssumption DEF ServiceInit
<1>1. Inv
  BY InitInv
<1>2. ServiceTyped
  <2>1. <<>> \in Seq(AllEvents) /\ Len(<<>>) = 0 /\ DOMAIN <<>> = {}
    OBVIOUS
  <2>2. 0 \in 0 .. MaxVersion /\ 0 \in 0 .. MaxEnds /\ 0 <= ChanCap
    OBVIOUS
  <2>3. \A k \in Keys : events[k] = <<>> /\ put[k] = 0
    BY DEF Init
  <2>4. work \in [at : {"none", "trigger", "clean", "report"}, key : Keys \cup {NoKey}]
    BY DEF NoWork
  <2>5. /\ stream \in [GVRs -> Seq(AllEvents)] /\ events \in [Keys -> Seq(AllEvents)]
        /\ channel \in Seq(AllEvents) /\ Len(channel) <= ChanCap
    BY <2>1, <2>2
  <2>6. \A k \in Keys : Len(events[k]) = put[k] /\ \A i \in DOMAIN events[k] : events[k][i].key = k
    BY <2>1, <2>3
  <2>. QED  BY <2>2, <2>4, <2>5, <2>6 DEF ServiceTyped
<1>3. ServiceOK
  BY DEF ServiceOK, NoWork
<1>4. EventsInOrder
  BY DEF EventsInOrder, InSequence, AllFit, Precedes
<1>5. HandledInOrder
  BY DEF HandledInOrder
<1>6. LatestIsTold
  BY DEF LatestIsTold
<1>. QED  BY <1>1, <1>2, <1>3, <1>4, <1>5, <1>6 DEF ServiceInv

\* An event the listener takes out of the channel is of an object that is watched.
LEMMA HeadOfChannel ==
  ASSUME ServiceTyped, channel # <<>>
  PROVE  /\ channel \in Seq(AllEvents) /\ Head(channel) \in AllEvents
         /\ Head(channel).key \in Keys
BY TailKeepsOrder, EventFields DEF ServiceTyped

\* The queue moves in its own steps only.
LEMMA StepUsesQueue ==
  ASSUME ServiceTyped, [ServiceNext]_serviceAll
  PROVE  [Next]_vars
<1>1. CASE UNCHANGED serviceAll
  BY <1>1 DEF serviceAll
<1>2. ASSUME NEW k \in Keys, Write(k) \/ Delete(k) PROVE UNCHANGED vars
  BY <1>2 DEF Write, Delete, Change
<1>3. ASSUME NEW g \in GVRs, MakeWatch(g) \/ WatchEnds(g) \/ Forward(g) PROVE UNCHANGED vars
  BY <1>3 DEF MakeWatch, WatchEnds, Forward
<1>4. CASE Launch \/ Stop
  BY <1>4 DEF Launch, Stop
<1>5. CASE Listen
  <2>1. Enqueue(Head(channel).key) /\ Head(channel).key \in Keys
    BY <1>5, HeadOfChannel DEF Listen
  <2>. QED  BY <2>1 DEF Next
<1>6. CASE ListenerEnds \/ QueueStep
  BY <1>6 DEF ListenerEnds, QueueStep, Next
<1>7. CASE Worker
  <2>1. CASE Receive
    BY <2>1 DEF Receive, Next
  <2>2. CASE WorkerEnds
    BY <2>2 DEF WorkerEnds, Next
  <2>3. CASE Trigger
    BY <2>3 DEF Trigger
  <2>4. CASE Clean \/ CleanFails
    BY <2>4 DEF Clean, CleanFails
  <2>5. CASE NothingToClean \/ Report
    BY <2>5 DEF NothingToClean, Report, Next
  <2>. QED  BY <1>7, <2>1, <2>2, <2>3, <2>4, <2>5 DEF Worker
<1>. QED  BY <1>1, <1>2, <1>3, <1>4, <1>5, <1>6, <1>7 DEF ServiceNext

\* The numbers of the queue, for the service.
LEMMA QueueNumbers ==
  ASSUME Inv, NEW k \in Keys
  PROVE  /\ put[k] \in Nat /\ got[k] \in Nat /\ got[k] <= put[k] /\ put[k] <= MaxPuts
         /\ evictor.ev \in Nat
         /\ evictor.at = "send" => /\ evictor.key \in Keys /\ evictor.ev # 0
                                   /\ evictor.ev > got[evictor.key]
                                   /\ evictor.ev <= put[evictor.key]
<1>1. /\ put[k] \in Nat /\ got[k] \in Nat /\ put[k] <= MaxPuts /\ evictor.ev \in Nat
      /\ got[k] <= put[k]
  BY PutsAssumption DEF Inv, TypeOK, NothingFromTheFuture
<1>2. ASSUME evictor.at = "send"
      PROVE  /\ evictor.key \in Keys /\ evictor.ev # 0
             /\ evictor.ev > got[evictor.key] /\ evictor.ev <= put[evictor.key]
  <2>1. evictor.key \in Keys /\ evictor.ev # 0
    BY <1>2 DEF Inv, TypeOK, HoldsAnEvent
  <2>2. Held(evictor.key) = evictor.ev
    BY DEF Held
  <2>. QED  BY <2>1, <2>2 DEF Inv, NewerBehindOlder, NothingFromTheFuture
<1>. QED  BY <1>1, <1>2

-----------------------------------------------------------------------------
(* Steps that leave the events where they are. *)

\* The cluster, the watches, the channel and the queue's history stay.
LEMMA EventsStay ==
  ASSUME UNCHANGED <<clusterVars, watchVars, channel, events>>, ServiceInv
  PROVE  EventsInOrder' /\ LatestIsTold'
<1>. USE DEF clusterVars, watchVars, ServiceInv
<1>1. EventsInOrder'
  BY DEF EventsInOrder, AllFit, Fits
<1>2. LatestIsTold'
  BY DEF LatestIsTold, Told, Tells
<1>. QED  BY <1>1, <1>2

\* A step of the queue's evictor or of its Stop, of Launch or the call of Stop.
LEMMA QueueKeeps ==
  ASSUME ServiceInv, Inv', launched' \in BOOLEAN, shutdown' \in BOOLEAN,
         UNCHANGED <<clusterVars, watchVars, channel, events, workVars, put, got>>
  PROVE  ServiceInv'
<1>. USE DEF clusterVars, watchVars, workVars, ServiceInv
<1>1. ServiceTyped'
  BY DEF ServiceTyped
<1>2. ServiceOK'
  BY DEF ServiceOK
<1>3. HandledInOrder'
  BY DEF HandledInOrder
<1>. QED  BY <1>1, <1>2, <1>3, EventsStay

-----------------------------------------------------------------------------
(* The worker. *)

\* An event is received: a newer one than the worker had of its object.
LEMMA ReceiveKeeps ==
  ASSUME ServiceInv, Inv', Receive
  PROVE  ServiceInv'
<1>. USE DEF Receive, Send, ServiceInv, clusterVars, watchVars
<1>. DEFINE k == evictor.key
<1>1. /\ k \in Keys /\ evictor.ev \in Nat \ {0} /\ evictor.ev > got[k] /\ evictor.ev <= put[k]
      /\ got \in [Keys -> 0 .. MaxPuts]
  BY QueueNumbers DEF Inv, TypeOK
<1>2. got' = [got EXCEPT ![k] = evictor.ev] /\ work' = [at |-> "trigger", key |-> k]
      /\ UNCHANGED <<put, scanned, cleaned, events>>
  OBVIOUS
<1>3. ServiceTyped'
  BY <1>1, <1>2 DEF ServiceTyped
<1>4. ServiceOK'
  BY <1>1, <1>2 DEF ServiceOK
<1>5. HandledInOrder'
  <2>. SUFFICES ASSUME NEW j \in Keys
                PROVE  /\ scanned[j] # 0 => \E i \in 1 .. got'[j] :
                            /\ events[j][i].type = "present" /\ events[j][i].version = scanned[j]
                            /\ work'.key = j /\ work'.at = "trigger" => i < got'[j]
                       /\ cleaned[j] # 0 => \E i \in 1 .. got'[j] :
                            /\ events[j][i].type = "deleted" /\ events[j][i].version = cleaned[j]
                            /\ work'.key = j /\ work'.at \in {"trigger", "clean"} => i < got'[j]
    BY <1>2 DEF HandledInOrder
  <2>1. got[j] \in Nat /\ got'[j] \in Nat /\ got[j] <= got'[j] /\ (work'.key = j => got[j] < got'[j])
    BY <1>1, <1>2
  <2>2. \A i \in 1 .. got[j] : i \in 1 .. got'[j] /\ (work'.key = j => i < got'[j])
    BY <2>1
  <2>. QED  BY <2>2 DEF HandledInOrder
<1>. QED  BY <1>3, <1>4, <1>5, EventsStay

\* The event the worker handles is one of its object's.
LEMMA CurrentEvent ==
  ASSUME ServiceInv, work.at # "none"
  PROVE  /\ work.key \in Keys /\ got[work.key] \in Nat \ {0}
         /\ got[work.key] \in DOMAIN events[work.key]
         /\ DOMAIN events[work.key] = 1 .. Len(events[work.key])
         /\ events[work.key] \in Seq(AllEvents)
         /\ Current \in AllEvents /\ Current.key = work.key
<1>. USE DEF ServiceInv
<1>1. work.key \in Keys /\ got[work.key] # 0
  BY DEF ServiceOK
<1>2. /\ got[work.key] \in Nat \ {0} /\ got[work.key] <= put[work.key]
  BY <1>1, QueueNumbers
<1>3. /\ events[work.key] \in Seq(AllEvents) /\ Len(events[work.key]) = put[work.key]
      /\ \A i \in DOMAIN events[work.key] : events[work.key][i].key = work.key
  BY <1>1 DEF ServiceTyped
<1>4. got[work.key] \in DOMAIN events[work.key] /\ DOMAIN events[work.key] = 1 .. Len(events[work.key])
  BY <1>2, <1>3
<1>. QED  BY <1>1, <1>2, <1>3, <1>4 DEF Current

\* What was scanned or cleaned before the event at hand is of an earlier change.
LEMMA CurrentIsNewer ==
  ASSUME ServiceInv, work.at # "none", NEW i \in 1 .. got[work.key], i < got[work.key]
  PROVE  /\ events[work.key][i] \in AllEvents
         /\ \/ events[work.key][i].version < Current.version
            \/ /\ events[work.key][i].version = Current.version
               /\ events[work.key][i].type = "present" /\ Current.type = "present"
<1>. USE DEF ServiceInv
<1>1. i \in DOMAIN events[work.key]
  BY CurrentEvent
<1>2. events[work.key][i] \in AllEvents /\ events[work.key][i].key = work.key
  BY <1>1, CurrentEvent DEF ServiceTyped
<1>3. Before(events[work.key][i], Current)
  BY <1>1, CurrentEvent DEF EventsInOrder, InSequence, Current
<1>. QED  BY <1>2, <1>3, CurrentEvent DEF Before

\* A scan is triggered, or not: the order of what the worker did stays.
LEMMA TriggerKeeps ==
  ASSUME ServiceInv, Inv', Trigger
  PROVE  /\ ServiceInv'
         /\ \A k \in Keys : /\ scanned'[k] # scanned[k] => scanned'[k] > scanned[k] /\ scanned'[k] > cleaned[k]
                            /\ cleaned'[k] = cleaned[k]
<1>. USE DEF Trigger, HandlerStep, Handling, vars, clusterVars, watchVars
<1>. DEFINE k == work.key
<1>1. /\ k \in Keys /\ got[k] \in Nat \ {0} /\ got[k] \in DOMAIN events[k]
      /\ Current \in AllEvents /\ Current.key = k /\ Current = events[k][got[k]]
      /\ Current.version \in Nat \ {0} /\ Current.version <= MaxVersion
  BY CurrentEvent, EventFields DEF Current
<1>2. /\ work' = [work EXCEPT !.at = "clean"] /\ work'.at = "clean" /\ work'.key = k
      /\ work \in [at : {"none", "trigger", "clean", "report"}, key : Keys \cup {NoKey}]
  BY DEF ServiceInv, ServiceTyped
<1>3. /\ scanned \in [Keys -> 0 .. MaxVersion] /\ cleaned \in [Keys -> 0 .. MaxVersion]
      /\ MaxVersion \in Nat /\ cleaned' = cleaned
      /\ \/ scanned' = scanned
         \/ scanned' = [scanned EXCEPT ![k] = Current.version] /\ Current.type = "present"
  BY ServiceAssumption DEF ServiceInv, ServiceTyped
<1>4. /\ scanned[k] \in Nat /\ cleaned[k] \in Nat
      /\ scanned[k] # 0 => scanned[k] <= Current.version
      /\ cleaned[k] # 0 => cleaned[k] < Current.version
  <2>1. scanned[k] # 0 => scanned[k] <= Current.version
    <3>. SUFFICES ASSUME scanned[k] # 0 PROVE scanned[k] <= Current.version
      OBVIOUS
    <3>1. PICK i \in 1 .. got[k] : events[k][i].version = scanned[k] /\ i < got[k]
      BY <1>1 DEF ServiceInv, HandledInOrder
    <3>2. \/ scanned[k] < Current.version
          \/ scanned[k] = Current.version
      BY <3>1, CurrentIsNewer
    <3>. QED  BY <1>1, <1>3, <3>2
  <2>2. cleaned[k] # 0 => cleaned[k] < Current.version
    <3>. SUFFICES ASSUME cleaned[k] # 0 PROVE cleaned[k] < Current.version
      OBVIOUS
    <3>1. PICK i \in 1 .. got[k] : /\ events[k][i].version = cleaned[k] /\ i < got[k]
                                   /\ events[k][i].type = "deleted"
      BY <1>1 DEF ServiceInv, HandledInOrder
    <3>. QED  BY <3>1, CurrentIsNewer
  <2>. QED  BY <1>1, <1>3, <2>1, <2>2
<1>5. \A j \in Keys : /\ scanned'[j] # scanned[j] => scanned'[j] > scanned[j] /\ scanned'[j] > cleaned[j]
                      /\ cleaned'[j] = cleaned[j]
  <2>. SUFFICES ASSUME NEW j \in Keys, scanned'[j] # scanned[j]
                PROVE  scanned'[j] > scanned[j] /\ scanned'[j] > cleaned[j]
    BY <1>3
  <2>1. j = k /\ scanned'[k] = Current.version
    BY <1>3
  <2>2. Current.version > scanned[k] /\ Current.version > cleaned[k]
    <3>1. Current.version # scanned[k]
      BY <2>1
    <3>2. Current.version \in Nat \ {0} /\ scanned[k] \in Nat /\ cleaned[k] \in Nat
      BY <1>1, <1>4
    <3>. QED  BY ONLY <1>4, <3>1, <3>2
  <2>. QED  BY <2>1, <2>2
<1>6. ServiceTyped'
  <2>1. work' \in [at : {"none", "trigger", "clean", "report"}, key : Keys \cup {NoKey}]
    BY <1>2
  <2>2. scanned' \in [Keys -> 0 .. MaxVersion]
    BY <1>1, <1>3
  <2>. QED  BY <2>1, <2>2 DEF ServiceInv, ServiceTyped
<1>7. ServiceOK'
  BY <1>1, <1>2 DEF ServiceInv, ServiceOK
<1>8. HandledInOrder'
  <2>. SUFFICES ASSUME NEW j \in Keys
                PROVE  /\ scanned'[j] # 0 => \E i \in 1 .. got[j] :
                            events[j][i].type = "present" /\ events[j][i].version = scanned'[j]
                       /\ cleaned[j] # 0 => \E i \in 1 .. got[j] :
                            /\ events[j][i].type = "deleted" /\ events[j][i].version = cleaned[j]
                            /\ k = j => i < got[j]
    BY <1>2 DEF HandledInOrder
  <2>1. CASE scanned'[j] # scanned[j]
    <3>1. j = k /\ scanned'[j] = Current.version /\ Current.type = "present" /\ got[j] \in 1 .. got[j]
      BY <1>1, <1>3, <2>1
    <3>. QED  BY <1>1, <3>1 DEF ServiceInv, HandledInOrder
  <2>2. CASE scanned'[j] = scanned[j]
    BY <2>2 DEF ServiceInv, HandledInOrder
  <2>. QED  BY <2>1, <2>2
<1>9. EventsInOrder' /\ LatestIsTold'
  BY EventsStay
<1>. QED  BY <1>5, <1>6, <1>7, <1>8, <1>9 DEF ServiceInv

\* The results of a deleted object are deleted.
LEMMA CleanKeeps ==
  ASSUME ServiceInv, Inv', Clean
  PROVE  /\ ServiceInv'
         /\ \A k \in Keys : /\ cleaned'[k] # cleaned[k] => cleaned'[k] > cleaned[k] /\ cleaned'[k] > scanned[k]
                            /\ scanned'[k] = scanned[k]
<1>. USE DEF Clean, HandlerStep, Handling, vars, clusterVars, watchVars
<1>. DEFINE k == work.key
<1>1. /\ k \in Keys /\ got[k] \in Nat \ {0} /\ got[k] \in DOMAIN events[k]
      /\ Current \in AllEvents /\ Current.key = k /\ Current = events[k][got[k]]
      /\ Current.version \in Nat \ {0} /\ Current.version <= MaxVersion
      /\ Current.type = "deleted"
  BY CurrentEvent, EventFields DEF Current
<1>2. /\ work' = [work EXCEPT !.at = "report"] /\ work'.at = "report" /\ work'.key = k
      /\ work \in [at : {"none", "trigger", "clean", "report"}, key : Keys \cup {NoKey}]
  BY DEF ServiceInv, ServiceTyped
<1>3. /\ scanned \in [Keys -> 0 .. MaxVersion] /\ cleaned \in [Keys -> 0 .. MaxVersion]
      /\ MaxVersion \in Nat /\ cleaned' = [cleaned EXCEPT ![k] = Current.version]
      /\ scanned' = scanned
  BY ServiceAssumption DEF ServiceInv, ServiceTyped
<1>4. /\ scanned[k] \in Nat /\ cleaned[k] \in Nat
      /\ scanned[k] # 0 => scanned[k] < Current.version
      /\ cleaned[k] # 0 => cleaned[k] < Current.version
  <2>1. scanned[k] # 0 => scanned[k] < Current.version
    <3>. SUFFICES ASSUME scanned[k] # 0 PROVE scanned[k] < Current.version
      OBVIOUS
    <3>1. PICK i \in 1 .. got[k] : events[k][i].version = scanned[k] /\ events[k][i].type = "present"
      BY <1>1 DEF ServiceInv, HandledInOrder
    <3>2. i < got[k]
      BY <1>1, <3>1
    <3>. QED  BY <1>1, <3>1, <3>2, CurrentIsNewer
  <2>2. cleaned[k] # 0 => cleaned[k] < Current.version
    <3>. SUFFICES ASSUME cleaned[k] # 0 PROVE cleaned[k] < Current.version
      OBVIOUS
    <3>1. PICK i \in 1 .. got[k] : events[k][i].version = cleaned[k] /\ i < got[k]
      BY <1>1 DEF ServiceInv, HandledInOrder
    <3>. QED  BY <1>1, <3>1, CurrentIsNewer
  <2>. QED  BY <1>1, <1>3, <2>1, <2>2
<1>5. \A j \in Keys : /\ cleaned'[j] # cleaned[j] => cleaned'[j] > cleaned[j] /\ cleaned'[j] > scanned[j]
                      /\ scanned'[j] = scanned[j]
  BY ONLY <1>1, <1>3, <1>4
<1>6. ServiceTyped'
  <2>1. work' \in [at : {"none", "trigger", "clean", "report"}, key : Keys \cup {NoKey}]
    BY <1>2
  <2>2. cleaned' \in [Keys -> 0 .. MaxVersion]
    BY <1>1, <1>3
  <2>. QED  BY <2>1, <2>2 DEF ServiceInv, ServiceTyped
<1>7. ServiceOK'
  BY <1>1, <1>2 DEF ServiceInv, ServiceOK
<1>8. HandledInOrder'
  <2>. SUFFICES ASSUME NEW j \in Keys
                PROVE  /\ scanned[j] # 0 => \E i \in 1 .. got[j] :
                            events[j][i].type = "present" /\ events[j][i].version = scanned[j]
                       /\ cleaned'[j] # 0 => \E i \in 1 .. got[j] :
                            events[j][i].type = "deleted" /\ events[j][i].version = cleaned'[j]
    BY <1>2, <1>3 DEF HandledInOrder
  <2>1. CASE j = k
    <3>1. cleaned'[j] = Current.version /\ got[j] \in 1 .. got[j]
      BY <1>1, <1>3, <2>1
    <3>. QED  BY <1>1, <2>1, <3>1 DEF ServiceInv, HandledInOrder
  <2>2. CASE j # k
    BY <1>3, <2>2 DEF ServiceInv, HandledInOrder
  <2>. QED  BY <2>1, <2>2
<1>9. EventsInOrder' /\ LatestIsTold'
  BY EventsStay
<1>. QED  BY <1>5, <1>6, <1>7, <1>8, <1>9 DEF ServiceInv

\* They are not deleted, for a call fails.
LEMMA CleanFailsKeeps ==
  ASSUME ServiceInv, Inv', CleanFails
  PROVE  ServiceInv'
<1>. USE DEF CleanFails, HandlerStep, Handling, vars, clusterVars, watchVars
<1>1. work.key \in Keys /\ got[work.key] # 0
  BY CurrentEvent
<1>2. /\ work' = [work EXCEPT !.at = "report"] /\ work.at = "clean"
      /\ work'.at = "report" /\ work'.key = work.key
      /\ work' \in [at : {"none", "trigger", "clean", "report"}, key : Keys \cup {NoKey}]
  BY DEF ServiceInv, ServiceTyped
<1>3. ServiceTyped' /\ ServiceOK'
  BY <1>1, <1>2 DEF ServiceInv, ServiceTyped, ServiceOK
<1>4. HandledInOrder'
  BY <1>2 DEF ServiceInv, HandledInOrder
<1>. QED  BY <1>3, <1>4, EventsStay DEF ServiceInv

\* The worker is done with an event.
LEMMA DoneKeeps ==
  ASSUME ServiceInv, Inv', NothingToClean \/ Report
  PROVE  ServiceInv'
<1>. USE DEF NothingToClean, Report, HandlerStep, Handled, NoWork, clusterVars, watchVars
<1>1. work' = [at |-> "none", key |-> NoKey]
      /\ UNCHANGED <<clusterVars, watchVars, channel, launched, shutdown, events, scanned, cleaned, put, got>>
  OBVIOUS
<1>2. ServiceTyped' /\ ServiceOK'
  BY <1>1 DEF ServiceInv, ServiceTyped, ServiceOK
<1>3. HandledInOrder'
  BY <1>1 DEF ServiceInv, HandledInOrder
<1>. QED  BY <1>1, <1>2, <1>3, EventsStay DEF ServiceInv

-----------------------------------------------------------------------------
(* The channel: the watches' side and the listener's. *)

\* An event is forwarded: from the head of a stream to the end of the channel.
LEMMA ForwardKeeps ==
  ASSUME ServiceInv, Inv', NEW g \in GVRs, Forward(g)
  PROVE  ServiceInv'
<1>. USE DEF Forward, ServiceInv, vars, clusterVars, workVars
<1>e. PICK e : e = Head(stream[g])
  OBVIOUS
<1>1. /\ stream \in [GVRs -> Seq(AllEvents)] /\ stream[g] \in Seq(AllEvents) /\ stream[g] # <<>>
      /\ channel \in Seq(AllEvents) /\ ChanCap \in Nat
  BY ServiceAssumption DEF ServiceTyped
<1>2. /\ e \in AllEvents /\ 1 \in DOMAIN stream[g] /\ e = stream[g][1]
      /\ channel' = Append(channel, e)
      /\ stream'[g] = Tail(stream[g]) /\ \A h \in GVRs \ {g} : stream'[h] = stream[h]
      /\ stream' \in [GVRs -> Seq(AllEvents)]
  BY <1>e, <1>1, TailKeepsOrder
<1>3. GVROf[e.key] = g /\ Fits(e) /\ e.key \in Keys
  BY <1>2, EventFields DEF ServiceOK, EventsInOrder, AllFit
<1>4. ServiceTyped'
  <2>1. channel' \in Seq(AllEvents) /\ Len(channel') <= ChanCap
    BY <1>1, <1>2, AppendKeepsOrder
  <2>. QED  BY <1>2, <2>1 DEF ServiceTyped
<1>5. ServiceOK'
  <2>1. \A h \in GVRs : \A i \in DOMAIN stream'[h] : \E j \in DOMAIN stream[h] : stream'[h][i] = stream[h][j]
    BY <1>1, <1>2, TailKeepsOrder
  <2>. QED  BY <2>1 DEF ServiceOK
<1>6. EventsInOrder'
  <2>1. /\ InSequence(channel') /\ AllFit(channel)'
    <3>1. \A i \in DOMAIN channel : Before(channel[i], e)
      BY <1>2 DEF EventsInOrder, Precedes
    <3>2. InSequence(channel')
      BY <1>1, <1>2, <3>1, AppendKeepsOrder DEF EventsInOrder
    <3>3. \A i \in DOMAIN channel' : Fits(channel'[i])
      BY <1>1, <1>2, <1>3, AppendKeepsOrder DEF EventsInOrder, AllFit
    <3>. QED  BY <3>2, <3>3 DEF AllFit, Fits
  <2>2. \A k \in Keys : InSequence(events'[k]) /\ AllFit(events[k])' /\ Precedes(events'[k], channel')
    <3>. SUFFICES ASSUME NEW k \in Keys PROVE AllFit(events[k])' /\ Precedes(events[k], channel')
      BY DEF EventsInOrder
    <3>1. \A i \in DOMAIN events[k] : Before(events[k][i], e)
      BY <1>2 DEF EventsInOrder, Precedes
    <3>2. Precedes(events[k], channel')
      BY <1>1, <1>2, <3>1, AppendKeepsOrder DEF EventsInOrder
    <3>. QED  BY <3>2 DEF EventsInOrder, AllFit, Fits
  <2>3. ASSUME NEW h \in GVRs
        PROVE  InSequence(stream'[h]) /\ AllFit(stream[h])' /\ Precedes(channel', stream'[h])
    <3>1. CASE h = g
      <4>1. InSequence(stream'[h]) /\ Precedes(channel, stream'[h])
            /\ \A j \in DOMAIN stream'[h] : Before(e, stream'[h][j])
        BY <1>1, <1>2, <1>e, <3>1, TailKeepsOrder DEF EventsInOrder
      <4>2. Precedes(Append(channel, e), stream'[h])
        BY ONLY <1>1, <1>2, <4>1, AppendKeepsOrder
      <4>3. \A i \in DOMAIN stream'[h] : Fits(stream'[h][i])
        BY <1>1, <1>2, <3>1, TailKeepsOrder DEF EventsInOrder, AllFit
      <4>4. version' = version /\ exists' = exists
        OBVIOUS
      <4>5. AllFit(stream[h])'
        BY ONLY <4>3, <4>4 DEF AllFit, Fits
      <4>. QED  BY ONLY <1>2, <4>1, <4>2, <4>5
    <3>2. CASE h # g
      <4>1. stream'[h] = stream[h] /\ InSequence(stream[h]) /\ AllFit(stream[h]) /\ Precedes(channel, stream[h])
        BY <1>2, <3>2 DEF EventsInOrder
      <4>2. \A j \in DOMAIN stream[h] : Before(e, stream[h][j])
        BY <1>3, <3>2 DEF ServiceOK, Before
      <4>3. Precedes(channel', stream[h])
        BY <1>1, <1>2, <4>1, <4>2, AppendKeepsOrder
      <4>4. version' = version /\ exists' = exists
        OBVIOUS
      <4>5. AllFit(stream[h])'
        BY ONLY <4>1, <4>4 DEF AllFit, Fits
      <4>. QED  BY ONLY <4>1, <4>3, <4>5
    <3>. QED  BY <3>1, <3>2
  <2>4. ASSUME NEW k \in Keys, NEW h \in GVRs PROVE Precedes(events'[k], stream'[h])
    BY <1>1, <1>2, TailKeepsOrder DEF EventsInOrder
  <2>. QED  BY <2>1, <2>2, <2>3, <2>4 DEF EventsInOrder
<1>7. HandledInOrder'
  BY DEF HandledInOrder
<1>8. LatestIsTold'
  <2>1. ASSUME NEW k \in Keys, NEW type, Told(k, type) PROVE Told(k, type)'
    <3>. DEFINE f == Event(k, type, version[k])
    <3>1. GVROf[k] \in GVRs
      BY ServiceAssumption
    <3>2. \A i \in DOMAIN channel : i \in DOMAIN channel' /\ channel'[i] = channel[i]
      BY <1>1, <1>2, AppendKeepsOrder
    <3>3. Len(channel) + 1 \in DOMAIN channel' /\ channel'[Len(channel) + 1] = e
      BY <1>1, <1>2, AppendKeepsOrder
    <3>4. CASE \E i \in DOMAIN stream[GVROf[k]] : stream[GVROf[k]][i] = f
      <4>1. CASE f = e
        BY <3>3, <4>1 DEF Told, Tells
      <4>2. CASE f # e /\ GVROf[k] = g
        <5>1. \E j \in DOMAIN stream'[g] : stream'[g][j] = f
          BY <1>e, <1>1, <1>2, <3>4, <4>2, TailKeepsOrder
        <5>. QED  BY <4>2, <5>1 DEF Told, Tells
      <4>3. CASE GVROf[k] # g
        BY <1>2, <3>1, <3>4, <4>3 DEF Told, Tells
      <4>. QED  BY <4>1, <4>2, <4>3
    <3>5. CASE \E i \in DOMAIN channel : channel[i] = f
      BY <3>2, <3>5 DEF Told, Tells
    <3>6. CASE \E i \in DOMAIN events[k] : events[k][i] = f
      BY <3>6 DEF Told, Tells
    <3>. QED  BY <2>1, <3>4, <3>5, <3>6 DEF Told, Tells
  <2>. QED  BY <2>1 DEF LatestIsTold
<1>. QED  BY <1>4, <1>5, <1>6, <1>7, <1>8

\* The listener puts an event into the queue.
LEMMA ListenKeeps ==
  ASSUME ServiceInv, Inv', Listen
  PROVE  ServiceInv'
<1>. USE DEF ServiceInv
<1>e. PICK e : e = Head(channel)
  OBVIOUS
<1>1. /\ events \in [Keys -> Seq(AllEvents)] /\ channel \in Seq(AllEvents) /\ channel # <<>>
      /\ e \in AllEvents /\ e.key \in Keys /\ 1 \in DOMAIN channel /\ e = channel[1]
  BY <1>e, HeadOfChannel, TailKeepsOrder DEF ServiceTyped, Listen
<1>. DEFINE k == e.key
<1>l. /\ Enqueue(k) /\ events' = [events EXCEPT ![k] = Append(events[k], e)]
      /\ channel' = Tail(channel)
      /\ UNCHANGED <<clusterVars, watchVars, launched, shutdown, workVars>>
  BY <1>e, <1>1 DEF Listen
<1>m. /\ put' = [put EXCEPT ![k] = put[k] + 1] /\ put \in [Keys -> 0 .. MaxPuts] /\ put[k] \in Nat
      /\ UNCHANGED got
  BY <1>1, <1>l, PutsAssumption DEF Enqueue, Inv, TypeOK
<1>n. events[k] \in Seq(AllEvents) /\ Append(events[k], e) \in Seq(AllEvents)
  BY <1>1, AppendKeepsOrder
<1>2. /\ channel' = Tail(channel)
      /\ events'[k] = Append(events[k], e) /\ \A j \in Keys \ {k} : events'[j] = events[j]
      /\ events' \in [Keys -> Seq(AllEvents)]
      /\ put' = [put EXCEPT ![k] = put[k] + 1] /\ put \in [Keys -> 0 .. MaxPuts] /\ put[k] \in Nat
      /\ UNCHANGED <<clusterVars, watchVars, launched, shutdown, workVars, got>>
  BY <1>1, <1>l, <1>m, <1>n
<1>. USE DEF clusterVars, watchVars, workVars
<1>3. Fits(e)
  BY <1>1 DEF EventsInOrder, AllFit
<1>a. /\ DOMAIN events[k] = 1 .. Len(events[k]) /\ Len(events[k]) \in Nat
      /\ DOMAIN events'[k] = 1 .. Len(events[k]) + 1 /\ Len(events'[k]) = Len(events[k]) + 1
      /\ events'[k][Len(events[k]) + 1] = e
      /\ \A i \in 1 .. Len(events[k]) : events'[k][i] = events[k][i]
  BY <1>1, <1>2, AppendKeepsOrder
<1>b. ASSUME NEW j \in Keys, NEW i \in DOMAIN events[j]
      PROVE  i \in DOMAIN events'[j] /\ events'[j][i] = events[j][i]
  <2>1. CASE j = k
    <3>1. i \in 1 .. Len(events[k]) /\ i \in 1 .. Len(events[k]) + 1
      BY <1>a, <1>b, <2>1
    <3>. QED  BY <1>a, <2>1, <3>1
  <2>2. CASE j # k
    BY <1>2, <2>2
  <2>. QED  BY <2>1, <2>2
<1>4. ServiceTyped'
  <2>1. channel' \in Seq(AllEvents) /\ Len(channel') <= ChanCap
    BY <1>1, <1>2, TailKeepsOrder, ServiceAssumption DEF ServiceTyped
  <2>2. ASSUME NEW j \in Keys
        PROVE  Len(events'[j]) = put'[j] /\ \A i \in DOMAIN events'[j] : events'[j][i].key = j
    <3>1. CASE j = k
      <4>1. \A i \in 1 .. Len(events[k]) + 1 : i \in 1 .. Len(events[k]) \/ i = Len(events[k]) + 1
        BY <1>a
      <4>2. /\ Len(events[k]) = put[k] /\ put'[k] = put[k] + 1
            /\ \A i \in 1 .. Len(events[k]) : events[k][i].key = k
        BY <1>1, <1>2, <1>a DEF ServiceTyped
      <4>3. \A i \in 1 .. Len(events[k]) + 1 : events'[k][i].key = k
        BY <1>a, <4>1, <4>2
      <4>. QED  BY <1>a, <3>1, <4>2, <4>3
    <3>2. CASE j # k
      BY <1>2, <3>2 DEF ServiceTyped
    <3>. QED  BY <3>1, <3>2
  <2>. QED  BY <1>2, <2>1, <2>2 DEF ServiceTyped
<1>5. ServiceOK'
  BY <1>2 DEF ServiceOK
<1>6. EventsInOrder'
  <2>1. InSequence(channel') /\ AllFit(channel)'
    <3>1. InSequence(channel')
      BY <1>1, <1>2, TailKeepsOrder DEF EventsInOrder
    <3>2. \A i \in DOMAIN channel' : Fits(channel'[i])
      BY <1>1, <1>2, TailKeepsOrder DEF EventsInOrder, AllFit
    <3>3. AllFit(channel)'
      BY <1>2, <3>2 DEF AllFit, Fits
    <3>. QED  BY <3>1, <3>3
  <2>2. ASSUME NEW j \in Keys
        PROVE  InSequence(events'[j]) /\ AllFit(events[j])' /\ Precedes(events'[j], channel')
    <3>1. CASE j = k
      <4>1. /\ \A i \in DOMAIN events[k] : Before(events[k][i], e)
            /\ \A i \in DOMAIN channel' : Before(e, channel'[i])
            /\ Precedes(events[k], channel')
        BY <1>e, <1>1, <1>2, TailKeepsOrder DEF EventsInOrder
      <4>2. InSequence(events'[k]) /\ Precedes(events'[k], channel')
        <5>1. events[k] \in Seq(AllEvents) /\ InSequence(events[k])
          BY <1>1 DEF EventsInOrder
        <5>2. InSequence(Append(events[k], e)) /\ Precedes(Append(events[k], e), channel')
          BY <1>1, <4>1, <5>1, AppendKeepsOrder
        <5>. QED  BY <1>2, <5>2
      <4>3. \A i \in DOMAIN events'[k] : Fits(events'[k][i])
        <5>1. \A i \in DOMAIN events[k] : Fits(events[k][i])
          BY <1>1 DEF EventsInOrder, AllFit
        <5>2. \A i \in DOMAIN events'[k] : i = Len(events[k]) + 1 \/ i \in DOMAIN events[k]
          BY ONLY <1>a
        <5>. QED  BY ONLY <1>a, <1>3, <5>1, <5>2
      <4>4. AllFit(events[k])'
        BY <1>2, <4>3 DEF AllFit, Fits
      <4>. QED  BY <3>1, <4>2, <4>4
    <3>2. CASE j # k
      <4>1. events'[j] = events[j] /\ InSequence(events[j]) /\ AllFit(events[j]) /\ Precedes(events[j], channel')
        BY <1>1, <1>2, <3>2, TailKeepsOrder DEF EventsInOrder
      <4>2. AllFit(events[j])'
        BY <1>2, <4>1 DEF AllFit, Fits
      <4>. QED  BY <4>1, <4>2
    <3>. QED  BY <3>1, <3>2
  <2>3. ASSUME NEW g \in GVRs
        PROVE  InSequence(stream'[g]) /\ AllFit(stream[g])' /\ Precedes(channel', stream'[g])
    BY <1>1, <1>2, TailKeepsOrder DEF EventsInOrder, AllFit, Fits
  <2>4. ASSUME NEW j \in Keys, NEW g \in GVRs PROVE Precedes(events'[j], stream'[g])
    <3>1. CASE j = k
      <4>1. \A i \in DOMAIN stream[g] : Before(e, stream[g][i])
        BY <1>1 DEF EventsInOrder, Precedes
      <4>2. Precedes(events[k], stream[g])
        BY <1>1 DEF EventsInOrder
      <4>3. Precedes(Append(events[k], e), stream[g])
        BY ONLY <1>1, <1>n, <4>1, <4>2, AppendKeepsOrder
      <4>. QED  BY <1>2, <3>1, <4>3
    <3>2. CASE j # k
      BY <1>2, <3>2 DEF EventsInOrder
    <3>. QED  BY <3>1, <3>2
  <2>. QED  BY <2>1, <2>2, <2>3, <2>4 DEF EventsInOrder
<1>7. HandledInOrder'
  <2>1. \A j \in Keys : \A i \in 1 .. got[j] : events'[j][i] = events[j][i]
    <3>. SUFFICES ASSUME NEW j \in Keys, NEW i \in 1 .. got[j] PROVE events'[j][i] = events[j][i]
      OBVIOUS
    <3>1. got[j] \in Nat /\ got[j] <= put[j] /\ put[j] = Len(events[j]) /\ events[j] \in Seq(AllEvents)
      BY <1>1, QueueNumbers DEF ServiceTyped
    <3>2. i \in DOMAIN events[j]
      BY <3>1
    <3>. QED  BY <1>b, <3>2
  <2>. SUFFICES ASSUME NEW j \in Keys
                PROVE  /\ scanned[j] # 0 => \E i \in 1 .. got[j] :
                            /\ events'[j][i].type = "present" /\ events'[j][i].version = scanned[j]
                            /\ work.key = j /\ work.at = "trigger" => i < got[j]
                       /\ cleaned[j] # 0 => \E i \in 1 .. got[j] :
                            /\ events'[j][i].type = "deleted" /\ events'[j][i].version = cleaned[j]
                            /\ work.key = j /\ work.at \in {"trigger", "clean"} => i < got[j]
    BY <1>2 DEF HandledInOrder
  <2>. QED  BY <2>1 DEF HandledInOrder
<1>8. LatestIsTold'
  <2>1. ASSUME NEW j \in Keys, NEW type, Told(j, type) PROVE Told(j, type)'
    <3>. DEFINE f == Event(j, type, version[j])
    <3>1. CASE \E i \in DOMAIN stream[GVROf[j]] : stream[GVROf[j]][i] = f
      BY <1>2, <3>1 DEF Told, Tells
    <3>2. CASE \E i \in DOMAIN channel : channel[i] = f
      <4>1. CASE f = e
        <5>1. j = k
          BY <4>1 DEF Event
        <5>2. Len(events[k]) + 1 \in DOMAIN events'[k]
          BY <1>a
        <5>. QED  BY <1>2, <1>a, <4>1, <5>1, <5>2 DEF Told, Tells
      <4>2. CASE f # e
        <5>1. \E i \in DOMAIN channel' : channel'[i] = f
          BY <1>e, <1>1, <1>2, <3>2, <4>2, TailKeepsOrder
        <5>. QED  BY <1>2, <5>1 DEF Told, Tells
      <4>. QED  BY <4>1, <4>2
    <3>3. CASE \E i \in DOMAIN events[j] : events[j][i] = f
      BY <1>2, <1>b, <3>3 DEF Told, Tells
    <3>. QED  BY <2>1, <3>1, <3>2, <3>3 DEF Told, Tells
  <2>. QED  BY <1>2, <2>1 DEF LatestIsTold
<1>. QED  BY <1>4, <1>5, <1>6, <1>7, <1>8

-----------------------------------------------------------------------------
(* The cluster and the watches. *)

\* An object changes: an event newer than all of its own goes to an open watch.
LEMMA ChangeKeeps ==
  ASSUME ServiceInv, Inv', NEW k \in Keys, NEW type \in {"present", "deleted"}, Change(k, type),
         exists' = IF type = "present" THEN exists \cup {k} ELSE exists \ {k},
         missed' \subseteq Keys,
         missed \ {k} \subseteq missed',
         type = "deleted" /\ watch[GVROf[k]] # "open" => k \in missed'
  PROVE  ServiceInv'
<1>. USE DEF ServiceInv
<1>. DEFINE g == GVROf[k]
<1>0. /\ version \in [Keys -> 0 .. MaxVersion] /\ MaxVersion \in Nat /\ g \in GVRs
      /\ version[k] < MaxVersion /\ version' = [version EXCEPT ![k] = version[k] + 1]
      /\ UNCHANGED <<vars, watch, ends, channel, launched, shutdown, events, workVars>>
  BY ServiceAssumption DEF Change, ServiceTyped
<1>1. /\ version[k] \in Nat /\ version[k] + 1 \in 1 .. MaxVersion /\ g \in GVRs
      /\ version' = [version EXCEPT ![k] = version[k] + 1] /\ version \in [Keys -> 0 .. MaxVersion]
      /\ version'[k] = version[k] + 1 /\ \A j \in Keys \ {k} : version'[j] = version[j]
      /\ UNCHANGED <<vars, watch, ends, channel, launched, shutdown, events, workVars>>
  BY <1>0
<1>e. PICK e : e = Event(k, type, version[k] + 1)
  OBVIOUS
<1>2. e \in AllEvents /\ e.key = k /\ e.type = type /\ e.version = version[k] + 1
      /\ e = Event(k, type, version'[k])
  BY <1>1, <1>e, EventTyped
<1>3. /\ stream \in [GVRs -> Seq(AllEvents)] /\ stream[g] \in Seq(AllEvents)
      /\ Append(stream[g], e) \in Seq(AllEvents)
      /\ channel \in Seq(AllEvents) /\ events \in [Keys -> Seq(AllEvents)]
  BY <1>1, <1>2, AppendKeepsOrder DEF ServiceTyped
<1>4. /\ stream' \in [GVRs -> Seq(AllEvents)]
      /\ stream'[g] = (IF watch[g] = "open" THEN Append(stream[g], e) ELSE stream[g])
      /\ \A h \in GVRs \ {g} : stream'[h] = stream[h]
  BY <1>1, <1>3, <1>e DEF Change
<1>5. ASSUME NEW f \in AllEvents, Fits(f)
      PROVE  Fits(f)' /\ Before(f, e)
  <2>1. f.key \in Keys /\ f.version \in Nat /\ version[f.key] \in Nat
    BY <1>1, EventFields DEF ServiceTyped
  <2>2. CASE f.key = k
    BY <1>1, <1>2, <1>5, <2>1, <2>2 DEF Fits, Before
  <2>3. CASE f.key # k
    <3>1. version'[f.key] = version[f.key] /\ (f.key \in exists' <=> f.key \in exists)
      BY <1>1, <2>1, <2>3
    <3>. QED  BY <1>2, <1>5, <2>3, <3>1 DEF Fits, Before
  <2>. QED  BY <2>2, <2>3
<1>6. Fits(e)'
  <2>1. e.key = k /\ e.version = version'[k] /\ (type = "present" <=> k \in exists')
    BY <1>1, <1>2
  <2>. QED  BY <1>2, <2>1 DEF Fits
<1>7. \A s \in Seq(AllEvents) : AllFit(s) => AllFit(s)' /\ \A i \in DOMAIN s : Before(s[i], e)
  <2>. SUFFICES ASSUME NEW s \in Seq(AllEvents), AllFit(s), NEW i \in DOMAIN s
                PROVE  Fits(s[i])' /\ Before(s[i], e)
    BY DEF AllFit
  <2>1. s[i] \in AllEvents /\ Fits(s[i])
    BY DEF AllFit
  <2>. QED  BY <1>5, <2>1
<1>8. ServiceTyped'
  <2>1. version' \in [Keys -> 0 .. MaxVersion]
    BY <1>1
  <2>2. exists' \subseteq Keys
    BY DEF ServiceTyped
  <2>. QED  BY <1>1, <1>4, <2>1, <2>2 DEF ServiceTyped, vars, workVars
<1>9. ServiceOK'
  <2>1. work.at # "none" => work.key \in Keys /\ got[work.key] # 0
    BY DEF ServiceOK
  <2>2. \A j \in exists' : version'[j] # 0
    BY <1>1 DEF ServiceOK, ServiceTyped
  <2>3. ASSUME NEW h \in GVRs, NEW i \in DOMAIN stream'[h] PROVE GVROf[stream'[h][i].key] = h
    <3>1. CASE stream'[h] = stream[h]
      BY <2>3, <3>1 DEF ServiceOK
    <3>2. CASE stream'[h] # stream[h]
      <4>1. h = g /\ stream'[g] = Append(stream[g], e)
        BY <1>4, <3>2
      <4>2. i = Len(stream[g]) + 1 \/ i \in DOMAIN stream[g]
        BY <1>2, <1>3, <2>3, <4>1, AppendKeepsOrder
      <4>3. stream'[g][i] = e \/ (i \in DOMAIN stream[g] /\ stream'[g][i] = stream[g][i])
        BY <1>2, <1>3, <4>1, <4>2, AppendKeepsOrder
      <4>. QED  BY <1>1, <1>2, <4>1, <4>3 DEF ServiceOK
    <3>. QED  BY <3>1, <3>2
  <2>. QED  BY <1>1, <2>1, <2>2, <2>3 DEF ServiceOK, vars, workVars
<1>10. EventsInOrder'
  <2>1. InSequence(channel') /\ AllFit(channel)' /\ \A i \in DOMAIN channel : Before(channel[i], e)
    <3>1. AllFit(channel) /\ InSequence(channel) /\ channel' = channel
      BY <1>1 DEF EventsInOrder
    <3>2. \A i \in DOMAIN channel : Fits(channel[i])' /\ Before(channel[i], e)
      BY <1>3, <1>5, <3>1 DEF AllFit
    <3>. QED  BY <3>1, <3>2 DEF AllFit, Fits
  <2>2. ASSUME NEW j \in Keys
        PROVE  /\ InSequence(events'[j]) /\ AllFit(events[j])' /\ Precedes(events'[j], channel')
               /\ \A i \in DOMAIN events[j] : Before(events[j][i], e)
    <3>1. /\ events' = events /\ channel' = channel /\ events[j] \in Seq(AllEvents)
          /\ AllFit(events[j]) /\ InSequence(events[j]) /\ Precedes(events[j], channel)
      BY <1>1, <1>3 DEF EventsInOrder
    <3>2. \A i \in DOMAIN events[j] : Fits(events[j][i])' /\ Before(events[j][i], e)
      BY <1>5, <3>1 DEF AllFit
    <3>. QED  BY <3>1, <3>2 DEF AllFit, Fits
  <2>3. ASSUME NEW h \in GVRs
        PROVE  /\ InSequence(stream'[h]) /\ AllFit(stream[h])' /\ Precedes(channel', stream'[h])
               /\ \A j \in Keys : Precedes(events'[j], stream'[h])
    <3>s. PICK s : s = stream[h]
      OBVIOUS
    <3>1. /\ s \in Seq(AllEvents) /\ InSequence(s) /\ AllFit(s)
          /\ Precedes(channel, s) /\ \A j \in Keys : Precedes(events[j], s)
          /\ channel' = channel /\ events' = events
      BY <1>1, <1>3, <3>s DEF EventsInOrder
    <3>2. AllFit(s)' /\ \A i \in DOMAIN s : Before(s[i], e)
      BY <1>7, <3>1
    <3>3. CASE stream'[h] = s
      <4>1. AllFit(stream[h])'
        BY <3>2, <3>3
      <4>. QED  BY <3>1, <3>3, <4>1
    <3>4. CASE stream'[h] # s
      <4>1. h = g /\ stream'[h] = Append(s, e)
        BY <1>4, <3>s, <3>4
      <4>2. InSequence(Append(s, e)) /\ Precedes(channel, Append(s, e))
        BY ONLY <1>2, <2>1, <3>1, <3>2, AppendKeepsOrder
      <4>3. \A j \in Keys : Precedes(events[j], Append(s, e))
        BY ONLY <1>2, <2>2, <3>1, AppendKeepsOrder
      <4>4. AllFit(Append(s, e))'
        <5>1. \A i \in DOMAIN Append(s, e) : Append(s, e)[i] = e \/ \E n \in DOMAIN s : Append(s, e)[i] = s[n]
          <6>1. \A i \in 1 .. Len(s) + 1 : i = Len(s) + 1 \/ i \in 1 .. Len(s)
            BY <3>1
          <6>. QED  BY <1>2, <3>1, <6>1, AppendKeepsOrder
        <5>2. \A i \in DOMAIN s : Fits(s[i])'
          BY <3>2 DEF AllFit
        <5>3. \A i \in DOMAIN Append(s, e) : Fits(Append(s, e)[i])'
          BY <1>6, <5>1, <5>2
        <5>. QED  BY <5>3 DEF AllFit
      <4>5. AllFit(stream[h])'
        BY <4>1, <4>4
      <4>. QED  BY <3>1, <4>1, <4>2, <4>3, <4>5
    <3>. QED  BY <3>3, <3>4
  <2>. QED  BY <2>1, <2>2, <2>3 DEF EventsInOrder
<1>11. HandledInOrder'
  BY <1>1 DEF HandledInOrder, vars, workVars
<1>12. LatestIsTold'
  <2>. SUFFICES ASSUME NEW j \in Keys
                PROVE  /\ j \in exists' /\ watch[GVROf[j]] = "open" => Told(j, "present")'
                       /\ j \notin exists' \cup missed' /\ version'[j] # 0 => Told(j, "deleted")'
    BY <1>1 DEF LatestIsTold
  <2>1. CASE j = k
    <3>1. ASSUME watch[g] = "open" PROVE Told(k, type)'
      <4>1. stream'[g] = Append(stream[g], e)
        BY <1>4, <3>1
      <4>2. Len(stream[g]) + 1 \in DOMAIN stream'[g] /\ stream'[g][Len(stream[g]) + 1] = e
        BY <1>2, <1>3, <4>1, AppendKeepsOrder
      <4>. QED  BY <1>2, <4>2 DEF Told, Tells
    <3>2. CASE type = "present"
      BY <2>1, <3>1, <3>2
    <3>3. CASE type = "deleted"
      BY <2>1, <3>1, <3>3
    <3>. QED  BY <3>2, <3>3
  <2>2. CASE j # k
    <3>1. /\ version'[j] = version[j] /\ (j \in exists' <=> j \in exists)
          /\ j \in missed => j \in missed'
      BY <1>1, <2>2
    <3>2. \A h \in GVRs : \A i \in DOMAIN stream[h] : i \in DOMAIN stream'[h] /\ stream'[h][i] = stream[h][i]
      <4>1. \A i \in DOMAIN stream[g] : /\ i \in DOMAIN Append(stream[g], e)
                                        /\ Append(stream[g], e)[i] = stream[g][i]
        BY <1>2, <1>3, AppendKeepsOrder
      <4>. QED  BY <1>4, <4>1
    <3>3. ASSUME NEW kind, Told(j, kind) PROVE Told(j, kind)'
      <4>1. GVROf[j] \in GVRs
        BY ServiceAssumption
      <4>2. Tells(stream[GVROf[j]], j, kind) => Tells(stream[GVROf[j]], j, kind)'
        BY <3>1, <3>2, <4>1 DEF Tells
      <4>3. /\ Tells(channel, j, kind) => Tells(channel, j, kind)'
            /\ Tells(events[j], j, kind) => Tells(events[j], j, kind)'
        BY <1>1, <3>1 DEF Tells
      <4>. QED  BY <3>3, <4>2, <4>3 DEF Told
    <3>. QED  BY <3>1, <3>3 DEF LatestIsTold
  <2>. QED  BY <2>1, <2>2
<1>. QED  BY <1>8, <1>9, <1>10, <1>11, <1>12

\* What a watch has to send is replaced by other events of its objects that fit.
LEMMA StreamKeeps ==
  ASSUME ServiceInv, NEW g \in GVRs, NEW t \in Seq(AllEvents), stream' = [stream EXCEPT ![g] = t],
         \A i \in DOMAIN t : GVROf[t[i].key] = g,
         InSequence(t), AllFit(t), Precedes(channel, t), \A k \in Keys : Precedes(events[k], t),
         watch' \in [GVRs -> {"none", "open", "ended"}], ends' \in 0 .. MaxEnds, missed' \subseteq Keys,
         UNCHANGED <<vars, version, exists, channel, launched, shutdown, events, workVars>>
  PROVE  ServiceTyped' /\ ServiceOK' /\ EventsInOrder' /\ HandledInOrder'
<1>. USE DEF ServiceInv, vars, workVars
<1>1. /\ stream' \in [GVRs -> Seq(AllEvents)] /\ stream'[g] = t
      /\ \A h \in GVRs \ {g} : stream'[h] = stream[h]
  BY DEF ServiceTyped
<1>2. ServiceTyped'
  BY <1>1 DEF ServiceTyped
<1>3. ServiceOK'
  BY <1>1 DEF ServiceOK
<1>4. EventsInOrder'
  <2>1. ASSUME NEW h \in GVRs
        PROVE  /\ InSequence(stream'[h]) /\ AllFit(stream[h])' /\ Precedes(channel, stream'[h])
               /\ \A k \in Keys : Precedes(events[k], stream'[h])
    <3>1. CASE h = g
      <4>1. AllFit(t)'
        BY DEF AllFit, Fits
      <4>. QED  BY <1>1, <3>1, <4>1
    <3>2. CASE h # g
      <4>1. stream'[h] = stream[h] /\ AllFit(stream[h])
        BY <1>1, <3>2 DEF EventsInOrder
      <4>2. AllFit(stream[h])'
        BY <4>1 DEF AllFit, Fits
      <4>. QED  BY <4>1, <4>2 DEF EventsInOrder
    <3>. QED  BY <3>1, <3>2
  <2>2. AllFit(channel)' /\ \A k \in Keys : AllFit(events[k])'
    BY DEF EventsInOrder, AllFit, Fits
  <2>. QED  BY <2>1, <2>2 DEF EventsInOrder
<1>5. HandledInOrder'
  BY DEF HandledInOrder
<1>. QED  BY <1>2, <1>3, <1>4, <1>5

\* A new watch begins with its resource's objects, as they are.
LEMMA MakeWatchKeeps ==
  ASSUME ServiceInv, Inv', NEW g \in GVRs, MakeWatch(g)
  PROVE  ServiceInv'
<1>1. PICK order \in [1 .. Cardinality(Known(g)) -> Known(g)] :
        /\ \A k \in Known(g) : \E i \in DOMAIN order : order[i] = k
        /\ stream' = [stream EXCEPT
             ![g] = [i \in DOMAIN order |-> Event(order[i], "present", version[order[i]])]]
  BY DEF MakeWatch
<1>t. PICK t : t = [i \in DOMAIN order |-> Event(order[i], "present", version[order[i]])]
  OBVIOUS
<1>2. /\ watch \in [GVRs -> {"none", "open", "ended"}] /\ ends \in 0 .. MaxEnds
      /\ stream \in [GVRs -> Seq(AllEvents)] /\ channel \in Seq(AllEvents)
      /\ events \in [Keys -> Seq(AllEvents)]
      /\ version \in [Keys -> 0 .. MaxVersion] /\ exists \subseteq Keys /\ missed \subseteq Keys
      /\ \A k \in exists : version[k] # 0
  BY DEF ServiceInv, ServiceTyped, ServiceOK
<1>3. /\ stream[g] = <<>> /\ watch' = [watch EXCEPT ![g] = "open"]
      /\ UNCHANGED <<vars, clusterVars, ends, channel, launched, shutdown, events, workVars>>
      /\ stream' = [stream EXCEPT ![g] = t]
  BY <1>1, <1>t DEF MakeWatch
<1>4. Cardinality(Known(g)) \in Nat
  <2>1. IsFiniteSet(Known(g))
    BY <1>2, KeysAssumption, FS_Subset DEF Known
  <2>. QED  BY <2>1, FS_CardinalityType
<1>5. ASSUME NEW i \in DOMAIN t
      PROVE  \E k \in Known(g) : /\ k \in Keys /\ k \in exists /\ GVROf[k] = g
                                 /\ t[i] = Event(k, "present", version[k]) /\ t[i] \in AllEvents
                                 /\ t[i].key = k /\ t[i].type = "present" /\ t[i].version = version[k]
  <2>1. order[i] \in Known(g) /\ t[i] = Event(order[i], "present", version[order[i]])
    BY <1>t
  <2>2. order[i] \in Keys /\ order[i] \in exists /\ GVROf[order[i]] = g
    BY <1>2, <2>1 DEF Known
  <2>3. version[order[i]] \in 1 .. MaxVersion
    BY <1>2, <2>2, ServiceAssumption
  <2>. QED  BY <2>1, <2>2, <2>3, EventTyped
<1>6. t \in Seq(AllEvents)
  <2>1. DOMAIN t = 1 .. Cardinality(Known(g)) /\ t = [i \in 1 .. Cardinality(Known(g)) |-> t[i]]
    BY <1>t
  <2>2. t \in [1 .. Cardinality(Known(g)) -> AllEvents]
    BY <1>5, <2>1
  <2>. QED  BY <1>4, <2>2
<1>7. ASSUME NEW e \in AllEvents, Fits(e), NEW i \in DOMAIN t
      PROVE  Before(e, t[i])
  BY <1>5, <1>7 DEF Fits, Before
<1>8. AllFit(t) /\ \A i \in DOMAIN t : t[i] \in AllEvents /\ Fits(t[i]) /\ GVROf[t[i].key] = g
  BY <1>5 DEF AllFit, Fits
<1>9. InSequence(t)
  BY <1>7, <1>8 DEF InSequence
<1>10. \A s \in Seq(AllEvents) : AllFit(s) => Precedes(s, t)
  <2>. SUFFICES ASSUME NEW s \in Seq(AllEvents), AllFit(s), NEW i \in DOMAIN s, NEW j \in DOMAIN t
                PROVE  Before(s[i], t[j])
    BY DEF Precedes
  <2>1. s[i] \in AllEvents /\ Fits(s[i])
    BY DEF AllFit
  <2>. QED  BY <1>7, <2>1
<1>11. Precedes(channel, t) /\ \A k \in Keys : Precedes(events[k], t)
  BY <1>2, <1>10 DEF ServiceInv, EventsInOrder
<1>12. ServiceTyped' /\ ServiceOK' /\ EventsInOrder' /\ HandledInOrder'
  <2>1. watch' \in [GVRs -> {"none", "open", "ended"}]
    BY <1>2, <1>3
  <2>. QED  BY <1>2, <1>3, <1>6, <1>8, <1>9, <1>11, <2>1, StreamKeeps DEF clusterVars
<1>13. LatestIsTold'
  <2>. SUFFICES ASSUME NEW k \in Keys
                PROVE  /\ k \in exists /\ watch'[GVROf[k]] = "open" => Told(k, "present")'
                       /\ k \notin exists \cup missed /\ version[k] # 0 => Told(k, "deleted")'
    BY <1>3 DEF LatestIsTold, clusterVars
  <2>1. GVROf[k] \in GVRs /\ stream'[g] = t /\ \A h \in GVRs \ {g} : stream'[h] = stream[h]
    BY <1>2, <1>3, ServiceAssumption
  <2>2. ASSUME NEW type, Told(k, type) PROVE GVROf[k] # g \/ type = "deleted" => Told(k, type)'
    <3>1. Tells(channel, k, type) \/ Tells(events[k], k, type) => Told(k, type)'
      BY <1>3 DEF Told, Tells, clusterVars
    <3>2. CASE GVROf[k] = g
      <4>1. ~Tells(stream[g], k, type)
        BY <1>3 DEF Tells
      <4>. QED  BY <2>2, <3>1, <3>2, <4>1 DEF Told
    <3>3. CASE GVROf[k] # g
      <4>1. Tells(stream[GVROf[k]], k, type) => Told(k, type)'
        BY <1>3, <2>1, <3>3 DEF Told, Tells, clusterVars
      <4>. QED  BY <2>2, <3>1, <4>1 DEF Told
    <3>. QED  BY <3>2, <3>3
  <2>3. ASSUME k \in exists, GVROf[k] = g PROVE Told(k, "present")'
    <3>1. PICK i \in DOMAIN order : order[i] = k
      BY <1>1, <2>3 DEF Known
    <3>2. i \in DOMAIN t /\ t[i] = Event(k, "present", version[k])
      BY <1>t, <3>1
    <3>. QED  BY <1>3, <2>1, <2>3, <3>2 DEF Told, Tells, clusterVars
  <2>4. ASSUME k \in exists, watch'[GVROf[k]] = "open", GVROf[k] # g PROVE Told(k, "present")
    BY <1>2, <1>3, <2>1, <2>4 DEF ServiceInv, LatestIsTold
  <2>5. ASSUME k \notin exists \cup missed, version[k] # 0 PROVE Told(k, "deleted")
    BY <2>5 DEF ServiceInv, LatestIsTold
  <2>. QED  BY <2>2, <2>3, <2>4, <2>5
<1>. QED  BY <1>12, <1>13 DEF ServiceInv

\* What an ended watch does not deliver any more.
LEMMA SuffixHasTheRest ==
  ASSUME NEW s \in Seq(AllEvents), NEW n \in 0 .. Len(s), NEW i \in DOMAIN s, i > n
  PROVE  LET r == SubSeq(s, n + 1, Len(s)) IN \E j \in DOMAIN r : r[j] = s[i]
<1>1. /\ n \in Nat /\ Len(s) \in Nat /\ i \in 1 .. Len(s)
      /\ n + 1 \in Nat /\ n + 1 >= 1 /\ n + 1 <= Len(s) + 1
  OBVIOUS
<1>2. DOMAIN SubSeq(s, n + 1, Len(s)) = 1 .. Len(s) - n
  BY <1>1
<1>3. i - n \in 1 .. Len(s) - n
  BY <1>1
<1>4. SubSeq(s, n + 1, Len(s))[i - n] = s[i]
  BY <1>1, <1>3
<1>. QED  BY <1>2, <1>3, <1>4

\* A watch ends: a deletion it did not deliver is missed.
LEMMA WatchEndsKeeps ==
  ASSUME ServiceInv, Inv', NEW g \in GVRs, WatchEnds(g)
  PROVE  ServiceInv'
<1>s. PICK s : s = stream[g]
  OBVIOUS
<1>1. PICK n \in 0 .. Len(stream[g]) :
        /\ stream' = [stream EXCEPT ![g] = SubSeq(@, 1, n)]
        /\ missed' = missed \cup {k \in Keys \ exists :
             \E e \in Deletions(SubSeq(stream[g], n + 1, Len(stream[g]))) :
               e.key = k /\ e.version = version[k]}
  BY DEF WatchEnds
<1>p. PICK p : p = SubSeq(s, 1, n)
  OBVIOUS
<1>r. PICK r : r = SubSeq(s, n + 1, Len(s))
  OBVIOUS
<1>2. /\ watch \in [GVRs -> {"none", "open", "ended"}] /\ ends \in 0 .. MaxEnds
      /\ stream \in [GVRs -> Seq(AllEvents)] /\ s \in Seq(AllEvents)
      /\ version \in [Keys -> 0 .. MaxVersion] /\ missed \subseteq Keys /\ MaxEnds \in Nat
  BY <1>s, ServiceAssumption DEF ServiceInv, ServiceTyped
<1>3. /\ watch' = [watch EXCEPT ![g] = "ended"] /\ ends' = ends + 1 /\ ends < MaxEnds
      /\ UNCHANGED <<vars, version, exists, channel, launched, shutdown, events, workVars>>
      /\ n \in 0 .. Len(s) /\ stream' = [stream EXCEPT ![g] = p]
      /\ missed' = missed \cup {k \in Keys \ exists :
                                \E e \in Deletions(r) : e.key = k /\ e.version = version[k]}
  BY <1>1, <1>s, <1>p, <1>r, <1>2 DEF WatchEnds
<1>4. /\ InSequence(s) /\ AllFit(s) /\ Precedes(channel, s) /\ \A k \in Keys : Precedes(events[k], s)
      /\ \A i \in DOMAIN s : GVROf[s[i].key] = g
  BY <1>s DEF ServiceInv, EventsInOrder, ServiceOK
<1>5. /\ p \in Seq(AllEvents) /\ DOMAIN p = 1 .. n /\ DOMAIN s = 1 .. Len(s)
      /\ \A i \in 1 .. n : p[i] = s[i] /\ i \in DOMAIN s
      /\ InSequence(p) /\ Precedes(channel, p) /\ \A k \in Keys : Precedes(events[k], p)
  BY <1>2, <1>3, <1>4, <1>p, PrefixKeepsOrder
<1>6. AllFit(p) /\ \A i \in DOMAIN p : GVROf[p[i].key] = g
  BY <1>4, <1>5 DEF AllFit
<1>7. ServiceTyped' /\ ServiceOK' /\ EventsInOrder' /\ HandledInOrder'
  <2>1. /\ watch' \in [GVRs -> {"none", "open", "ended"}] /\ ends' \in 0 .. MaxEnds
        /\ missed' \subseteq Keys
    BY <1>2, <1>3
  <2>. QED  BY <1>3, <1>5, <1>6, <2>1, StreamKeeps
<1>8. LatestIsTold'
  <2>. SUFFICES ASSUME NEW k \in Keys
                PROVE  /\ k \in exists /\ watch'[GVROf[k]] = "open" => Told(k, "present")'
                       /\ k \notin exists \cup missed' /\ version[k] # 0 => Told(k, "deleted")'
    BY <1>3 DEF LatestIsTold
  <2>1. GVROf[k] \in GVRs /\ stream'[g] = p /\ \A h \in GVRs \ {g} : stream'[h] = stream[h]
    BY <1>2, <1>3, ServiceAssumption
  <2>2. ASSUME NEW type, Tells(channel, k, type) \/ Tells(events[k], k, type) PROVE Told(k, type)'
    BY <1>3, <2>2 DEF Told, Tells
  <2>3. ASSUME NEW type, Told(k, type), GVROf[k] # g PROVE Told(k, type)'
    <3>1. Tells(stream[GVROf[k]], k, type) => Told(k, type)'
      BY <1>3, <2>1, <2>3 DEF Told, Tells
    <3>. QED  BY <2>2, <2>3, <3>1 DEF Told
  <2>4. ASSUME k \in exists, watch'[GVROf[k]] = "open" PROVE Told(k, "present")'
    <3>1. GVROf[k] # g /\ watch[GVROf[k]] = "open"
      BY <1>2, <1>3, <2>1, <2>4
    <3>. QED  BY <2>3, <2>4, <3>1 DEF ServiceInv, LatestIsTold
  <2>5. ASSUME k \notin exists \cup missed', version[k] # 0 PROVE Told(k, "deleted")'
    <3>1. Told(k, "deleted")
      BY <1>3, <2>5 DEF ServiceInv, LatestIsTold
    <3>2. CASE GVROf[k] = g /\ Tells(stream[g], k, "deleted")
      <4>1. PICK i \in DOMAIN s : s[i] = Event(k, "deleted", version[k])
        BY <1>s, <3>2 DEF Tells
      <4>2. CASE i \in 1 .. n
        <5>1. i \in DOMAIN p /\ p[i] = Event(k, "deleted", version[k])
          BY <1>5, <4>1, <4>2
        <5>. QED  BY <1>3, <2>1, <3>2, <5>1 DEF Told, Tells
      <4>3. CASE i \notin 1 .. n
        <5>1. i > n /\ n \in Nat
          BY <1>3, <1>5, <4>3
        <5>2. \E j \in DOMAIN r : r[j] = s[i]
          BY <1>2, <1>3, <1>r, <5>1, SuffixHasTheRest
        <5>3. s[i].type = "deleted" /\ s[i].key = k /\ s[i].version = version[k]
          BY <4>1 DEF Event
        <5>4. s[i] \in Deletions(r)
          BY <5>2, <5>3 DEF Deletions
        <5>. QED  BY <1>3, <2>5, <5>3, <5>4
      <4>. QED  BY <4>2, <4>3
    <3>3. CASE GVROf[k] = g /\ ~Tells(stream[g], k, "deleted")
      BY <2>2, <3>1, <3>3 DEF Told
    <3>4. CASE GVROf[k] # g
      BY <2>3, <3>1, <3>4
    <3>. QED  BY <3>2, <3>3, <3>4
  <2>. QED  BY <2>4, <2>5
<1>. QED  BY <1>7, <1>8 DEF ServiceInv

-----------------------------------------------------------------------------
(* The service's invariant and what follows from it. *)

LEMMA ServiceNextInv == ServiceInv /\ [ServiceNext]_serviceAll => ServiceInv'
<1>. SUFFICES ASSUME ServiceInv, [ServiceNext]_serviceAll PROVE ServiceInv'
  OBVIOUS
<1>1. Inv'
  BY StepUsesQueue, NextInv DEF ServiceInv
<1>2. /\ launched \in BOOLEAN /\ shutdown \in BOOLEAN /\ exists \subseteq Keys
      /\ missed \subseteq Keys
  BY DEF ServiceInv, ServiceTyped
<1>3. CASE UNCHANGED serviceAll
  BY <1>1, <1>2, <1>3, QueueKeeps DEF serviceAll, serviceVars, vars
<1>4. ASSUME NEW k \in Keys, Write(k) PROVE ServiceInv'
  <2>1. /\ Change(k, "present") /\ exists' = exists \cup {k} /\ missed' = missed \ {k}
    BY <1>4 DEF Write
  <2>. QED  BY <1>1, <1>2, <2>1, ChangeKeeps
<1>5. ASSUME NEW k \in Keys, Delete(k) PROVE ServiceInv'
  <2>1. /\ Change(k, "deleted") /\ exists' = exists \ {k}
        /\ missed' = IF watch[GVROf[k]] = "open" THEN missed ELSE missed \cup {k}
    BY <1>5 DEF Delete
  <2>. QED  BY <1>1, <1>2, <2>1, ChangeKeeps
<1>6. ASSUME NEW g \in GVRs, MakeWatch(g) \/ WatchEnds(g) \/ Forward(g) PROVE ServiceInv'
  BY <1>1, <1>6, MakeWatchKeeps, WatchEndsKeeps, ForwardKeeps
<1>7. CASE Launch
  BY <1>1, <1>2, <1>7, QueueKeeps DEF Launch, vars
<1>8. CASE Listen
  BY <1>1, <1>8, ListenKeeps
<1>9. CASE Stop
  BY <1>1, <1>2, <1>9, QueueKeeps DEF Stop, vars
<1>10. CASE ListenerEnds
  BY <1>1, <1>2, <1>10, QueueKeeps DEF ListenerEnds, StopCalled, serviceVars
<1>11. CASE QueueStep
  BY <1>1, <1>2, <1>11, QueueKeeps
     DEF QueueStep, Expire, LockChan, SendOnClosed, StopCloses, serviceVars
<1>12. CASE Worker
  <2>1. CASE WorkerEnds
    BY <1>1, <1>2, <2>1, QueueKeeps DEF WorkerEnds, RangeEnds, serviceVars, queueVars
  <2>2. CASE Receive \/ Trigger \/ NothingToClean \/ Clean \/ CleanFails \/ Report
    BY <1>1, <2>2, ReceiveKeeps, TriggerKeeps, CleanKeeps, CleanFailsKeeps, DoneKeeps
  <2>. QED  BY <1>12, <2>1, <2>2 DEF Worker
<1>. QED
  BY <1>3, <1>4, <1>5, <1>6, <1>7, <1>8, <1>9, <1>10, <1>11, <1>12 DEF ServiceNext

\* The invariant of the service and its queue.
THEOREM ServiceInvariance == ServiceSpec => []ServiceInv
BY ServiceInitInv, ServiceNextInv, PTL DEF ServiceSpec

\* UsesQueue holds: the watches, the listener and the worker drive the queue through its
\* own operations only, so what is proved of the queue holds in the service.
THEOREM ServiceUsesQueue == ServiceSpec => UsesQueue
<1>1. ServiceInit => Init
  BY DEF ServiceInit
<1>2. ServiceInv /\ [ServiceNext]_serviceAll => [Next]_vars
  BY StepUsesQueue DEF ServiceInv
<1>. QED  BY <1>1, <1>2, ServiceInvariance, PTL DEF ServiceSpec, UsesQueue, Spec

\* ServiceTypeOK is an invariant.
THEOREM ServiceTypeCorrect == ServiceSpec => []ServiceTypeOK
<1>1. ServiceInv => ServiceTypeOK
  <2>. SUFFICES ASSUME ServiceInv PROVE ServiceTypeOK
    OBVIOUS
  <2>1. ASSUME NEW k \in Keys PROVE events[k] \in Seq(EventsOf(k)) /\ Len(events[k]) = put[k]
    <3>1. /\ events[k] \in Seq(AllEvents) /\ Len(events[k]) = put[k]
          /\ \A i \in DOMAIN events[k] : events[k][i].key = k
      BY DEF ServiceInv, ServiceTyped
    <3>2. \A e \in AllEvents : e.key = k => e \in EventsOf(k)
      BY DEF AllEvents, EventsOf
    <3>3. /\ Len(events[k]) \in Nat /\ DOMAIN events[k] = 1 .. Len(events[k])
          /\ \A i \in 1 .. Len(events[k]) : events[k][i] \in AllEvents
          /\ events[k] = [i \in 1 .. Len(events[k]) |-> events[k][i]]
      BY <3>1
    <3>4. \A i \in 1 .. Len(events[k]) : events[k][i] \in EventsOf(k)
      BY <3>1, <3>2, <3>3
    <3>5. events[k] \in [1 .. Len(events[k]) -> EventsOf(k)]
      BY <3>3, <3>4
    <3>. QED  BY <3>1, <3>3, <3>5
  <2>2. TypeOK /\ ServiceTyped
    BY DEF ServiceInv, Inv
  <2>3. \A g \in GVRs : stream[g] \in Seq(UNION {EventsOf(k) : k \in Keys})
    BY <2>2 DEF ServiceTyped, AllEvents
  <2>4. channel \in Seq(UNION {EventsOf(k) : k \in Keys}) /\ Len(channel) <= ChanCap
    BY <2>2 DEF ServiceTyped, AllEvents
  <2>. QED  BY <2>1, <2>2, <2>3, <2>4 DEF ServiceTyped, ServiceTypeOK
<1>. QED  BY <1>1, ServiceInvariance, PTL

\* The worker's scans and deletions of results go forward in the object's history: two
\* watches of one resource in a row, the channel, the queue's override and its evictor
\* never make a handler act on an older state than it acted on before.
THEOREM NeverStale == ServiceSpec => NothingStale
<1>1. ASSUME ServiceInv, ServiceInv', [ServiceNext]_serviceAll
      PROVE  [\A k \in Keys :
                /\ scanned'[k] # scanned[k] => scanned'[k] > scanned[k] /\ scanned'[k] > cleaned[k]
                /\ cleaned'[k] # cleaned[k] => cleaned'[k] > cleaned[k] /\ cleaned'[k] > scanned[k]
             ]_serviceAll
  <2>1. CASE UNCHANGED <<scanned, cleaned>>
    BY <2>1
  <2>2. CASE Trigger \/ Clean
    BY <1>1, <2>2, TriggerKeeps, CleanKeeps DEF ServiceInv
  <2>3. UNCHANGED <<scanned, cleaned>> \/ Trigger \/ Clean
    <3>1. CASE UNCHANGED serviceAll
      BY <3>1 DEF serviceAll, serviceVars, workVars
    <3>2. ASSUME NEW k \in Keys, Write(k) \/ Delete(k) PROVE UNCHANGED <<scanned, cleaned>>
      BY <3>2 DEF Write, Delete, Change, workVars
    <3>3. ASSUME NEW g \in GVRs, MakeWatch(g) \/ WatchEnds(g) \/ Forward(g)
          PROVE  UNCHANGED <<scanned, cleaned>>
      BY <3>3 DEF MakeWatch, WatchEnds, Forward, workVars
    <3>4. CASE Launch \/ Listen \/ Stop \/ ListenerEnds \/ QueueStep
      BY <3>4 DEF Launch, Listen, Stop, ListenerEnds, QueueStep, serviceVars, workVars
    <3>5. CASE Worker
      BY <3>5 DEF Worker, Receive, WorkerEnds, NothingToClean, CleanFails, Report, serviceVars, workVars
    <3>. QED  BY <1>1, <3>1, <3>2, <3>3, <3>4, <3>5 DEF ServiceNext
  <2>. QED  BY <2>1, <2>2, <2>3
<1>. QED  BY <1>1, ServiceInvariance, PTL DEF ServiceSpec, NothingStale

\* While a watch is open, nothing of an object's last change is lost between the watch
\* and the queue, and a deletion is lost only with the watch that had to tell of it.
THEOREM LatestTold == ServiceSpec => []LatestIsTold
<1>1. ServiceInv => LatestIsTold
  BY DEF ServiceInv
<1>. QED  BY <1>1, ServiceInvariance, PTL

\* The queue keeps its promises in the service: the newest event put is somewhere, and
\* no older one overtakes it.
THEOREM QueueInService == ServiceSpec => [](NewestIsSomewhere /\ NewerBehindOlder)
<1>1. ServiceInv => NewestIsSomewhere /\ NewerBehindOlder
  BY DEF ServiceInv, Inv
<1>. QED  BY <1>1, ServiceInvariance, PTL

\* And the queue delivers the service's events like a mailbox with one place per object.
THEOREM ServiceMailbox == ServiceSpec => MB!Init /\ [][MB!Next]_(MB!vars)
BY ServiceUsesQueue, MailboxSafety DEF UsesQueue
=============================================================================
