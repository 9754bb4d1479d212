------------------------- MODULE CommandWatch_proofs -------------------------
(***************************************************************************)
(* Theorems about CommandWatch, for any commands, any handlers, any sizes  *)
(* of channels and pool, and any number of changes and of ends of the      *)
(* watch.                                                                  *)
(***************************************************************************)
EXTENDS CommandWatch, FiniteSetTheorems, TLAPS

-----------------------------------------------------------------------------
(* The invariant. *)

\* The type invariant, of the receivers and what is on its way to them.
DeliveryTypeOK ==
  /\ old \subseteq Existing
  /\ chan \in [Receivers -> Seq(Objects)]
  /\ \A r \in Receivers : Len(chan[r]) <= ChanCap
  /\ target \in Objects \cup {Nothing} /\ to \subseteq registered
  /\ (target = Nothing) <=> (to = {})
  /\ handler \in [Receivers -> {"down", "idle"} \cup Objects]
  /\ jobs \in [Objects -> Nat] /\ handled \in [Objects -> Nat]
  /\ missed \subseteq Existing

\* Only an open watch delivers events, and the first one starts without a version.
WatchOK == /\ \A o \in Objects : queue[o] # Nothing => queue[o].obj = o
           /\ watch = "list" => version = 0
           /\ watch # "open" => stream = <<>>

\* An event in the log, on its way or waiting is of a command the log knows, and has
\* it completed only when its handler received it.
EventOK(e) == /\ e.obj \in Existing
              /\ e.ver <= Len(log)
              /\ e.done = TRUE => handled[e.obj] > 0

EventsOK == /\ \A e \in ToSet(log) : EventOK(e)
            /\ \A e \in ToSet(stream) : EventOK(e)
            /\ \A o \in Objects : queue[o] # Nothing => EventOK(queue[o])
            /\ evicted # Nothing => EventOK(evicted)

\* Every command in the log has a latest event: the choice in Latest is one.
LatestExists == \A o \in Existing : \E i \in DOMAIN log :
                  log[i].obj = o /\ \A j \in DOMAIN log : log[j].obj = o => j <= i

\* What a handler or a worker works on was received.
WorkWasReceived == /\ \A r \in Receivers : handler[r] \in Objects => handled[handler[r]] > 0
                   /\ \A c \in Objects : jobs[c] > 0 => handled[c] > 0

\* A command is created once, in the log and in what a watch delivers.
AddedOnce(events) ==
  \A i, j \in DOMAIN events :
    events[i].type = "Added" /\ events[j].type = "Added" /\ events[i].obj = events[j].obj
      => i = j

\* How often a command was received or may still be, from what is on its way by now,
Places(ch, c) == {i \in DOMAIN ch : ch[i] = c}
One(fact) == IF fact THEN 1 ELSE 0
Announces(e, c) == e # Nothing /\ e.obj = c /\ e.type = "Added"
Received(c) == handled[c] + Cardinality(Places(chan[Kind[c]], c))
OnWay(c) == One(target = c /\ Kind[c] \in to) + One(Announces(evicted, c))
            + One(Announces(queue[c], c)) + One(AddedIn(stream, c))

\* and how often the watch will list it or announce it before it ends again.
Pending == CASE watch = "list" -> 2 [] watch = "connect" -> 1 [] watch = "open" -> 0

\* Queue, evictor and receivers never make two of one, and each watch brings one.
CopiesBounded ==
  \A c \in Objects : Received(c) + OnWay(c) <= IF c \in Existing THEN 2 + ends - Pending ELSE 0

Inv == /\ WatchTypeOK /\ DeliveryTypeOK /\ WatchOK /\ EventsOK /\ LatestExists
       /\ WorkWasReceived /\ AddedOnce(log) /\ AddedOnce(stream) /\ NotLost /\ CopiesBounded

-----------------------------------------------------------------------------
(* Sequences of events, and the channels' sequences of commands. *)

\* What is appended is one more value.
LEMMA AppendValues ==
  ASSUME NEW S, NEW s \in Seq(S), NEW v \in S
  PROVE  /\ Append(s, v) \in Seq(S)
         /\ DOMAIN s = 1 .. Len(s) /\ Len(s) \in Nat
         /\ DOMAIN Append(s, v) = 1 .. Len(s) + 1
         /\ Len(Append(s, v)) = Len(s) + 1
         /\ Append(s, v)[Len(s) + 1] = v
         /\ \A i \in 1 .. Len(s) : Append(s, v)[i] = s[i]
         /\ ToSet(Append(s, v)) = ToSet(s) \cup {v}
<1>1. /\ Append(s, v) \in Seq(S)
      /\ DOMAIN s = 1 .. Len(s) /\ Len(s) \in Nat
      /\ DOMAIN Append(s, v) = 1 .. Len(s) + 1
      /\ Len(Append(s, v)) = Len(s) + 1
      /\ Append(s, v)[Len(s) + 1] = v
      /\ \A i \in 1 .. Len(s) : Append(s, v)[i] = s[i]
  OBVIOUS
<1>. DEFINE t == Append(s, v)
            m == Len(s) + 1
<1>2. /\ DOMAIN t = (1 .. Len(s)) \cup {m} /\ DOMAIN s = 1 .. Len(s)
      /\ t[m] = v /\ \A i \in 1 .. Len(s) : t[i] = s[i]
  BY <1>1
<1>. HIDE DEF t, m
<1>3. ToSet(t) = ToSet(s) \cup {v}
  <2>1. \A x : x \in ToSet(t) => x \in ToSet(s) \/ x = v
    BY ONLY <1>2, Zenon DEF ToSet
  <2>2. \A x : x \in ToSet(s) \/ x = v => x \in ToSet(t)
    BY ONLY <1>2, Zenon DEF ToSet
  <2>. QED  BY ONLY <2>1, <2>2
<1>. QED  BY <1>1, <1>3 DEF t

\* What is left behind the head of a sequence.
LEMMA TailValues ==
  ASSUME NEW S, NEW s \in Seq(S), s # <<>>
  PROVE  /\ Head(s) \in S /\ Head(s) = s[1] /\ Tail(s) \in Seq(S)
         /\ DOMAIN s = 1 .. Len(s) /\ Len(s) \in Nat \ {0}
         /\ DOMAIN Tail(s) = 1 .. Len(s) - 1
         /\ Len(Tail(s)) = Len(s) - 1
         /\ \A i \in 1 .. Len(s) - 1 : Tail(s)[i] = s[i + 1]
         /\ ToSet(s) = ToSet(Tail(s)) \cup {Head(s)}
<1>1. /\ Head(s) \in S /\ Head(s) = s[1] /\ Tail(s) \in Seq(S)
      /\ DOMAIN s = 1 .. Len(s) /\ Len(s) \in Nat \ {0}
      /\ DOMAIN Tail(s) = 1 .. Len(s) - 1
      /\ Len(Tail(s)) = Len(s) - 1
      /\ \A i \in 1 .. Len(s) - 1 : Tail(s)[i] = s[i + 1]
  OBVIOUS
<1>2. ASSUME NEW x \in ToSet(s) PROVE x \in ToSet(Tail(s)) \cup {Head(s)}
  <2>1. PICK i \in 1 .. Len(s) : x = s[i]
    BY <1>1, <1>2 DEF ToSet
  <2>2. CASE i # 1
    <3>1. i - 1 \in 1 .. Len(s) - 1 /\ (i - 1) + 1 = i
      BY <1>1, <2>1, <2>2
    <3>2. x = Tail(s)[i - 1]
      BY <1>1, <2>1, <3>1
    <3>. QED  BY <1>1, <3>1, <3>2 DEF ToSet
  <2>. QED  BY <1>1, <2>1, <2>2
<1>3. ASSUME NEW x \in ToSet(Tail(s)) PROVE x \in ToSet(s)
  <2>1. PICK i \in 1 .. Len(s) - 1 : x = s[i + 1]
    BY <1>1, <1>3 DEF ToSet
  <2>2. i + 1 \in 1 .. Len(s)
    BY <1>1, <2>1
  <2>. QED  BY <1>1, <2>1, <2>2 DEF ToSet
<1>4. Head(s) \in ToSet(s)
  BY <1>1 DEF ToSet
<1>. QED  BY <1>1, <1>2, <1>3, <1>4

\* A recorded event announces its command if it is the creation.
LEMMA AppendAnnounces ==
  ASSUME NEW s \in Seq(Events), NEW e \in Events
  PROVE  /\ \A c : AddedIn(Append(s, e), c) <=> AddedIn(s, c) \/ (e.obj = c /\ e.type = "Added")
         /\ AddedOnce(s) /\ (e.type = "Added" => ~AddedIn(s, e.obj)) => AddedOnce(Append(s, e))
<1>1. \A c : AddedIn(Append(s, e), c) <=> AddedIn(s, c) \/ (e.obj = c /\ e.type = "Added")
  <2>1. ToSet(Append(s, e)) = ToSet(s) \cup {e}
    BY AppendValues
  <2>. QED  BY <2>1 DEF AddedIn
<1>2. ASSUME AddedOnce(s), e.type = "Added" => ~AddedIn(s, e.obj) PROVE AddedOnce(Append(s, e))
  <2>1. \A i \in 1 .. Len(s) : ~(e.type = "Added" /\ s[i].type = "Added" /\ s[i].obj = e.obj)
    BY <1>2, AppendValues DEF AddedIn, ToSet
  <2>. QED  BY <1>2, <2>1, AppendValues DEF AddedOnce
<1>. QED  BY <1>1, <1>2

\* The head of a stream is announced once.
LEMMA TailAnnounces ==
  ASSUME NEW s \in Seq(Events), s # <<>>, AddedOnce(s)
  PROVE  /\ AddedOnce(Tail(s))
         /\ \A c : AddedIn(s, c) <=> AddedIn(Tail(s), c) \/ (Head(s).obj = c /\ Head(s).type = "Added")
         /\ Head(s).type = "Added" => ~AddedIn(Tail(s), Head(s).obj)
<1>1. \A c : AddedIn(s, c) <=> AddedIn(Tail(s), c) \/ (Head(s).obj = c /\ Head(s).type = "Added")
  <2>1. ToSet(s) = ToSet(Tail(s)) \cup {Head(s)}
    BY TailValues
  <2>. QED  BY <2>1 DEF AddedIn
<1>2. \A i \in 1 .. Len(s) - 1 : i + 1 \in 1 .. Len(s) /\ i + 1 # 1
  BY TailValues
<1>3. AddedOnce(Tail(s))
  <2>1. \A i \in DOMAIN Tail(s) : Tail(s)[i] = s[i + 1] /\ i + 1 \in DOMAIN s /\ i \in Nat
    BY <1>2, TailValues
  <2>. SUFFICES ASSUME NEW i \in DOMAIN Tail(s), NEW j \in DOMAIN Tail(s),
                       s[i + 1].type = "Added", s[j + 1].type = "Added", s[i + 1].obj = s[j + 1].obj
                PROVE  i = j
    BY <2>1 DEF AddedOnce
  <2>2. i + 1 = j + 1
    BY <2>1 DEF AddedOnce
  <2>. QED  BY <2>1, <2>2
<1>4. ASSUME Head(s).type = "Added", AddedIn(Tail(s), Head(s).obj) PROVE FALSE
  <2>1. PICK i \in 1 .. Len(s) - 1 : s[i + 1].obj = s[1].obj /\ s[i + 1].type = "Added"
    BY <1>4, TailValues DEF AddedIn, ToSet
  <2>. QED  BY <1>2, <1>4, <2>1, TailValues DEF AddedOnce
<1>. QED  BY <1>1, <1>3, <1>4

\* A watch from a resource version delivers a part of the log.
LEMMA SuffixEvents ==
  ASSUME NEW s \in Seq(Events), NEW m \in 0 .. Len(s)
  PROVE  LET rest == SubSeq(s, m + 1, Len(s))
         IN  /\ rest \in Seq(Events) /\ ToSet(rest) \subseteq ToSet(s)
             /\ AddedOnce(s) => AddedOnce(rest)
<1>. DEFINE rest == SubSeq(s, m + 1, Len(s))
<1>1. Len(s) \in Nat /\ m \in Nat /\ DOMAIN s = 1 .. Len(s)
  OBVIOUS
<1>2. /\ rest \in Seq(Events) /\ DOMAIN rest = 1 .. Len(s) - m
      /\ \A i \in 1 .. Len(s) - m : rest[i] = s[i + m]
  BY <1>1
<1>3. \A i \in 1 .. Len(s) - m : i + m \in 1 .. Len(s)
  BY <1>1
<1>4. ToSet(rest) \subseteq ToSet(s)
  BY <1>1, <1>2, <1>3 DEF ToSet
<1>5. ASSUME AddedOnce(s) PROVE AddedOnce(rest)
  BY <1>1, <1>2, <1>3, <1>5 DEF AddedOnce
<1>. QED  BY <1>2, <1>4, <1>5

\* What is recorded later is delivered later.
LEMMA SuffixGrows ==
  ASSUME NEW s \in Seq(Events), NEW e \in Events, NEW m \in 0 .. Len(s)
  PROVE  LET rest == SubSeq(s, m + 1, Len(s))
             longer == SubSeq(Append(s, e), m + 1, Len(Append(s, e)))
         IN  ToSet(rest) \cup {e} \subseteq ToSet(longer)
<1>. DEFINE rest == SubSeq(s, m + 1, Len(s))
            longer == SubSeq(Append(s, e), m + 1, Len(Append(s, e)))
<1>1. Len(s) \in Nat /\ m \in Nat /\ Len(Append(s, e)) = Len(s) + 1
  OBVIOUS
<1>2. /\ DOMAIN rest = 1 .. Len(s) - m
      /\ \A i \in 1 .. Len(s) - m : rest[i] = s[i + m]
  BY <1>1
<1>3. /\ DOMAIN longer = 1 .. Len(s) + 1 - m
      /\ \A i \in 1 .. Len(s) + 1 - m : longer[i] = Append(s, e)[i + m]
  BY <1>1
<1>4. \A i \in 1 .. Len(s) - m : i \in 1 .. Len(s) + 1 - m /\ longer[i] = rest[i]
  BY <1>1, <1>2, <1>3
<1>5. Len(s) + 1 - m \in 1 .. Len(s) + 1 - m /\ longer[Len(s) + 1 - m] = e
  BY <1>1, <1>3
<1>. QED  BY <1>2, <1>3, <1>4, <1>5, Zenon DEF ToSet

\* The places of a command in a channel are counted.
LEMMA PlacesFinite ==
  ASSUME NEW ch \in Seq(Objects), NEW c
  PROVE  /\ Places(ch, c) \subseteq 1 .. Len(ch)
         /\ IsFiniteSet(Places(ch, c)) /\ Cardinality(Places(ch, c)) \in Nat
<1>1. Len(ch) \in Nat /\ DOMAIN ch = 1 .. Len(ch)
  OBVIOUS
<1>2. IsFiniteSet(1 .. Len(ch))
  BY <1>1, FS_Interval
<1>3. Places(ch, c) \subseteq 1 .. Len(ch)
  BY <1>1 DEF Places
<1>4. IsFiniteSet(Places(ch, c))
  BY <1>2, <1>3, FS_Subset
<1>. QED  BY <1>3, <1>4, FS_CardinalityType

\* A command that is sent takes one place more.
LEMMA PlacesAppend ==
  ASSUME NEW ch \in Seq(Objects), NEW c \in Objects, NEW d \in Objects
  PROVE  /\ Cardinality(Places(ch, c)) \in Nat
         /\ Cardinality(Places(Append(ch, d), c)) = Cardinality(Places(ch, c)) + One(c = d)
<1>1. IsFiniteSet(Places(ch, c)) /\ Places(ch, c) \subseteq 1 .. Len(ch)
  BY PlacesFinite
<1>2. Places(Append(ch, d), c) = Places(ch, c) \cup (IF c = d THEN {Len(ch) + 1} ELSE {})
  BY AppendValues DEF Places
<1>3. Len(ch) + 1 \notin Places(ch, c)
  BY <1>1, AppendValues
<1>4. CASE c = d
  <2>1. Cardinality(Places(Append(ch, d), c)) = Cardinality(Places(ch, c)) + 1
    BY <1>1, <1>2, <1>3, <1>4, FS_AddElement
  <2>. QED  BY <1>4, <2>1, PlacesFinite DEF One
<1>5. CASE c # d
  BY <1>2, <1>5, PlacesFinite DEF One
<1>. QED  BY <1>4, <1>5

\* A command that is received takes one place less.
LEMMA PlacesTail ==
  ASSUME NEW ch \in Seq(Objects), NEW c \in Objects, ch # <<>>
  PROVE  /\ Cardinality(Places(Tail(ch), c)) \in Nat
         /\ Cardinality(Places(ch, c)) = Cardinality(Places(Tail(ch), c)) + One(c = Head(ch))
<1>. DEFINE later == Places(ch, c) \ {1}
            shift == [i \in Places(Tail(ch), c) |-> i + 1]
<1>1. /\ IsFiniteSet(Places(ch, c)) /\ Places(ch, c) \subseteq 1 .. Len(ch)
      /\ IsFiniteSet(Places(Tail(ch), c)) /\ Places(Tail(ch), c) \subseteq 1 .. Len(ch) - 1
  BY TailValues, PlacesFinite
<1>2. \A i \in Places(Tail(ch), c) : i + 1 \in later
  BY <1>1, TailValues DEF Places
<1>3. \A i \in later : i - 1 \in Places(Tail(ch), c) /\ (i - 1) + 1 = i
  BY <1>1, TailValues DEF Places
<1>4. shift \in Bijection(Places(Tail(ch), c), later)
  <2>1. shift \in [Places(Tail(ch), c) -> later]
    BY <1>2
  <2>2. \A i, j \in Places(Tail(ch), c) : shift[i] = shift[j] => i = j
    BY <1>1
  <2>3. \A j \in later : \E i \in Places(Tail(ch), c) : shift[i] = j
    BY <1>3
  <2>. QED  BY <2>1, <2>2, <2>3 DEF Bijection, Injection, Surjection, IsInjective
<1>5. Cardinality(later) = Cardinality(Places(Tail(ch), c))
  BY <1>1, <1>4, FS_Bijection DEF ExistsBijection
<1>6. 1 \in Places(ch, c) <=> c = Head(ch)
  BY TailValues DEF Places
<1>7. Cardinality(later) = IF 1 \in Places(ch, c) THEN Cardinality(Places(ch, c)) - 1
                            ELSE Cardinality(Places(ch, c))
  BY <1>1, FS_RemoveElement
<1>8. Cardinality(Places(ch, c)) \in Nat /\ Cardinality(Places(Tail(ch), c)) \in Nat
  BY TailValues, PlacesFinite
<1>. QED  BY <1>5, <1>6, <1>7, <1>8 DEF One

\* The latest event of a command is in the log, and AsAdded differs in its type alone.
LEMMA LatestFacts ==
  ASSUME WatchTypeOK, LatestExists, NEW c \in Existing
  PROVE  /\ c \in Objects
         /\ Latest(c) \in ToSet(log) /\ Latest(c).obj = c
         /\ AsAdded(c) \in Events /\ AsAdded(c).obj = c /\ AsAdded(c).type = "Added"
         /\ AsAdded(c).done = Latest(c).done /\ AsAdded(c).ver = Latest(c).ver
<1>1. PICK i \in DOMAIN log : log[i].obj = c /\ \A j \in DOMAIN log : log[j].obj = c => j <= i
  BY DEF LatestExists
<1>. DEFINE k == CHOOSE n \in DOMAIN log :
                    log[n].obj = c /\ \A j \in DOMAIN log : log[j].obj = c => j <= n
<1>2. k \in DOMAIN log /\ log[k].obj = c
  BY <1>1
<1>3. Latest(c) = log[k]
  BY DEF Latest
<1>4. Latest(c) \in ToSet(log) /\ Latest(c).obj = c
  BY <1>2, <1>3 DEF ToSet
<1>5. Latest(c) \in Events
  BY <1>2, <1>3 DEF WatchTypeOK
<1>. QED  BY <1>4, <1>5 DEF AsAdded, Events

\* A watch without a version delivers every command there is, once, as Added.
LEMMA ListedEvents ==
  ASSUME WatchTypeOK, LatestExists, NEW objects \in SetToSeqs(Existing),
         NEW s, s = [i \in DOMAIN objects |-> AsAdded(objects[i])]
  PROVE  /\ s \in Seq(Events) /\ AddedOnce(s)
         /\ \A e \in ToSet(s) : \E c \in Existing : e = AsAdded(c)
         /\ \A c : AddedIn(s, c) <=> c \in Existing
<1>. DEFINE n == Cardinality(Existing)
<1>1. Existing \subseteq Objects
  BY LatestFacts
<1>2. IsFiniteSet(Existing) /\ n \in Nat
  BY <1>1, ObjectsAssumption, FS_Subset, FS_CardinalityType
<1>3. /\ objects \in [1 .. n -> Existing]
      /\ \A i, j \in 1 .. n : i # j => objects[i] # objects[j]
  BY DEF SetToSeqs
<1>4. IsFiniteSet(1 .. n) /\ Cardinality(1 .. n) = n
  BY <1>2, FS_Interval
<1>5. objects \in Injection(1 .. n, Existing)
  BY <1>3 DEF Injection, IsInjective
<1>6. objects \in Surjection(1 .. n, Existing)
  BY <1>2, <1>4, <1>5, FS_Injection
<1>7. DOMAIN s = 1 .. n /\ \A i \in 1 .. n : s[i] = AsAdded(objects[i]) /\ objects[i] \in Existing
  BY <1>3
<1>8. s \in Seq(Events)
  BY <1>2, <1>3, <1>7, LatestFacts
<1>9. AddedOnce(s)
  BY <1>3, <1>7, LatestFacts DEF AddedOnce
<1>10. \A e \in ToSet(s) : \E c \in Existing : e = AsAdded(c)
  BY <1>7 DEF ToSet
<1>11. ASSUME NEW c, AddedIn(s, c) PROVE c \in Existing
  BY <1>10, <1>11, LatestFacts DEF AddedIn
<1>12. ASSUME NEW c \in Existing PROVE AddedIn(s, c)
  <2>1. PICK i \in 1 .. n : objects[i] = c
    BY <1>6, <1>12 DEF Surjection
  <2>2. s[i] \in ToSet(s) /\ s[i] = AsAdded(c)
    BY <1>7, <2>1 DEF ToSet
  <2>. QED  BY <2>2, LatestFacts DEF AddedIn
<1>. QED  BY <1>8, <1>9, <1>10, <1>11, <1>12

-----------------------------------------------------------------------------
(* The start, and what a step leaves alone. *)

\* Nothing exists at the start, and the list is still to come.
LEMMA InitInv == Init => Inv
<1>. SUFFICES ASSUME Init PROVE Inv
  OBVIOUS
<1>. USE DEF Init, WatchInit
<1>1. Existing = {} /\ ToSet(log) = {} /\ ToSet(stream) = {}
  BY DEF Existing, ToSet
<1>2. WatchTypeOK
  BY LogAssumption DEF WatchTypeOK
<1>3. DeliveryTypeOK
  BY CapacityAssumption DEF DeliveryTypeOK
<1>4. WatchOK /\ EventsOK /\ LatestExists /\ AddedOnce(log) /\ AddedOnce(stream) /\ NotLost
  BY <1>1 DEF WatchOK, EventsOK, LatestExists, AddedOnce, NotLost
<1>5. WorkWasReceived
  <2>1. "down" \notin Objects
    BY StatesAssumption
  <2>. QED  BY <2>1 DEF WorkWasReceived
<1>6. CopiesBounded
  <2>. SUFFICES ASSUME NEW c \in Objects PROVE Received(c) + OnWay(c) <= 0
    BY <1>1 DEF CopiesBounded
  <2>1. Kind[c] \in Receivers /\ Places(chan[Kind[c]], c) = {}
    BY KindAssumption DEF Places
  <2>2. Received(c) = 0
    <3>1. Cardinality(Places(chan[Kind[c]], c)) = 0
      BY <2>1, FS_EmptySet
    <3>. QED  BY <3>1 DEF Received
  <2>3. OnWay(c) = 0
    BY <1>1 DEF OnWay, One, Announces, AddedIn
  <2>. QED  BY <2>2, <2>3
<1>. QED  BY <1>2, <1>3, <1>4, <1>5, <1>6 DEF Inv

\* The handlers' part of the invariant, which only their own steps disturb.
HandlersOK == /\ handler \in [Receivers -> {"down", "idle"} \cup Objects]
              /\ jobs \in [Objects -> Nat]
              /\ to \subseteq registered
              /\ WorkWasReceived

\* An event stays true of the log and of its command.
LEMMA EventKept ==
  ASSUME NEW e, EventOK(e), Existing \subseteq Existing', Len(log) <= Len(log'),
         Len(log) \in Nat, Len(log') \in Nat, e.ver \in Nat, handled[e.obj] \in Nat,
         handled[e.obj] > 0 => handled'[e.obj] > 0
  PROVE  EventOK(e)'
BY DEF EventOK

\* What a command's count is made of.
LEMMA CountsTyped ==
  ASSUME DeliveryTypeOK, NEW c \in Objects
  PROVE  /\ Kind[c] \in Receivers /\ handled[c] \in Nat
         /\ chan[Kind[c]] \in Seq(Objects)
         /\ Received(c) \in Nat /\ OnWay(c) \in Nat
<1>1. Kind[c] \in Receivers /\ handled[c] \in Nat /\ chan[Kind[c]] \in Seq(Objects)
  BY KindAssumption DEF DeliveryTypeOK
<1>. QED  BY <1>1, PlacesFinite DEF Received, OnWay, One

-----------------------------------------------------------------------------
(* The cluster's steps: an event is recorded. *)

\* A recorded event is the creation of a command, or a change of one that is there,
\* completed only if it was received.
Recordable(c, type, done) ==
  \/ type = "Added" /\ done = FALSE /\ c \notin Existing
  \/ type = "Modified" /\ done \in BOOLEAN /\ c \in Existing /\ (done = TRUE => handled[c] > 0)

LEMMA RecordTyped ==
  ASSUME Inv, NEW c \in Objects, NEW type, NEW done, Recordable(c, type, done),
         Len(log) < MaxLog, Record(Event(c, type, done))
  PROVE  /\ Event(c, type, done) \in Events
         /\ log' \in Seq(Events) /\ stream' \in Seq(Events)
         /\ Len(log') = Len(log) + 1 /\ Len(log) \in Nat
         /\ ToSet(log') = ToSet(log) \cup {Event(c, type, done)}
         /\ Existing' = Existing \cup {c}
         /\ ToSet(stream') \subseteq ToSet(stream) \cup {Event(c, type, done)}
<1>. DEFINE e == Event(c, type, done)
<1>1. log \in Seq(Events) /\ stream \in Seq(Events) /\ Len(log) \in Nat /\ MaxLog \in Nat
  BY LogAssumption DEF Inv, WatchTypeOK
<1>2. e \in Events /\ e.obj = c
  <2>1. type \in {"Added", "Modified"} /\ done \in BOOLEAN
    BY DEF Recordable
  <2>2. Len(log) + 1 \in 1 .. MaxLog
    BY <1>1
  <2>. QED  BY <2>1, <2>2 DEF Event, Events
<1>3. log' = Append(log, e) /\ (stream' = stream \/ stream' = Append(stream, e))
  BY DEF Record
<1>4. /\ log' \in Seq(Events) /\ Len(log') = Len(log) + 1
      /\ ToSet(log') = ToSet(log) \cup {e}
  BY <1>1, <1>2, <1>3, AppendValues
<1>5. stream' \in Seq(Events) /\ ToSet(stream') \subseteq ToSet(stream) \cup {e}
  <2>1. Append(stream, e) \in Seq(Events) /\ ToSet(Append(stream, e)) = ToSet(stream) \cup {e}
    BY <1>1, <1>2, AppendValues
  <2>. QED  BY <1>1, <1>3, <2>1
<1>6. Existing' = Existing \cup {c}
  BY <1>2, <1>4 DEF Existing
<1>. QED  BY <1>1, <1>2, <1>4, <1>5, <1>6

LEMMA RecordKeeps ==
  ASSUME Inv, NEW c \in Objects, NEW type, NEW done, Recordable(c, type, done),
         Len(log) < MaxLog, Record(Event(c, type, done)), HandlersOK',
         UNCHANGED <<watch, version, ends, queue, evicted, old, chan, target, to,
                     handled, missed>>
  PROVE  Inv'
<1>e. PICK e : e = Event(c, type, done)
  OBVIOUS
<1>0. /\ e \in Events /\ log' \in Seq(Events) /\ stream' \in Seq(Events)
      /\ Len(log') = Len(log) + 1 /\ Len(log) \in Nat
      /\ ToSet(log') = ToSet(log) \cup {e} /\ ToSet(stream') \subseteq ToSet(stream) \cup {e}
      /\ Existing' = Existing \cup {c}
  BY <1>e, RecordTyped
<1>1. /\ e.obj = c /\ e.type = type /\ e.done = done /\ e.ver = Len(log) + 1
      /\ c \in Existing <=> type # "Added"
      /\ type = "Added" => done = FALSE
  BY <1>e DEF Event, Recordable
<1>2. /\ log' = Append(log, e)
      /\ watch = "open" => stream' = Append(stream, e)
      /\ watch # "open" => stream' = stream
  BY <1>e DEF Record
<1>3. /\ log \in Seq(Events) /\ stream \in Seq(Events) /\ version \in 0 .. Len(log)
      /\ DOMAIN log = 1 .. Len(log)
  BY DEF Inv, WatchTypeOK
<1>4. WatchTypeOK'
  <2>1. Len(log') <= MaxLog /\ version \in 0 .. Len(log')
    BY <1>0, <1>3, LogAssumption
  <2>. QED  BY <1>0, <2>1 DEF Inv, WatchTypeOK
<1>5. DeliveryTypeOK'
  BY <1>0 DEF Inv, DeliveryTypeOK, HandlersOK
<1>6. WatchOK'
  BY <1>2 DEF Inv, WatchOK
<1>7. EventsOK'
  <2>1. \A f \in Events : EventOK(f) => EventOK(f)'
    <3>. SUFFICES ASSUME NEW f \in Events, EventOK(f) PROVE EventOK(f)'
      OBVIOUS
    <3>1. f.ver \in Nat /\ handled[f.obj] \in Nat
      BY DEF Events, Inv, DeliveryTypeOK
    <3>. QED  BY <1>0, <3>1, EventKept
  <2>2. EventOK(e)'
    <3>1. e.obj \in Existing' /\ e.ver <= Len(log')
      BY <1>0, <1>1
    <3>2. e.done = TRUE => handled'[e.obj] > 0
      BY <1>1 DEF Recordable
    <3>. QED  BY <3>1, <3>2 DEF EventOK
  <2>3. /\ \A f \in ToSet(log) : f \in Events /\ EventOK(f)
        /\ \A f \in ToSet(stream) : f \in Events /\ EventOK(f)
    BY <1>3 DEF Inv, EventsOK, ToSet
  <2>5. /\ \A f \in ToSet(log') : EventOK(f)'
        /\ \A f \in ToSet(stream') : EventOK(f)'
    BY <1>0, <2>1, <2>2, <2>3
  <2>6. \A o \in Objects : queue'[o] # Nothing => EventOK(queue[o])'
    BY <2>1 DEF Inv, EventsOK, WatchTypeOK
  <2>7. evicted' # Nothing => EventOK(evicted)'
    BY <2>1 DEF Inv, EventsOK, WatchTypeOK
  <2>. QED  BY <2>5, <2>6, <2>7 DEF EventsOK
<1>8. LatestExists'
  <2>. SUFFICES ASSUME NEW o \in Existing'
                PROVE  \E i \in DOMAIN log' :
                         log'[i].obj = o /\ \A j \in DOMAIN log' : log'[j].obj = o => j <= i
    BY DEF LatestExists
  <2>1. /\ DOMAIN log' = 1 .. Len(log) + 1 /\ log'[Len(log) + 1] = e
        /\ \A i \in 1 .. Len(log) : log'[i] = log[i]
    BY <1>0, <1>2, <1>3, AppendValues
  <2>2. CASE o = c
    BY <1>0, <1>1, <2>1, <2>2
  <2>3. CASE o # c
    <3>1. PICK i \in DOMAIN log : log[i].obj = o /\ \A j \in DOMAIN log : log[j].obj = o => j <= i
      BY <1>0, <2>3 DEF Inv, LatestExists
    <3>2. i \in DOMAIN log' /\ log'[i].obj = o
      BY <1>3, <2>1, <3>1
    <3>3. \A j \in DOMAIN log' : log'[j].obj = o => j <= i
      BY <1>1, <1>3, <2>1, <2>3, <3>1
    <3>. QED  BY <3>2, <3>3
  <2>. QED  BY <2>2, <2>3
<1>9. AddedOnce(log)' /\ AddedOnce(stream)'
  <2>1. type = "Added" => ~AddedIn(log, c) /\ ~AddedIn(stream, c)
    BY <1>1 DEF Inv, EventsOK, EventOK, AddedIn
  <2>2. AddedOnce(Append(log, e)) /\ AddedOnce(Append(stream, e))
    BY <1>0, <1>1, <1>3, <2>1, AppendAnnounces DEF Inv
  <2>. QED  BY <1>2, <2>2 DEF Inv
<1>10. \A d \in Objects : AddedIn(stream, d)' <=> \/ AddedIn(stream, d)
                                                  \/ d = c /\ type = "Added" /\ watch = "open"
  <2>1. \A d : AddedIn(Append(stream, e), d) <=> AddedIn(stream, d) \/ (c = d /\ type = "Added")
    BY <1>0, <1>1, <1>3, AppendAnnounces
  <2>2. CASE watch = "open"
    <3>1. stream' = Append(stream, e)
      BY <1>2, <2>2
    <3>2. \A d : AddedIn(stream, d)' <=> AddedIn(Append(stream, e), d)
      BY <3>1 DEF AddedIn
    <3>. QED  BY <2>1, <2>2, <3>2
  <2>3. CASE watch # "open"
    BY <1>2, <2>3 DEF AddedIn
  <2>. QED  BY <2>2, <2>3
<1>11. NotLost'
  <2>. SUFFICES ASSUME NEW d \in Existing'
                PROVE  (handled[d] > 0 \/ d \in old \/ d \in missed \/ OnItsWay(d))'
    BY DEF NotLost
  <2>1. /\ ToSet(SubSeq(log, version + 1, Len(log))) \subseteq ToSet(SubSeq(log', version + 1, Len(log')))
        /\ e \in ToSet(SubSeq(log', version + 1, Len(log')))
    BY <1>0, <1>2, <1>3, SuffixGrows
  <2>2. CASE d \in Existing
    <3>1. \/ handled[d] > 0 \/ d \in old \/ d \in missed \/ OnItsWay(d)
      BY <2>2 DEF Inv, NotLost
    <3>2. AddedIn(stream, d) => AddedIn(stream, d)'
      BY <1>2, <1>10, <2>2, LatestFacts DEF Inv
    <3>3. OnItsWay(d) => OnItsWay(d)'
      BY <2>1, <3>2 DEF OnItsWay, AddedIn
    <3>. QED  BY <3>1, <3>3
  <2>3. CASE d \notin Existing
    <3>1. d = c /\ type = "Added" /\ watch \in {"list", "connect", "open"}
      BY <1>0, <1>1, <2>3 DEF Inv, WatchTypeOK
    <3>2. CASE watch = "list"
      BY <3>2 DEF OnItsWay
    <3>3. CASE watch = "connect"
      BY <1>1, <2>1, <3>1, <3>3 DEF OnItsWay, AddedIn
    <3>4. CASE watch = "open"
      BY <1>10, <3>1, <3>4 DEF OnItsWay
    <3>. QED  BY <3>1, <3>2, <3>3, <3>4
  <2>. QED  BY <2>2, <2>3
<1>12. CopiesBounded'
  <2>. SUFFICES ASSUME NEW d \in Objects
                PROVE  Received(d)' + OnWay(d)' <= IF d \in Existing' THEN 2 + ends - Pending ELSE 0
    BY DEF CopiesBounded, Pending
  <2>1. /\ Received(d) \in Nat /\ OnWay(d) \in Nat /\ OnWay(d)' \in Nat
        /\ Received(d) + OnWay(d) <= IF d \in Existing THEN 2 + ends - Pending ELSE 0
    <3>1. OnWay(d)' \in Nat
      BY DEF OnWay, One
    <3>. QED  BY <3>1, CountsTyped DEF Inv, CopiesBounded
  <2>2. Received(d)' = Received(d)
    BY DEF Received
  <2>3. /\ ends \in Nat /\ Pending \in {0, 1, 2} /\ (watch = "open" => Pending = 0)
    BY DEF Inv, WatchTypeOK, Pending
  <2>4. CASE d = c /\ type = "Added"
    <3>1. OnWay(d)' <= OnWay(d) + One(watch = "open")
      BY <1>10, <2>4 DEF OnWay, One, Announces
    <3>2. d \notin Existing
      BY <1>1, <2>4
    <3>3. Received(d) = 0 /\ OnWay(d) = 0
      BY <2>1, <3>2
    <3>4. One(watch = "open") \in Nat /\ One(watch = "open") <= 2 + ends - Pending
      BY <2>3 DEF One
    <3>5. d \in Existing'
      BY <1>0, <2>4
    <3>. QED  BY <2>1, <2>2, <2>3, <3>1, <3>3, <3>4, <3>5
  <2>5. CASE ~(d = c /\ type = "Added")
    <3>1. OnWay(d)' = OnWay(d)
      BY <1>10, <2>5 DEF OnWay, One, Announces
    <3>2. d \in Existing' => d \in Existing
      BY <1>0, <1>1, <2>5 DEF Recordable
    <3>3. d \in Existing => d \in Existing'
      BY <1>0
    <3>. QED  BY <2>1, <2>2, <2>3, <3>1, <3>2, <3>3
  <2>. QED  BY <2>4, <2>5
<1>. QED  BY <1>4, <1>5, <1>6, <1>7, <1>8, <1>9, <1>11, <1>12 DEF Inv, HandlersOK

\* Nothing but the handlers moves.
LEMMA HandlersKeep ==
  ASSUME Inv, HandlersOK',
         UNCHANGED <<watchVars, old, chan, target, to, handled, missed>>
  PROVE  Inv'
<1>. USE DEF Inv, watchVars
<1>1. Existing' = Existing
  BY DEF Existing
<1>2. WatchTypeOK' /\ WatchOK' /\ AddedOnce(log)' /\ AddedOnce(stream)'
  BY DEF WatchTypeOK, WatchOK, AddedOnce
<1>3. DeliveryTypeOK'
  BY <1>1 DEF DeliveryTypeOK, HandlersOK
<1>4. EventsOK'
  BY <1>1 DEF EventsOK, EventOK
<1>5. LatestExists'
  BY <1>1 DEF LatestExists
<1>6. NotLost'
  BY <1>1 DEF NotLost, OnItsWay, AddedIn
<1>7. CopiesBounded'
  <2>1. \A c \in Objects : Received(c)' = Received(c)
    BY DEF Received
  <2>2. \A c \in Objects : OnWay(c)' = OnWay(c)
    BY DEF OnWay, Announces, AddedIn
  <2>3. ends' = ends /\ Pending' = Pending
    BY DEF Pending
  <2>. QED  BY ONLY Inv, <1>1, <2>1, <2>2, <2>3 DEF Inv, CopiesBounded
<1>. QED  BY <1>2, <1>3, <1>4, <1>5, <1>6, <1>7 DEF HandlersOK

\* A command that was received is one the log knows.
LEMMA ReceivedExists ==
  ASSUME Inv, NEW c \in Objects, handled[c] > 0
  PROVE  c \in Existing
<1>1. handled[c] \in Nat /\ Cardinality(Places(chan[Kind[c]], c)) \in Nat /\ OnWay(c) \in Nat
  BY CountsTyped, PlacesFinite DEF Inv
<1>2. Received(c) \in Nat /\ Received(c) > 0
  BY <1>1 DEF Received
<1>3. Received(c) + OnWay(c) <= IF c \in Existing THEN 2 + ends - Pending ELSE 0
  BY DEF Inv, CopiesBounded
<1>. QED  BY <1>1, <1>2, <1>3

\* The status of a command is patched, or the patch fails.
LEMMA PatchKeeps ==
  ASSUME Inv, NEW c \in Objects, handled[c] > 0, PatchStatus(c), HandlersOK',
         UNCHANGED <<watch, version, ends, queue, evicted, old, chan, target, to,
                     handled, missed>>
  PROVE  Inv'
<1>1. CASE Len(log) < MaxLog /\ Record(Event(c, "Modified", TRUE))
  <2>1. Recordable(c, "Modified", TRUE)
    BY ReceivedExists DEF Recordable
  <2>. QED  BY <1>1, <2>1, RecordKeeps
<1>2. CASE UNCHANGED <<log, stream>>
  BY <1>2, HandlersKeep DEF watchVars
<1>. QED  BY <1>1, <1>2 DEF PatchStatus

LEMMA CreateKeepsInv == ASSUME Inv, NEW c \in Objects, Create(c) PROVE Inv'
<1>1. Recordable(c, "Added", FALSE)
  BY DEF Create, Recordable
<1>2. HandlersOK'
  BY DEF Create, deliveryVars, HandlersOK, Inv, DeliveryTypeOK, WorkWasReceived, registered
<1>. QED  BY <1>1, <1>2, RecordKeeps DEF Create, deliveryVars

LEMMA TouchKeepsInv == ASSUME Inv, NEW c \in Objects, Touch(c) PROVE Inv'
<1>1. c \in Existing
  BY DEF Touch
<1>2. Latest(c) \in ToSet(log) /\ Latest(c).obj = c
  BY <1>1, LatestFacts DEF Inv
<1>3. Latest(c) \in Events /\ EventOK(Latest(c))
  BY <1>2 DEF Inv, EventsOK, WatchTypeOK, ToSet
<1>d. Done(c) = Latest(c).done
  BY <1>1, <1>3 DEF Done, Events
<1>4. Recordable(c, "Modified", Done(c))
  BY <1>1, <1>2, <1>3, <1>d DEF Recordable, EventOK, Events
<1>5. HandlersOK'
  BY DEF Touch, deliveryVars, HandlersOK, Inv, DeliveryTypeOK, WorkWasReceived, registered
<1>. QED  BY <1>4, <1>5, RecordKeeps DEF Touch, deliveryVars

\* A handler or a worker is done with a command, or passes it on to a worker.
LEMMA CommandStepKeepsInv == ASSUME Inv, NEW c \in Objects, CommandStep(c) PROVE Inv'
<1>1. /\ handler \in [Receivers -> {"down", "idle"} \cup Objects] /\ jobs \in [Objects -> Nat]
      /\ handled \in [Objects -> Nat] /\ to \subseteq registered /\ WorkWasReceived
  BY DEF Inv, DeliveryTypeOK
<1>2. "down" \notin Objects /\ "idle" \notin Objects
  BY StatesAssumption
<1>3. ASSUME NEW r \in Receivers, Working(r, c), jobs' = jobs \/ jobs' = [jobs EXCEPT ![c] = @ + 1],
             UNCHANGED <<to, handled>>
      PROVE  HandlersOK' /\ handled[c] > 0
  <2>1. handled[c] > 0
    BY <1>1, <1>3 DEF Working, WorkWasReceived
  <2>2. handler' \in [Receivers -> {"down", "idle"} \cup Objects] /\ jobs' \in [Objects -> Nat]
    BY <1>1, <1>3 DEF Working
  <2>3. to' \subseteq registered'
    BY <1>1, <1>3 DEF Working, registered
  <2>4. WorkWasReceived'
    <3>1. \A q \in Receivers : handler'[q] \in Objects => handled'[handler'[q]] > 0
      BY <1>1, <1>2, <1>3 DEF Working, WorkWasReceived
    <3>2. \A d \in Objects : jobs'[d] > 0 => handled'[d] > 0
      BY <1>1, <1>3, <2>1 DEF WorkWasReceived
    <3>. QED  BY <3>1, <3>2 DEF WorkWasReceived
  <2>. QED  BY <2>1, <2>2, <2>3, <2>4 DEF HandlersOK
<1>4. CASE RejectBody(c)
  BY <1>3, <1>4, PatchKeeps DEF RejectBody, Receivers
<1>5. CASE InvokeCommand(c)
  BY <1>3, <1>5, HandlersKeep DEF InvokeCommand, Receivers
<1>6. CASE ExecuteRegistryCommand(c)
  BY <1>3, <1>6, PatchKeeps DEF ExecuteRegistryCommand, Receivers
<1>7. CASE JobEnds(c)
  <2>1. handled[c] > 0
    BY <1>1, <1>7 DEF JobEnds, WorkWasReceived
  <2>2. jobs' \in [Objects -> Nat] /\ \A d \in Objects : jobs'[d] > 0 => jobs[d] > 0
    BY <1>1, <1>7 DEF JobEnds
  <2>3. HandlersOK'
    BY <1>1, <1>7, <2>2 DEF JobEnds, HandlersOK, WorkWasReceived, registered
  <2>. QED  BY <1>7, <2>1, <2>3, PatchKeeps DEF JobEnds
<1>. QED  BY <1>4, <1>5, <1>6, <1>7 DEF CommandStep

-----------------------------------------------------------------------------
(* The delivery's steps. *)

\* What a step of the delivery leaves alone with the log, the watch and the queue.
LEMMA DeliveryKeeps ==
  ASSUME Inv, UNCHANGED <<log, watch, stream, version, ends, queue>>,
         evicted' \in {evicted, Nothing}, DeliveryTypeOK', WorkWasReceived',
         \A c \in Objects : handled[c] > 0 => handled'[c] > 0
  PROVE  /\ Existing' = Existing /\ WatchTypeOK' /\ WatchOK' /\ AddedOnce(log)' /\ AddedOnce(stream)'
         /\ EventsOK' /\ LatestExists' /\ WorkWasReceived'
<1>. USE DEF Inv
<1>1. Existing' = Existing
  BY DEF Existing
<1>2. WatchTypeOK' /\ WatchOK' /\ AddedOnce(log)' /\ AddedOnce(stream)'
  BY DEF WatchTypeOK, WatchOK, AddedOnce
<1>3. \A e \in Events : EventOK(e) => EventOK(e)'
  BY <1>1 DEF EventOK, Events
<1>4. EventsOK'
  <2>1. ToSet(log) \subseteq Events /\ ToSet(stream) \subseteq Events
    BY DEF WatchTypeOK, ToSet
  <2>. QED  BY <1>3, <2>1 DEF EventsOK, WatchTypeOK
<1>5. LatestExists'
  BY <1>1 DEF LatestExists
<1>. QED  BY <1>1, <1>2, <1>4, <1>5

\* A receiver registers, when at most one delivery is left to make.
LEMMA RegisterKeepsInv ==
  ASSUME Inv, NEW r \in Receivers, RegisterForCommands(r) PROVE Inv'
<1>1. /\ handler \in [Receivers -> {"down", "idle"} \cup Objects] /\ jobs \in [Objects -> Nat]
      /\ handled \in [Objects -> Nat] /\ to \subseteq registered /\ WorkWasReceived
  BY DEF Inv, DeliveryTypeOK
<1>2. "idle" \notin Objects
  BY StatesAssumption
<1>3. HandlersOK'
  BY <1>1, <1>2 DEF RegisterForCommands, HandlersOK, WorkWasReceived, registered
<1>. QED  BY <1>3, HandlersKeep DEF RegisterForCommands

\* The command is sent to one receiver: on its way as before, in the channel now.
LEMMA DeliverKeepsInv ==
  ASSUME Inv, NEW r \in Receivers, Deliver(r) PROVE Inv'
<1>. USE DEF Deliver, watchVars
<1>1. /\ chan \in [Receivers -> Seq(Objects)] /\ target \in Objects /\ r \in to
      /\ to \subseteq registered /\ chan[r] \in Seq(Objects)
  BY DEF Inv, DeliveryTypeOK
<1>2. /\ chan'[r] = Append(chan[r], target) /\ \A q \in Receivers \ {r} : chan'[q] = chan[q]
      /\ Append(chan[r], target) \in Seq(Objects)
      /\ Len(Append(chan[r], target)) = Len(chan[r]) + 1
      /\ ToSet(Append(chan[r], target)) = ToSet(chan[r]) \cup {target}
  BY <1>1, AppendValues
<1>3. DeliveryTypeOK'
  <2>1. chan' \in [Receivers -> Seq(Objects)]
    BY <1>1, <1>2
  <2>2. \A q \in Receivers : Len(chan'[q]) <= ChanCap
    BY <1>1, <1>2, CapacityAssumption DEF Inv, DeliveryTypeOK
  <2>3. target' \in Objects \cup {Nothing} /\ ((target' = Nothing) <=> (to' = {}))
    BY <1>1, NothingAssumption
  <2>4. to' \subseteq registered'
    BY <1>1 DEF registered
  <2>5. Existing' = Existing
    BY DEF Existing
  <2>. QED  BY <2>1, <2>2, <2>3, <2>4, <2>5 DEF Inv, DeliveryTypeOK
<1>4. WorkWasReceived'
  BY DEF Inv, WorkWasReceived
<1>5. /\ Existing' = Existing /\ WatchTypeOK' /\ WatchOK' /\ AddedOnce(log)' /\ AddedOnce(stream)'
      /\ EventsOK' /\ LatestExists'
  BY <1>3, <1>4, DeliveryKeeps
<1>6. \A c \in Objects : c # target => (target' = c /\ Kind[c] \in to') = FALSE
  BY <1>1, NothingAssumption
<1>7. (target' = target /\ Kind[target] \in to') <=> (Kind[target] \in to /\ Kind[target] # r)
  BY <1>1, NothingAssumption
<1>8. NotLost'
  <2>. SUFFICES ASSUME NEW c \in Existing
                PROVE  (handled[c] > 0 \/ c \in old \/ c \in missed \/ OnItsWay(c))'
    BY <1>5 DEF NotLost
  <2>1. c \in Objects /\ Kind[c] \in Receivers
    BY LatestFacts, KindAssumption DEF Inv
  <2>2. c \in ToSet(chan[Kind[c]]) => c \in ToSet(chan'[Kind[c]])
    BY <1>2, <2>1
  <2>3. ASSUME target = c, Kind[c] \in to
        PROVE  (target' = c /\ Kind[c] \in to') \/ c \in ToSet(chan'[Kind[c]])
    BY <1>2, <1>7, <2>1, <2>3
  <2>4. OnItsWay(c) => OnItsWay(c)'
    BY <2>2, <2>3 DEF OnItsWay, AddedIn
  <2>. QED  BY <2>4 DEF Inv, NotLost
<1>9. CopiesBounded'
  <2>. SUFFICES ASSUME NEW c \in Objects
                PROVE  Received(c)' + OnWay(c)' = Received(c) + OnWay(c)
    BY <1>5 DEF Inv, CopiesBounded, Pending
  <2>. DEFINE other == One(Announces(evicted, c)) + One(Announces(queue[c], c))
                       + One(AddedIn(stream, c))
              places == Cardinality(Places(chan[Kind[c]], c))
  <2>1. Kind[c] \in Receivers /\ handled[c] \in Nat /\ places \in Nat /\ other \in Nat
    BY CountsTyped, PlacesFinite DEF Inv, One
  <2>2. OnWay(c) = One(target = c /\ Kind[c] \in to) + other
    BY DEF OnWay, One
  <2>3. OnWay(c)' = One(target' = c /\ Kind[c] \in to') + other
    BY DEF OnWay, One, Announces, AddedIn
  <2>4. CASE r = Kind[c]
    <3>1. Cardinality(Places(chan'[Kind[c]], c)) = places + One(c = target)
      BY <1>1, <1>2, <2>4, PlacesAppend
    <3>2. One(target = c /\ Kind[c] \in to) = One(c = target) /\ One(target' = c /\ Kind[c] \in to') = 0
      BY <1>1, <1>6, <1>7, <2>4 DEF One
    <3>3. Received(c) = handled[c] + places /\ Received(c)' = handled[c] + (places + One(c = target))
      BY <3>1 DEF Received
    <3>4. One(c = target) \in Nat
      BY DEF One
    <3>. QED  BY <2>1, <2>2, <2>3, <3>2, <3>3, <3>4
  <2>5. CASE r # Kind[c]
    <3>1. Received(c)' = Received(c)
      BY <1>2, <2>1, <2>5 DEF Received
    <3>2. One(target = c /\ Kind[c] \in to) = One(target' = c /\ Kind[c] \in to')
      BY <1>6, <1>7, <2>5 DEF One
    <3>. QED  BY <2>2, <2>3, <3>1, <3>2
  <2>. QED  BY <2>4, <2>5
<1>. QED  BY <1>3, <1>4, <1>5, <1>8, <1>9 DEF Inv

\* The head of a channel is received, or dropped by a receiver of another type.
LEMMA ReceiveKeepsInv ==
  ASSUME Inv, NEW r \in Receivers, Receive(r) PROVE Inv'
<1>. USE DEF Receive, watchVars
<1>. DEFINE d == Head(chan[r])
<1>1. /\ chan \in [Receivers -> Seq(Objects)] /\ chan[r] \in Seq(Objects) /\ chan[r] # <<>>
      /\ handled \in [Objects -> Nat] /\ jobs \in [Objects -> Nat]
      /\ handler \in [Receivers -> {"down", "idle"} \cup Objects]
      /\ to \subseteq registered /\ d \in Objects
  BY TailValues DEF Inv, DeliveryTypeOK
<1>2. /\ chan'[r] = Tail(chan[r]) /\ \A q \in Receivers \ {r} : chan'[q] = chan[q]
      /\ Tail(chan[r]) \in Seq(Objects)
      /\ Len(Tail(chan[r])) = Len(chan[r]) - 1
      /\ ToSet(chan[r]) = ToSet(Tail(chan[r])) \cup {d}
  BY <1>1, TailValues
<1>3. /\ handled' \in [Objects -> Nat] /\ \A c \in Objects : handled'[c] >= handled[c]
      /\ Kind[d] = r => handled'[d] = handled[d] + 1
      /\ \A c \in Objects : c # d \/ Kind[d] # r => handled'[c] = handled[c]
  <2>1. CASE Kind[d] = r
    <3>1. handled' = [handled EXCEPT ![d] = handled[d] + 1] /\ handled[d] \in Nat
      BY <1>1, <2>1
    <3>2. handled'[d] = handled[d] + 1 /\ \A c \in Objects : c # d => handled'[c] = handled[c]
      BY <1>1, <3>1
    <3>3. handled' \in [Objects -> Nat]
      BY <1>1, <3>1
    <3>4. \A c \in Objects : handled'[c] >= handled[c]
      BY <1>1, <3>1, <3>2
    <3>. QED  BY <2>1, <3>2, <3>3, <3>4
  <2>2. CASE Kind[d] # r
    BY <1>1, <2>2
  <2>. QED  BY <2>1, <2>2
<1>4. DeliveryTypeOK'
  <2>1. chan' \in [Receivers -> Seq(Objects)]
    BY <1>1, <1>2
  <2>2. \A q \in Receivers : Len(chan'[q]) <= ChanCap
    BY <1>1, <1>2, CapacityAssumption DEF Inv, DeliveryTypeOK
  <2>3. handler' \in [Receivers -> {"down", "idle"} \cup Objects] /\ registered' = registered
    BY <1>1, StatesAssumption DEF registered
  <2>4. Existing' = Existing
    BY DEF Existing
  <2>. QED  BY <1>3, <2>1, <2>2, <2>3, <2>4 DEF Inv, DeliveryTypeOK
<1>5. WorkWasReceived'
  <2>1. \A c \in Objects : handled[c] > 0 => handled'[c] > 0
    BY <1>1, <1>3
  <2>2. ASSUME NEW q \in Receivers, handler'[q] \in Objects PROVE handled'[handler'[q]] > 0
    <3>1. CASE handler'[q] = handler[q]
      BY <2>1, <2>2, <3>1 DEF Inv, WorkWasReceived
    <3>2. CASE handler'[q] # handler[q]
      <4>1. handler'[q] = d /\ Kind[d] = r
        BY <1>1, <3>2
      <4>. QED  BY <1>1, <1>3, <4>1
    <3>. QED  BY <3>1, <3>2
  <2>. QED  BY <2>1, <2>2 DEF Inv, WorkWasReceived
<1>6. /\ Existing' = Existing /\ WatchTypeOK' /\ WatchOK' /\ AddedOnce(log)' /\ AddedOnce(stream)'
      /\ EventsOK' /\ LatestExists'
  BY <1>1, <1>3, <1>4, <1>5, DeliveryKeeps
<1>7. NotLost'
  <2>. SUFFICES ASSUME NEW c \in Existing
                PROVE  (handled[c] > 0 \/ c \in old \/ c \in missed \/ OnItsWay(c))'
    BY <1>6 DEF NotLost
  <2>1. c \in Objects /\ Kind[c] \in Receivers
    BY LatestFacts, KindAssumption DEF Inv
  <2>2. c \in ToSet(chan[Kind[c]]) => c \in ToSet(chan'[Kind[c]]) \/ handled'[c] > 0
    BY <1>1, <1>2, <1>3, <2>1
  <2>3. OnItsWay(c) => OnItsWay(c)' \/ handled'[c] > 0
    BY <2>2 DEF OnItsWay, AddedIn
  <2>4. handled[c] > 0 => handled'[c] > 0
    BY <1>1, <1>3, <2>1
  <2>. QED  BY <2>3, <2>4 DEF Inv, NotLost
<1>8. CopiesBounded'
  <2>. SUFFICES ASSUME NEW c \in Objects
                PROVE  Received(c)' + OnWay(c)' = Received(c) + OnWay(c)
    BY <1>6 DEF Inv, CopiesBounded, Pending
  <2>1. OnWay(c)' = OnWay(c)
    BY DEF OnWay, Announces, AddedIn
  <2>2. Kind[c] \in Receivers
    BY KindAssumption
  <2>3. CASE r = Kind[c]
    <3>1. /\ Cardinality(Places(chan[r], c)) = Cardinality(Places(chan'[r], c)) + One(c = d)
          /\ Cardinality(Places(chan'[r], c)) \in Nat
      BY <1>1, <1>2, PlacesTail
    <3>2. handled'[c] = handled[c] + One(c = d)
      BY <1>1, <1>3, <2>3 DEF One
    <3>3. handled[c] \in Nat /\ One(c = d) \in Nat
      BY <1>1 DEF One
    <3>4. Received(c)' = Received(c)
      BY <2>3, <3>1, <3>2, <3>3 DEF Received
    <3>. QED  BY <2>1, <3>4
  <2>4. CASE r # Kind[c]
    BY <1>2, <1>3, <2>1, <2>2, <2>4 DEF Received
  <2>. QED  BY <2>3, <2>4
<1>. QED  BY <1>4, <1>5, <1>6, <1>7, <1>8 DEF Inv

\* An event is skipped, or its command is delivered to the receivers there are.
LEMMA TakeEventKeepsInv == ASSUME Inv, TakeEvent PROVE Inv'
<1>. USE DEF TakeEvent
<1>1. /\ evicted \in Events /\ evicted.obj \in Objects /\ evicted.type \in {"Added", "Modified"}
      /\ evicted.done \in BOOLEAN /\ evicted.obj \in Existing
      /\ to = {} /\ target = Nothing /\ evicted' = Nothing
      /\ Kind[evicted.obj] \in Receivers
  <2>1. evicted \in Events
    BY DEF Inv, WatchTypeOK
  <2>2. evicted.obj \in Existing
    BY DEF Inv, EventsOK, EventOK
  <2>. QED  BY <2>1, <2>2, KindAssumption DEF Inv, DeliveryTypeOK, Events
<1>. DEFINE d == evicted.obj
<1>2. Existing' = Existing /\ registered' = registered
  BY DEF Existing, registered
<1>3. /\ \/ target' = Nothing /\ to' = {}
         \/ target' = d /\ to' = registered /\ registered # {} /\ ~Skipped(evicted)
      /\ old \subseteq old' /\ old' \subseteq old \cup {d}
      /\ missed \subseteq missed' /\ missed' \subseteq missed \cup {d}
  BY <1>1
<1>4. DeliveryTypeOK'
  <2>1. target' \in Objects \cup {Nothing} /\ to' \subseteq registered
        /\ ((target' = Nothing) <=> (to' = {}))
    BY <1>1, <1>3, NothingAssumption
  <2>2. old' \subseteq Existing /\ missed' \subseteq Existing
    BY <1>1, <1>3 DEF Inv, DeliveryTypeOK
  <2>. QED  BY <1>2, <2>1, <2>2 DEF Inv, DeliveryTypeOK
<1>5. WorkWasReceived'
  BY DEF Inv, WorkWasReceived
<1>6. /\ Existing' = Existing /\ WatchTypeOK' /\ WatchOK' /\ AddedOnce(log)' /\ AddedOnce(stream)'
      /\ EventsOK' /\ LatestExists'
  BY <1>4, <1>5, DeliveryKeeps
<1>7. Skipped(evicted) /\ evicted.type = "Added" => handled[d] > 0
  BY <1>1 DEF Skipped, Inv, EventsOK, EventOK
<1>8. ~Skipped(evicted) => d \in old' \/ d \in missed' \/ (target' = d /\ Kind[d] \in to')
  BY <1>1, <1>3
<1>9. NotLost'
  <2>. SUFFICES ASSUME NEW c \in Existing
                PROVE  (handled[c] > 0 \/ c \in old \/ c \in missed \/ OnItsWay(c))'
    BY <1>6 DEF NotLost
  <2>1. CASE c = d /\ evicted.type = "Added"
    BY <1>7, <1>8, <2>1 DEF OnItsWay
  <2>2. CASE ~(c = d /\ evicted.type = "Added")
    <3>1. ~(target = c /\ Kind[c] \in to)
      BY <1>1
    <3>2. OnItsWay(c) => OnItsWay(c)'
      BY <1>1, <2>2, <3>1 DEF OnItsWay, AddedIn
    <3>. QED  BY <1>3, <3>2 DEF Inv, NotLost
  <2>. QED  BY <2>1, <2>2
<1>10. CopiesBounded'
  <2>. SUFFICES ASSUME NEW c \in Objects
                PROVE  Received(c)' + OnWay(c)' <= IF c \in Existing THEN 2 + ends - Pending ELSE 0
    BY <1>6 DEF CopiesBounded, Pending
  <2>. DEFINE other == One(Announces(queue[c], c)) + One(AddedIn(stream, c))
  <2>1. Received(c)' = Received(c)
    BY DEF Received
  <2>2. OnWay(c) = One(Announces(evicted, c)) + other /\ other \in Nat
    BY <1>1 DEF OnWay, One
  <2>3. OnWay(c)' = One(target' = c /\ Kind[c] \in to') + other
    BY <1>1 DEF OnWay, One, Announces, AddedIn
  <2>4. target' = c /\ Kind[c] \in to' => Announces(evicted, c)
    BY <1>1, <1>3 DEF Announces, Skipped
  <2>5. One(target' = c /\ Kind[c] \in to') <= One(Announces(evicted, c))
        /\ One(target' = c /\ Kind[c] \in to') \in Nat /\ One(Announces(evicted, c)) \in Nat
    BY <2>4 DEF One
  <2>6. /\ Received(c) + OnWay(c) <= IF c \in Existing THEN 2 + ends - Pending ELSE 0
        /\ Received(c) \in Nat /\ ends \in Nat /\ Pending \in {0, 1, 2}
    BY CountsTyped DEF Inv, CopiesBounded, WatchTypeOK, Pending
  <2>. QED  BY <2>1, <2>2, <2>3, <2>5, <2>6
<1>. QED  BY <1>4, <1>5, <1>6, <1>9, <1>10 DEF Inv

-----------------------------------------------------------------------------
(* The watch's steps. *)

\* What a step of the watch leaves alone: the log and the delivery but for what it misses.
LEMMA WatchKeeps ==
  ASSUME Inv, UNCHANGED <<log, old, chan, target, to, handler, jobs, handled>>,
         missed \subseteq missed', missed' \subseteq Existing
  PROVE  /\ Existing' = Existing /\ DeliveryTypeOK' /\ AddedOnce(log)' /\ LatestExists'
         /\ WorkWasReceived' /\ \A e \in Events : EventOK(e) => EventOK(e)'
         /\ \A c : Received(c)' = Received(c)
<1>. USE DEF Inv
<1>1. Existing' = Existing
  BY DEF Existing
<1>2. DeliveryTypeOK'
  BY <1>1 DEF DeliveryTypeOK, registered
<1>3. AddedOnce(log)' /\ LatestExists' /\ WorkWasReceived'
  BY <1>1 DEF AddedOnce, LatestExists, WorkWasReceived
<1>4. \A e \in Events : EventOK(e) => EventOK(e)'
  BY <1>1 DEF EventOK
<1>. QED  BY <1>1, <1>2, <1>3, <1>4 DEF Received

\* A step of the watch that loses nothing but what it misses.
LEMMA WatchLoses ==
  ASSUME Inv, UNCHANGED <<log, old, chan, target, to, handler, jobs, handled>>,
         missed \subseteq missed', missed' \subseteq Existing,
         \A c \in Existing : OnItsWay(c) => OnItsWay(c)' \/ c \in missed'
  PROVE  NotLost'
<1>1. Existing' = Existing
  BY WatchKeeps
<1>. QED  BY <1>1 DEF Inv, NotLost

\* The objects are listed: some of them wait in the queue.
LEMMA ListKeepsInv ==
  ASSUME Inv, List, missed' = missed \cup Misses,
         UNCHANGED <<old, chan, target, to, handler, jobs, handled>>
  PROVE  Inv'
<1>. USE DEF List
<1>1. missed' = missed /\ missed' \subseteq Existing /\ version = 0 /\ stream = <<>>
  BY DEF Misses, Inv, DeliveryTypeOK, WatchOK
<1>2. /\ Existing' = Existing /\ DeliveryTypeOK' /\ AddedOnce(log)' /\ LatestExists'
      /\ WorkWasReceived' /\ \A e \in Events : EventOK(e) => EventOK(e)'
      /\ \A c : Received(c)' = Received(c)
  BY <1>1, WatchKeeps
<1>3. PICK listed \in SUBSET Existing :
        queue' = [o \in Objects |-> IF o \in listed THEN AsAdded(o) ELSE Nothing]
  OBVIOUS
<1>4. \A o \in listed : /\ AsAdded(o) \in Events /\ AsAdded(o).obj = o /\ EventOK(AsAdded(o))
  <2>. SUFFICES ASSUME NEW o \in listed
                PROVE  AsAdded(o) \in Events /\ AsAdded(o).obj = o /\ EventOK(AsAdded(o))
    OBVIOUS
  <2>1. EventOK(Latest(o)) /\ Latest(o).obj = o
    BY LatestFacts DEF Inv, EventsOK
  <2>. QED  BY <2>1, LatestFacts DEF Inv, EventOK
<1>5. WatchTypeOK' /\ WatchOK'
  BY <1>1, <1>3, <1>4 DEF Inv, WatchTypeOK, WatchOK
<1>6. EventsOK'
  <2>1. \A o \in Objects : queue'[o] # Nothing => queue'[o] \in Events /\ EventOK(queue'[o])
    BY <1>3, <1>4
  <2>2. \A e \in ToSet(log) \cup ToSet(stream) : e \in Events
    BY DEF Inv, WatchTypeOK, ToSet
  <2>3. \A o \in Objects : queue'[o] # Nothing => EventOK(queue[o])'
    BY <2>1, <1>2 DEF EventOK
  <2>. QED  BY <1>2, <2>2, <2>3 DEF Inv, EventsOK, WatchTypeOK
<1>7. AddedOnce(stream)'
  BY DEF Inv, AddedOnce
<1>8. NotLost'
  <2>1. \A c \in Existing : OnItsWay(c)'
    BY <1>1 DEF OnItsWay
  <2>. QED  BY <1>1, <2>1, WatchLoses
<1>9. CopiesBounded'
  <2>. SUFFICES ASSUME NEW c \in Objects
                PROVE  Received(c)' + OnWay(c)' <= IF c \in Existing THEN 2 + ends' - Pending' ELSE 0
    BY <1>2 DEF CopiesBounded
  <2>1. /\ Received(c) + OnWay(c) <= IF c \in Existing THEN 2 + ends - Pending ELSE 0
        /\ Received(c) \in Nat /\ OnWay(c) \in Nat /\ ends \in Nat
    BY CountsTyped DEF Inv, CopiesBounded, WatchTypeOK
  <2>2. Received(c)' = Received(c) /\ ends' = ends /\ Pending = 2 /\ Pending' = 1
    BY <1>2 DEF Pending
  <2>3. OnWay(c)' <= OnWay(c) + One(c \in Existing) /\ OnWay(c)' \in Nat
    <3>1. Announces(queue'[c], c) => c \in Existing
      BY <1>3 DEF Announces
    <3>. QED  BY <3>1 DEF OnWay, One, Announces, AddedIn
  <2>. QED  BY <2>1, <2>2, <2>3 DEF One
<1>. QED  BY <1>2, <1>5, <1>6, <1>7, <1>8, <1>9 DEF Inv

\* The watch opens: from the first object, or from the version it has.
LEMMA ConnectKeepsInv ==
  ASSUME Inv, Connect, missed' = missed \cup Misses,
         UNCHANGED <<old, chan, target, to, handler, jobs, handled>>
  PROVE  Inv'
<1>. USE DEF Connect
<1>1. missed' = missed /\ missed' \subseteq Existing /\ stream = <<>>
  BY DEF Misses, Inv, DeliveryTypeOK, WatchOK
<1>2. /\ Existing' = Existing /\ DeliveryTypeOK' /\ AddedOnce(log)' /\ LatestExists'
      /\ WorkWasReceived' /\ \A e \in Events : EventOK(e) => EventOK(e)'
      /\ \A c : Received(c)' = Received(c)
  BY <1>1, WatchKeeps
<1>3. /\ stream' \in Seq(Events) /\ AddedOnce(stream)'
      /\ \A e \in ToSet(stream') : e \in Events /\ EventOK(e)
      /\ \A c : AddedIn(stream', c) => c \in Existing
      /\ version = 0 => \A c \in Existing : AddedIn(stream', c)
      /\ version # 0 => stream' = SubSeq(log, version + 1, Len(log))
  <2>1. CASE version = 0
    <3>1. PICK objects \in SetToSeqs(Existing) :
            stream' = [i \in DOMAIN objects |-> AsAdded(objects[i])]
      BY <2>1
    <3>2. /\ stream' \in Seq(Events) /\ AddedOnce(stream')
          /\ \A e \in ToSet(stream') : \E c \in Existing : e = AsAdded(c)
          /\ \A c : AddedIn(stream', c) <=> c \in Existing
      BY <3>1, ListedEvents DEF Inv
    <3>3. \A c \in Existing : AsAdded(c) \in Events /\ EventOK(AsAdded(c))
      <4>. SUFFICES ASSUME NEW c \in Existing PROVE AsAdded(c) \in Events /\ EventOK(AsAdded(c))
        OBVIOUS
      <4>1. EventOK(Latest(c)) /\ Latest(c).obj = c
        BY LatestFacts DEF Inv, EventsOK
      <4>. QED  BY <4>1, LatestFacts DEF Inv, EventOK
    <3>. QED  BY <2>1, <3>2, <3>3 DEF AddedOnce
  <2>2. CASE version # 0
    <3>1. stream' = SubSeq(log, version + 1, Len(log))
      BY <2>2
    <3>2. log \in Seq(Events) /\ version \in 0 .. Len(log) /\ AddedOnce(log)
      BY DEF Inv, WatchTypeOK
    <3>3. stream' \in Seq(Events) /\ ToSet(stream') \subseteq ToSet(log) /\ AddedOnce(stream')
      BY <3>1, <3>2, SuffixEvents
    <3>4. \A e \in ToSet(log) : e \in Events /\ EventOK(e) /\ e.obj \in Existing
      BY <3>2 DEF Inv, EventsOK, EventOK, ToSet
    <3>. QED  BY <2>2, <3>1, <3>3, <3>4 DEF AddedIn, AddedOnce
  <2>. QED  BY <2>1, <2>2
<1>4. WatchTypeOK' /\ WatchOK'
  BY <1>3 DEF Inv, WatchTypeOK, WatchOK
<1>5. EventsOK'
  <2>1. \A e \in ToSet(stream') : EventOK(e)'
    BY <1>2, <1>3
  <2>2. \A e \in ToSet(log) : e \in Events
    BY DEF Inv, WatchTypeOK, ToSet
  <2>. QED  BY <1>2, <2>1, <2>2 DEF Inv, EventsOK, WatchTypeOK
<1>6. NotLost'
  <2>1. \A c : ~AddedIn(stream, c)
    BY <1>1 DEF AddedIn, ToSet
  <2>2. \A c \in Existing : OnItsWay(c) => OnItsWay(c)'
    BY <1>3, <2>1 DEF OnItsWay, AddedIn
  <2>. QED  BY <1>1, <2>2, WatchLoses
<1>7. CopiesBounded'
  <2>. SUFFICES ASSUME NEW c \in Objects
                PROVE  Received(c)' + OnWay(c)' <= IF c \in Existing THEN 2 + ends' - Pending' ELSE 0
    BY <1>2 DEF CopiesBounded
  <2>1. /\ Received(c) + OnWay(c) <= IF c \in Existing THEN 2 + ends - Pending ELSE 0
        /\ Received(c) \in Nat /\ OnWay(c) \in Nat /\ ends \in Nat
    BY CountsTyped DEF Inv, CopiesBounded, WatchTypeOK
  <2>2. Received(c)' = Received(c) /\ ends' = ends /\ Pending = 1 /\ Pending' = 0
    BY <1>2 DEF Pending
  <2>3. OnWay(c)' <= OnWay(c) + One(c \in Existing) /\ OnWay(c)' \in Nat
    <3>1. AddedIn(stream, c)' => c \in Existing
      BY <1>3 DEF AddedIn
    <3>. QED  BY <3>1 DEF OnWay, One, Announces
  <2>. QED  BY <2>1, <2>2, <2>3 DEF One
<1>. QED  BY <1>2, <1>3, <1>4, <1>5, <1>6, <1>7 DEF Inv

\* The head of the stream is enqueued: what it overrides is missed if it is a change.
LEMMA ReadEventKeepsInv ==
  ASSUME Inv, ReadEvent, missed' = missed \cup Misses,
         UNCHANGED <<old, chan, target, to, handler, jobs, handled>>
  PROVE  Inv'
<1>. USE DEF ReadEvent
<1>e. PICK e : e = Head(stream)
  OBVIOUS
<1>1. /\ stream \in Seq(Events) /\ e \in Events /\ e.obj \in Objects
      /\ e.type \in {"Added", "Modified"} /\ stream' \in Seq(Events)
      /\ ToSet(stream) = ToSet(stream') \cup {e} /\ Len(stream') < Len(stream)
  <2>1. stream \in Seq(Events)
    BY DEF Inv, WatchTypeOK
  <2>2. /\ e \in Events /\ Tail(stream) \in Seq(Events) /\ ToSet(stream) = ToSet(Tail(stream)) \cup {e}
        /\ Len(Tail(stream)) = Len(stream) - 1 /\ Len(stream) \in Nat \ {0}
    BY <1>e, <2>1, TailValues
  <2>. QED  BY <2>1, <2>2 DEF Events
<1>2. /\ AddedOnce(stream')
      /\ \A c : AddedIn(stream, c) <=> AddedIn(stream', c) \/ (e.obj = c /\ e.type = "Added")
      /\ e.type = "Added" => ~AddedIn(stream', e.obj)
  BY <1>e, <1>1, TailAnnounces DEF Inv
<1>3. EventOK(e) /\ \A f \in ToSet(stream') : f \in Events /\ EventOK(f)
  BY <1>1 DEF Inv, EventsOK, ToSet
<1>4. /\ version' = e.ver /\ queue' = [queue EXCEPT ![e.obj] = e]
      /\ queue \in [Objects -> Events \cup {Nothing}] /\ Nothing \notin Events
  BY <1>e, NothingIsNoEvent DEF Inv, WatchTypeOK
<1>5. missed' = missed \cup Overridden
  BY <1>e, <1>1, <1>4 DEF Misses
<1>6. Overridden \subseteq Existing
  BY DEF Overridden, Inv, EventsOK, EventOK, WatchOK
<1>7. missed \subseteq missed' /\ missed' \subseteq Existing
  BY <1>5, <1>6 DEF Inv, DeliveryTypeOK
<1>8. /\ Existing' = Existing /\ DeliveryTypeOK' /\ AddedOnce(log)' /\ LatestExists'
      /\ WorkWasReceived' /\ \A f \in Events : EventOK(f) => EventOK(f)'
      /\ \A c : Received(c)' = Received(c)
  BY <1>7, WatchKeeps
<1>9. WatchTypeOK' /\ WatchOK'
  <2>1. version' \in 0 .. Len(log)
    BY <1>1, <1>3, <1>4 DEF EventOK, Events, Inv, WatchTypeOK
  <2>. QED  BY <1>1, <1>4, <2>1 DEF Inv, WatchTypeOK, WatchOK
<1>10. EventsOK'
  <2>1. \A f \in ToSet(stream') : EventOK(f)'
    BY <1>3, <1>8
  <2>2. \A o \in Objects : queue'[o] # Nothing => EventOK(queue[o])'
    <3>. SUFFICES ASSUME NEW o \in Objects, queue'[o] # Nothing PROVE EventOK(queue[o])'
      OBVIOUS
    <3>1. queue'[o] \in Events /\ EventOK(queue'[o])
      BY <1>1, <1>3, <1>4 DEF Inv, EventsOK
    <3>. QED  BY <1>8, <3>1 DEF EventOK
  <2>3. \A f \in ToSet(log) : f \in Events
    BY DEF Inv, WatchTypeOK, ToSet
  <2>. QED  BY <1>8, <2>1, <2>2, <2>3 DEF Inv, EventsOK, WatchTypeOK
<1>11. NotLost'
  <2>. SUFFICES ASSUME NEW c \in Existing, OnItsWay(c) PROVE OnItsWay(c)' \/ c \in missed'
    BY <1>7, WatchLoses
  <2>1. c \in Objects
    BY LatestFacts DEF Inv
  <2>2. CASE AddedIn(stream, c)
    <3>1. AddedIn(stream', c) \/ (queue'[c] = e /\ e.obj = c /\ e.type = "Added" /\ e # Nothing)
      BY <1>1, <1>2, <1>4, <2>2
    <3>. QED  BY <3>1 DEF OnItsWay, AddedIn
  <2>3. CASE Announces(queue[c], c)
    <3>1. CASE e.obj = c /\ e.type = "Modified"
      BY <1>e, <1>5, <2>1, <2>3, <3>1 DEF Overridden, Announces
    <3>2. CASE e.obj = c /\ e.type = "Added"
      BY <1>1, <1>4, <2>1, <3>2 DEF OnItsWay
    <3>3. CASE e.obj # c
      <4>1. queue'[c] = queue[c]
        BY <1>4, <2>1, <3>3
      <4>. QED  BY <2>3, <4>1 DEF OnItsWay, Announces
    <3>. QED  BY <1>1, <3>1, <3>2, <3>3
  <2>4. CASE \/ Announces(evicted, c)
             \/ target = c /\ Kind[c] \in to
             \/ c \in ToSet(chan[Kind[c]])
    BY <2>4 DEF OnItsWay, Announces
  <2>. QED  BY <2>2, <2>3, <2>4 DEF OnItsWay, Announces
<1>12. CopiesBounded'
  <2>. SUFFICES ASSUME NEW c \in Objects
                PROVE  OnWay(c)' <= OnWay(c) /\ OnWay(c)' \in Nat
    <3>1. ASSUME NEW c \in Objects
          PROVE  /\ Received(c) + OnWay(c) <= IF c \in Existing THEN 2 + ends - Pending ELSE 0
                 /\ Received(c) \in Nat /\ OnWay(c) \in Nat /\ ends \in Nat
                 /\ Pending = 0 /\ Pending' = 0 /\ ends' = ends
      BY CountsTyped DEF Inv, CopiesBounded, WatchTypeOK, Pending
    <3>. QED  BY <1>8, <3>1 DEF CopiesBounded
  <2>1. CASE e.obj = c
    <3>1. One(Announces(queue[c], c))' = One(e.type = "Added")
      BY <1>1, <1>4, <2>1 DEF One, Announces
    <3>2. One(Announces(queue[c], c))' + One(AddedIn(stream', c)) <= One(AddedIn(stream, c))
      BY <1>1, <1>2, <2>1, <3>1 DEF One
    <3>. QED  BY <3>1, <3>2 DEF OnWay, One, Announces, AddedIn
  <2>2. CASE e.obj # c
    <3>1. queue'[c] = queue[c] /\ (AddedIn(stream', c) <=> AddedIn(stream, c))
      BY <1>2, <1>4, <2>2
    <3>. QED  BY <3>1 DEF OnWay, One, Announces, AddedIn
  <2>. QED  BY <2>1, <2>2
<1>13. AddedOnce(stream)'
  BY <1>2 DEF AddedOnce
<1>. QED  BY <1>8, <1>9, <1>10, <1>11, <1>12, <1>13 DEF Inv

\* The watch ends: what it had not delivered comes again, but for what it passed over.
LEMMA EndKeepsInv ==
  ASSUME Inv, WatchClosed \/ WatchError, missed' = missed \cup Misses,
         UNCHANGED <<old, chan, target, to, handler, jobs, handled>>
  PROVE  Inv'
<1>. USE DEF WatchClosed, WatchError, End
<1>1. /\ ends \in Nat /\ ends' = ends + 1 /\ version \in Nat /\ Len(log) \in Nat
      /\ version' = version \/ version' = 0
  BY DEF Inv, WatchTypeOK
<1>2. missed' = missed \cup (IF version' = 0 THEN {} ELSE PassedOver)
  BY <1>1 DEF Misses
<1>3. PassedOver \subseteq Existing
  BY DEF PassedOver, AddedIn, Inv, EventsOK, EventOK
<1>4. missed \subseteq missed' /\ missed' \subseteq Existing
  BY <1>2, <1>3 DEF Inv, DeliveryTypeOK
<1>5. /\ Existing' = Existing /\ DeliveryTypeOK' /\ AddedOnce(log)' /\ LatestExists'
      /\ WorkWasReceived' /\ \A f \in Events : EventOK(f) => EventOK(f)'
      /\ \A c : Received(c)' = Received(c)
  BY <1>4, WatchKeeps
<1>6. WatchTypeOK' /\ WatchOK' /\ AddedOnce(stream)'
  <2>1. ends' \in 0 .. MaxEnds /\ version' \in 0 .. Len(log)
    BY <1>1, LogAssumption DEF Inv, WatchTypeOK
  <2>2. stream' = <<>> /\ watch' = "connect"
    OBVIOUS
  <2>3. WatchTypeOK'
    <3>1. <<>> \in Seq(Events)
      OBVIOUS
    <3>. QED  BY <2>1, <2>2, <3>1 DEF Inv, WatchTypeOK
  <2>4. AddedOnce(stream)'
    BY <2>2 DEF AddedOnce
  <2>. QED  BY <2>2, <2>3, <2>4 DEF Inv, WatchOK
<1>7. EventsOK'
  <2>1. \A f \in ToSet(log) : f \in Events
    BY DEF Inv, WatchTypeOK, ToSet
  <2>2. ToSet(stream') = {}
    BY DEF ToSet
  <2>. QED  BY <1>5, <2>1, <2>2 DEF Inv, EventsOK, WatchTypeOK
<1>8. NotLost'
  <2>. SUFFICES ASSUME NEW c \in Existing, OnItsWay(c) PROVE OnItsWay(c)' \/ c \in missed'
    BY <1>4, WatchLoses
  <2>1. c \in Objects
    BY LatestFacts DEF Inv
  <2>2. CASE AddedIn(stream, c)
    <3>1. CASE version' = 0
      BY <3>1 DEF OnItsWay
    <3>2. CASE version' # 0 /\ AddedIn(SubSeq(log, version + 1, Len(log)), c)
      BY <1>1, <3>2 DEF OnItsWay, AddedIn
    <3>3. CASE version' # 0 /\ ~AddedIn(SubSeq(log, version + 1, Len(log)), c)
      BY <1>1, <1>2, <2>1, <2>2, <3>3 DEF PassedOver
    <3>. QED  BY <3>1, <3>2, <3>3
  <2>3. CASE ~AddedIn(stream, c)
    BY <2>3 DEF OnItsWay
  <2>. QED  BY <2>2, <2>3
<1>9. CopiesBounded'
  <2>. SUFFICES ASSUME NEW c \in Objects
                PROVE  Received(c)' + OnWay(c)' <= IF c \in Existing THEN 2 + ends' - Pending' ELSE 0
    BY <1>5 DEF CopiesBounded
  <2>1. /\ Received(c) + OnWay(c) <= IF c \in Existing THEN 2 + ends - Pending ELSE 0
        /\ Received(c) \in Nat /\ OnWay(c) \in Nat
    BY CountsTyped DEF Inv, CopiesBounded
  <2>2. Received(c)' = Received(c) /\ Pending = 0 /\ Pending' = 1
    BY <1>5 DEF Pending
  <2>3. OnWay(c)' <= OnWay(c) /\ OnWay(c)' \in Nat
    <3>1. ~AddedIn(stream, c)'
      BY DEF AddedIn, ToSet
    <3>. QED  BY <3>1 DEF OnWay, One, Announces
  <2>. QED  BY <1>1, <2>1, <2>2, <2>3
<1>. QED  BY <1>5, <1>6, <1>7, <1>8, <1>9 DEF Inv

\* The evictor holds what it took out of the queue.
LEMMA EvictKeepsInv ==
  ASSUME Inv, NEW o \in Objects, Evict(o), missed' = missed \cup Misses,
         UNCHANGED <<old, chan, target, to, handler, jobs, handled>>
  PROVE  Inv'
<1>. USE DEF Evict
<1>1. missed' = missed
  BY DEF Misses, Inv, WatchTypeOK
<1>2. /\ Existing' = Existing /\ DeliveryTypeOK' /\ AddedOnce(log)' /\ LatestExists'
      /\ WorkWasReceived' /\ \A f \in Events : EventOK(f) => EventOK(f)'
      /\ \A c : Received(c)' = Received(c)
  BY <1>1, WatchKeeps DEF Inv, DeliveryTypeOK
<1>3. /\ queue \in [Objects -> Events \cup {Nothing}] /\ queue[o] \in Events /\ evicted' = queue[o]
      /\ evicted = Nothing /\ queue[o].obj = o /\ queue[o] # Nothing /\ EventOK(queue[o])
      /\ queue'[o] = Nothing /\ \A c \in Objects \ {o} : queue'[c] = queue[c]
  BY DEF Inv, WatchTypeOK, WatchOK, EventsOK
<1>4. WatchTypeOK' /\ WatchOK' /\ AddedOnce(stream)'
  BY <1>3 DEF Inv, WatchTypeOK, WatchOK, AddedOnce
<1>5. EventsOK'
  <2>1. \A f \in ToSet(log) \cup ToSet(stream) : f \in Events
    BY DEF Inv, WatchTypeOK, ToSet
  <2>2. \A c \in Objects : queue'[c] # Nothing => EventOK(queue[c])'
    BY <1>2, <1>3 DEF Inv, EventsOK, EventOK
  <2>3. EventOK(evicted)'
    BY <1>2, <1>3 DEF EventOK
  <2>. QED  BY <1>2, <2>1, <2>2, <2>3 DEF Inv, EventsOK
<1>6. NotLost'
  <2>. SUFFICES ASSUME NEW c \in Existing, OnItsWay(c) PROVE OnItsWay(c)'
    BY <1>1, WatchLoses DEF Inv, DeliveryTypeOK
  <2>1. c \in Objects
    BY LatestFacts DEF Inv
  <2>2. Announces(queue[c], c) => Announces(queue[c], c)' \/ Announces(evicted, c)'
    BY <1>3, <2>1 DEF Announces
  <2>. QED  BY <1>3, <2>2 DEF OnItsWay, AddedIn, Announces
<1>7. CopiesBounded'
  <2>. SUFFICES ASSUME NEW c \in Objects PROVE OnWay(c)' = OnWay(c)
    BY <1>2 DEF Inv, CopiesBounded, Pending
  <2>1. CASE c = o
    BY <1>3, <2>1 DEF OnWay, One, Announces, AddedIn
  <2>2. CASE c # o
    BY <1>3, <2>2 DEF OnWay, One, Announces, AddedIn
  <2>. QED  BY <2>1, <2>2
<1>. QED  BY <1>2, <1>4, <1>5, <1>6, <1>7 DEF Inv

-----------------------------------------------------------------------------
(* The theorems. *)

LEMMA NextInv == Inv /\ [Next]_vars => Inv'
<1>. SUFFICES ASSUME Inv, [Next]_vars PROVE Inv'
  OBVIOUS
<1>1. ASSUME NEW c \in Objects, Create(c) \/ Touch(c) \/ CommandStep(c) PROVE Inv'
  BY <1>1, CreateKeepsInv, TouchKeepsInv, CommandStepKeepsInv
<1>2. ASSUME NEW r \in Receivers, HandlerStep(r) PROVE Inv'
  BY <1>2, RegisterKeepsInv, ReceiveKeepsInv, DeliverKeepsInv DEF HandlerStep
<1>3. CASE Watching
  BY <1>3, ListKeepsInv, ConnectKeepsInv, ReadEventKeepsInv, EndKeepsInv, EvictKeepsInv
     DEF Watching, WatchStep
<1>4. CASE TakeEvent
  BY <1>4, TakeEventKeepsInv
<1>5. CASE UNCHANGED vars
  <2>1. UNCHANGED <<watchVars, old, chan, target, to, handled, missed>> /\ UNCHANGED <<handler, jobs>>
    BY <1>5 DEF vars, deliveryVars
  <2>2. HandlersOK'
    BY <2>1 DEF HandlersOK, Inv, DeliveryTypeOK, WorkWasReceived, registered
  <2>. QED  BY <2>1, <2>2, HandlersKeep
<1>. QED  BY <1>1, <1>2, <1>3, <1>4, <1>5 DEF Next

\* The inductive invariant holds of every behaviour.
THEOREM Invariance == Spec => []Inv
BY InitInv, NextInv, PTL DEF Spec

\* Type correctness.  It rests on the invariant: without it the choice of a command's
\* latest event (the list, AsAdded) and the version an event carries would have no type.
THEOREM TypeCorrect == Spec => []TypeOK
<1>1. Inv => TypeOK
  BY DEF Inv, WatchTypeOK, DeliveryTypeOK, TypeOK
<1>. QED  BY <1>1, Invariance, PTL

\* However the lists fail, the watches end and commands change: a command that is there
\* is handled, found old, on its way, or lost in one of the three ways of Misses and
\* TakeEvent (commandswatcher.go: the queue overrides, the version passes over, no
\* receiver yet).
THEOREM NothingElseLost == Spec => []NotLost
BY Invariance, PTL DEF Inv

\* However events are queued, evicted and delivered: a command reaches its handler at
\* most once for the list and once for each watch opened, so that an OperatorCommand
\* runs a bounded number of times (commandswatcher.go, commandshandler.go).
THEOREM HandledAtMost == Spec => []AtMostOncePerWatch
<1>1. Inv => AtMostOncePerWatch
  <2>. SUFFICES ASSUME Inv, NEW c \in Objects PROVE handled[c] <= 2 + ends
    BY DEF AtMostOncePerWatch
  <2>1. /\ handled[c] \in Nat /\ Cardinality(Places(chan[Kind[c]], c)) \in Nat
        /\ OnWay(c) \in Nat /\ ends \in Nat /\ Pending \in {0, 1, 2}
    BY CountsTyped, PlacesFinite DEF Inv, WatchTypeOK, Pending
  <2>2. Received(c) + OnWay(c) <= IF c \in Existing THEN 2 + ends - Pending ELSE 0
    BY DEF Inv, CopiesBounded
  <2>. QED  BY <2>1, <2>2 DEF Received
<1>. QED  BY <1>1, Invariance, PTL
=============================================================================
