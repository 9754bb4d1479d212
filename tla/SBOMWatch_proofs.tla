--------------------------- MODULE SBOMWatch_proofs ---------------------------
(***************************************************************************)
(* Theorems about SBOMWatch, for every number of events and of tokens.     *)
(***************************************************************************)
EXTENDS SBOMWatch, TLAPS

\* What is on its way in a goroutine was read.
OnlyRead == /\ loop.at \in Classes \cup {"submit"} => loop.ev \in 1 .. read
            /\ handler.at # "read" => handler.ev \in 1 .. read
            /\ submitted \in Seq(1 .. read)
            /\ wanted \subseteq 1 .. read

Inv == TypeOK /\ ScansInOrder /\ WatchIsReplaced /\ OnlyRead

Increasing(s) == \A i, j \in DOMAIN s : i < j => s[i] < s[j]

-----------------------------------------------------------------------------
(* Facts about sequences. *)

\* A sequence of one value, or of none, at the end.
LEMMA AtTheEnd ==
  ASSUME NEW S, NEW s \in Seq(S), NEW v \in S
  PROVE  /\ s \o <<>> = s
         /\ s \o <<v>> = Append(s, v)
         /\ Append(s, v) \in Seq(S)
OBVIOUS

\* A number that is greater than all others keeps a sequence increasing.
LEMMA NextNumber ==
  ASSUME NEW n \in Nat, NEW s \in Seq(1 .. n), Increasing(s)
  PROVE  /\ Increasing(Append(s, n + 1))
         /\ ToSet(Append(s, n + 1)) = ToSet(s) \cup {n + 1}
<1> DEFINE t == Append(s, n + 1)
<1>1. /\ Len(s) \in Nat
      /\ DOMAIN s = 1 .. Len(s)
      /\ DOMAIN t = 1 .. Len(s) + 1
      /\ \A i \in 1 .. Len(s) : t[i] = s[i] /\ s[i] \in 1 .. n
      /\ t[Len(s) + 1] = n + 1
  OBVIOUS
<1>2. Increasing(t)
  BY <1>1 DEF Increasing
<1>3. ToSet(t) = ToSet(s) \cup {n + 1}
  <2>1. \A x \in ToSet(t) : x \in ToSet(s) \cup {n + 1}
    BY <1>1 DEF ToSet
  <2>2. \A x \in ToSet(s) : x \in ToSet(t)
    BY <1>1 DEF ToSet
  <2>3. n + 1 \in ToSet(t)
    BY <1>1 DEF ToSet
  <2>. QED  BY <2>1, <2>2, <2>3
<1>. QED  BY <1>2, <1>3

-----------------------------------------------------------------------------
(* The invariant. *)

LEMMA InitInv == Init => Inv
<1>. SUFFICES ASSUME Init PROVE Inv
  OBVIOUS
<1>. USE BoundsAssumption DEF Init, Selecting, Reading, Classes
<1>1. TypeOK
  BY DEF TypeOK
<1>2. Pipeline = <<>>
  BY DEF Pipeline, Submitting, Handled, Feeding
<1>3. ScansInOrder
  BY <1>2 DEF ScansInOrder, ToSet
<1>. QED  BY <1>1, <1>3 DEF Inv, WatchIsReplaced, OnlyRead

\* A step that keeps the pipeline and what is wanted keeps the scans in order.
LEMMA SamePipeline ==
  ASSUME ScansInOrder, Pipeline' = Pipeline, wanted' = wanted
  PROVE  ScansInOrder'
BY DEF ScansInOrder

\* The pipeline in terms of who holds a scan.
PipelineByHolder ==
  LET l == loop.ev
      h == handler.ev
  IN  /\ loop.at \notin {"submit", "scan"} /\ handler.at # "command" => Pipeline = submitted
      /\ loop.at \notin {"submit", "scan"} /\ handler.at = "command" =>
           Pipeline = Append(submitted, h)
      /\ loop.at \in {"submit", "scan"} /\ handler.at # "command" =>
           Pipeline = Append(submitted, l)
      /\ loop.at = "submit" /\ handler.at = "command" =>
           Pipeline = Append(Append(submitted, l), h)
      /\ loop.at = "scan" /\ handler.at = "command" =>
           Pipeline = Append(Append(submitted, h), l)

LEMMA Held == TypeOK => PipelineByHolder
<1>. SUFFICES ASSUME TypeOK PROVE PipelineByHolder
  OBVIOUS
<1> DEFINE S == 0 .. MaxEvents
<1>1. submitted \in Seq(S) /\ loop.ev \in S /\ handler.ev \in S
  BY BoundsAssumption DEF TypeOK
<1>2. \A s \in Seq(S), v \in S : s \o <<>> = s /\ s \o <<v>> = Append(s, v)
                                /\ Append(s, v) \in Seq(S)
  BY AtTheEnd
<1>. HIDE DEF S
<1>3. CASE loop.at \notin {"submit", "scan"} /\ handler.at # "command"
  <2>1. Pipeline = submitted \o <<>> \o <<>> \o <<>>
    BY <1>3 DEF Pipeline, Submitting, Handled, Feeding
  <2>2. Pipeline = submitted
    BY <1>1, <1>2, <2>1
  <2>. QED  BY <1>3, <2>2 DEF PipelineByHolder
<1>4. CASE loop.at \notin {"submit", "scan"} /\ handler.at = "command"
  <2>1. Pipeline = submitted \o <<>> \o <<handler.ev>> \o <<>>
    BY <1>4 DEF Pipeline, Submitting, Handled, Feeding
  <2>2. Pipeline = Append(submitted, handler.ev)
    BY <1>1, <1>2, <2>1
  <2>. QED  BY <1>4, <2>2 DEF PipelineByHolder
<1>5. CASE loop.at = "submit" /\ handler.at # "command"
  <2>1. Pipeline = submitted \o <<loop.ev>> \o <<>> \o <<>>
    BY <1>5 DEF Pipeline, Submitting, Handled, Feeding
  <2>2. Pipeline = Append(submitted, loop.ev)
    BY <1>1, <1>2, <2>1
  <2>. QED  BY <1>5, <2>2 DEF PipelineByHolder
<1>6. CASE loop.at = "scan" /\ handler.at # "command"
  <2>1. Pipeline = submitted \o <<>> \o <<>> \o <<loop.ev>>
    BY <1>6 DEF Pipeline, Submitting, Handled, Feeding
  <2>2. Pipeline = Append(submitted, loop.ev)
    BY <1>1, <1>2, <2>1
  <2>. QED  BY <1>6, <2>2 DEF PipelineByHolder
<1>7. CASE loop.at = "submit" /\ handler.at = "command"
  <2>1. Pipeline = submitted \o <<loop.ev>> \o <<handler.ev>> \o <<>>
    BY <1>7 DEF Pipeline, Submitting, Handled, Feeding
  <2>2. Pipeline = Append(Append(submitted, loop.ev), handler.ev)
    BY <1>1, <1>2, <2>1
  <2>. QED  BY <1>7, <2>2 DEF PipelineByHolder
<1>8. CASE loop.at = "scan" /\ handler.at = "command"
  <2>1. Pipeline = submitted \o <<>> \o <<handler.ev>> \o <<loop.ev>>
    BY <1>8 DEF Pipeline, Submitting, Handled, Feeding
  <2>2. submitted \o <<>> = submitted
    BY <1>1, <1>2
  <2>3. submitted \o <<handler.ev>> = Append(submitted, handler.ev)
        /\ Append(submitted, handler.ev) \in Seq(S)
    BY <1>1, <1>2
  <2>4. Append(submitted, handler.ev) \o <<loop.ev>>
          = Append(Append(submitted, handler.ev), loop.ev)
    BY <1>1, <1>2, <2>3
  <2>5. Pipeline = Append(Append(submitted, handler.ev), loop.ev)
    BY <2>1, <2>2, <2>3, <2>4
  <2>. QED  BY <1>8, <2>5 DEF PipelineByHolder
<1>. QED  BY <1>3, <1>4, <1>5, <1>6, <1>7, <1>8

LEMMA HeldNext == TypeOK' => PipelineByHolder'
BY Held, PTL

\* A step that changes nothing of what is on its way, and reads nothing.
LEMMA OtherStep ==
  ASSUME Inv, TypeOK', UNCHANGED <<read, wanted, submitted>>,
         handler' = handler \/ (handler.at # "command" /\ handler'.at # "command"),
         handler'.at # "read" => handler'.ev \in 1 .. read,
         loop'.at \notin {"submit", "scan"}, loop.at \notin {"submit", "scan"},
         loop'.at \in Classes => loop'.ev \in 1 .. read
  PROVE  ScansInOrder' /\ OnlyRead'
<1>1. Pipeline' = Pipeline
  BY DEF Pipeline, Submitting, Handled, Feeding
<1>. QED  BY <1>1, SamePipeline DEF Inv, OnlyRead

LEMMA NextInv == Inv /\ [Next]_vars => Inv'
<1>. SUFFICES ASSUME Inv, [Next]_vars PROVE Inv'
  OBVIOUS
<1>. USE BoundsAssumption DEF Inv
<1>t. /\ loop.at \in Classes \cup {"select", "sleep", "connect", "submit"}
      /\ handler.at \in {"read", "command", "error"}
      /\ tokens \in Nat /\ read \in Nat
  BY DEF TypeOK
<1>1. ASSUME NEW class \in Classes, ReadEvent(class) PROVE Inv'
  <2>1. /\ loop = Selecting /\ read < MaxEvents /\ events = "open"
        /\ loop' = [at |-> class, ev |-> read + 1]
        /\ wanted' = IF class = "scan" THEN wanted \cup {read + 1} ELSE wanted
        /\ read' = read + 1
        /\ UNCHANGED <<events, tokens, handler, submitted>>
    BY <1>1 DEF ReadEvent
  <2>2. read + 1 \in 0 .. MaxEvents /\ read + 1 \in 1 .. MaxEvents
    BY <1>t, <2>1
  <2>3. TypeOK'
    BY <2>1, <2>2 DEF TypeOK
  <2>4. OnlyRead'
    <3>1. \A s \in Seq(1 .. read) : s \in Seq(1 .. read + 1)
      BY <1>t
    <3>2. 1 .. read \subseteq 1 .. read + 1 /\ read + 1 \in 1 .. read + 1
      BY <1>t
    <3>. QED  BY <2>1, <3>1, <3>2 DEF OnlyRead
  <2>5. ScansInOrder'
    <3>1. CASE class # "scan"
      <4>1. Pipeline' = Pipeline
        BY <2>1, <3>1 DEF Pipeline, Submitting, Handled, Feeding, Selecting, Classes
      <4>. QED  BY <2>1, <3>1, <4>1, SamePipeline
    <3>2. CASE class = "scan"
      <4>1. Pipeline' = Append(Pipeline, read + 1)
        BY <2>1, <2>3, <3>2, Held, HeldNext DEF PipelineByHolder, Selecting
      <4>2. Pipeline \in Seq(1 .. read)
        <5>1. /\ Pipeline = IF handler.at = "command" THEN Append(submitted, handler.ev)
                                                      ELSE submitted
              /\ submitted \in Seq(1 .. read)
              /\ handler.at = "command" => handler.ev \in 1 .. read
          BY <1>t, <2>1, Held DEF PipelineByHolder, Selecting, OnlyRead
        <5>2. handler.at = "command" => Append(submitted, handler.ev) \in Seq(1 .. read)
          BY <5>1, AtTheEnd
        <5>. QED  BY <5>1, <5>2
      <4>3. Increasing(Pipeline) /\ ToSet(Pipeline) = wanted
        BY DEF ScansInOrder, Increasing
      <4>4. Increasing(Pipeline)' /\ ToSet(Pipeline)' = wanted \cup {read + 1}
        BY <1>t, <4>1, <4>2, <4>3, NextNumber DEF Increasing
      <4>. QED  BY <2>1, <3>2, <4>4 DEF ScansInOrder, Increasing
    <3>. QED  BY <3>1, <3>2
  <2>. QED  BY <2>1, <2>3, <2>4, <2>5 DEF WatchIsReplaced
<1>2. CASE ReadClosed
  <2>1. TypeOK'
    BY <1>2, <1>t DEF ReadClosed, NotifyWatcherDown, TypeOK
  <2>2. ScansInOrder' /\ OnlyRead'
    BY <1>2, <2>1, OtherStep DEF ReadClosed, NotifyWatcherDown, Selecting, Classes, OnlyRead
  <2>. QED  BY <1>2, <2>1, <2>2 DEF WatchIsReplaced, ReadClosed
<1>3. CASE ReceiveCommand
  <2>1. /\ loop = Selecting /\ handler.at = "command"
        /\ loop' = [at |-> "submit", ev |-> handler.ev] /\ handler' = Reading
        /\ UNCHANGED <<events, tokens, read, wanted, submitted>>
    BY <1>3 DEF ReceiveCommand
  <2>2. TypeOK'
    BY <2>1 DEF TypeOK, Reading
  <2>3. Pipeline' = Pipeline
    BY <2>1, <2>2, Held, HeldNext DEF PipelineByHolder, Selecting, Reading
  <2>. QED
    BY <2>1, <2>2, <2>3, SamePipeline DEF WatchIsReplaced, OnlyRead, Selecting, Reading, Classes
<1>4. CASE ReceiveError
  <2>1. TypeOK'
    BY <1>4 DEF ReceiveError, TypeOK, Reading
  <2>2. ScansInOrder' /\ OnlyRead'
    BY <1>4, <2>1, OtherStep DEF ReceiveError, Selecting, Reading, Classes
  <2>. QED  BY <1>4, <2>1, <2>2 DEF WatchIsReplaced, ReceiveError
<1>5. CASE ReceiveToken
  <2>1. TypeOK'
    BY <1>5, <1>t DEF ReceiveToken, TypeOK
  <2>2. ScansInOrder' /\ OnlyRead'
    BY <1>5, <2>1, OtherStep DEF ReceiveToken, Selecting, Classes, OnlyRead
  <2>. QED  BY <1>5, <2>1, <2>2 DEF WatchIsReplaced, ReceiveToken
<1>6. CASE ConnectSucceeds
  <2>1. TypeOK'
    BY <1>6 DEF ConnectSucceeds, TypeOK, Selecting
  <2>2. ScansInOrder' /\ OnlyRead'
    BY <1>6, <2>1, OtherStep DEF ConnectSucceeds, Selecting, Classes, OnlyRead
  <2>. QED  BY <1>6, <2>1, <2>2 DEF WatchIsReplaced, ConnectSucceeds
<1>7. CASE ConnectFails
  <2>1. TypeOK'
    BY <1>7, <1>t DEF ConnectFails, NotifyWatcherDown, TypeOK
  <2>2. ScansInOrder' /\ OnlyRead'
    BY <1>7, <2>1, OtherStep DEF ConnectFails, NotifyWatcherDown, Classes, OnlyRead
  <2>. QED  BY <1>7, <1>t, <2>1, <2>2 DEF WatchIsReplaced, ConnectFails, NotifyWatcherDown
<1>8. CASE WakeUp
  <2>1. TypeOK'
    BY <1>8 DEF WakeUp, TypeOK, Selecting
  <2>2. ScansInOrder' /\ OnlyRead'
    BY <1>8, <2>1, OtherStep DEF WakeUp, Selecting, Classes, OnlyRead
  <2>. QED  BY <1>8, <2>1, <2>2 DEF WatchIsReplaced, WakeUp
<1>9. CASE Feed
  <2>1. /\ loop.at \in Classes /\ handler = Reading /\ loop' = Selecting
        /\ handler' = Handling(loop.at, loop.ev)
        /\ UNCHANGED <<events, tokens, read, wanted, submitted>>
    BY <1>9 DEF Feed
  <2>2. /\ loop.at = "scan" => handler' = [at |-> "command", ev |-> loop.ev]
        /\ loop.at = "bad" => handler' = [at |-> "error", ev |-> loop.ev]
        /\ loop.at = "skip" => handler' = Reading
    BY <2>1 DEF Handling
  <2>3. TypeOK'
    BY <2>1, <2>2 DEF TypeOK, Reading, Selecting, Classes
  <2>4. Pipeline' = Pipeline
    BY <2>1, <2>2, <2>3, Held, HeldNext DEF PipelineByHolder, Selecting, Reading, Classes
  <2>5. OnlyRead'
    BY <2>1, <2>2 DEF OnlyRead, Selecting, Reading, Classes
  <2>. QED  BY <2>1, <2>3, <2>4, <2>5, SamePipeline DEF WatchIsReplaced, Classes
<1>10. CASE Submit
  <2>1. /\ loop.at = "submit" /\ loop' = Selecting
        /\ submitted' = Append(submitted, loop.ev)
        /\ UNCHANGED <<events, tokens, handler, read, wanted>>
    BY <1>10 DEF Submit
  <2>2. loop.ev \in 1 .. read /\ loop.ev \in 1 .. MaxEvents
    BY <2>1 DEF OnlyRead, TypeOK
  <2>3. TypeOK'
    BY <2>1, <2>2 DEF TypeOK, Selecting
  <2>4. Pipeline' = Pipeline
    BY <2>1, <2>3, Held, HeldNext DEF PipelineByHolder, Selecting
  <2>5. OnlyRead'
    BY <2>1, <2>2 DEF OnlyRead, Selecting, Classes
  <2>. QED  BY <2>1, <2>3, <2>4, <2>5, SamePipeline DEF WatchIsReplaced
<1>11. CASE WatchEnds
  <2>1. TypeOK'
    BY <1>11 DEF WatchEnds, TypeOK
  <2>2. Pipeline' = Pipeline
    BY <1>11 DEF WatchEnds, Pipeline, Submitting, Handled, Feeding
  <2>. QED  BY <1>11, <2>1, <2>2, SamePipeline DEF WatchEnds, WatchIsReplaced, OnlyRead
<1>12. CASE UNCHANGED vars
  <2>1. Pipeline' = Pipeline
    BY <1>12 DEF vars, Pipeline, Submitting, Handled, Feeding
  <2>. QED  BY <1>12, <2>1, SamePipeline DEF vars, TypeOK, WatchIsReplaced, OnlyRead
<1>. QED
  BY <1>1, <1>2, <1>3, <1>4, <1>5, <1>6, <1>7, <1>8, <1>9, <1>10, <1>11, <1>12 DEF Next

-----------------------------------------------------------------------------
\* The invariant of the loop, its handler and the tokens holds in every reachable state.
THEOREM Invariance == Spec => []Inv
BY InitInv, NextInv, PTL DEF Spec

\* Loop and handler are always at one of their places, with an event that was read
\* (sbomwatcher.go, SBOMWatch and HandleSBOMEvents).
THEOREM TypeCorrect == Spec => []TypeOK
BY Invariance, PTL DEF Inv

\* However many events, watches and failed connections there are, the two goroutines of
\* sbomwatcher.go neither lose, repeat nor overtake the scan an event asks for.
THEOREM InOrder == Spec => []ScansInOrder
BY Invariance, PTL DEF Inv

\* Before the first watch of sbomwatcher.go there is always a token, or the connection is
\* being tried: no failed connection leaves the loop without a reason to try again.
THEOREM Replaced == Spec => []WatchIsReplaced
BY Invariance, PTL DEF Inv
=============================================================================
