----------------------- MODULE CommandResponse_proofs -----------------------
(***************************************************************************)
(* Theorems about CommandResponse, for every set of commands, every pool   *)
(* size and every capacity.                                                *)
(***************************************************************************)
EXTENDS CommandResponse, FiniteSetTheorems, TLAPS

-----------------------------------------------------------------------------
(* Sequences used as Go channels: what a send and a receive do to the set of  *)
(* values in the channel, and to their being distinct.                        *)

\* A send adds the value to the channel's values; distinct values stay distinct
\* when the value is new.
LEMMA SendValues ==
  ASSUME NEW S, NEW ch \in Seq(S), NEW v \in S
  PROVE  /\ Append(ch, v) \in Seq(S)
         /\ Len(Append(ch, v)) = Len(ch) + 1
         /\ ToSet(Append(ch, v)) = ToSet(ch) \cup {v}
         /\ IsInjective(ch) /\ v \notin ToSet(ch) => IsInjective(Append(ch, v))
<1>1. /\ Append(ch, v) \in Seq(S)
      /\ Len(Append(ch, v)) = Len(ch) + 1
      /\ Append(ch, v)[Len(ch) + 1] = v
      /\ \A i \in 1..Len(ch) : Append(ch, v)[i] = ch[i]
  OBVIOUS
<1>2. /\ DOMAIN ch = 1..Len(ch)
      /\ DOMAIN Append(ch, v) = 1..(Len(ch) + 1)
      /\ Len(ch) \in Nat
  BY <1>1
<1>3. ToSet(Append(ch, v)) = ToSet(ch) \cup {v}
  <2>1. ASSUME NEW x \in ToSet(Append(ch, v)) PROVE x \in ToSet(ch) \cup {v}
    <3>1. PICK i \in 1..(Len(ch) + 1) : x = Append(ch, v)[i]
      BY <1>2, <2>1 DEF ToSet
    <3>2. CASE i = Len(ch) + 1
      BY <1>1, <3>1, <3>2
    <3>3. CASE i \in 1..Len(ch)
      BY <1>1, <1>2, <3>1, <3>3 DEF ToSet
    <3>. QED  BY <1>2, <3>2, <3>3
  <2>2. ASSUME NEW x \in ToSet(ch) \cup {v} PROVE x \in ToSet(Append(ch, v))
    <3>1. CASE x = v
      BY <1>1, <1>2, <3>1 DEF ToSet
    <3>2. CASE x \in ToSet(ch)
      <4>1. PICK i \in 1..Len(ch) : x = ch[i]
        BY <1>2, <3>2 DEF ToSet
      <4>2. i \in DOMAIN Append(ch, v) /\ Append(ch, v)[i] = x
        BY <1>1, <1>2, <4>1
      <4>. QED  BY <4>2 DEF ToSet
    <3>. QED  BY <2>2, <3>1, <3>2
  <2>. QED  BY <2>1, <2>2
<1>4. ASSUME IsInjective(ch), v \notin ToSet(ch) PROVE IsInjective(Append(ch, v))
  <2>1. \A i \in 1..Len(ch) : ch[i] # v
    BY <1>2, <1>4 DEF ToSet
  <2>2. \A i, j \in 1..Len(ch) : ch[i] = ch[j] => i = j
    BY <1>2, <1>4 DEF IsInjective
  <2>3. \A i, j \in 1..(Len(ch) + 1) : Append(ch, v)[i] = Append(ch, v)[j] => i = j
    BY <1>1, <1>2, <2>1, <2>2
  <2>. QED  BY <1>2, <2>3 DEF IsInjective
<1>. QED  BY <1>1, <1>3, <1>4

\* A receive removes the value at the head when the values are distinct.
LEMMA ReceiveValues ==
  ASSUME NEW S, NEW ch \in Seq(S), ch # <<>>, IsInjective(ch)
  PROVE  /\ Head(ch) \in S
         /\ Head(ch) \in ToSet(ch)
         /\ Tail(ch) \in Seq(S)
         /\ Len(Tail(ch)) = Len(ch) - 1
         /\ ToSet(Tail(ch)) = ToSet(ch) \ {Head(ch)}
         /\ IsInjective(Tail(ch))
<1>1. /\ Len(ch) \in Nat \ {0}
      /\ Head(ch) = ch[1]
      /\ Head(ch) \in S
      /\ Tail(ch) \in Seq(S)
      /\ Len(Tail(ch)) = Len(ch) - 1
      /\ \A i \in 1..(Len(ch) - 1) : Tail(ch)[i] = ch[i + 1]
  OBVIOUS
<1>2. /\ DOMAIN ch = 1..Len(ch)
      /\ DOMAIN Tail(ch) = 1..(Len(ch) - 1)
  BY <1>1
<1>3. \A i, j \in 1..Len(ch) : ch[i] = ch[j] => i = j
  BY <1>2 DEF IsInjective
<1>4. Head(ch) \in ToSet(ch)
  BY <1>1, <1>2 DEF ToSet
<1>5. ToSet(Tail(ch)) = ToSet(ch) \ {Head(ch)}
  <2>1. ASSUME NEW x \in ToSet(Tail(ch)) PROVE x \in ToSet(ch) \ {Head(ch)}
    <3>1. PICK i \in 1..(Len(ch) - 1) : x = ch[i + 1]
      BY <1>1, <1>2, <2>1 DEF ToSet
    <3>2. i + 1 \in 1..Len(ch) /\ i + 1 # 1
      BY <1>1, <3>1
    <3>3. x \in ToSet(ch)
      BY <1>2, <3>1, <3>2 DEF ToSet
    <3>. QED  BY <1>1, <1>3, <3>1, <3>2, <3>3
  <2>2. ASSUME NEW x \in ToSet(ch), x # Head(ch) PROVE x \in ToSet(Tail(ch))
    <3>1. PICK i \in 1..Len(ch) : x = ch[i]
      BY <1>2, <2>2 DEF ToSet
    <3>2. i # 1
      BY <1>1, <2>2, <3>1
    <3>3. i - 1 \in 1..(Len(ch) - 1) /\ (i - 1) + 1 = i
      BY <1>1, <3>1, <3>2
    <3>4. Tail(ch)[i - 1] = x
      BY <1>1, <3>1, <3>3
    <3>. QED  BY <1>2, <3>3, <3>4 DEF ToSet
  <2>. QED  BY <2>1, <2>2
<1>6. IsInjective(Tail(ch))
  <2>1. \A i, j \in 1..(Len(ch) - 1) : Tail(ch)[i] = Tail(ch)[j] => i = j
    BY <1>1, <1>3
  <2>. QED  BY <1>2, <2>1 DEF IsInjective
<1>. QED  BY <1>1, <1>4, <1>5, <1>6

\* A channel of distinct values holds as many values as its length.
LEMMA ValuesCount ==
  ASSUME NEW S, NEW ch \in Seq(S), IsInjective(ch)
  PROVE  IsFiniteSet(ToSet(ch)) /\ Cardinality(ToSet(ch)) = Len(ch)
<1>1. Len(ch) \in Nat /\ DOMAIN ch = 1..Len(ch)
  OBVIOUS
<1>2. IsFiniteSet(1..Len(ch)) /\ Cardinality(1..Len(ch)) = Len(ch)
  BY <1>1, FS_Interval
<1>3. ch \in Bijection(1..Len(ch), ToSet(ch))
  <2>1. ch \in [1..Len(ch) -> ToSet(ch)]
    BY <1>1 DEF ToSet
  <2>2. \A i, j \in 1..Len(ch) : ch[i] = ch[j] => i = j
    BY <1>1 DEF IsInjective
  <2>3. \A x \in ToSet(ch) : \E i \in 1..Len(ch) : ch[i] = x
    BY <1>1 DEF ToSet
  <2>. QED  BY <2>1, <2>2, <2>3 DEF Bijection, Injection, Surjection, IsInjective
<1>. QED  BY <1>2, <1>3, FS_Bijection DEF ExistsBijection

\* Sets without a common element are counted one after the other.
LEMMA DisjointUnion ==
  ASSUME NEW S, NEW T, IsFiniteSet(S), IsFiniteSet(T), S \cap T = {}
  PROVE  /\ IsFiniteSet(S \cup T)
         /\ Cardinality(S \cup T) = Cardinality(S) + Cardinality(T)
<1>1. Cardinality({}) = 0
  BY FS_EmptySet
<1>2. /\ IsFiniteSet(S \cup T)
      /\ Cardinality(S \cup T) = Cardinality(S) + Cardinality(T) - Cardinality(S \cap T)
  BY FS_Union
<1>3. Cardinality(S \cap T) = 0
  BY <1>1
<1>4. Cardinality(S) \in Nat /\ Cardinality(T) \in Nat
  BY FS_CardinalityType
<1>. QED  BY <1>2, <1>3, <1>4

\* The empty channel.
LEMMA EmptyChannel ==
  ASSUME NEW S
  PROVE  /\ <<>> \in Seq(S)
         /\ Len(<<>>) = 0
         /\ ToSet(<<>>) = {}
         /\ IsInjective(<<>>)
BY DEF ToSet, IsInjective

-----------------------------------------------------------------------------
(* The invariant. *)

\* Where an id can be once the worker has queued it.
Queued == ToSet(lim) \cup waiting \cup ToSet(resp) \cup DispCommands

\* How far a job has come limits where its id can be: it is queued by its worker
\* alone, after the POST, so that it cannot be in a channel already.
NotQueuedYet(c) == job[c] \in {"pending", "post", "insert", "fail"}

\* Only a tracked scan that was triggered is polled, and none whose end is reported.
PolledWereTriggered ==
  /\ \A c \in Commands : job[c] = "insert" => c \in Tracked /\ scan[c] # "none"
  /\ \A c \in Queued \cup reported : c \in Tracked /\ scan[c] # "none"
  /\ \A c \in Commands : job[c] \in {"pending", "post", "fail"} => scan[c] = "none"
  /\ \A c \in Commands : NotQueuedYet(c) => c \notin Queued \cup reported
  /\ Queued \cap reported = {}

Inv == TypeOK /\ InOnePlace /\ PolledWereTriggered

-----------------------------------------------------------------------------
LEMMA InitInv == Init => Inv
<1>. SUFFICES ASSUME Init PROVE Inv
  OBVIOUS
<1>. USE CommandsAssumption, SizesAssumption DEF Init
<1>1. /\ <<>> \in Seq(Commands) /\ Len(<<>>) = 0
      /\ ToSet(<<>>) = {} /\ IsInjective(<<>>)
  BY EmptyChannel
<1>2. TypeOK
  BY <1>1, FS_EmptySet DEF TypeOK, JobStages, ScanStates, Outcomes, DispStages, DispIdle
<1>3. DispCommands = {}
  BY DEF DispCommands, DispIdle
<1>4. InOnePlace
  BY <1>1, <1>3 DEF InOnePlace
<1>5. PolledWereTriggered
  BY <1>1, <1>3 DEF PolledWereTriggered, Queued
<1>. QED  BY <1>2, <1>4, <1>5 DEF Inv

\* The effect of a send on the limited channel, by a worker or by the dispatcher.
LEMMA SendLimitedEffect ==
  ASSUME Inv, NEW c \in Commands, SendLimited(c), c \notin ToSet(lim)
  PROVE  /\ lim' \in Seq(Commands) /\ Len(lim') <= LimCap
         /\ ToSet(lim') = ToSet(lim) \cup {c}
         /\ IsInjective(lim')
<1>1. lim \in Seq(Commands) /\ IsInjective(lim)
  BY DEF Inv, TypeOK, InOnePlace
<1>2. /\ Append(lim, c) \in Seq(Commands)
      /\ Len(Append(lim, c)) = Len(lim) + 1
      /\ ToSet(Append(lim, c)) = ToSet(lim) \cup {c}
      /\ IsInjective(Append(lim, c))
  BY <1>1, SendValues
<1>3. lim' = Append(lim, c) /\ Len(lim) < LimCap
  BY DEF SendLimited
<1>4. Len(lim) + 1 <= LimCap
  BY <1>1, <1>3, SizesAssumption
<1>. QED  BY <1>2, <1>3, <1>4

-----------------------------------------------------------------------------
(* Every step keeps the invariant: one lemma per group of actions. *)

LEMMA PoolStepInv ==
  ASSUME Inv, NEW c \in Commands, PoolStep(c) \/ ScanEnds(c)
  PROVE  Inv'
<1>. USE CommandsAssumption DEF Inv
<1>1. CASE job[c] # "insert" \/ ScanEnds(c)
  <2>1. UNCHANGED <<lim, waiting, resp, disp, reported>>
    BY <1>1 DEF PoolStep, Invoke, PostAccepted, PostAnswersError, PostFails, WorkerInsert,
                FinishJob, ScanEnds, TypeOK
  <2>2. UNCHANGED <<DispCommands, Queued>>
    BY <2>1 DEF DispCommands, Queued
  <2>3. TypeOK'
    <3>1. /\ job' \in [Commands -> JobStages]
          /\ scan' \in [Commands -> ScanStates]
          /\ status' \in [Commands -> Outcomes]
      BY <1>1 DEF TypeOK, PoolStep, Invoke, PostAccepted, PostAnswersError, PostFails,
                  WorkerInsert, FinishJob, ScanEnds, AfterPost, SetOperatorCommandStatus,
                  JobStages, RunningStages, ScanStates, Outcomes
    <3>. QED  BY <2>1, <3>1 DEF TypeOK
  <2>4. \A d \in Commands :
          /\ job'[d] = "insert" => \/ job[d] = "insert"
                                   \/ job[d] = "post" /\ d \in Tracked
          /\ NotQueuedYet(d)' => NotQueuedYet(d)
    BY <1>1 DEF TypeOK, PoolStep, Invoke, PostAccepted, PostAnswersError, PostFails,
                WorkerInsert, FinishJob, ScanEnds, AfterPost, NotQueuedYet
  <2>5. InOnePlace'
    BY <2>1, <2>2, <2>4 DEF InOnePlace, PolledWereTriggered, Queued, NotQueuedYet
  <2>6. PolledWereTriggered'
    <3>1. \A d \in Commands : /\ scan[d] # "none" => scan'[d] # "none"
                              /\ job'[d] = "insert" => d \in Tracked /\ scan'[d] # "none"
                              /\ job'[d] \in {"pending", "post", "fail"} => scan'[d] = "none"
      BY <1>1 DEF TypeOK, PolledWereTriggered, PoolStep, Invoke, PostAccepted,
                  PostAnswersError, PostFails, WorkerInsert, FinishJob, ScanEnds, AfterPost
    <3>. QED  BY <2>1, <2>2, <2>4, <3>1 DEF PolledWereTriggered, TypeOK
  <2>. QED  BY <2>3, <2>5, <2>6
<1>2. CASE job[c] = "insert" /\ WorkerInsert(c)
  <2>1. c \notin Queued \cup reported /\ c \in Tracked /\ scan[c] # "none"
    BY <1>2 DEF PolledWereTriggered, NotQueuedYet
  <2>2. /\ lim' \in Seq(Commands) /\ Len(lim') <= LimCap
        /\ ToSet(lim') = ToSet(lim) \cup {c}
        /\ IsInjective(lim')
    BY <1>2, <2>1, SendLimitedEffect DEF WorkerInsert, Queued
  <2>3. /\ job' = [job EXCEPT ![c] = "succeed"]
        /\ UNCHANGED <<scan, status, waiting, resp, disp, reported, DispCommands>>
    BY <1>2 DEF WorkerInsert, DispCommands
  <2>4. Queued' = Queued \cup {c}
    BY <2>2, <2>3 DEF Queued
  <2>5. TypeOK'
    BY <2>2, <2>3 DEF TypeOK, JobStages, RunningStages
  <2>6. \A d \in Commands : job'[d] = IF d = c THEN "succeed" ELSE job[d]
    BY <2>3 DEF TypeOK
  <2>7. InOnePlace'
    BY <2>1, <2>2, <2>3, <2>6 DEF InOnePlace, Queued
  <2>8. PolledWereTriggered'
    BY <2>1, <2>3, <2>4, <2>6 DEF PolledWereTriggered, NotQueuedYet
  <2>. QED  BY <2>5, <2>7, <2>8
<1>. QED
  BY <1>1, <1>2 DEF PoolStep, Invoke, PostAccepted, PostAnswersError, PostFails, FinishJob

LEMMA TimerStepInv ==
  ASSUME Inv, TimerStep
  PROVE  Inv'
<1>. USE CommandsAssumption, SizesAssumption DEF Inv
<1>1. CASE TimerTakes
  <2>. DEFINE c == Head(lim)
  <2>1. /\ c \in Commands /\ c \in ToSet(lim)
        /\ lim' \in Seq(Commands) /\ Len(lim') = Len(lim) - 1
        /\ ToSet(lim') = ToSet(lim) \ {c}
        /\ IsInjective(lim')
    BY <1>1, ReceiveValues DEF TimerTakes, TypeOK, InOnePlace
  <2>2. /\ waiting' = waiting \cup {c} /\ Cardinality(waiting) < Timers
        /\ UNCHANGED <<job, scan, status, resp, disp, reported, DispCommands>>
    BY <1>1 DEF TimerTakes, DispCommands
  <2>. HIDE DEF c
  <2>3. c \notin waiting \cup ToSet(resp) \cup DispCommands
    BY <2>1 DEF InOnePlace
  <2>4. Cardinality(waiting') = Cardinality(waiting) + 1 /\ Cardinality(waiting) \in Nat
    <3>1. IsFiniteSet(waiting)
      BY FS_Subset DEF TypeOK
    <3>. QED  BY <2>2, <2>3, <3>1, FS_AddElement, FS_CardinalityType
  <2>5. TypeOK'
    <3>1. Len(lim) \in Nat /\ Len(lim') <= LimCap
      BY <2>1 DEF TypeOK
    <3>2. Cardinality(waiting') <= Timers
      BY <2>2, <2>4
    <3>. QED  BY <2>1, <2>2, <3>1, <3>2 DEF TypeOK
  <2>6. Queued' = Queued
    BY <2>1, <2>2 DEF Queued
  <2>7. InOnePlace'
    BY <2>1, <2>2, <2>3 DEF InOnePlace
  <2>8. PolledWereTriggered'
    BY <2>2, <2>6 DEF PolledWereTriggered, NotQueuedYet
  <2>. QED  BY <2>5, <2>7, <2>8
<1>2. ASSUME NEW c \in Commands, TimerForwards(c) PROVE Inv'
  <2>1. /\ c \in waiting /\ Len(resp) < RespCap
        /\ resp' = Append(resp, c) /\ waiting' = waiting \ {c}
        /\ UNCHANGED <<job, scan, status, lim, disp, reported, DispCommands>>
    BY <1>2 DEF TimerForwards, DispCommands
  <2>2. c \notin ToSet(lim) \cup ToSet(resp) \cup DispCommands
    BY <2>1 DEF InOnePlace
  <2>3. /\ resp' \in Seq(Commands) /\ Len(resp') = Len(resp) + 1
        /\ ToSet(resp') = ToSet(resp) \cup {c}
        /\ IsInjective(resp')
    BY <2>1, <2>2, SendValues DEF TypeOK, InOnePlace
  <2>4. Cardinality(waiting') <= Cardinality(waiting) /\ Cardinality(waiting') \in Nat
    <3>1. IsFiniteSet(waiting) /\ IsFiniteSet(waiting')
      BY <2>1, FS_Subset DEF TypeOK
    <3>. QED  BY <2>1, <3>1, FS_Subset, FS_CardinalityType
  <2>5. TypeOK'
    <3>1. Len(resp) \in Nat /\ Len(resp') <= RespCap
      BY <2>1, <2>3 DEF TypeOK
    <3>2. Cardinality(waiting) \in Nat /\ Cardinality(waiting') <= Timers
      <4>1. IsFiniteSet(waiting)
        BY FS_Subset DEF TypeOK
      <4>2. Cardinality(waiting) \in Nat
        BY <4>1, FS_CardinalityType
      <4>. QED  BY <2>4, <4>2 DEF TypeOK
    <3>. QED  BY <2>1, <2>3, <3>1, <3>2 DEF TypeOK
  <2>6. Queued' = Queued
    BY <2>1, <2>3 DEF Queued
  <2>7. InOnePlace'
    BY <2>1, <2>2, <2>3 DEF InOnePlace
  <2>8. PolledWereTriggered'
    BY <2>1, <2>6 DEF PolledWereTriggered, NotQueuedYet
  <2>. QED  BY <2>5, <2>7, <2>8
<1>. QED  BY <1>1, <1>2 DEF TimerStep

\* What the dispatcher does when the callback's answer is final.
LEMMA EndPollingInv ==
  ASSUME Inv, disp.at = "poll", NEW o \in Outcomes, EndPolling(o),
         UNCHANGED <<job, scan, lim, waiting, resp>>
  PROVE  Inv'
<1>. USE CommandsAssumption DEF Inv
<1>1. /\ disp.cmd \in Commands /\ DispCommands = {disp.cmd} /\ DispCommands' = {}
      /\ disp' = DispIdle /\ reported' = reported \cup {disp.cmd}
  BY DEF TypeOK, DispCommands, DispIdle, EndPolling
<1>2. TypeOK'
  <2>1. status' \in [Commands -> Outcomes]
    BY <1>1 DEF TypeOK, EndPolling, SetOperatorCommandStatus
  <2>2. disp' \in [at : DispStages, cmd : Commands \cup {NoCommand}]
    BY <1>1 DEF DispIdle, DispStages
  <2>. QED  BY <1>1, <2>1, <2>2 DEF TypeOK, DispIdle
<1>3. disp.cmd \notin ToSet(lim) \cup ToSet(resp) \cup waiting /\ disp.cmd \in Queued
  BY <1>1 DEF InOnePlace, Queued
<1>4. Queued' = Queued \ {disp.cmd}
  BY <1>1, <1>3 DEF Queued
<1>5. InOnePlace'
  BY <1>1 DEF InOnePlace
<1>6. PolledWereTriggered'
  BY <1>1, <1>3, <1>4 DEF PolledWereTriggered, NotQueuedYet
<1>. QED  BY <1>2, <1>5, <1>6

LEMMA DispatcherStepInv ==
  ASSUME Inv, DispatcherStep
  PROVE  Inv'
<1>. USE CommandsAssumption DEF Inv
<1>1. CASE Receive
  <2>. DEFINE c == Head(resp)
  <2>1. /\ c \in Commands /\ c \in ToSet(resp)
        /\ resp' \in Seq(Commands) /\ Len(resp') = Len(resp) - 1
        /\ ToSet(resp') = ToSet(resp) \ {c}
        /\ IsInjective(resp')
    BY <1>1, ReceiveValues DEF Receive, TypeOK, InOnePlace
  <2>2. /\ disp' = [at |-> "poll", cmd |-> c] /\ disp.at = "receive"
        /\ UNCHANGED <<job, scan, status, lim, waiting, reported>>
    BY <1>1 DEF Receive
  <2>. HIDE DEF c
  <2>3. DispCommands = {} /\ DispCommands' = {c}
    BY <2>2 DEF DispCommands
  <2>4. Queued' = Queued
    BY <2>1, <2>2, <2>3 DEF Queued
  <2>5. TypeOK'
    <3>1. Len(resp) \in Nat /\ Len(resp') <= RespCap
      BY <2>1, SizesAssumption DEF TypeOK
    <3>. QED  BY <2>1, <2>2, <3>1 DEF TypeOK, DispStages
  <2>6. InOnePlace'
    BY <2>1, <2>2, <2>3 DEF InOnePlace
  <2>7. PolledWereTriggered'
    BY <2>2, <2>4 DEF PolledWereTriggered, NotQueuedYet
  <2>. QED  BY <2>5, <2>6, <2>7
<1>2. CASE PollFails
  BY <1>2, EndPollingInv DEF PollFails, Outcomes
<1>3. CASE PollEnded
  BY <1>3, EndPollingInv DEF PollEnded, Outcomes
<1>4. CASE PollBusy
  <2>1. /\ disp' = [disp EXCEPT !.at = "insert"] /\ disp.at = "poll"
        /\ UNCHANGED <<job, scan, status, lim, waiting, resp, reported>>
    BY <1>4 DEF PollBusy
  <2>2. disp'.at = "insert" /\ disp'.cmd = disp.cmd /\ DispCommands' = DispCommands
    BY <2>1 DEF TypeOK, DispCommands
  <2>3. Queued' = Queued
    BY <2>1, <2>2 DEF Queued
  <2>4. TypeOK'
    BY <2>1, <2>2 DEF TypeOK, DispStages
  <2>5. InOnePlace'
    BY <2>1, <2>2 DEF InOnePlace
  <2>6. PolledWereTriggered'
    BY <2>1, <2>3 DEF PolledWereTriggered, NotQueuedYet
  <2>. QED  BY <2>4, <2>5, <2>6
<1>5. CASE DispatcherInserts
  <2>. DEFINE c == disp.cmd
  <2>1. /\ c \in Commands /\ DispCommands = {c} /\ DispCommands' = {}
        /\ SendLimited(c) /\ disp' = DispIdle
        /\ UNCHANGED <<job, scan, status, waiting, resp, reported>>
    BY <1>5 DEF DispatcherInserts, TypeOK, DispCommands, DispIdle
  <2>. HIDE DEF c
  <2>2. c \notin ToSet(lim) \cup ToSet(resp) \cup waiting
    BY <2>1 DEF InOnePlace
  <2>3. /\ lim' \in Seq(Commands) /\ Len(lim') <= LimCap
        /\ ToSet(lim') = ToSet(lim) \cup {c}
        /\ IsInjective(lim')
    BY <2>1, <2>2, SendLimitedEffect
  <2>4. Queued' = Queued
    BY <2>1, <2>3 DEF Queued
  <2>5. TypeOK'
    BY <2>1, <2>3 DEF TypeOK, DispStages, DispIdle
  <2>6. InOnePlace'
    BY <2>1, <2>2, <2>3 DEF InOnePlace
  <2>7. PolledWereTriggered'
    BY <2>1, <2>4 DEF PolledWereTriggered, NotQueuedYet
  <2>. QED  BY <2>5, <2>6, <2>7
<1>. QED  BY <1>1, <1>2, <1>3, <1>4, <1>5 DEF DispatcherStep

LEMMA NextInv == Inv /\ [Next]_vars => Inv'
<1>. SUFFICES ASSUME Inv, [Next]_vars PROVE Inv'
  OBVIOUS
<1>1. ASSUME NEW c \in Commands, PoolStep(c) \/ ScanEnds(c) PROVE Inv'
  BY <1>1, PoolStepInv
<1>2. CASE TimerStep
  BY <1>2, TimerStepInv
<1>3. CASE DispatcherStep
  BY <1>3, DispatcherStepInv
<1>4. CASE UNCHANGED vars
  BY <1>4 DEF vars, Inv, TypeOK, InOnePlace, PolledWereTriggered, Queued, DispCommands,
              NotQueuedYet
<1>. QED  BY <1>1, <1>2, <1>3, <1>4 DEF Next

\* The inductive invariant holds in every reachable state.
THEOREM Invariance == Spec => []Inv
BY InitInv, NextInv, PTL DEF Spec

-----------------------------------------------------------------------------
(* What a reader should know. *)

\* The channels stay within their capacities and every variable in its type
\* (NewMainHandler's channels and pool).
THEOREM TypeCorrect == Spec => []TypeOK
<1>1. Inv => TypeOK
  BY DEF Inv
<1>. QED  BY <1>1, Invariance, PTL

\* No interleaving of workers, timer goroutines and dispatcher puts a scan id in
\* two places (insertNewCommandResponseData, waitFroTimer, HandleCommandResponse).
THEOREM IdInOnePlace == Spec => []InOnePlace
<1>1. Inv => InOnePlace
  BY DEF Inv
<1>. QED  BY <1>1, Invariance, PTL

LEMMA InTransitTracked == Inv => InTransit \subseteq Tracked /\ Queued \subseteq InTransit
BY DEF Inv, PolledWereTriggered, Queued, InTransit

LEMMA JammedCount == Inv /\ Jammed => Cardinality(InTransit) > LimCap + Timers + RespCap
<1>. SUFFICES ASSUME Inv, Jammed
              PROVE  Cardinality(InTransit) > LimCap + Timers + RespCap
  OBVIOUS
<1>. USE CommandsAssumption, SizesAssumption
<1>. DEFINE A == ToSet(lim)
            B == waiting
            C == ToSet(resp)
            D == {disp.cmd}
<1>1. IsFiniteSet(A) /\ Cardinality(A) = LimCap
  BY ValuesCount DEF Inv, TypeOK, InOnePlace, Jammed
<1>2. IsFiniteSet(B) /\ Cardinality(B) = Timers
  BY FS_Subset DEF Inv, TypeOK, Jammed
<1>3. IsFiniteSet(C) /\ Cardinality(C) = RespCap
  BY ValuesCount DEF Inv, TypeOK, InOnePlace, Jammed
<1>4. IsFiniteSet(D) /\ Cardinality(D) = 1
  BY FS_Singleton
<1>5. /\ A \cap B = {} /\ (A \cup B) \cap C = {} /\ (A \cup B \cup C) \cap D = {}
      /\ A \cup B \cup C \cup D \subseteq InTransit
  BY DEF Inv, InOnePlace, Jammed, DispCommands, InTransit
<1>6. IsFiniteSet(InTransit)
  BY InTransitTracked, FS_Subset
<1>. HIDE DEF A, B, C, D
<1>7. IsFiniteSet(A \cup B) /\ Cardinality(A \cup B) = LimCap + Timers
  BY <1>1, <1>2, <1>5, DisjointUnion
<1>8. IsFiniteSet(A \cup B \cup C) /\ Cardinality(A \cup B \cup C) = LimCap + Timers + RespCap
  BY <1>3, <1>5, <1>7, DisjointUnion
<1>9. Cardinality(A \cup B \cup C \cup D) = LimCap + Timers + RespCap + 1
  BY <1>4, <1>5, <1>8, DisjointUnion
<1>10. Cardinality(A \cup B \cup C \cup D) <= Cardinality(InTransit)
  BY <1>5, <1>6, FS_Subset
<1>11. Cardinality(InTransit) \in Nat
  BY <1>6, FS_CardinalityType
<1>. QED  BY <1>9, <1>10, <1>11

\* Workers, timers and dispatcher wait on each other for ever only when more scans
\* are polled at once than the two channels and the timer goroutines hold, whatever
\* the capacities (handlecommandresponse.go:49 and :57, handlerequests.go:84-85).
THEOREM JamNeedsOverload == Spec => []JammedOnlyWhenOverloaded
<1>1. Inv => JammedOnlyWhenOverloaded
  BY JammedCount DEF JammedOnlyWhenOverloaded
<1>. QED  BY <1>1, Invariance, PTL

\* With no more tracked commands than that, the polling is never jammed.
THEOREM EnoughCapacity ==
  ASSUME Cardinality(Tracked) <= LimCap + Timers + RespCap
  PROVE  Spec => []~Jammed
<1>1. Inv => ~Jammed
  <2>. SUFFICES ASSUME Inv, Jammed PROVE FALSE
    OBVIOUS
  <2>1. Cardinality(InTransit) > LimCap + Timers + RespCap
    BY JammedCount
  <2>2. IsFiniteSet(Tracked)
    BY CommandsAssumption, FS_Subset
  <2>3. /\ Cardinality(InTransit) <= Cardinality(Tracked)
        /\ Cardinality(InTransit) \in Nat /\ Cardinality(Tracked) \in Nat
    BY <2>2, InTransitTracked, FS_Subset, FS_CardinalityType
  <2>. QED  BY <2>1, <2>3, SizesAssumption
<1>. QED  BY <1>1, Invariance, PTL

-----------------------------------------------------------------------------
(* The polling implements ScanTracking (its safety part; TLC checks that    *)
(* every tracked scan is reported in the end).                             *)

LEMMA InitTracks == Init => Tracking!Init
BY EmptyChannel DEF Init, Tracking!Init, InTransit, DispCommands, DispIdle, Jammed

\* A jam is for ever.
LEMMA JamStays ==
  ASSUME Inv, Jammed, [Next]_vars
  PROVE  Jammed' /\ UNCHANGED <<lim, waiting, resp, disp, reported>>
<1>. USE SizesAssumption
<1>1. /\ disp.at = "insert" /\ Len(lim) = LimCap /\ LimCap \in Nat
      /\ Cardinality(waiting) = Timers /\ Len(resp) = RespCap
      /\ Timers \in Nat /\ RespCap \in Nat
  BY DEF Jammed
<1>2. UNCHANGED <<lim, waiting, resp, disp, reported>>
  <2>1. ASSUME NEW c \in Commands, PoolStep(c) \/ ScanEnds(c)
        PROVE  UNCHANGED <<lim, waiting, resp, disp, reported>>
    BY <1>1, <2>1 DEF PoolStep, Invoke, PostAccepted, PostAnswersError, PostFails,
                      WorkerInsert, SendLimited, FinishJob, ScanEnds
  <2>2. ~TimerStep
    BY <1>1 DEF TimerStep, TimerTakes, TimerForwards
  <2>3. ~DispatcherStep
    BY <1>1 DEF DispatcherStep, Receive, PollFails, PollEnded, PollBusy,
                DispatcherInserts, SendLimited
  <2>. QED  BY <2>1, <2>2, <2>3 DEF Next, vars
<1>. QED  BY <1>2 DEF Jammed

LEMMA JammedBoolean == Jammed \in BOOLEAN /\ Jammed' \in BOOLEAN
BY DEF Jammed

\* A step that leaves the tracked ids alone is a jam or changes nothing.
LEMMA SameIdsTrack ==
  ASSUME Inv, Inv', [Next]_vars, UNCHANGED <<InTransit, reported>>
  PROVE  [Tracking!Next]_(Tracking!vars)
<1>1. (Inv /\ Jammed => Cardinality(InTransit) > LimCap + Timers + RespCap)'
  BY JammedCount, PTL
<1>2. CASE Jammed' /\ ~Jammed
  <2>1. Cardinality(InTransit) > LimCap + Timers + RespCap
    BY <1>1, <1>2
  <2>2. Jammed' = TRUE
    BY <1>2, JammedBoolean
  <2>3. Tracking!Jam
    BY <2>1, <2>2 DEF Tracking!Jam, Tracking!Cardinality, Cardinality
  <2>. QED  BY <2>3 DEF Tracking!Next
<1>3. CASE ~Jammed' /\ ~Jammed
  <2>1. UNCHANGED Jammed
    BY <1>3, JammedBoolean
  <2>. QED  BY <2>1 DEF Tracking!vars
<1>4. CASE Jammed
  <2>1. UNCHANGED Jammed
    BY <1>4, JamStays, JammedBoolean
  <2>. QED  BY <2>1 DEF Tracking!vars
<1>. QED  BY <1>2, <1>3, <1>4

LEMMA StepTracks ==
  ASSUME Inv, [Next]_vars
  PROVE  [Tracking!Next]_(Tracking!vars)
<1>. USE CommandsAssumption
<1>. DEFINE Inserting == {c \in Commands : job[c] = "insert"}
<1>1. InTransit = Inserting \cup Queued /\ InTransit' = Inserting' \cup Queued'
  BY DEF InTransit, Queued
<1>2. Inv'
  BY NextInv
<1>3. CASE UNCHANGED <<InTransit, reported>>
  BY <1>2, <1>3, SameIdsTrack
<1>4. ASSUME NEW c \in Commands, PostAccepted(c) \/ PostAnswersError(c)
      PROVE  [Tracking!Next]_(Tracking!vars)
  <2>1. /\ job[c] = "post" /\ job' = [job EXCEPT ![c] = AfterPost(c)]
        /\ UNCHANGED <<lim, waiting, resp, disp, reported>>
    BY <1>4 DEF PostAccepted, PostAnswersError
  <2>2. Queued' = Queued
    BY <2>1 DEF Queued, DispCommands
  <2>3. c \notin InTransit \cup reported
    BY <2>1, <1>1 DEF Inv, PolledWereTriggered, NotQueuedYet
  <2>0. Jammed' = Jammed
    BY <2>1 DEF Jammed
  <2>4. CASE c \in Tracked
    <3>1. InTransit' = InTransit \cup {c}
      BY <2>1, <2>2, <2>4, <1>1 DEF AfterPost, Inv, TypeOK
    <3>. QED  BY <2>0, <2>1, <2>3, <2>4, <3>1 DEF Tracking!Next, Tracking!Trigger
  <2>5. CASE c \notin Tracked
    <3>1. InTransit' = InTransit
      BY <2>1, <2>2, <2>5, <1>1 DEF AfterPost, Inv, TypeOK
    <3>. QED  BY <2>1, <3>1, <1>3
  <2>. QED  BY <2>4, <2>5
<1>5. ASSUME NEW c \in Commands, Invoke(c) \/ PostFails(c) \/ FinishJob(c) \/ ScanEnds(c)
      PROVE  UNCHANGED <<InTransit, reported>>
  <2>1. UNCHANGED <<lim, waiting, resp, disp, reported>>
    BY <1>5 DEF Invoke, PostFails, FinishJob, ScanEnds
  <2>2. Inserting' = Inserting
    BY <1>5 DEF Invoke, PostFails, FinishJob, ScanEnds, Inv, TypeOK
  <2>. QED  BY <2>1, <2>2, <1>1 DEF Queued, DispCommands
<1>6. ASSUME NEW c \in Commands, WorkerInsert(c)
      PROVE  UNCHANGED <<InTransit, reported>>
  <2>1. /\ c \in Inserting /\ Inserting' = Inserting \ {c}
        /\ UNCHANGED <<waiting, resp, disp, reported>>
    BY <1>6 DEF WorkerInsert, Inv, TypeOK
  <2>2. ToSet(lim') = ToSet(lim) \cup {c}
    <3>1. c \notin ToSet(lim)
      BY <2>1 DEF Inv, InOnePlace
    <3>. QED  BY <1>6, <3>1, SendLimitedEffect DEF WorkerInsert
  <2>. QED  BY <2>1, <2>2, <1>1 DEF Queued, DispCommands
<1>7. CASE TimerTakes
  <2>1. /\ Head(lim) \in ToSet(lim) /\ ToSet(lim') = ToSet(lim) \ {Head(lim)}
        /\ waiting' = waiting \cup {Head(lim)}
        /\ UNCHANGED <<job, resp, disp, reported>>
    BY <1>7, ReceiveValues DEF TimerTakes, Inv, TypeOK, InOnePlace
  <2>. QED  BY <2>1, <1>1, <1>3 DEF Queued, DispCommands
<1>8. ASSUME NEW c \in Commands, TimerForwards(c)
      PROVE  UNCHANGED <<InTransit, reported>>
  <2>1. /\ c \in waiting /\ waiting' = waiting \ {c} /\ ToSet(resp') = ToSet(resp) \cup {c}
        /\ UNCHANGED <<job, lim, disp, reported>>
    BY <1>8, SendValues DEF TimerForwards, Inv, TypeOK
  <2>. QED  BY <2>1, <1>1 DEF Queued, DispCommands
<1>9. CASE Receive
  <2>1. /\ Head(resp) \in ToSet(resp) /\ ToSet(resp') = ToSet(resp) \ {Head(resp)}
        /\ DispCommands = {} /\ DispCommands' = {Head(resp)}
        /\ UNCHANGED <<job, lim, waiting, reported>>
    BY <1>9, ReceiveValues DEF Receive, DispCommands, Inv, TypeOK, InOnePlace
  <2>. QED  BY <2>1, <1>1, <1>3 DEF Queued
<1>10. CASE PollFails \/ PollEnded
  <2>. DEFINE c == disp.cmd
  <2>1. /\ DispCommands = {c} /\ DispCommands' = {}
        /\ reported' = reported \cup {c}
        /\ UNCHANGED <<job, lim, waiting, resp>>
    BY <1>10 DEF PollFails, PollEnded, EndPolling, DispIdle, DispCommands
  <2>. HIDE DEF c
  <2>2. c \in InTransit /\ c \in Tracked
    BY <2>1, InTransitTracked DEF InTransit
  <2>3. c \notin Inserting \cup ToSet(lim) \cup waiting \cup ToSet(resp)
    BY <2>1 DEF Inv, InOnePlace
  <2>4. InTransit' = InTransit \ {c}
    BY <2>1, <2>3, <1>1 DEF Queued
  <2>5. ~Jammed /\ ~Jammed'
    BY <1>10 DEF PollFails, PollEnded, EndPolling, DispIdle, Jammed
  <2>6. UNCHANGED Jammed
    BY <2>5, JammedBoolean
  <2>7. Tracking!Report(c)
    BY <2>1, <2>2, <2>4, <2>5, <2>6 DEF Tracking!Report
  <2>. QED  BY <2>2, <2>7 DEF Tracking!Next
<1>11. CASE PollBusy
  BY <1>1, <1>3, <1>11 DEF PollBusy, Queued, DispCommands, Inv, TypeOK
<1>12. CASE DispatcherInserts
  <2>1. /\ disp.cmd \in Commands /\ DispCommands = {disp.cmd} /\ DispCommands' = {}
        /\ SendLimited(disp.cmd)
        /\ UNCHANGED <<job, waiting, resp, reported>>
    BY <1>12 DEF DispatcherInserts, DispIdle, DispCommands, Inv, TypeOK
  <2>2. ToSet(lim') = ToSet(lim) \cup {disp.cmd}
    <3>1. disp.cmd \notin ToSet(lim)
      BY <2>1 DEF Inv, InOnePlace
    <3>. QED  BY <2>1, <3>1, SendLimitedEffect
  <2>. QED  BY <2>1, <2>2, <1>1, <1>3 DEF Queued
<1>13. CASE UNCHANGED vars
  BY <1>1, <1>3, <1>13 DEF vars, Queued, DispCommands
<1>. QED
  BY <1>3, <1>4, <1>5, <1>6, <1>7, <1>8, <1>9, <1>10, <1>11, <1>12, <1>13
     DEF Next, PoolStep, TimerStep, DispatcherStep

\* The safety part of TracksScans: no step of a worker, a timer goroutine or the
\* dispatcher loses a triggered scan, reports it twice or polls it again after that.
THEOREM TracksScansSafely == Spec => Tracking!Init /\ [][Tracking!Next]_(Tracking!vars)
BY InitTracks, StepTracks, Invariance, PTL DEF Spec
=============================================================================
