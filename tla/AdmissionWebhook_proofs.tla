----------------------- MODULE AdmissionWebhook_proofs -----------------------
(***************************************************************************)
(* Theorems about the cache of rule bindings and the reviews that read it, *)
(* for any bindings, rules, reviews and number of changes.                 *)
(***************************************************************************)
EXTENDS AdmissionWebhook, FiniteSetTheorems, TLAPS

Content == Contents \cup {NoBinding}
Call == [name : Names, content : Content, type : {"added", "modified", "deleted"}]
HandlerAt == {"idle", "setBinding", "setRules", "deleteBinding", "deleteRules"}

CacheTyped == /\ binding \in [Names -> Content]
              /\ rb \in [Names -> Content]
              /\ rules \in [Names -> (SUBSET Descriptors) \cup {NoRules}]
              /\ changes \in 0 .. MaxChanges
              /\ told \in Seq(Call)
              /\ handler \in [at : HandlerAt, name : Names \cup {NoName}, content : Content]
              /\ handler.at # "idle" <=> handler.name \in Names

\* What is added, or put back by a modification, is a binding.
SetsBindings ==
  /\ \A i \in DOMAIN told : told[i].type = "added" => told[i].content # NoBinding
  /\ handler.at \in {"setBinding", "setRules"} => handler.content # NoBinding

\* The rules of a binding are made from it.
Agree(n) == rules[n] = IF rb[n] = NoBinding THEN NoRules ELSE CreateRules(rb[n])

\* Only the binding in the hands of the handler may be in one map and not in the other.
MapsAgree == /\ \A n \in Names : handler.name # n => Agree(n)
             /\ handler.at = "setRules" => rb[handler.name] = handler.content
             /\ handler.at = "deleteRules" => rb[handler.name] = NoBinding

LastCall(n, i) == told[i].name = n /\ \A j \in DOMAIN told : j > i => told[j].name # n

\* The last call about a binding tells what the cluster has; when there is none to come
\* the handler, or else the map, has that.
CatchesUp ==
  \A n \in Names :
    /\ \A i \in DOMAIN told : LastCall(n, i) => told[i].content = binding[n]
    /\ (\A i \in DOMAIN told : told[i].name # n) =>
         IF handler.name = n THEN handler.content = binding[n] ELSE rb[n] = binding[n]

CacheInv == CacheTyped /\ SetsBindings /\ MapsAgree /\ CatchesUp

-----------------------------------------------------------------------------
(* The cache. *)

LEMMA CreatedRules == \A c : CreateRules(c) \in SUBSET Descriptors
BY DEF CreateRules, CreateRule, ById, ByName, ByTags

\* A sequence with a value added at its end, and one without its head.
LEMMA AppendFacts ==
  ASSUME NEW S, NEW s \in Seq(S), NEW v \in S
  PROVE  /\ Append(s, v) \in Seq(S)
         /\ Len(s) \in Nat /\ DOMAIN s = 1 .. Len(s)
         /\ DOMAIN Append(s, v) = 1 .. Len(s) + 1
         /\ Append(s, v)[Len(s) + 1] = v
         /\ \A i \in 1 .. Len(s) : Append(s, v)[i] = s[i]
OBVIOUS

LEMMA TailFacts ==
  ASSUME NEW S, NEW s \in Seq(S), s # <<>>
  PROVE  /\ Tail(s) \in Seq(S)
         /\ Len(s) \in Nat \ {0} /\ DOMAIN s = 1 .. Len(s)
         /\ DOMAIN Tail(s) = 1 .. Len(s) - 1
         /\ Head(s) = s[1] /\ Head(s) \in S
         /\ \A i \in 1 .. Len(s) - 1 : Tail(s)[i] = s[i + 1]
OBVIOUS

LEMMA CacheStart == BindingsInit => CacheInv
<1>. SUFFICES ASSUME BindingsInit PROVE CacheInv
  OBVIOUS
<1>1. /\ binding = [n \in Names |-> NoBinding] /\ rb = [n \in Names |-> NoBinding]
      /\ rules = [n \in Names |-> NoRules]
      /\ changes = 0 /\ told = <<>>
      /\ handler.at = "idle" /\ handler.name = NoName /\ handler.content = NoBinding
      /\ handler = [at |-> "idle", name |-> NoName, content |-> NoBinding]
  BY DEF BindingsInit, Idle
<1>2. told \in Seq(Call) /\ DOMAIN told = {}
  BY <1>1
<1>3. changes \in 0 .. MaxChanges
  BY <1>1, BindingsAssumption
<1>4. handler \in [at : HandlerAt, name : Names \cup {NoName}, content : Content]
  BY <1>1 DEF HandlerAt, Content
<1>5. CacheTyped
  BY <1>1, <1>2, <1>3, <1>4, BindingsAssumption DEF CacheTyped, Content
<1>6. SetsBindings
  BY <1>1, <1>2 DEF SetsBindings
<1>7. MapsAgree
  BY <1>1 DEF MapsAgree, Agree
<1>8. CatchesUp
  BY <1>1, <1>2, BindingsAssumption DEF CatchesUp
<1>. QED  BY <1>5, <1>6, <1>7, <1>8 DEF CacheInv

LEMMA ClusterKeepsCacheInv ==
  ASSUME CacheInv, NEW n \in Names, NEW c \in Content, ChangeBinding(n, c)
  PROVE  CacheInv'
<1> DEFINE type == CASE c = NoBinding -> "deleted"
                     [] binding[n] = NoBinding -> "added"
                     [] OTHER -> "modified"
           call == [name |-> n, content |-> c, type |-> type]
<1>1. /\ changes < MaxChanges /\ changes' = changes + 1 /\ c # binding[n]
      /\ binding' = [binding EXCEPT ![n] = c]
      /\ told' = Append(told, call)
      /\ UNCHANGED <<handler, rb, rules>>
  BY DEF ChangeBinding
<1>2. type \in {"added", "modified", "deleted"} /\ (type = "added" => c # NoBinding)
  <2>1. CASE c = NoBinding
    BY <1>1, <2>1
  <2>2. CASE c # NoBinding /\ binding[n] = NoBinding
    BY <2>2
  <2>3. CASE c # NoBinding /\ binding[n] # NoBinding
    BY <2>3
  <2>. QED  BY <2>1, <2>2, <2>3
<1>. HIDE DEF type
<1>3. /\ call \in Call /\ call.name = n /\ call.content = c
      /\ call.type = "added" => call.content # NoBinding
  BY <1>2 DEF Call
<1>. HIDE DEF call
<1>4. told \in Seq(Call)
  BY DEF CacheInv, CacheTyped
<1>5. /\ told' \in Seq(Call)
      /\ DOMAIN told = 1 .. Len(told) /\ Len(told) \in Nat
      /\ DOMAIN told' = 1 .. Len(told) + 1
      /\ told'[Len(told) + 1] = call
      /\ \A i \in 1 .. Len(told) : told'[i] = told[i]
  BY <1>1, <1>3, <1>4, AppendFacts
<1>6. CacheTyped'
  <2>1. changes' \in 0 .. MaxChanges
    BY <1>1, BindingsAssumption DEF CacheInv, CacheTyped
  <2>2. binding' \in [Names -> Content]
    BY <1>1 DEF CacheInv, CacheTyped
  <2>. QED  BY <1>1, <1>5, <2>1, <2>2 DEF CacheInv, CacheTyped
<1>7. SetsBindings'
  BY <1>1, <1>3, <1>5 DEF CacheInv, SetsBindings
<1>8. MapsAgree'
  BY <1>1 DEF CacheInv, MapsAgree, Agree
<1>9. CatchesUp'
  <2>. SUFFICES ASSUME NEW m \in Names
                PROVE  /\ \A i \in DOMAIN told' : LastCall(m, i)' => told'[i].content = binding'[m]
                       /\ (\A i \in DOMAIN told' : told'[i].name # m) =>
                            IF handler'.name = m THEN handler'.content = binding'[m]
                                                 ELSE rb'[m] = binding'[m]
    BY DEF CatchesUp
  <2>0. binding'[m] = IF m = n THEN c ELSE binding[m]
    BY <1>1 DEF CacheInv, CacheTyped
  <2>1. CASE m = n
    <3>1. told'[Len(told) + 1].name = m /\ Len(told) + 1 \in DOMAIN told'
      BY <1>3, <1>5, <2>1
    <3>2. ASSUME NEW i \in DOMAIN told', LastCall(m, i)' PROVE i = Len(told) + 1
      BY <1>5, <3>1, <3>2 DEF LastCall
    <3>. QED  BY <1>3, <1>5, <2>0, <2>1, <3>1, <3>2
  <2>2. CASE m # n
    <3>1. ASSUME NEW i \in DOMAIN told', LastCall(m, i)'
          PROVE  told'[i].content = binding'[m]
      <4>1. i \in DOMAIN told /\ told'[i] = told[i]
        BY <1>3, <1>5, <2>2, <3>1 DEF LastCall
      <4>2. ASSUME NEW j \in DOMAIN told, j > i PROVE told[j].name # m
        BY <1>5, <3>1, <4>2 DEF LastCall
      <4>3. LastCall(m, i)
        BY <3>1, <4>1, <4>2 DEF LastCall
      <4>. QED  BY <2>0, <2>2, <4>1, <4>3 DEF CacheInv, CatchesUp
    <3>2. ASSUME \A i \in DOMAIN told' : told'[i].name # m
          PROVE  IF handler'.name = m THEN handler'.content = binding'[m]
                                      ELSE rb'[m] = binding'[m]
      <4>1. \A i \in DOMAIN told : told[i].name # m
        BY <1>5, <3>2
      <4>. QED  BY <1>1, <2>0, <2>2, <4>1 DEF CacheInv, CatchesUp
    <3>. QED  BY <3>1, <3>2
  <2>. QED  BY <2>1, <2>2
<1>. QED  BY <1>6, <1>7, <1>8, <1>9 DEF CacheInv

LEMMA HandlerKeepsCacheInv == CacheInv /\ CacheStep => CacheInv'
<1>. SUFFICES ASSUME CacheInv, CacheStep PROVE CacheInv'
  OBVIOUS
<1>. USE BindingsAssumption DEF CacheInv
<1>1. CASE Handle
  <2> DEFINE h == Head(told)
  <2>1. /\ handler.at = "idle" /\ told # <<>>
        /\ handler' = [at |-> IF h.type = "added" THEN "setBinding" ELSE "deleteBinding",
                       name |-> h.name, content |-> h.content]
        /\ told' = Tail(told)
        /\ UNCHANGED <<binding, changes, rb, rules>>
    BY <1>1 DEF Handle
  <2>2. /\ h \in Call /\ told' \in Seq(Call) /\ h = told[1] /\ 1 \in DOMAIN told
        /\ DOMAIN told = 1 .. Len(told) /\ Len(told) \in Nat \ {0}
        /\ DOMAIN told' = 1 .. Len(told) - 1
        /\ \A i \in 1 .. Len(told) - 1 : told'[i] = told[i + 1]
    BY <2>1 DEF CacheTyped
  <2>. HIDE DEF h
  <2>3. CacheTyped'
    BY <2>1, <2>2 DEF CacheTyped, Call, HandlerAt
  <2>4. SetsBindings'
    BY <2>1, <2>2 DEF SetsBindings
  <2>5. handler.name \notin Names
    BY <2>1 DEF CacheTyped
  <2>6. MapsAgree'
    BY <2>1, <2>5 DEF MapsAgree, Agree
  <2>7. CatchesUp'
    <3>. SUFFICES ASSUME NEW n \in Names
                  PROVE  /\ \A i \in DOMAIN told' : LastCall(n, i)' => told'[i].content = binding[n]
                         /\ (\A i \in DOMAIN told' : told'[i].name # n) =>
                              IF h.name = n THEN h.content = binding[n] ELSE rb[n] = binding[n]
      BY <2>1 DEF CatchesUp
    <3>1. ASSUME NEW i \in DOMAIN told', LastCall(n, i)' PROVE told'[i].content = binding[n]
      <4>1. i + 1 \in DOMAIN told /\ told'[i] = told[i + 1]
        BY <2>2
      <4>2. LastCall(n, i + 1)
        <5>1. ASSUME NEW j \in DOMAIN told, j > i + 1 PROVE told[j].name # n
          <6>1. j - 1 \in DOMAIN told' /\ j - 1 > i /\ told'[j - 1] = told[j]
            BY <2>2, <5>1
          <6>. QED  BY <3>1, <6>1 DEF LastCall
        <5>. QED  BY <3>1, <4>1, <5>1 DEF LastCall
      <4>. QED  BY <4>1, <4>2 DEF CatchesUp
    <3>2. ASSUME \A i \in DOMAIN told' : told'[i].name # n
          PROVE  IF h.name = n THEN h.content = binding[n] ELSE rb[n] = binding[n]
      <4>1. ASSUME NEW j \in DOMAIN told, j > 1 PROVE told[j].name # n
        <5>1. j - 1 \in DOMAIN told' /\ told'[j - 1] = told[j]
          BY <2>2, <4>1
        <5>. QED  BY <3>2, <5>1
      <4>2. CASE h.name = n
        <5>1. LastCall(n, 1)
          BY <2>2, <4>1, <4>2 DEF LastCall
        <5>. QED  BY <2>2, <4>2, <5>1 DEF CatchesUp
      <4>3. CASE h.name # n
        <5>1. \A j \in DOMAIN told : told[j].name # n
          BY <2>2, <4>1, <4>3
        <5>. QED  BY <2>5, <4>3, <5>1 DEF CatchesUp
      <4>. QED  BY <4>2, <4>3
    <3>. QED  BY <3>1, <3>2
  <2>. QED  BY <2>3, <2>4, <2>6, <2>7
<1>2. ASSUME SetBinding \/ SetRules \/ DeleteBinding \/ DeleteRules PROVE CacheInv'
  <2>1. /\ told' = told /\ binding' = binding /\ changes' = changes
        /\ handler.name \in Names /\ handler.content \in Content
        /\ handler.at \in HandlerAt
    BY <1>2 DEF SetBinding, SetRules, DeleteBinding, DeleteRules, CacheTyped
  <2>2. CASE SetBinding
    <3>1. /\ rb' = [rb EXCEPT ![handler.name] = handler.content] /\ rules' = rules
          /\ handler' = [handler EXCEPT !.at = "setRules"] /\ handler.at = "setBinding"
      BY <2>2 DEF SetBinding
    <3>2. /\ handler'.at = "setRules" /\ handler'.name = handler.name
          /\ handler'.content = handler.content
      BY <3>1 DEF CacheTyped
    <3>3. CacheTyped'
      BY <2>1, <3>1 DEF CacheTyped, HandlerAt
    <3>4. SetsBindings' /\ MapsAgree' /\ CatchesUp'
      BY <2>1, <3>1, <3>2 DEF CacheTyped, SetsBindings, MapsAgree, Agree, CatchesUp, LastCall
    <3>. QED  BY <3>3, <3>4
  <2>3. CASE SetRules
    <3>1. /\ rules' = [rules EXCEPT ![handler.name] = CreateRules(handler.content)]
          /\ rb' = rb /\ handler' = Idle /\ handler.at = "setRules"
      BY <2>3 DEF SetRules
    <3>2. handler'.at = "idle" /\ handler'.name = NoName
      BY <3>1 DEF Idle
    <3>3. CacheTyped'
      BY <2>1, <3>1, CreatedRules DEF CacheTyped, HandlerAt, Idle, Content
    <3>4. SetsBindings' /\ MapsAgree' /\ CatchesUp'
      BY <2>1, <3>1, <3>2 DEF CacheTyped, SetsBindings, MapsAgree, Agree, CatchesUp, LastCall
    <3>. QED  BY <3>3, <3>4
  <2>4. CASE DeleteBinding
    <3>1. /\ rb' = [rb EXCEPT ![handler.name] = NoBinding] /\ rules' = rules
          /\ handler' = [handler EXCEPT !.at = "deleteRules"] /\ handler.at = "deleteBinding"
      BY <2>4 DEF DeleteBinding
    <3>2. /\ handler'.at = "deleteRules" /\ handler'.name = handler.name
          /\ handler'.content = handler.content
      BY <3>1 DEF CacheTyped
    <3>3. CacheTyped'
      BY <2>1, <3>1 DEF CacheTyped, HandlerAt, Content
    <3>4. SetsBindings' /\ MapsAgree' /\ CatchesUp'
      BY <2>1, <3>1, <3>2 DEF CacheTyped, SetsBindings, MapsAgree, Agree, CatchesUp, LastCall
    <3>. QED  BY <3>3, <3>4
  <2>5. CASE DeleteRules
    <3>1. /\ rules' = [rules EXCEPT ![handler.name] = NoRules] /\ rb' = rb
          /\ handler' = IF handler.content = NoBinding
                          THEN Idle ELSE [handler EXCEPT !.at = "setBinding"]
          /\ handler.at = "deleteRules"
      BY <2>5 DEF DeleteRules
    <3>2. IF handler.content = NoBinding
            THEN handler'.at = "idle" /\ handler'.name = NoName
            ELSE /\ handler'.at = "setBinding" /\ handler'.name = handler.name
                 /\ handler'.content = handler.content
      BY <3>1 DEF CacheTyped, Idle
    <3>3. CacheTyped'
      BY <2>1, <3>1 DEF CacheTyped, HandlerAt, Idle, Content
    <3>4. SetsBindings' /\ MapsAgree' /\ CatchesUp'
      BY <2>1, <3>1, <3>2 DEF CacheTyped, SetsBindings, MapsAgree, Agree, CatchesUp, LastCall
    <3>. QED  BY <3>3, <3>4
  <2>. QED  BY <1>2, <2>2, <2>3, <2>4, <2>5
<1>. QED  BY <1>1, <1>2 DEF CacheStep

-----------------------------------------------------------------------------
(* The reviews. *)

ReviewAt == {"new", "select", "get", "check", "limit", "notified", "end"}

Record == [at : ReviewAt, todo : SUBSET Names, name : Names \cup {NoName},
           got : [Names -> SUBSET Descriptors], over : BOOLEAN]

ReviewsTyped ==
  /\ review \in [Reviews -> Record]
  /\ excused \in [Reviews -> SUBSET Names]
  /\ answered \in [Reviews -> {"no", "alert", "limit", "lost"}]

\* The rules of binding n are still to be taken by review r.
Due(r, n) == n \in review[r].todo \/ (review[r].at = "get" /\ review[r].name = n)

Applies(r, n) == rb[n] # NoBinding /\ Selects(rb[n], r)

\* A review in progress has taken the rules of every binding that nobody changes, or
\* will take them and finds them made.
Untouched(r, n) ==
  /\ handler.name # n
  /\ Due(r, n) => Applies(r, n)
  /\ ~Due(r, n) => review[r].got[n] = IF Applies(r, n) THEN CreateRules(rb[n]) ELSE {}

ReviewInv(r) ==
  /\ review[r].at = "new" => \A n \in Names : review[r].got[n] = {}
  /\ review[r].at = "get" => review[r].name \in Names \ review[r].todo
  /\ Reading(r) => \A n \in Names \ excused[r] : Untouched(r, n)

\* A review is counted once, when its alert is checked.
AlertInv == /\ counted \subseteq Reviews /\ IsFiniteSet(counted) /\ count = Cardinality(counted)
            /\ minute \in BOOLEAN /\ notified \in BOOLEAN
            /\ \A r \in Reviews : review[r].at \in {"new", "select", "get", "check"} =>
                                    r \notin counted

Inv == CacheInv /\ ReviewsTyped /\ (\A r \in Reviews : ReviewInv(r)) /\ AlertInv

-----------------------------------------------------------------------------
LEMMA InitInv == Init => Inv
<1>. SUFFICES ASSUME Init PROVE Inv
  OBVIOUS
<1>1. CacheInv
  BY CacheStart DEF Init
<1>2. \A r \in Reviews : /\ review[r] = NewReview /\ excused[r] = {} /\ answered[r] = "no"
                         /\ review[r].at = "new" /\ review[r].got = [n \in Names |-> {}]
  BY DEF Init, NewReview
<1>3. ReviewsTyped
  <2>1. NewReview \in Record
    BY DEF NewReview, ReviewAt, Record
  <2>. QED  BY <2>1 DEF Init, ReviewsTyped
<1>4. ASSUME NEW r \in Reviews PROVE ReviewInv(r)
  BY <1>2 DEF ReviewInv, Reading
<1>5. AlertInv
  BY FS_EmptySet DEF Init, AlertInv
<1>. QED  BY <1>1, <1>3, <1>4, <1>5 DEF Inv

\* The cluster changes no map.
LEMMA ClusterKeepsInv == Inv /\ Cluster => Inv'
<1>. SUFFICES ASSUME Inv, Cluster PROVE Inv'
  OBVIOUS
<1>1. PICK n \in Names, c \in Content : ChangeBinding(n, c)
  BY DEF Cluster, Content
<1>2. CacheInv'
  BY <1>1, ClusterKeepsCacheInv DEF Inv
<1>3. UNCHANGED <<handler, rb, review, excused, answered, alertVars>>
  BY <1>1 DEF ChangeBinding, Cluster, reviewVars
<1>4. ASSUME NEW r \in Reviews PROVE ReviewInv(r)'
  <2>1. ReviewInv(r)
    BY DEF Inv
  <2>. QED
    BY <1>3, <2>1 DEF ReviewInv, Reading, Untouched, Due, Applies
<1>. QED  BY <1>2, <1>3, <1>4 DEF Inv, ReviewsTyped, AlertInv, alertVars

\* The handler changes only the binding in its hands, which is excused.
LEMMA CacheKeepsInv == Inv /\ Cache => Inv'
<1>. SUFFICES ASSUME Inv, Cache PROVE Inv'
  OBVIOUS
<1>1. CacheInv'
  BY HandlerKeepsCacheInv DEF Inv, Cache
<1>2. /\ UNCHANGED <<review, answered, alertVars>>
      /\ \A r \in Reviews : excused'[r] = IF Reading(r) THEN excused[r] \cup Changing'
                                                        ELSE excused[r]
      /\ excused' \in [Reviews -> SUBSET Names]
  BY DEF Cache, Changing, Inv, ReviewsTyped
<1>3. ASSUME NEW n \in Names, handler.name # n PROVE rb'[n] = rb[n]
  BY <1>3 DEF Cache, CacheStep, Handle, SetBinding, SetRules, DeleteBinding, DeleteRules,
              Inv, CacheInv, CacheTyped
<1>4. ASSUME NEW r \in Reviews PROVE ReviewInv(r)'
  <2>1. ReviewInv(r) /\ (Reading(r)' <=> Reading(r))
    BY <1>2 DEF Inv, Reading
  <2>2. ASSUME Reading(r), NEW n \in Names \ excused'[r] PROVE Untouched(r, n)'
    <3>1. n \notin excused[r] /\ handler'.name # n
      BY <1>2, <2>2 DEF Changing
    <3>2. Untouched(r, n)
      BY <2>1, <2>2, <3>1 DEF ReviewInv
    <3>3. rb'[n] = rb[n]
      BY <1>3, <3>2 DEF Untouched
    <3>. QED  BY <1>2, <3>1, <3>2, <3>3 DEF Untouched, Due, Applies
  <2>. QED  BY <1>2, <2>1, <2>2 DEF ReviewInv
<1>. QED  BY <1>1, <1>2, <1>4 DEF Inv, ReviewsTyped, AlertInv, alertVars

\* A step of a review leaves cache and other reviews alone.
LEMMA ReviewStepFacts ==
  ASSUME Inv, NEW r \in Reviews, UNCHANGED bindingVars, ReviewsTyped', ReviewInv(r)',
         \A s \in Reviews \ {r} : review'[s] = review[s] /\ excused'[s] = excused[s],
         AlertInv'
  PROVE  Inv'
<1>1. CacheInv'
  BY DEF Inv, CacheInv, CacheTyped, SetsBindings, MapsAgree, Agree, CatchesUp, LastCall, bindingVars
<1>2. ASSUME NEW s \in Reviews \ {r} PROVE ReviewInv(s)'
  <2>1. ReviewInv(s)
    BY DEF Inv
  <2>. QED
    BY <2>1 DEF ReviewInv, Reading, Untouched, Due, Applies, bindingVars
<1>. QED  BY <1>1, <1>2 DEF Inv

LEMMA GoesFacts ==
  ASSUME ReviewsTyped, NEW r \in Reviews, NEW at \in ReviewAt, Goes(r, at)
  PROVE  /\ review'[r].at = at
         /\ \A s \in Reviews \ {r} : review'[s] = review[s]
         /\ review' \in [Reviews -> Record]
BY DEF ReviewsTyped, Goes, Record

LEMMA ReviewKeepsInv == ASSUME Inv, NEW r \in Reviews, Reviewing(r) PROVE Inv'
<1>0. ReviewInv(r) /\ ReviewsTyped /\ AlertInv /\ CacheInv
  BY DEF Inv
<1>1. CASE Unreviewed(r) \/ FetchFails(r) \/ RuleFails(r) \/ NoRuleFails(r)
  <2>1. PICK at \in {"check", "end"} : Goes(r, at) /\ (at = "check" => RuleFails(r))
    BY <1>1 DEF Unreviewed, FetchFails, RuleFails, NoRuleFails
  <2>2. UNCHANGED <<bindingVars, alertVars, excused, answered>>
    BY <1>1 DEF Unreviewed, FetchFails, RuleFails, NoRuleFails, ReviewStep
  <2>3. /\ review'[r].at = at /\ \A s \in Reviews \ {r} : review'[s] = review[s]
        /\ ReviewsTyped'
    <3>1. at \in ReviewAt
      BY DEF ReviewAt
    <3>. QED  BY <1>0, <2>1, <2>2, <3>1, GoesFacts DEF ReviewsTyped
  <2>4. AlertInv'
    BY <1>0, <2>1, <2>2, <2>3 DEF AlertInv, RuleFails, alertVars
  <2>5. ReviewInv(r)'
    BY <2>1, <2>3 DEF ReviewInv, Reading
  <2>. QED  BY <2>2, <2>3, <2>4, <2>5, ReviewStepFacts
<1>2. CASE SelectBindings(r)
  <2> DEFINE due(unlisted) == {n \in Names \ unlisted : rb[n] # NoBinding /\ Selects(rb[n], r)}
  <2>1. PICK unlisted \in SUBSET Names :
          /\ review' = [review EXCEPT ![r] = [review[r] EXCEPT !.at = "select",
                                                               !.todo = due(unlisted)]]
          /\ excused' = [excused EXCEPT ![r] = unlisted \cup Changing]
    BY <1>2 DEF SelectBindings
  <2>2. review[r].at = "new" /\ UNCHANGED <<bindingVars, alertVars, answered>>
    BY <1>2 DEF SelectBindings, ReviewStep
  <2>3. /\ review'[r].at = "select" /\ review'[r].todo = due(unlisted)
        /\ review'[r].got = review[r].got
        /\ excused'[r] = unlisted \cup Changing
        /\ \A s \in Reviews \ {r} : review'[s] = review[s] /\ excused'[s] = excused[s]
    BY <1>0, <2>1 DEF ReviewsTyped, Record
  <2>4. ReviewsTyped'
    <3>1. due(unlisted) \in SUBSET Names /\ unlisted \cup Changing \in SUBSET Names
      BY DEF Changing
    <3>2. [review[r] EXCEPT !.at = "select", !.todo = due(unlisted)] \in Record
      BY <1>0, <3>1 DEF ReviewsTyped, ReviewAt, Record
    <3>. HIDE DEF due
    <3>3. review' \in [Reviews -> Record]
      BY <1>0, <2>1, <3>2 DEF ReviewsTyped
    <3>. QED  BY <1>0, <2>1, <2>2, <3>1, <3>3 DEF ReviewsTyped
  <2>5. AlertInv'
    BY <1>0, <2>2, <2>3 DEF AlertInv, alertVars
  <2>6. ASSUME NEW n \in Names \ excused'[r] PROVE Untouched(r, n)'
    <3>1. n \notin unlisted /\ handler.name # n
      BY <2>3 DEF Changing
    <3>2. Due(r, n)' <=> Applies(r, n)
      BY <2>3, <3>1 DEF Due, Applies
    <3>3. review'[r].got[n] = {}
      BY <1>0, <2>2, <2>3 DEF ReviewInv
    <3>. QED  BY <2>2, <3>1, <3>2, <3>3 DEF Untouched, Applies, bindingVars
  <2>7. ReviewInv(r)'
    BY <2>3, <2>6 DEF ReviewInv
  <2>. QED  BY <2>2, <2>3, <2>4, <2>5, <2>7, ReviewStepFacts
<1>3. ASSUME NEW m \in Names, HasRules(r, m) PROVE Inv'
  <2>1. /\ review[r].at = "select" /\ m \in review[r].todo
        /\ review' = [review EXCEPT ![r] = [review[r] EXCEPT
                        !.todo = review[r].todo \ {m}, !.name = m,
                        !.at = IF rules[m] # NoRules THEN "get" ELSE "select"]]
        /\ UNCHANGED <<bindingVars, alertVars, excused, answered>>
    BY <1>3 DEF HasRules, ReviewStep
  <2>2. /\ review'[r].at = IF rules[m] # NoRules THEN "get" ELSE "select"
        /\ review'[r].todo = review[r].todo \ {m} /\ review'[r].name = m
        /\ review'[r].got = review[r].got
        /\ \A s \in Reviews \ {r} : review'[s] = review[s]
    BY <1>0, <2>1 DEF ReviewsTyped, Record
  <2>3. ReviewsTyped'
    <3> DEFINE next == IF rules[m] # NoRules THEN "get" ELSE review[r].at
    <3>1. next \in ReviewAt
      BY <1>0, <2>1 DEF ReviewAt
    <3>. HIDE DEF next
    <3>2. [review[r] EXCEPT !.todo = review[r].todo \ {m}, !.name = m, !.at = next] \in Record
      BY <1>0, <3>1 DEF ReviewsTyped, Record
    <3>3. review' = [review EXCEPT ![r] = [review[r] EXCEPT !.todo = review[r].todo \ {m},
                                                            !.name = m, !.at = next]]
      BY <2>1 DEF next
    <3>. QED  BY <1>0, <2>1, <3>2, <3>3 DEF ReviewsTyped
  <2>4. AlertInv'
    BY <1>0, <2>1, <2>2 DEF AlertInv, alertVars
  <2>5. ASSUME NEW n \in Names \ excused[r] PROVE Untouched(r, n)'
    <3>1. Untouched(r, n)
      BY <1>0, <2>1 DEF ReviewInv, Reading
    <3>2. Due(r, n)' <=> Due(r, n)
      <4>1. CASE n = m
        <5>1. Applies(r, n) /\ handler.name # n
          BY <2>1, <3>1, <4>1 DEF Untouched, Due
        <5>2. rules[m] # NoRules
          BY <1>0, <4>1, <5>1, CreatedRules, BindingsAssumption
             DEF CacheInv, MapsAgree, Agree, Applies
        <5>. QED  BY <2>1, <2>2, <4>1, <5>2 DEF Due
      <4>2. CASE n # m
        BY <2>1, <2>2, <4>2 DEF Due
      <4>. QED  BY <4>1, <4>2
    <3>. QED  BY <2>1, <2>2, <3>1, <3>2 DEF Untouched, Applies, bindingVars
  <2>6. ReviewInv(r)'
    <3>1. review'[r].at \in {"get", "select"} /\ review'[r].name \in Names \ review'[r].todo
      BY <2>2
    <3>. QED  BY <2>1, <2>5, <3>1 DEF ReviewInv
  <2>. QED  BY <2>1, <2>2, <2>3, <2>4, <2>6, ReviewStepFacts
<1>4. CASE GetRules(r)
  <2> DEFINE m == review[r].name
             taken == IF rules[m] # NoRules THEN rules[m] ELSE {}
  <2>1. /\ review[r].at = "get"
        /\ review' = [review EXCEPT ![r] = [review[r] EXCEPT !.at = "select",
                                                     !.got = [review[r].got EXCEPT ![m] = taken]]]
        /\ UNCHANGED <<bindingVars, alertVars, excused, answered>>
    BY <1>4 DEF GetRules, ReviewStep
  <2>2. m \in Names \ review[r].todo
    BY <1>0, <2>1 DEF ReviewInv
  <2>3. /\ review'[r].at = "select" /\ review'[r].todo = review[r].todo
        /\ review'[r].got = [review[r].got EXCEPT ![m] = taken]
        /\ \A s \in Reviews \ {r} : review'[s] = review[s]
    BY <1>0, <2>1 DEF ReviewsTyped, Record
  <2>4. ReviewsTyped'
    <3>1. taken \in SUBSET Descriptors
      BY <1>0, <2>2 DEF CacheInv, CacheTyped
    <3>. HIDE DEF taken
    <3>2. [review[r] EXCEPT !.at = "select", !.got = [review[r].got EXCEPT ![m] = taken]] \in Record
      BY <1>0, <2>2, <3>1 DEF ReviewsTyped, Record, ReviewAt
    <3>. QED  BY <1>0, <2>1, <3>2 DEF ReviewsTyped
  <2>5. AlertInv'
    BY <1>0, <2>1, <2>3 DEF AlertInv, alertVars
  <2>6. ASSUME NEW n \in Names \ excused[r] PROVE Untouched(r, n)'
    <3>1. Untouched(r, n)
      BY <1>0, <2>1 DEF ReviewInv, Reading
    <3>2. CASE n = m
      <4>1. Applies(r, n) /\ handler.name # n
        BY <2>1, <3>1, <3>2 DEF Untouched, Due
      <4>2. rules[m] = CreateRules(rb[m]) /\ rules[m] # NoRules
        BY <1>0, <3>2, <4>1, CreatedRules, BindingsAssumption
           DEF CacheInv, MapsAgree, Agree, Applies
      <4>3. review'[r].got[n] = CreateRules(rb[n]) /\ ~Due(r, n)'
        BY <1>0, <2>2, <2>3, <3>2, <4>2 DEF Due, ReviewsTyped, Record
      <4>. QED  BY <2>1, <4>1, <4>3 DEF Untouched, Applies, bindingVars
    <3>3. CASE n # m
      <4>1. (Due(r, n)' <=> Due(r, n)) /\ review'[r].got[n] = review[r].got[n]
        BY <1>0, <2>1, <2>3, <3>3 DEF Due, ReviewsTyped, Record
      <4>. QED  BY <2>1, <3>1, <4>1 DEF Untouched, Applies, bindingVars
    <3>. QED  BY <3>2, <3>3
  <2>7. ReviewInv(r)'
    BY <2>1, <2>3, <2>6 DEF ReviewInv
  <2>. QED  BY <2>1, <2>3, <2>4, <2>5, <2>7, ReviewStepFacts
<1>5. CASE CheckAlertLimit(r)
  <2>1. /\ review[r].at = "check"
        /\ count' = IF minute THEN 1 ELSE count + 1
        /\ minute' = FALSE /\ notified' = (~minute /\ notified)
        /\ counted' = (IF minute THEN {} ELSE counted) \cup {r}
        /\ review' = [review EXCEPT ![r] = [review[r] EXCEPT !.at = "limit",
                                                             !.over = count' > MaxAlerts]]
        /\ UNCHANGED <<bindingVars, excused, answered>>
    BY <1>5 DEF CheckAlertLimit, AlertStep
  <2>2. /\ review'[r].at = "limit" /\ \A s \in Reviews \ {r} : review'[s] = review[s]
    BY <1>0, <2>1 DEF ReviewsTyped, Record
  <2>3. ReviewsTyped'
    <3>1. (count' > MaxAlerts) \in BOOLEAN
      OBVIOUS
    <3> DEFINE more == count' > MaxAlerts
    <3>. HIDE DEF more
    <3>2. [review[r] EXCEPT !.at = "limit", !.over = more] \in Record
      BY <1>0, <3>1 DEF ReviewsTyped, Record, ReviewAt, more
    <3>3. review' = [review EXCEPT ![r] = [review[r] EXCEPT !.at = "limit", !.over = more]]
      BY <2>1 DEF more
    <3>. QED  BY <1>0, <2>1, <3>2, <3>3 DEF ReviewsTyped
  <2>4. AlertInv'
    <3>1. IsFiniteSet(counted') /\ count' = Cardinality(counted')
      <4>1. CASE minute
        <5>1. counted' = {} \cup {r}
          BY <2>1, <4>1
        <5>2. IsFiniteSet({} \cup {r}) /\ Cardinality({} \cup {r}) = Cardinality({}) + 1
          BY FS_EmptySet, FS_AddElement
        <5>3. count' = 1
          BY <2>1, <4>1
        <5>. QED  BY <5>1, <5>2, <5>3, FS_EmptySet
      <4>2. CASE ~minute
        <5>1. counted' = counted \cup {r} /\ r \notin counted
          BY <1>0, <2>1, <4>2 DEF AlertInv
        <5>. QED  BY <1>0, <2>1, <4>2, <5>1, FS_AddElement DEF AlertInv
      <4>. QED  BY <4>1, <4>2
    <3>2. minute' \in BOOLEAN /\ notified' \in BOOLEAN
      BY <1>0, <2>1 DEF AlertInv
    <3>. QED  BY <1>0, <2>1, <2>2, <3>1, <3>2 DEF AlertInv
  <2>5. ReviewInv(r)'
    BY <2>2 DEF ReviewInv, Reading
  <2>. QED  BY <2>1, <2>2, <2>3, <2>4, <2>5, ReviewStepFacts
<1>6. CASE SendLimitReached(r) \/ SetNotified(r) \/ SendAlert(r)
  <2>1. PICK at \in {"notified", "end"} : Goes(r, at)
    BY <1>6 DEF SendLimitReached, SetNotified, SendAlert, Exports
  <2>2. /\ UNCHANGED <<bindingVars, excused, count, minute, counted>>
        /\ answered' \in [Reviews -> {"no", "alert", "limit", "lost"}]
        /\ notified' \in BOOLEAN
    BY <1>0, <1>6 DEF SendLimitReached, SetNotified, SendAlert, Exports, AlertStep, alertVars,
                      ReviewsTyped, AlertInv
  <2>3. /\ review'[r].at = at /\ \A s \in Reviews \ {r} : review'[s] = review[s]
        /\ ReviewsTyped'
    <3>1. at \in ReviewAt
      BY DEF ReviewAt
    <3>. QED  BY <1>0, <2>1, <2>2, <3>1, GoesFacts DEF ReviewsTyped
  <2>4. AlertInv'
    BY <1>0, <2>1, <2>2, <2>3 DEF AlertInv
  <2>5. ReviewInv(r)'
    BY <2>1, <2>3 DEF ReviewInv, Reading
  <2>. QED  BY <2>2, <2>3, <2>4, <2>5, ReviewStepFacts
<1>. QED  BY <1>1, <1>2, <1>3, <1>4, <1>5, <1>6 DEF Reviewing

LEMMA NextInv == Inv /\ [Next]_vars => Inv'
<1>. SUFFICES ASSUME Inv, [Next]_vars PROVE Inv'
  OBVIOUS
<1>1. CASE MinutePasses
  <2>1. /\ UNCHANGED <<bindingVars, review, excused, answered, count, notified, counted>>
        /\ minute' = TRUE
    BY <1>1 DEF MinutePasses, reviewVars
  <2>2. ReviewsTyped' /\ AlertInv' /\ CacheInv'
    BY <2>1 DEF Inv, ReviewsTyped, AlertInv, CacheInv, CacheTyped, SetsBindings, MapsAgree, Agree,
                CatchesUp, LastCall, bindingVars
  <2>3. \A r \in Reviews : ReviewInv(r)'
    BY <2>1 DEF Inv, ReviewInv, Reading, Untouched, Due, Applies, bindingVars
  <2>. QED  BY <2>2, <2>3 DEF Inv
<1>2. CASE UNCHANGED vars
  <2>1. UNCHANGED <<bindingVars, review, excused, answered, count, minute, notified, counted>>
    BY <1>2 DEF vars, reviewVars, alertVars
  <2>2. ReviewsTyped' /\ AlertInv' /\ CacheInv'
    BY <2>1 DEF Inv, ReviewsTyped, AlertInv, CacheInv, CacheTyped, SetsBindings, MapsAgree, Agree,
                CatchesUp, LastCall, bindingVars
  <2>3. \A r \in Reviews : ReviewInv(r)'
    BY <2>1 DEF Inv, ReviewInv, Reading, Untouched, Due, Applies, bindingVars
  <2>. QED  BY <2>2, <2>3 DEF Inv
<1>. QED
  BY <1>1, <1>2, ClusterKeepsInv, CacheKeepsInv, ReviewKeepsInv DEF Next

-----------------------------------------------------------------------------
\* The invariant of the cache (cache.go), of the reviews and of the exporter's count holds
\* in every reachable state.
THEOREM Invariance == Spec => []Inv
BY InitInv, NextInv, PTL DEF Spec

\* Cache, reviews and the exporter's count (http_exporter.go, checkAlertLimit) keep their
\* types: the count is the number of reviews counted since it began.
THEOREM TypeCorrect == Spec => []TypeOK
<1>1. Inv => TypeOK
  <2>. SUFFICES ASSUME Inv PROVE TypeOK
    OBVIOUS
  <2>1. BindingsTypeOK
    <3>1. \A i \in DOMAIN told : told[i].name \in Names
      <4>1. told \in Seq(Call)
        BY DEF Inv, CacheInv, CacheTyped
      <4>2. \A i \in DOMAIN told : told[i] \in Call
        BY <4>1
      <4>. QED  BY <4>2 DEF Call
    <3>. QED
      BY <3>1 DEF Inv, CacheInv, CacheTyped, BindingsTypeOK, Content, HandlerAt
  <2>2. ASSUME NEW r \in Reviews
        PROVE  /\ review[r].at \in {"new", "select", "get", "check", "limit", "notified", "end"}
               /\ review[r].todo \subseteq Names
               /\ review[r].got \in [Names -> SUBSET Descriptors]
               /\ review[r].over \in BOOLEAN
    BY DEF Inv, ReviewsTyped, Record, ReviewAt
  <2>. QED  BY <2>1, <2>2 DEF Inv, ReviewsTyped, AlertInv, TypeOK
<1>. QED  BY <1>1, Invariance, PTL

\* After any additions, changes and deletions, each of which cache.go makes in both maps
\* one after the other, the maps agree and are what the cluster has.
THEOREM CacheCurrent == Spec => []CacheIsCurrent
<1>1. Inv => CacheIsCurrent
  <2>. SUFFICES ASSUME Inv, handler = Idle, NEW n \in Names
                PROVE  /\ rules[n] = IF rb[n] = NoBinding THEN NoRules ELSE CreateRules(rb[n])
                       /\ (\A i \in DOMAIN told : told[i].name # n) => rb[n] = binding[n]
    BY DEF CacheIsCurrent
  <2>1. handler.name # n
    BY BindingsAssumption DEF Idle
  <2>. QED  BY <2>1 DEF Inv, CacheInv, MapsAgree, Agree, CatchesUp
<1>. QED  BY <1>1, Invariance, PTL

\* However many reviews list rules (cache.go, ListRulesForObject) while bindings change, a
\* review has exactly the rules of the bindings nobody changed meanwhile.
THEOREM ReviewsApply == Spec => []UntouchedBindingsApply
<1>1. Inv => UntouchedBindingsApply
  <2>. SUFFICES ASSUME Inv, NEW r \in Reviews, Judged(r), NEW n \in Names \ excused[r]
                PROVE  review[r].got[n] = IF rb[n] # NoBinding /\ Selects(rb[n], r)
                                            THEN CreateRules(rb[n]) ELSE {}
    BY DEF UntouchedBindingsApply
  <2>1. Untouched(r, n) /\ ~Due(r, n)
    BY DEF Inv, ReviewInv, Judged, Reading, Due
  <2>. QED  BY <2>1 DEF Untouched, Applies
<1>. QED  BY <1>1, Invariance, PTL

-----------------------------------------------------------------------------
(* How far the limit of alerts holds: the bound that AlertsLimited asks for fails only *)
(* once the notice was sent, which checkAlertLimit's callers take as a leave to send.   *)

\* The reviews that were counted within the limit, since the count began.
Allowed == {r \in counted : ~review[r].over}

LimitInv ==
  /\ Cardinality(Allowed) <= MaxAlerts
  /\ ~notified => {r \in counted : answered[r] = "alert"} \subseteq Allowed
  /\ \A r \in Reviews : answered[r] # "no" => review[r].at \in {"notified", "end"}

\* Before the notice of a minute no more alerts are sent than the limit allows.
LimitedUntilNotice ==
  ~notified => Cardinality({r \in counted : answered[r] = "alert"}) <= MaxAlerts

\* A step that sends and counts nothing.
LEMMA LimitStays ==
  ASSUME LimitInv, UNCHANGED <<counted, notified, answered>>, counted \subseteq Reviews,
         \A r \in Reviews : /\ review'[r].over = review[r].over
                            /\ review[r].at \in {"notified", "end"} =>
                                 review'[r].at \in {"notified", "end"}
  PROVE  LimitInv'
<1>1. /\ counted' = counted /\ notified' = notified /\ answered' = answered
      /\ \A r \in counted : review'[r].over = review[r].over
  OBVIOUS
<1>2. Allowed' = Allowed
  BY <1>1, Zenon DEF Allowed
<1>3. \A r \in Reviews : answered'[r] # "no" => review'[r].at \in {"notified", "end"}
  BY <1>1 DEF LimitInv
<1>. QED  BY <1>1, <1>2, <1>3 DEF LimitInv

\* The count grows by one, or begins again with this review.
LEMMA CountKeepsLimit ==
  ASSUME Inv, Inv', LimitInv, NEW r \in Reviews, CheckAlertLimit(r)
  PROVE  LimitInv'
<1>. DEFINE more == count' > MaxAlerts
<1>1. /\ review[r].at = "check"
      /\ count' = IF minute THEN 1 ELSE count + 1
      /\ notified' = (~minute /\ notified)
      /\ counted' = (IF minute THEN {} ELSE counted) \cup {r}
      /\ review' = [review EXCEPT ![r] = [review[r] EXCEPT !.at = "limit", !.over = more]]
      /\ UNCHANGED answered
  BY DEF CheckAlertLimit, AlertStep
<1>. HIDE DEF more
<1>2. /\ review \in [Reviews -> Record] /\ r \notin counted /\ counted \subseteq Reviews
      /\ IsFiniteSet(counted) /\ IsFiniteSet(counted') /\ count' = Cardinality(counted')
      /\ answered[r] = "no"
  BY <1>1 DEF Inv, AlertInv, ReviewsTyped, LimitInv
<1>3. /\ review'[r].at = "limit" /\ review'[r].over = more
      /\ \A s \in Reviews \ {r} : review'[s] = review[s]
  BY <1>1, <1>2 DEF Record
<1>4. Cardinality(counted') \in Nat /\ MaxAlerts \in Nat
  BY <1>2, FS_CardinalityType, WebhookAssumption
<1>5. Cardinality(Allowed') <= MaxAlerts
  <2>1. CASE more
    <3>1. Allowed' \subseteq Allowed
      BY <1>1, <1>2, <1>3, <2>1 DEF Allowed
    <3>2. IsFiniteSet(Allowed) /\ Allowed \subseteq counted
      BY <1>2, FS_Subset DEF Allowed
    <3>3. IsFiniteSet(Allowed') /\ Cardinality(Allowed') <= Cardinality(Allowed)
      BY <3>1, <3>2, FS_Subset
    <3>4. Cardinality(Allowed) \in Nat /\ Cardinality(Allowed') \in Nat
      BY <3>2, <3>3, FS_CardinalityType
    <3>. QED  BY <1>4, <3>3, <3>4 DEF LimitInv
  <2>2. CASE ~more
    <3>1. Allowed' \subseteq counted'
      BY DEF Allowed
    <3>2. IsFiniteSet(Allowed') /\ Cardinality(Allowed') <= Cardinality(counted')
      BY <1>2, <3>1, FS_Subset
    <3>3. Cardinality(Allowed') \in Nat
      BY <3>2, FS_CardinalityType
    <3>. QED  BY <1>2, <1>4, <2>2, <3>2, <3>3 DEF more
  <2>. QED  BY <2>1, <2>2
<1>6. ~notified' => {s \in counted' : answered'[s] = "alert"} \subseteq Allowed'
  <2>. SUFFICES ASSUME ~notified', NEW s \in counted', answered[s] = "alert" PROVE ~review'[s].over
    BY <1>1 DEF Allowed
  <2>1. s # r
    BY <1>2
  <2>2. ~minute /\ s \in counted /\ ~notified
    BY <1>1, <2>1
  <2>. QED  BY <1>2, <1>3, <2>1, <2>2 DEF LimitInv, Allowed
<1>7. \A s \in Reviews : answered'[s] # "no" => review'[s].at \in {"notified", "end"}
  BY <1>1, <1>2, <1>3 DEF LimitInv
<1>. QED  BY <1>5, <1>6, <1>7 DEF LimitInv

\* An alert or the notice is sent.
LEMMA SendKeepsLimit ==
  ASSUME Inv, LimitInv, NEW r \in Reviews, SendLimitReached(r) \/ SetNotified(r) \/ SendAlert(r)
  PROVE  LimitInv'
<1>1. PICK at \in {"notified", "end"} : Goes(r, at)
  BY DEF SendLimitReached, SetNotified, SendAlert, Exports
<1>2. /\ review \in [Reviews -> Record] /\ answered \in [Reviews -> {"no", "alert", "limit", "lost"}]
      /\ counted \subseteq Reviews /\ review[r].over \in BOOLEAN
  BY DEF Inv, AlertInv, ReviewsTyped, Record
<1>3. /\ review'[r].at = at /\ review'[r].over = review[r].over
      /\ \A s \in Reviews \ {r} : review'[s] = review[s]
  BY <1>1, <1>2 DEF Goes, Record
<1>4. /\ UNCHANGED counted /\ \A s \in Reviews \ {r} : answered'[s] = answered[s]
      /\ ~notified' => ~notified
  BY <1>2 DEF SendLimitReached, SetNotified, SendAlert, Exports, alertVars
<1>5. Allowed' = Allowed
  BY <1>2, <1>3, <1>4 DEF Allowed
<1>6. ~notified' => {s \in counted' : answered'[s] = "alert"} \subseteq Allowed
  <2>. SUFFICES ASSUME ~notified', NEW s \in counted, answered'[s] = "alert" PROVE s \in Allowed
    BY <1>4
  <2>1. CASE answered'[s] = answered[s]
    BY <1>4, <2>1 DEF LimitInv
  <2>2. CASE answered'[s] # answered[s]
    <3>1. s = r /\ SendAlert(r)
      BY <1>2, <1>4, <2>2 DEF SendLimitReached, SetNotified, Exports
    <3>2. ~review[r].over
      BY <1>4, <3>1 DEF SendAlert, Exports
    <3>. QED  BY <3>1, <3>2 DEF Allowed
  <2>. QED  BY <2>1, <2>2
<1>7. \A s \in Reviews : answered'[s] # "no" => review'[s].at \in {"notified", "end"}
  BY <1>3, <1>4 DEF LimitInv
<1>. QED  BY <1>5, <1>6, <1>7 DEF LimitInv

LEMMA NextKeepsLimit == Inv /\ Inv' /\ LimitInv /\ [Next]_vars => LimitInv'
<1>. SUFFICES ASSUME Inv, Inv', LimitInv, [Next]_vars PROVE LimitInv'
  OBVIOUS
<1>1. counted \subseteq Reviews /\ review \in [Reviews -> Record]
  BY DEF Inv, AlertInv, ReviewsTyped
<1>2. CASE Cluster \/ Cache \/ MinutePasses \/ UNCHANGED vars
  <2>1. UNCHANGED <<review, counted, notified, answered>>
    BY <1>2 DEF Cluster, Cache, MinutePasses, vars, reviewVars, alertVars
  <2>. QED  BY <1>1, <2>1, LimitStays
<1>3. ASSUME NEW r \in Reviews, Reviewing(r) PROVE LimitInv'
  <2>1. CASE \/ Unreviewed(r) \/ FetchFails(r) \/ SelectBindings(r) \/ GetRules(r)
             \/ RuleFails(r) \/ NoRuleFails(r) \/ \E n \in Names : HasRules(r, n)
    <3>1. UNCHANGED <<counted, notified, answered>>
      BY <2>1 DEF Unreviewed, FetchFails, SelectBindings, GetRules, RuleFails, NoRuleFails, HasRules,
                  ReviewStep, alertVars
    <3>2. /\ review[r].at \in {"new", "select", "get"} /\ review'[r].over = review[r].over
          /\ \A s \in Reviews \ {r} : review'[s] = review[s]
      <4>1. CASE Unreviewed(r) \/ FetchFails(r) \/ RuleFails(r) \/ NoRuleFails(r)
        BY <1>1, <4>1 DEF Unreviewed, FetchFails, RuleFails, NoRuleFails, Goes, Record
      <4>2. CASE SelectBindings(r)
        BY <1>1, <4>2 DEF SelectBindings, Record
      <4>3. CASE GetRules(r)
        BY <1>1, <4>3 DEF GetRules, Record
      <4>4. CASE \E n \in Names : HasRules(r, n)
        BY <1>1, <4>4 DEF HasRules, Record
      <4>. QED  BY <2>1, <4>1, <4>2, <4>3, <4>4
    <3>. QED  BY <1>1, <3>1, <3>2, LimitStays
  <2>2. CASE CheckAlertLimit(r)
    BY <2>2, CountKeepsLimit
  <2>3. CASE SendLimitReached(r) \/ SetNotified(r) \/ SendAlert(r)
    BY <2>3, SendKeepsLimit
  <2>. QED  BY <1>3, <2>1, <2>2, <2>3 DEF Reviewing
<1>. QED  BY <1>2, <1>3 DEF Next

\* However many reviews check the limit, read the flag and send at once (http_exporter.go,
\* SendAdmissionAlert and checkAlertLimit): until the notice of a minute is written down,
\* no more of its reviews had their alert sent than MaxAlertsPerMinute.
THEOREM LimitHoldsUntilNotice == Spec => []LimitedUntilNotice
<1>1. Init => LimitInv
  <2>. SUFFICES ASSUME Init PROVE LimitInv
    OBVIOUS
  <2>1. counted = {} /\ Allowed = {} /\ \A r \in Reviews : answered[r] = "no"
    BY DEF Init, Allowed
  <2>2. Cardinality({}) = 0 /\ MaxAlerts \in Nat
    BY FS_EmptySet, WebhookAssumption
  <2>. QED  BY <2>1, <2>2 DEF LimitInv
<1>2. Inv /\ LimitInv => LimitedUntilNotice
  <2>. SUFFICES ASSUME Inv, LimitInv, ~notified
                PROVE  Cardinality({r \in counted : answered[r] = "alert"}) <= MaxAlerts
    BY DEF LimitedUntilNotice
  <2>. DEFINE sent == {r \in counted : answered[r] = "alert"}
  <2>1. sent \subseteq Allowed /\ IsFiniteSet(Allowed)
    <3>1. IsFiniteSet(counted) /\ Allowed \subseteq counted
      BY DEF Inv, AlertInv, Allowed
    <3>. QED  BY <3>1, FS_Subset DEF LimitInv
  <2>. HIDE DEF sent
  <2>2. IsFiniteSet(sent) /\ Cardinality(sent) <= Cardinality(Allowed)
    BY <2>1, FS_Subset
  <2>3. Cardinality(sent) \in Nat /\ Cardinality(Allowed) \in Nat /\ MaxAlerts \in Nat
    BY <2>1, <2>2, FS_CardinalityType, WebhookAssumption
  <2>4. Cardinality(sent) <= MaxAlerts
    BY <2>2, <2>3 DEF LimitInv
  <2>. QED  BY <2>4 DEF sent
<1>. QED  BY <1>1, <1>2, Invariance, NextKeepsLimit, PTL DEF Spec
=============================================================================
