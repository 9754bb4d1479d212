--------------------------- MODULE AdmissionWebhook ---------------------------
(***************************************************************************)
(* The admission webhook: the review of a request by the rules bound to    *)
(* its object (webhook/validator.go, the reading side of                   *)
(* rulebinding/cache/cache.go), and the alert of the first rule that fails *)
(* (exporter/http_exporter.go).  Reviews run concurrently with each other  *)
(* and with the cache's handler.                                           *)
(*                                                                         *)
(* Each review is one HTTP request (webhook/server.go).  What the answer   *)
(* says is left out: every review that ends is answered "allowed".         *)
(***************************************************************************)
EXTENDS RuleBindings

CONSTANTS Reviews,
          Target,        \* per review: the object's namespace (NoName if none), labels
                         \* (included: unless told not to), and whether it is fetched
          Breaks,        \* per review: the rule ids that fail for it
          Within,        \* Within[a]: the namespaces whose name contains a
          MaxAlerts      \* MaxAlertsPerMinute

ASSUME WebhookAssumption == MaxAlerts \in Nat \ {0}

VARIABLES
  review,      \* per review: where it is
  excused,     \* history: per review the bindings that changed or could not be selected
  answered,    \* history: per review what was told of it: "alert", "limit", or "lost" when
               \* the call that was to tell it failed
  count,       \* alertCount
  minute,      \* whether the minute of alertCountStart is over
  notified,    \* alertLimitNotified
  counted      \* history: the reviews counted since the count began

reviewVars == <<review, excused, answered>>
alertVars == <<count, minute, notified, counted>>
vars == <<bindingVars, reviewVars, alertVars>>

NewReview == [at |-> "new", todo |-> {}, name |-> NoName, got |-> [n \in Names |-> {}],
              over |-> FALSE]

Init == /\ BindingsInit
        /\ review = [r \in Reviews |-> NewReview]
        /\ excused = [r \in Reviews |-> {}]
        /\ answered = [r \in Reviews |-> "no"]
        /\ count = 0 /\ minute = FALSE /\ notified = FALSE /\ counted = {}

-----------------------------------------------------------------------------
(* The cache changes under the reviews that read it. *)

Changing == {handler.name} \cap Names
Reading(r) == review[r].at \in {"select", "get"}

Cluster == /\ \E n \in Names, c \in Contents \cup {NoBinding} : ChangeBinding(n, c)
           /\ UNCHANGED <<reviewVars, alertVars>>

Cache == /\ CacheStep
         /\ excused' = [r \in Reviews |-> IF Reading(r) THEN excused[r] \cup Changing'
                                                        ELSE excused[r]]
         /\ UNCHANGED <<review, answered, alertVars>>

-----------------------------------------------------------------------------
(* Validate and ListRulesForObject. *)

Goes(r, at) == review' = [review EXCEPT ![r].at = at]
ReviewStep == UNCHANGED <<bindingVars, alertVars>>

\* The request cannot be parsed or decoded, or nobody reviews its operation.
Unreviewed(r) == /\ review[r].at = "new"
                 /\ Goes(r, "end")
                 /\ ReviewStep
                 /\ UNCHANGED <<excused, answered>>

\* The pod a connect request is for is fetched; when that fails no rule is looked at.
FetchFails(r) == /\ review[r].at = "new"
                 /\ Target[r].fetched
                 /\ Goes(r, "end")
                 /\ ReviewStep
                 /\ UNCHANGED <<excused, answered>>

\* An object without namespace is everyone's, unless its label excludes it.
Selects(c, r) ==
  IF Target[r].namespace = NoName THEN Target[r].included
  ELSE /\ c.labels \subseteq Target[r].labels
       /\ \/ c.namespaces = {}
          \/ \E ns \in c.namespaces : ns \in Within[Target[r].namespace]

\* The bindings are copied under the map's lock.  The namespaces a binding selects are
\* listed by a call, which may fail: that binding is passed over.
SelectBindings(r) ==
  /\ review[r].at = "new"
  /\ \E unlisted \in SUBSET {n \in Names : /\ rb[n] # NoBinding /\ rb[n].namespaces # {}
                                           /\ Target[r].namespace # NoName} :
       /\ review' = [review EXCEPT ![r] = [review[r] EXCEPT
            !.at = "select",
            !.todo = {n \in Names \ unlisted : rb[n] # NoBinding /\ Selects(rb[n], r)}]]
       /\ excused' = [excused EXCEPT ![r] = unlisted \cup Changing]
  /\ ReviewStep
  /\ UNCHANGED answered

\* rbNameToRules.Has and rbNameToRules.Get, each under the map's lock.
HasRules(r, n) == /\ review[r].at = "select"
                  /\ n \in review[r].todo
                  /\ review' = [review EXCEPT ![r] = [review[r] EXCEPT
                       !.todo = review[r].todo \ {n}, !.name = n,
                       !.at = IF rules[n] # NoRules THEN "get" ELSE "select"]]
                  /\ ReviewStep
                  /\ UNCHANGED <<excused, answered>>

\* Mutated form: only the first binding's rules are taken.
GetFirstRules(r) ==
  /\ review[r].at = "get"
  /\ LET n == review[r].name
         taken == IF rules[n] # NoRules THEN rules[n] ELSE {}
     IN  review' = [review EXCEPT ![r] = [review[r] EXCEPT !.at = "select", !.todo = {},
                                                   !.got = [review[r].got EXCEPT ![n] = taken]]]
  /\ ReviewStep
  /\ UNCHANGED <<excused, answered>>

GetRules(r) ==
  /\ review[r].at = "get"
  /\ LET n == review[r].name
         taken == IF rules[n] # NoRules THEN rules[n] ELSE {}
     IN  review' = [review EXCEPT ![r] = [review[r] EXCEPT !.at = "select",
                                                   !.got = [review[r].got EXCEPT ![n] = taken]]]
  /\ ReviewStep
  /\ UNCHANGED <<excused, answered>>

\* The rules whose test of the request fails.
Failing(r) == {d \in UNION {review[r].got[n] : n \in Names} : d.id \in Breaks[r]}

\* The first rule that fails ends the review with an alert.
RuleFails(r) == /\ review[r].at = "select"
                /\ review[r].todo = {}
                /\ Failing(r) # {}
                /\ Goes(r, "check")
                /\ ReviewStep
                /\ UNCHANGED <<excused, answered>>

\* None fails; a rule that cannot get the details of the pod does not.
NoRuleFails(r) == /\ review[r].at = "select"
                  /\ review[r].todo = {}
                  /\ Goes(r, "end")
                  /\ ReviewStep
                  /\ UNCHANGED <<excused, answered>>

-----------------------------------------------------------------------------
(* SendAdmissionAlert: only checkAlertLimit has the lock. *)

AlertStep == UNCHANGED <<bindingVars, excused>>

MinutePasses == /\ ~minute /\ count > 0
                /\ minute' = TRUE
                /\ UNCHANGED <<bindingVars, reviewVars, count, notified, counted>>

\* Mutated form: the count is not reset.
CheckWithoutReset(r) ==
  /\ review[r].at = "check"
  /\ count' = count + 1
  /\ minute' = FALSE
  /\ notified' = (~minute /\ notified)
  /\ counted' = (IF minute THEN {} ELSE counted) \cup {r}
  /\ review' = [review EXCEPT ![r] = [review[r] EXCEPT !.at = "limit",
                                                       !.over = count' > MaxAlerts]]
  /\ AlertStep
  /\ UNCHANGED answered

CheckAlertLimit(r) ==
  /\ review[r].at = "check"
  /\ count' = IF minute THEN 1 ELSE count + 1
  /\ minute' = FALSE
  /\ notified' = (~minute /\ notified)
  /\ counted' = (IF minute THEN {} ELSE counted) \cup {r}
  /\ review' = [review EXCEPT ![r] = [review[r] EXCEPT !.at = "limit",
                                                       !.over = count' > MaxAlerts]]
  /\ AlertStep
  /\ UNCHANGED answered

\* exportMessage: a call that fails, or is not answered with success, is only logged.
Exports(r, message) == \E outcome \in {message, "lost"} :
                         answered' = [answered EXCEPT ![r] = outcome]

\* alertLimitNotified is read, and the limit's alert is sent in place of this one.
SendLimitReached(r) == /\ review[r].at = "limit"
                       /\ review[r].over /\ ~notified
                       /\ Goes(r, "notified")
                       /\ Exports(r, "limit")
                       /\ AlertStep
                       /\ UNCHANGED alertVars

\* And written only when the call has come back, whether it told the limit or failed.
SetNotified(r) == /\ review[r].at = "notified"
                  /\ notified' = TRUE
                  /\ Goes(r, "end")
                  /\ AlertStep
                  /\ UNCHANGED <<answered, count, minute, counted>>

\* Mutated form: an alert over the limit is dropped though nobody is told.
DropOver(r) == /\ review[r].at = "limit"
               /\ answered' = IF review[r].over THEN answered
                                                ELSE [answered EXCEPT ![r] = "alert"]
               /\ Goes(r, "end")
               /\ AlertStep
               /\ UNCHANGED alertVars

\* An alert within the limit, and every one after the limit was notified.
SendAlert(r) == /\ review[r].at = "limit"
                /\ ~(review[r].over /\ ~notified)
                /\ Exports(r, "alert")
                /\ Goes(r, "end")
                /\ AlertStep
                /\ UNCHANGED alertVars

Reviewing(r) == \/ Unreviewed(r) \/ FetchFails(r) \/ SelectBindings(r) \/ GetRules(r)
                \/ RuleFails(r) \/ NoRuleFails(r)
                \/ \E n \in Names : HasRules(r, n)
                \/ CheckAlertLimit(r) \/ SendLimitReached(r) \/ SetNotified(r) \/ SendAlert(r)

-----------------------------------------------------------------------------
Next == \/ Cluster \/ Cache \/ MinutePasses
        \/ \E r \in Reviews : Reviewing(r)

Spec == Init /\ [][Next]_vars

\* The handler of the cache and every review go on.
FairSpec == /\ Spec
            /\ WF_vars(Cache)
            /\ \A r \in Reviews : WF_vars(Reviewing(r))

-----------------------------------------------------------------------------
(* Properties. *)

\* Type invariant.
TypeOK == /\ BindingsTypeOK
          /\ \A r \in Reviews :
               /\ review[r].at \in {"new", "select", "get", "check", "limit", "notified", "end"}
               /\ review[r].todo \subseteq Names
               /\ review[r].got \in [Names -> SUBSET Descriptors]
               /\ review[r].over \in BOOLEAN
          /\ excused \in [Reviews -> SUBSET Names]
          /\ answered \in [Reviews -> {"no", "alert", "limit", "lost"}]
          /\ counted \subseteq Reviews /\ count = Cardinality(counted)
          /\ minute \in BOOLEAN /\ notified \in BOOLEAN

Judged(r) == review[r].at = "select" /\ review[r].todo = {}

\* A review judges an object by exactly the rules of the bindings that select it, whatever
\* the cache does to other bindings meanwhile: only one that is being changed, or whose
\* namespaces cannot be listed, may count with old rules or none.
UntouchedBindingsApply ==
  \A r \in Reviews : Judged(r) =>
    \A n \in Names \ excused[r] :
      review[r].got[n] = IF rb[n] # NoBinding /\ Selects(rb[n], r) THEN CreateRules(rb[n]) ELSE {}

\* For a failed rule the backend is called, with its alert or the notice that the limit is
\* reached, and the review comes to its end, though the exporter's flag changes between its
\* reads: what is not told of is lost in a call that failed, never without one.
FailuresAreTold ==
  \A r \in Reviews : review[r].at = "check" ~> (review[r].at = "end" /\ answered[r] # "no")

\* "alertCount is the number of alerts sent in the last minute, used to limit the number
\* of alerts sent" (exporter/http_exporter.go:37).
AlertsLimited == Cardinality({r \in counted : answered[r] = "alert"}) <= MaxAlerts
=============================================================================
