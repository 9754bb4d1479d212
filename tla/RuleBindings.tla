----------------------------- MODULE RuleBindings -----------------------------
(***************************************************************************)
(* The cache of rule bindings (admission/rulebinding/cache/cache.go): what *)
(* the watcher tells of the bindings in the cluster is put into two maps,  *)
(* each of which is guarded by itself: the bindings, and the rules made    *)
(* for them (admission/rules/v1/factory.go).  A modified binding is        *)
(* deleted from both and added to both.                                    *)
(*                                                                         *)
(* The watcher (a library) is external: it calls one handler at a time, in *)
(* the order of the changes.  The notifiers get nothing: the handlers have *)
(* no notification to send.                                                *)
(***************************************************************************)
EXTENDS Naturals, Sequences, FiniteSets

CONSTANTS Names,        \* of bindings
          Contents,     \* what a binding may say: its entries and its selectors
          Descriptors,  \* the rules there are: id, name, tags
          NoBinding, NoRules,
          NoName,       \* the empty name: of no binding, of no namespace
          MaxChanges    \* bound on the changes of bindings

ASSUME BindingsAssumption == /\ NoName \notin Names
                             /\ NoBinding \notin Contents
                             /\ \A s \in SUBSET Descriptors : s # NoRules
                             /\ MaxChanges \in Nat

VARIABLES
  binding,   \* the bindings in the cluster
  changes,
  told,      \* the watcher's calls to come
  handler,   \* the call that runs
  rb,        \* rbNameToRB
  rules      \* rbNameToRules

bindingVars == <<binding, changes, told, handler, rb, rules>>

Idle == [at |-> "idle", name |-> NoName, content |-> NoBinding]

BindingsInit == /\ binding = [n \in Names |-> NoBinding]
                /\ changes = 0
                /\ told = <<>>
                /\ handler = Idle
                /\ rb = [n \in Names |-> NoBinding]
                /\ rules = [n \in Names |-> NoRules]

-----------------------------------------------------------------------------
(* createRules: an entry is looked up by id, then by name, then by tags. *)

ById(e) == {d \in Descriptors : d.id = e.id}
ByName(e) == {d \in Descriptors : d.name = e.name}
ByTags(e) == {d \in Descriptors : d.tags \cap e.tags # {}}

CreateRule(e) == IF ById(e) # {} THEN ById(e)
                 ELSE IF ByName(e) # {} THEN ByName(e) ELSE ByTags(e)

CreateRules(content) == UNION {CreateRule(e) : e \in content.entries}

-----------------------------------------------------------------------------
ChangeBinding(n, c) ==
  /\ changes < MaxChanges
  /\ c # binding[n]
  /\ changes' = changes + 1
  /\ binding' = [binding EXCEPT ![n] = c]
  /\ told' = Append(told, [name |-> n, content |-> c,
                           type |-> CASE c = NoBinding -> "deleted"
                                      [] binding[n] = NoBinding -> "added"
                                      [] OTHER -> "modified"])
  /\ UNCHANGED <<handler, rb, rules>>

\* AddHandler begins to set, ModifyHandler and DeleteHandler begin to delete.
Handle == /\ handler.at = "idle"
          /\ told # <<>>
          /\ handler' = [at |-> IF Head(told).type = "added" THEN "setBinding"
                                                             ELSE "deleteBinding",
                         name |-> Head(told).name, content |-> Head(told).content]
          /\ told' = Tail(told)
          /\ UNCHANGED <<binding, changes, rb, rules>>

\* addRuleBinding.
SetBinding == /\ handler.at = "setBinding"
              /\ rb' = [rb EXCEPT ![handler.name] = handler.content]
              /\ handler' = [handler EXCEPT !.at = "setRules"]
              /\ UNCHANGED <<binding, changes, told, rules>>

SetRules == /\ handler.at = "setRules"
            /\ rules' = [rules EXCEPT ![handler.name] = CreateRules(handler.content)]
            /\ handler' = Idle
            /\ UNCHANGED <<binding, changes, told, rb>>

\* Mutated form: the rules of a deleted binding stay.
DeleteBindingOnly ==
  /\ handler.at = "deleteBinding"
  /\ rb' = [rb EXCEPT ![handler.name] = NoBinding]
  /\ handler' = IF handler.content = NoBinding THEN Idle ELSE [handler EXCEPT !.at = "setBinding"]
  /\ UNCHANGED <<binding, changes, told, rules>>

\* deleteRuleBinding.
DeleteBinding == /\ handler.at = "deleteBinding"
                 /\ rb' = [rb EXCEPT ![handler.name] = NoBinding]
                 /\ handler' = [handler EXCEPT !.at = "deleteRules"]
                 /\ UNCHANGED <<binding, changes, told, rules>>

\* A modified binding is added again.
DeleteRules == /\ handler.at = "deleteRules"
               /\ rules' = [rules EXCEPT ![handler.name] = NoRules]
               /\ handler' = IF handler.content = NoBinding
                               THEN Idle ELSE [handler EXCEPT !.at = "setBinding"]
               /\ UNCHANGED <<binding, changes, told, rb>>

CacheStep == Handle \/ SetBinding \/ SetRules \/ DeleteBinding \/ DeleteRules

-----------------------------------------------------------------------------
(* Properties. *)

BindingsTypeOK == /\ binding \in [Names -> Contents \cup {NoBinding}]
                  /\ changes \in 0 .. MaxChanges
                  /\ \A i \in DOMAIN told : told[i].name \in Names
                  /\ handler.at \in {"idle", "setBinding", "setRules", "deleteBinding",
                                     "deleteRules"}
                  /\ handler.at # "idle" <=> handler.name \in Names
                  /\ rb \in [Names -> Contents \cup {NoBinding}]
                  /\ \A n \in Names : rules[n] = NoRules \/ rules[n] \subseteq Descriptors

\* Between two calls the maps agree, and when no call is to come they are what the
\* cluster has: no sequence of additions, changes and deletions leaves one map behind.
CacheIsCurrent ==
  handler = Idle =>
    \A n \in Names :
      /\ rules[n] = IF rb[n] = NoBinding THEN NoRules ELSE CreateRules(rb[n])
      /\ (\A i \in DOMAIN told : told[i].name # n) => rb[n] = binding[n]
=============================================================================
