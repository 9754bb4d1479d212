----------------------- MODULE RegistryCommands_proofs -----------------------
(***************************************************************************)
(* Theorems about RegistryCommands, for any number of commands, workers    *)
(* and images.                                                             *)
(***************************************************************************)
EXTENDS RegistryCommands, TLAPS

CmdAt == {"receive", "upsert", "cronJob", "secret", "configMap", "deleted", "check"}
Command == [at : CmdAt, type : Types, scheduled : BOOLEAN]
Scan == [at : {"idle", "secret", "images", "send"}, wanted : SUBSET Images,
         left : SUBSET Images, sent : SUBSET Images,
         report : {"none", "InProgress", "Completed", "Failed"}]

Typed == /\ resources \in [Kinds -> Nat]
         /\ \A k \in Kinds : resources[k] <= count
         /\ count \in 0 .. MaxCommands
         /\ cmd \in Command
         /\ cmd.at # "receive" => count \in 1 .. MaxCommands
         /\ group \in [Goroutines -> {"run", "job", "cronJob", "ended", "failed"}]
         /\ cmd.at # "upsert" => \A g \in Goroutines : group[g] = "ended"
         /\ hadCron \in BOOLEAN
         /\ status \in [1 .. MaxCommands -> {"none", "success", "error"}]

\* A goroutine that returned without error applied its resource for this command.
UpsertInv ==
  cmd.at = "upsert" =>
    /\ cmd.type \in {"create", "update"}
    /\ \A g \in {"secret", "configMap"} : /\ group[g] \in {"run", "ended", "failed"}
                                         /\ group[g] = "ended" => resources[g] = count
    /\ group["jobs"] # "run"
    /\ group["jobs"] = "ended" /\ cmd.scheduled => resources["cronJob"] = count

\* A deletion that has come to a resource has deleted those before it.
DeleteInv ==
  /\ cmd.at \in {"cronJob", "secret", "configMap", "deleted"} => cmd.type = "delete"
  /\ cmd.at = "cronJob" => (hadCron <=> resources["cronJob"] # 0)
  /\ cmd.at \in {"secret", "configMap", "deleted"} => hadCron /\ resources["cronJob"] = 0
  /\ cmd.at \in {"configMap", "deleted"} => resources["secret"] = 0
  /\ cmd.at = "deleted" => resources["configMap"] = 0
  /\ cmd.at = "check" => cmd.type = "check"

ScanInv == /\ scans \in [Workers -> Scan]
           /\ \A w \in Workers : LET s == scans[w] IN
                /\ s.sent \cup s.left \subseteq s.wanted
                /\ s.at \in {"secret", "images"} => s.sent = {}
                /\ s.at = "send" => s.wanted # {}
                /\ s.at # "idle" => s.report = "none"

Inv == Typed /\ UpsertInv /\ DeleteInv /\ ScanInv /\ InProgressMeansAllSent

-----------------------------------------------------------------------------
LEMMA InitInv == Init => Inv
<1>. SUFFICES ASSUME Init PROVE Inv
  OBVIOUS
<1>. USE BoundsAssumption DEF Init, Idle, NoScan
<1>1. Typed
  <2>1. cmd \in Command /\ cmd.at = "receive"
    BY DEF Command, CmdAt, Types
  <2>2. count \in 0 .. MaxCommands /\ \A k \in Kinds : resources[k] <= count
    OBVIOUS
  <2>. QED  BY <2>1, <2>2 DEF Typed
<1>2. UpsertInv /\ DeleteInv
  BY DEF UpsertInv, DeleteInv
<1>3. ScanInv /\ InProgressMeansAllSent
  BY DEF ScanInv, Scan, InProgressMeansAllSent
<1>. QED  BY <1>1, <1>2, <1>3 DEF Inv

\* The steps of the handler leave the scans alone.
LEMMA ScansUnchanged ==
  ASSUME Inv, UNCHANGED scans PROVE ScanInv' /\ InProgressMeansAllSent'
BY DEF Inv, ScanInv, InProgressMeansAllSent

\* A command that ends leaves the handler ready for the next.
LEMMA CommandEnds ==
  ASSUME Inv, NEW outcome \in {"success", "error"}, cmd.at # "receive",
         PatchCommandStatus(outcome), UNCHANGED <<resources, count, hadCron, scans>>,
         group' = [g \in Goroutines |-> "ended"]
  PROVE  Inv'
<1>1. cmd' = Idle /\ cmd'.at = "receive"
  BY DEF PatchCommandStatus, Idle
<1>2. status' \in [1 .. MaxCommands -> {"none", "success", "error"}]
  BY DEF PatchCommandStatus, Inv, Typed
<1>3. Typed'
  <2>1. cmd' \in Command
    BY <1>1 DEF Idle, Command, CmdAt, Types
  <2>. QED  BY <1>1, <1>2, <2>1 DEF Inv, Typed
<1>4. UpsertInv' /\ DeleteInv'
  BY <1>1 DEF UpsertInv, DeleteInv
<1>. QED  BY <1>3, <1>4, ScansUnchanged DEF Inv

LEMMA UpsertKeepsInv ==
  ASSUME Inv, ApplyJob \/ ApplyCronJob \/ Wait \/ (\E g \in Goroutines : ApplyFails(g))
              \/ (\E g \in {"secret", "configMap"} : ApplyResource(g))
  PROVE  Inv'
<1>0. Typed /\ UpsertInv /\ DeleteInv
  BY DEF Inv
<1>1. ASSUME NEW g \in {"secret", "configMap"}, ApplyResource(g) PROVE Inv'
  <2>1. /\ group[g] = "run" /\ resources' = [resources EXCEPT ![g] = count]
        /\ group' = [group EXCEPT ![g] = "ended"]
        /\ UNCHANGED <<count, cmd, hadCron, status, scans>>
    BY <1>1 DEF ApplyResource, Apply, Generated
  <2>2. cmd.at = "upsert" /\ g \in Goroutines /\ g \in Kinds
    BY <1>0, <2>1 DEF Typed, Goroutines, Kinds
  <2>3. Typed'
    BY <1>0, <2>1, <2>2 DEF Typed
  <2>4. UpsertInv' /\ DeleteInv'
    BY <1>0, <2>1, <2>2 DEF Typed, UpsertInv, DeleteInv, Goroutines, Kinds
  <2>. QED  BY <2>1, <2>3, <2>4, ScansUnchanged DEF Inv
<1>2. CASE ApplyJob
  <2>1. /\ group["jobs"] = "job"
        /\ resources' \in {resources, [resources EXCEPT !["job"] = count]}
        /\ group' = [group EXCEPT !["jobs"] = IF cmd.scheduled THEN "cronJob" ELSE "ended"]
        /\ UNCHANGED <<count, cmd, hadCron, status, scans>>
    BY <1>2 DEF ApplyJob, Apply, Generated
  <2>2. cmd.at = "upsert"
    BY <1>0, <2>1 DEF Typed, Goroutines
  <2>3. Typed'
    BY <1>0, <2>1, <2>2 DEF Typed, Goroutines, Kinds
  <2>4. UpsertInv' /\ DeleteInv'
    BY <1>0, <2>1, <2>2 DEF Typed, UpsertInv, DeleteInv, Goroutines, Kinds
  <2>. QED  BY <2>1, <2>3, <2>4, ScansUnchanged DEF Inv
<1>3. CASE ApplyCronJob
  <2>1. /\ group["jobs"] = "cronJob" /\ resources' = [resources EXCEPT !["cronJob"] = count]
        /\ group' = [group EXCEPT !["jobs"] = "ended"]
        /\ UNCHANGED <<count, cmd, hadCron, status, scans>>
    BY <1>3 DEF ApplyCronJob, Apply, Generated
  <2>2. cmd.at = "upsert"
    BY <1>0, <2>1 DEF Typed, Goroutines
  <2>3. Typed'
    BY <1>0, <2>1, <2>2 DEF Typed, Goroutines, Kinds
  <2>4. UpsertInv' /\ DeleteInv'
    BY <1>0, <2>1, <2>2 DEF Typed, UpsertInv, DeleteInv, Goroutines, Kinds
  <2>. QED  BY <2>1, <2>3, <2>4, ScansUnchanged DEF Inv
<1>4. ASSUME NEW g \in Goroutines, ApplyFails(g) PROVE Inv'
  <2>1. /\ group[g] \notin {"ended", "failed"} /\ group' = [group EXCEPT ![g] = "failed"]
        /\ UNCHANGED <<resources, count, cmd, hadCron, status, scans>>
    BY <1>4 DEF ApplyFails
  <2>2. cmd.at = "upsert"
    BY <1>0, <2>1 DEF Typed
  <2>3. Typed'
    BY <1>0, <2>1, <2>2 DEF Typed
  <2>4. UpsertInv' /\ DeleteInv'
    BY <1>0, <2>1, <2>2 DEF Typed, UpsertInv, DeleteInv, Goroutines
  <2>. QED  BY <2>1, <2>3, <2>4, ScansUnchanged DEF Inv
<1>5. CASE Wait
  <2>1. PICK outcome \in {"success", "error"} : PatchCommandStatus(outcome)
    BY <1>5 DEF Wait
  <2>. QED  BY <1>5, <2>1, CommandEnds DEF Wait
<1>. QED  BY <1>1, <1>2, <1>3, <1>4, <1>5

LEMMA DeletionKeepsInv ==
  ASSUME Inv, Deleted \/ CheckRegistry
              \/ (\E k \in {"cronJob", "secret", "configMap"} : Delete(k) \/ DeleteFails(k))
  PROVE  Inv'
<1>0. Typed /\ UpsertInv /\ DeleteInv
  BY DEF Inv
<1>1. ASSUME NEW outcome \in {"success", "error"}, PatchCommandStatus(outcome),
             cmd.at \notin {"receive", "upsert"},
             UNCHANGED <<resources, count, group, hadCron, scans>>
      PROVE  Inv'
  <2>1. group' = [g \in Goroutines |-> "ended"]
    BY <1>0, <1>1 DEF Typed
  <2>. QED  BY <1>1, <2>1, CommandEnds
<1>2. CASE Deleted \/ CheckRegistry
  BY <1>1, <1>2 DEF Deleted, CheckRegistry
<1>3. ASSUME NEW k \in {"cronJob", "secret", "configMap"}, DeleteFails(k) PROVE Inv'
  BY <1>1, <1>3 DEF DeleteFails
<1>4. ASSUME NEW k \in {"cronJob", "secret", "configMap"}, Delete(k) PROVE Inv'
  <2>1. /\ cmd.at = k /\ resources[k] # 0 /\ resources' = [resources EXCEPT ![k] = 0]
        /\ cmd' = [cmd EXCEPT !.at = Following(k)]
        /\ UNCHANGED <<count, group, hadCron, status, scans>>
    BY <1>4 DEF Delete
  <2>2. Following(k) = IF k = "cronJob" THEN "secret"
                       ELSE IF k = "secret" THEN "configMap" ELSE "deleted"
    BY DEF Following
  <2>3. cmd'.at = Following(k) /\ cmd'.type = cmd.type /\ cmd' \in Command
    BY <1>0, <2>1, <2>2 DEF Typed, Command, CmdAt
  <2>4. Typed'
    BY <1>0, <2>1, <2>2, <2>3 DEF Typed, Kinds
  <2>5. UpsertInv' /\ DeleteInv'
    BY <1>0, <2>1, <2>2, <2>3 DEF Typed, UpsertInv, DeleteInv, Kinds
  <2>. QED  BY <2>1, <2>4, <2>5, ScansUnchanged DEF Inv
<1>. QED  BY <1>2, <1>3, <1>4

LEMMA ReceiveKeepsInv ==
  ASSUME Inv, NEW type \in Types, NEW scheduled \in BOOLEAN,
         Receive(type, scheduled) \/ ReceiveGarbled(type)
  PROVE  Inv'
<1>0. Typed /\ UpsertInv /\ DeleteInv
  BY DEF Inv
<1>c. cmd = Idle => cmd.at = "receive"
  BY DEF Idle
<1>1. CASE Receive(type, scheduled)
  <2> DEFINE to == CASE type \in {"create", "update"} -> "upsert"
                     [] type = "delete" -> "cronJob"
                     [] type = "check" -> "check"
  <2>1. /\ cmd = Idle /\ count < MaxCommands /\ count' = count + 1
        /\ cmd' = [at |-> to, type |-> type, scheduled |-> scheduled]
        /\ hadCron' = (resources["cronJob"] # 0)
        /\ UNCHANGED <<resources, status, scans>>
    BY <1>1 DEF Receive
  <2>2. /\ type \in {"create", "update"} => to = "upsert"
        /\ type = "delete" => to = "cronJob"
        /\ type = "check" => to = "check"
    OBVIOUS
  <2>. HIDE DEF to
  <2>3. \A g \in Goroutines : group[g] = "ended"
    BY <1>0, <1>c, <2>1 DEF Typed
  <2>4. count + 1 \in 1 .. MaxCommands /\ \A k \in Kinds : resources[k] # count + 1
                                       /\ resources[k] <= count + 1
    BY <1>0, <2>1, BoundsAssumption DEF Typed
  <2>5. cmd' \in Command /\ hadCron' \in BOOLEAN
    BY <2>1, <2>2 DEF Command, CmdAt, Types
  <2>6. CASE type = "create"
    <3>1. group' = [group EXCEPT !["secret"] = "run", !["configMap"] = "run",
                                 !["jobs"] = "job"]
      BY <1>1, <2>6 DEF Receive
    <3>2. Typed'
      BY <1>0, <2>1, <2>2, <2>4, <2>5, <2>6, <3>1 DEF Typed, Goroutines
    <3>3. UpsertInv' /\ DeleteInv'
      BY <1>0, <2>1, <2>2, <2>6, <3>1 DEF Typed, UpsertInv, DeleteInv, Goroutines
    <3>. QED  BY <2>1, <3>2, <3>3, ScansUnchanged DEF Inv
  <2>7. CASE type = "update"
    <3>1. group' = [group EXCEPT !["secret"] = "run", !["configMap"] = "run",
                                 !["jobs"] = IF scheduled THEN "cronJob" ELSE "ended"]
      BY <1>1, <2>7 DEF Receive
    <3>2. Typed'
      BY <1>0, <2>1, <2>2, <2>4, <2>5, <2>7, <3>1 DEF Typed, Goroutines
    <3>3. UpsertInv' /\ DeleteInv'
      BY <1>0, <2>1, <2>2, <2>7, <3>1 DEF Typed, UpsertInv, DeleteInv, Goroutines
    <3>. QED  BY <2>1, <3>2, <3>3, ScansUnchanged DEF Inv
  <2>8. CASE type \in {"delete", "check"}
    <3>1. group' = group
      BY <1>1, <2>8 DEF Receive
    <3>2. Typed'
      BY <1>0, <2>1, <2>2, <2>3, <2>4, <2>5, <2>8, <3>1 DEF Typed
    <3>3. UpsertInv' /\ DeleteInv'
      BY <2>1, <2>2, <2>8 DEF UpsertInv, DeleteInv
    <3>. QED  BY <2>1, <3>2, <3>3, ScansUnchanged DEF Inv
  <2>. QED  BY <2>6, <2>7, <2>8 DEF Types
<1>2. CASE ReceiveGarbled(type)
  <2>1. /\ cmd = Idle /\ count < MaxCommands /\ count' = count + 1
        /\ status' \in {status, [status EXCEPT ![count + 1] = "error"]}
        /\ UNCHANGED <<resources, cmd, group, hadCron, scans>>
    BY <1>2 DEF ReceiveGarbled
  <2>2. Typed'
    BY <1>0, <1>c, <2>1, BoundsAssumption DEF Typed
  <2>3. UpsertInv' /\ DeleteInv'
    BY <1>c, <2>1 DEF UpsertInv, DeleteInv
  <2>. QED  BY <2>1, <2>2, <2>3, ScansUnchanged DEF Inv
<1>. QED  BY <1>1, <1>2

\* A step that is not the handler's keeps all resources but the job of a first scan.
LEMMA HandlerUnchanged ==
  ASSUME Inv, UNCHANGED handlerVars,
         resources' \in {resources, [resources EXCEPT !["job"] = 0]}
  PROVE  Typed' /\ UpsertInv' /\ DeleteInv'
<1>1. UNCHANGED <<count, cmd, group, hadCron, status>>
  BY DEF handlerVars
<1>2. Typed'
  BY <1>1 DEF Inv, Typed, Kinds
<1>3. UpsertInv' /\ DeleteInv'
  BY <1>1 DEF Inv, Typed, UpsertInv, DeleteInv, Kinds
<1>. QED  BY <1>2, <1>3

LEMMA ScanKeepsInv == ASSUME Inv, NEW w \in Workers, ScanStep(w) PROVE Inv'
<1> DEFINE s == scans[w]
<1>0. /\ ScanInv /\ InProgressMeansAllSent /\ s \in Scan
  BY DEF Inv, ScanInv
<1>1. ASSUME NEW t \in Scan, SetScan(w, t),
             /\ t.sent \cup t.left \subseteq t.wanted
             /\ t.at \in {"secret", "images"} => t.sent = {}
             /\ t.at = "send" => t.wanted # {}
             /\ t.at # "idle" => t.report = "none"
             /\ t.report = "InProgress" => t.wanted # {} /\ t.sent = t.wanted
             /\ t.report = "Completed" => t.sent = {}
      PROVE  Inv'
  <2>1. scans' = [scans EXCEPT ![w] = t] /\ UNCHANGED <<resources, handlerVars>>
    BY <1>1 DEF SetScan
  <2>2. Typed' /\ UpsertInv' /\ DeleteInv'
    BY <2>1, HandlerUnchanged
  <2>3. ScanInv'
    BY <1>0, <1>1, <2>1 DEF ScanInv
  <2>4. InProgressMeansAllSent'
    BY <1>0, <1>1, <2>1 DEF ScanInv, InProgressMeansAllSent
  <2>. QED  BY <2>2, <2>3, <2>4 DEF Inv
<1>2. CASE StartScan(w)
  <2> DEFINE t == [NoScan EXCEPT !.at = "secret"]
  <2>1. SetScan(w, t)
    BY <1>2 DEF StartScan
  <2>2. t \in Scan /\ t.at = "secret" /\ t.sent = {} /\ t.left = {} /\ t.report = "none"
    BY DEF Scan, NoScan
  <2>. HIDE DEF t
  <2>. QED  BY <1>1, <2>1, <2>2
<1>3. CASE LoadSecret(w)
  <2> DEFINE t == [s EXCEPT !.at = "images"]
  <2>1. s.at = "secret" /\ SetScan(w, t)
    BY <1>3 DEF LoadSecret
  <2>2. /\ t \in Scan /\ t.at = "images" /\ t.sent = s.sent /\ t.left = s.left
        /\ t.wanted = s.wanted /\ t.report = s.report
    BY <1>0 DEF Scan
  <2>. HIDE DEF t
  <2>. QED  BY <1>0, <1>1, <2>1, <2>2 DEF ScanInv
<1>4. CASE GetImages(w)
  <2>1. PICK found \in (SUBSET Images) \ {{}} :
          SetScan(w, [s EXCEPT !.at = "send", !.wanted = found, !.left = found])
    BY <1>4 DEF GetImages
  <2> DEFINE t == [s EXCEPT !.at = "send", !.wanted = found, !.left = found]
  <2>2. s.at = "images" /\ s.sent = {} /\ s.report = "none"
    BY <1>0, <1>4 DEF GetImages, ScanInv
  <2>3. /\ t \in Scan /\ t.at = "send" /\ t.wanted = found /\ t.left = found
        /\ t.sent = {} /\ t.report = "none"
    BY <1>0, <2>2 DEF Scan
  <2>4. SetScan(w, t)
    BY <2>1
  <2>. HIDE DEF t
  <2>5. t.sent \cup t.left \subseteq t.wanted /\ t.wanted # {}
    BY <2>3
  <2>. QED  BY <1>1, <2>3, <2>4, <2>5
<1>5. ASSUME NEW outcome \in {"InProgress", "Completed", "Failed"}, Report(w, outcome),
             outcome = "InProgress" => s.wanted # {} /\ s.sent = s.wanted,
             outcome = "Completed" => s.sent = {}
      PROVE  Inv'
  <2> DEFINE t == [s EXCEPT !.at = "idle", !.report = outcome]
  <2>1. SetScan(w, t)
    BY <1>5 DEF Report
  <2>2. /\ t \in Scan /\ t.at = "idle" /\ t.sent = s.sent /\ t.left = s.left
        /\ t.wanted = s.wanted /\ t.report = outcome
    BY <1>0 DEF Scan
  <2>. HIDE DEF t
  <2>. QED  BY <1>0, <1>1, <1>5, <2>1, <2>2 DEF ScanInv
<1>6. CASE NoImages(w)
  BY <1>0, <1>5, <1>6 DEF NoImages, ScanInv
<1>7. CASE ScanFails(w)
  BY <1>5, <1>7 DEF ScanFails
<1>8. ASSUME NEW image \in Images, SendImage(w, image) PROVE Inv'
  <2>1. PICK sent \in {s.sent, s.sent \cup {image}} :
          SetScan(w, [s EXCEPT !.left = s.left \ {image}, !.sent = sent])
    BY <1>8 DEF SendImage
  <2> DEFINE t == [s EXCEPT !.left = s.left \ {image}, !.sent = sent]
  <2>2. /\ s.at = "send" /\ image \in s.left /\ s.report = "none" /\ s.wanted # {}
        /\ s.sent \cup s.left \subseteq s.wanted
    BY <1>0, <1>8 DEF SendImage, ScanInv
  <2>3. sent \in SUBSET Images
    BY <1>0 DEF Scan
  <2>4. /\ t \in Scan /\ t.at = "send" /\ t.wanted = s.wanted /\ t.left = s.left \ {image}
        /\ t.sent = sent /\ t.report = "none"
    BY <1>0, <2>2, <2>3 DEF Scan
  <2>5. SetScan(w, t)
    BY <2>1
  <2>. HIDE DEF t
  <2>. QED  BY <1>1, <2>2, <2>4, <2>5
<1>9. CASE AllSent(w)
  BY <1>0, <1>5, <1>9 DEF AllSent, ScanInv
<1>. QED  BY <1>2, <1>3, <1>4, <1>6, <1>7, <1>8, <1>9 DEF ScanStep

LEMMA NextInv == Inv /\ [Next]_vars => Inv'
<1>. SUFFICES ASSUME Inv, [Next]_vars PROVE Inv'
  OBVIOUS
<1>1. CASE HandlerStep
  BY <1>1, UpsertKeepsInv, DeletionKeepsInv, ReceiveKeepsInv DEF HandlerStep
<1>2. CASE JobExpires
  <2>1. /\ resources' = [resources EXCEPT !["job"] = 0] /\ UNCHANGED <<handlerVars, scans>>
    BY <1>2 DEF JobExpires
  <2>. QED  BY <2>1, HandlerUnchanged, ScansUnchanged DEF Inv
<1>3. CASE UNCHANGED vars
  BY <1>3, HandlerUnchanged, ScansUnchanged DEF vars, Inv
<1>. QED  BY <1>1, <1>2, <1>3, ScanKeepsInv DEF Next

-----------------------------------------------------------------------------
(* The steps that the action properties allow. *)

LEMMA CompleteStep ==
  ASSUME Inv, [Next]_vars, NEW n \in 1 .. MaxCommands, status[n] = "none", status'[n] = "success"
  PROVE  CASE cmd.type \in {"create", "update"} ->
                /\ resources["secret"] = n /\ resources["configMap"] = n
                /\ cmd.scheduled => resources["cronJob"] = n
           [] cmd.type = "delete" -> \A k \in Kinds \ {"job"} : resources[k] = 0
           [] cmd.type = "check" -> TRUE
<1>0. Typed /\ UpsertInv /\ DeleteInv
  BY DEF Inv
<1>1. ASSUME NEW outcome \in {"success", "error"}, PatchCommandStatus(outcome)
      PROVE  outcome = "success" /\ n = count
  BY <1>0, <1>1 DEF PatchCommandStatus, Typed
<1>2. Wait \/ Deleted \/ CheckRegistry
  <2>1. ASSUME UNCHANGED status PROVE FALSE
    BY <2>1
  <2>2. ASSUME NEW type \in Types, ReceiveGarbled(type) PROVE FALSE
    BY <1>0, <2>2 DEF ReceiveGarbled, Typed
  <2>3. ASSUME NEW k \in {"cronJob", "secret", "configMap"}, DeleteFails(k) PROVE FALSE
    BY <1>1, <2>3 DEF DeleteFails
  <2>4. ASSUME NEW type \in Types, NEW scheduled \in BOOLEAN, Receive(type, scheduled)
        PROVE  FALSE
    BY <2>1, <2>4 DEF Receive
  <2>5. ASSUME NEW k \in {"cronJob", "secret", "configMap"}, Delete(k) PROVE FALSE
    BY <2>1, <2>5 DEF Delete
  <2>6. ASSUME ApplyJob \/ ApplyCronJob \/ (\E g \in Goroutines : ApplyFails(g))
                 \/ (\E g \in {"secret", "configMap"} : ApplyResource(g))
        PROVE  FALSE
    BY <2>1, <2>6 DEF ApplyJob, ApplyCronJob, ApplyFails, ApplyResource
  <2>7. ASSUME NEW w \in Workers, ScanStep(w) PROVE FALSE
    BY <2>1, <2>7 DEF ScanStep, StartScan, LoadSecret, GetImages, NoImages, ScanFails, Report,
                      SendImage, AllSent, SetScan, handlerVars
  <2>8. ASSUME JobExpires \/ UNCHANGED vars PROVE FALSE
    BY <2>1, <2>8 DEF JobExpires, vars, handlerVars
  <2>. QED
    BY <2>2, <2>3, <2>4, <2>5, <2>6, <2>7, <2>8 DEF Next, HandlerStep
<1>3. CASE Wait
  <2>1. cmd.at = "upsert" /\ \A g \in Goroutines : group[g] = "ended"
    BY <1>0, <1>1, <1>3 DEF Wait, Typed
  <2>2. n = count
    BY <1>1, <1>3 DEF Wait
  <2>. QED  BY <1>0, <2>1, <2>2 DEF UpsertInv, Goroutines
<1>4. CASE Deleted
  BY <1>0, <1>4 DEF Deleted, DeleteInv, Kinds
<1>5. CASE CheckRegistry
  BY <1>0, <1>5 DEF CheckRegistry, DeleteInv
<1>. QED  BY <1>2, <1>3, <1>4, <1>5

LEMMA SecretStep ==
  ASSUME Inv, [Next]_vars, resources["secret"] # 0, resources'["secret"] = 0 PROVE hadCron
<1>0. Typed /\ UpsertInv /\ DeleteInv
  BY DEF Inv
<1>1. ASSUME UNCHANGED resources PROVE FALSE
  BY <1>1
<1>2. ASSUME NEW k \in Kinds, Apply(k), cmd.at # "receive" PROVE FALSE
  <2>1. count # 0
    BY <1>0, <1>2 DEF Typed
  <2>. QED  BY <1>0, <1>2, <2>1 DEF Apply, Generated, Typed, Kinds
<1>3. ASSUME NEW k \in {"cronJob", "configMap"}, Delete(k) PROVE FALSE
  BY <1>0, <1>3 DEF Delete, Typed, Kinds
<1>4. ASSUME Delete("secret") PROVE hadCron
  BY <1>0, <1>4 DEF Delete, DeleteInv
<1>5. ASSUME ApplyJob \/ ApplyCronJob PROVE FALSE
  <2>1. cmd.at = "upsert"
    BY <1>0, <1>5 DEF ApplyJob, ApplyCronJob, Typed, Goroutines
  <2>. QED  BY <1>1, <1>2, <1>5, <2>1 DEF ApplyJob, ApplyCronJob, Kinds
<1>6. ASSUME NEW g \in {"secret", "configMap"}, ApplyResource(g) PROVE FALSE
  <2>1. cmd.at = "upsert"
    BY <1>0, <1>6 DEF ApplyResource, Typed, Goroutines
  <2>. QED  BY <1>2, <1>6, <2>1 DEF ApplyResource, Kinds
<1>7. ASSUME Wait \/ Deleted \/ CheckRegistry \/ (\E g \in Goroutines : ApplyFails(g))
               \/ (\E k \in {"cronJob", "secret", "configMap"} : DeleteFails(k))
               \/ (\E type \in Types : ReceiveGarbled(type))
      PROVE  FALSE
  BY <1>1, <1>7 DEF Wait, Deleted, CheckRegistry, ApplyFails, DeleteFails, ReceiveGarbled
<1>8. ASSUME NEW type \in Types, NEW scheduled \in BOOLEAN, Receive(type, scheduled) PROVE FALSE
  BY <1>1, <1>8 DEF Receive
<1>9. ASSUME NEW w \in Workers, ScanStep(w) PROVE FALSE
  BY <1>1, <1>9 DEF ScanStep, StartScan, LoadSecret, GetImages, NoImages, ScanFails, Report,
                    SendImage, AllSent, SetScan
<1>10. ASSUME JobExpires \/ UNCHANGED vars PROVE FALSE
  BY <1>0, <1>1, <1>10 DEF JobExpires, vars, Typed, Kinds
<1>. QED
  BY <1>3, <1>4, <1>5, <1>6, <1>7, <1>8, <1>9, <1>10 DEF Next, HandlerStep

-----------------------------------------------------------------------------
\* The invariant of upserts, deletions and registry scans holds in every reachable state.
THEOREM Invariance == Spec => []Inv
BY InitInv, NextInv, PTL DEF Spec

\* No resource is from a command to come, and while no registry is created or updated no
\* goroutine of upsertRegistry's errgroup runs (registryhandler.go).
THEOREM TypeCorrect == Spec => []TypeOK
<1>1. Inv => TypeOK
  <2>. SUFFICES ASSUME Inv PROVE TypeOK
    OBVIOUS
  <2>1. resources \in [Kinds -> 0 .. count]
    BY DEF Inv, Typed
  <2>. QED  BY <2>1 DEF Inv, Typed, ScanInv, TypeOK, Command, CmdAt
<1>. QED  BY <1>1, Invariance, PTL

\* A registry scan (vulnscan.go, scanRegistriesV2AndUpdateStatus) reports to be in progress
\* only when the scanner accepted every image, and completed only when there was none.
THEOREM ReportsAreTrue == Spec => []InProgressMeansAllSent
BY Invariance, PTL DEF Inv

\* Whatever calls fail, and in whatever order the goroutines of upsertRegistry return, a
\* success that is patched hides no failed part: the secret, the config map and, with a scan
\* frequency, the cron job are of that command, or gone after a deletion.  A cron job that an
\* update without a frequency leaves running, and the job, are not part of it.
THEOREM CompleteSuccess == Spec => SuccessIsComplete
<1>1. Inv /\ [Next]_vars =>
        [\A n \in 1 .. MaxCommands :
           status[n] = "none" /\ status'[n] = "success" =>
             CASE cmd.type \in {"create", "update"} ->
                    /\ resources["secret"] = n /\ resources["configMap"] = n
                    /\ cmd.scheduled => resources["cronJob"] = n
               [] cmd.type = "delete" -> \A k \in Kinds \ {"job"} : resources[k] = 0
               [] cmd.type = "check" -> TRUE]_vars
  BY CompleteStep
<1>. QED  BY <1>1, Invariance, PTL DEF Spec, SuccessIsComplete

\* deleteRegistry (registryhandler.go) removes credentials only of a registry whose cron job
\* it found: what an update without schedule, or a deletion that failed half way, leaves
\* behind stays.
THEOREM StuckLeftovers == Spec => LeftoversAreStuck
<1>1. Inv /\ [Next]_vars =>
        [resources["secret"] # 0 /\ resources'["secret"] = 0 => hadCron]_vars
  BY SecretStep
<1>. QED  BY <1>1, Invariance, PTL DEF Spec, LeftoversAreStuck
=============================================================================
