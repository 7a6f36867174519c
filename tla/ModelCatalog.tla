---------------------------- MODULE ModelCatalog ----------------------------
(***************************************************************************)
(* The catalogue of language models (LLMGovernanceService): which models   *)
(* the provider offers and an administrator has enabled, which of them a   *)
(* scene may use, and the calls users reserve against their daily quota.   *)
(*                                                                         *)
(* Every statement commits on its own, so an administrator's operation is  *)
(* a thread of steps: a synchronisation withdraws every model, announces   *)
(* the offered ones one by one and then repairs what referred to the       *)
(* others; a scene's list is deleted and written again row by row.  A      *)
(* reservation reads the scenes, a list and the catalogue one after the    *)
(* other.  Only the count of the calls and the new row share a lock.       *)
(***************************************************************************)
EXTENDS Integers, FiniteSets

CONSTANTS Models,      \* numbers from 1, in the order of their names
          Admins,      \* administrators who may work at the same time
          Requests,    \* requests that may reserve a call at the same time
          UserOf,      \* the user a request is made for
          DailyLimit,  \* calls a day in scenes of low frequency
          MaxOps, MaxCalls, MaxDays, MaxCrashes

(* "signal" is called often and without a quota, "prompt" seldom; the second *)
(* borrows the list of the first while no model of its own is valid.         *)
Scenes == {"signal", "prompt"}
Low == {"prompt"}
NoModel == 0

VARIABLES rows,     \* llm_models: available, enabled
          config,   \* the model of the administrator's provider row
          scenes,   \* llm_scene_policies and llm_scene_models
          binding,  \* the model an AI signal source names
          admin,    \* per administrator, the operation in progress
          caller,   \* per request, the reservation in progress
          calls,    \* llm_call_logs
          day, ops, crashes,
          repair    \* "whole": the last synchronisation was left undisturbed

catalogVars == <<rows, config, scenes, binding>>
vars == <<catalogVars, admin, caller, calls, day, ops, crashes, repair>>

----------------------------------------------------------------------------
Valid == {m \in Models : rows[m].available /\ rows[m].enabled}
First(S) == CHOOSE m \in S : \A n \in S : m <= n

Idle == [pc |-> "idle", ids |-> {}, todo |-> {}, valid |-> {}, fallback |-> NoModel, work |-> <<>>]

(* What replaces every reference to a model that is not valid.             *)
Fallback(preferred, ids, valid) ==
    IF preferred \in valid THEN preferred
    ELSE IF valid # {} THEN First(valid)
    ELSE IF preferred \in ids THEN preferred ELSE First(ids)

Pick(m, op) == IF m \in op.valid THEN m ELSE op.fallback

(* Mutant: a list that became empty stays empty.                           *)
RepairedRows(s, op) ==
    LET list == {Pick(m, op) : m \in s.models}
        default == Pick(s.default, op)
    IN [s EXCEPT !.models = list, !.default = IF default \in list \/ list = {} THEN default
                                              ELSE First(list)]

(* A scene with its list and its default repaired.                         *)
Repaired(s, op) ==
    LET list == {Pick(m, op) : m \in s.models} \cup (IF s.models = {} THEN {op.fallback} ELSE {})
        default == Pick(s.default, op)
    IN [s EXCEPT !.models = list, !.default = IF default \in list THEN default ELSE First(list)]

CallsToday(u) == {c \in calls : c.user = u /\ c.day = day /\ c.scene \in Low}

----------------------------------------------------------------------------
Init ==
    /\ rows = [m \in Models |-> [available |-> TRUE, enabled |-> m = 1]]
    /\ config = 1 /\ binding = 1
    /\ scenes = [s \in Scenes |-> [open |-> TRUE, models |-> IF s = "signal" THEN {1} ELSE {},
                                   default |-> IF s = "signal" THEN 1 ELSE NoModel]]
    /\ admin = [a \in Admins |-> Idle]
    /\ caller = [r \in Requests |-> [pc |-> "idle"]]
    /\ calls = {} /\ day = 1 /\ ops = 0 /\ crashes = 0
    /\ repair = "none"

Alone(a) == \A b \in Admins \ {a} : admin[b].pc = "idle"

Op(a, op) == admin' = [admin EXCEPT ![a] = op]
Goto(a, pc) == Op(a, [admin[a] EXCEPT !.pc = pc])

(* An operation begins; one that meets another spoils its repair.          *)
Begin(a, then) ==
    /\ admin[a].pc = "idle" /\ ops < MaxOps
    /\ ops' = ops + 1
    /\ repair' = IF Alone(a) THEN then ELSE "none"
    /\ UNCHANGED <<caller, calls, day, crashes>>

On(a, pc) ==
    /\ admin[a].pc = pc
    /\ UNCHANGED <<caller, calls, day, crashes, ops>>

(* ---- sync_models ------------------------------------------------------ *)

(* The provider has answered: first no model is available.                 *)
Withdraw(a) ==
    /\ Begin(a, "begun")
    /\ \E ids \in (SUBSET Models) \ {{}} :
          Op(a, [Idle EXCEPT !.pc = "announce", !.ids = ids, !.todo = ids])
    /\ rows' = [m \in Models |-> [rows[m] EXCEPT !.available = FALSE]]
    /\ UNCHANGED <<config, scenes, binding>>

(* Then the offered ones are, one by one; a known one stays enabled.       *)
Announce(a) ==
    /\ On(a, "announce")
    /\ LET m == First(admin[a].todo)
       IN /\ rows' = [rows EXCEPT ![m].available = TRUE]
          /\ Op(a, [admin[a] EXCEPT !.todo = @ \ {m},
                                    !.pc = IF admin[a].todo = {m} THEN "compare" ELSE "announce"])
    /\ UNCHANGED <<config, scenes, binding, repair>>

(* reconcile_model_references: what is valid is read once, at its start.   *)
Compare(a) ==
    /\ On(a, "compare")
    /\ LET valid == admin[a].ids \cap Valid
       IN Op(a, [admin[a] EXCEPT !.valid = valid, !.pc = "enable",
                                 !.fallback = Fallback(config, admin[a].ids, valid)])
    /\ UNCHANGED <<catalogVars, repair>>

EnableFallback(a) ==
    /\ On(a, "enable")
    /\ rows' = [rows EXCEPT ![admin[a].fallback].enabled = TRUE]
    /\ Goto(a, "config")
    /\ UNCHANGED <<config, scenes, binding, repair>>

RepairConfig(a) ==
    /\ On(a, "config")
    /\ config' = Pick(config, admin[a])
    /\ Goto(a, "scenes")
    /\ UNCHANGED <<rows, scenes, binding, repair>>

(* The scenes are read together; those that are sound are passed over.     *)
ReadScenes(a) ==
    /\ On(a, "scenes")
    /\ LET wrong == {s \in Scenes : Repaired(scenes[s], admin[a]) # scenes[s]}
       IN Op(a, [admin[a] EXCEPT !.pc = "update",
                                 !.work = [s \in wrong |-> Repaired(scenes[s], admin[a])]])
    /\ UNCHANGED <<catalogVars, repair>>

RepairBindings(a) ==
    /\ On(a, "bindings")
    /\ binding' = Pick(binding, admin[a])
    /\ Op(a, Idle)
    /\ repair' = IF repair = "begun" THEN "whole" ELSE repair
    /\ UNCHANGED <<rows, config, scenes>>

(* ---- the rows of a scene, for the synchronisation and for save_scene --- *)

(* Scenes are written in the order they are listed.                        *)
Current(op) == IF "signal" \in DOMAIN op.work THEN "signal" ELSE "prompt"

UpdateScene(a) ==
    /\ On(a, "update") /\ DOMAIN admin[a].work # {}
    /\ LET s == Current(admin[a])
       IN scenes' = [scenes EXCEPT ![s].open = admin[a].work[s].open,
                                   ![s].default = admin[a].work[s].default]
    /\ Goto(a, "delete")
    /\ UNCHANGED <<rows, config, binding, repair>>

ScenesWritten(a) ==
    /\ On(a, "update") /\ DOMAIN admin[a].work = {}
    /\ IF admin[a].ids = {} THEN Op(a, Idle) ELSE Goto(a, "bindings")
    /\ UNCHANGED <<catalogVars, repair>>

DeleteList(a) ==
    /\ On(a, "delete")
    /\ LET s == Current(admin[a])
       IN /\ scenes' = [scenes EXCEPT ![s].models = {}]
          /\ Op(a, [admin[a] EXCEPT !.pc = "insert", !.todo = admin[a].work[s].models])
    /\ UNCHANGED <<rows, config, binding, repair>>

(* A row that is there already ends the operation with an exception.       *)
InsertModel(a) ==
    /\ On(a, "insert")
    /\ \E m \in admin[a].todo :
          LET s == Current(admin[a])
              rest == admin[a].todo \ {m}
          IN \/ /\ m \notin scenes[s].models
                /\ scenes' = [scenes EXCEPT ![s].models = @ \cup {m}]
                /\ Op(a, [admin[a] EXCEPT
                            !.todo = rest, !.pc = IF rest = {} THEN "update" ELSE "insert",
                            !.work = IF rest = {} THEN [t \in DOMAIN @ \ {s} |-> @[t]] ELSE @])
             \/ /\ m \in scenes[s].models
                /\ Op(a, Idle)
                /\ UNCHANGED scenes
    /\ UNCHANGED <<rows, config, binding, repair>>

(* save_scene: the list is checked against the catalogue of this moment.   *)
SaveScene(a) ==
    /\ Begin(a, repair)
    /\ \E s \in Scenes, list \in (SUBSET Valid) \ {{}}, open \in BOOLEAN : \E default \in list :
          Op(a, [Idle EXCEPT !.pc = "update",
                             !.work = [t \in {s} |-> [open |-> open, models |-> list,
                                                      default |-> default]]])
    /\ UNCHANGED catalogVars

(* set_model_enabled looks at the row and writes it afterwards.            *)
CheckModel(a) ==
    /\ \E m \in Models, on \in BOOLEAN :
          /\ on => rows[m].available
          /\ Begin(a, IF on THEN repair ELSE "none")
          /\ Op(a, [Idle EXCEPT !.pc = IF on THEN "on" ELSE "off", !.fallback = m])
    /\ UNCHANGED catalogVars

SetModel(a) ==
    /\ \E pc \in {"on", "off"} :
          /\ On(a, pc)
          /\ rows' = [rows EXCEPT ![admin[a].fallback].enabled = (pc = "on")]
    /\ Op(a, Idle)
    /\ UNCHANGED <<config, scenes, binding, repair>>

(* ---- reserve_call ------------------------------------------------------ *)

Request(r, rec) == caller' = [caller EXCEPT ![r] = rec]
Asking(r, pc) ==
    /\ caller[r].pc = pc
    /\ UNCHANGED <<catalogVars, admin, day, ops, crashes, repair>>

(* list_scenes reads the rows of the scenes and then each list.            *)
Ask(r) ==
    /\ Asking(r, "idle")
    /\ Cardinality(calls) < MaxCalls
    /\ \E s \in Scenes, m \in Models \cup {NoModel} :
          Request(r, [pc |-> "list", scene |-> s, from |-> s, asked |-> m, used |-> 0,
                      open |-> scenes[s].open, default |-> scenes[s].default, models |-> {}])
    /\ UNCHANGED calls

ReadList(r) ==
    /\ Asking(r, "list")
    /\ Request(r, [caller[r] EXCEPT !.pc = "valid", !.models = scenes[caller[r].from].models])
    /\ UNCHANGED calls

(* The calls used so far are read for the page that shows them.            *)
ReadValid(r) ==
    /\ Asking(r, "valid")
    /\ LET models == caller[r].models \cap Valid
           borrow == models = {} /\ caller[r].from = "prompt"
       IN Request(r, [caller[r] EXCEPT !.pc = IF borrow THEN "list" ELSE "decide",
                                       !.from = IF borrow THEN "signal" ELSE @,
                                       !.used = Cardinality(CallsToday(UserOf[r])),
                                       !.models = models])
    /\ UNCHANGED calls

(* The model of a call: the asked one or the default; a borrowed list that  *)
(* lacks the default gives the lender's, or its first.                      *)
Chosen(c) ==
    LET lender == scenes["signal"].default
    IN IF c.asked # NoModel THEN c.asked
       ELSE IF c.from = c.scene \/ c.default \in c.models \/ c.models = {} THEN c.default
       ELSE IF lender \in c.models THEN lender ELSE First(c.models)

(* Refused: the scene is closed, the user has no access to the analysis, or *)
(* the model is not in the list.                                            *)
Decide(r) ==
    /\ Asking(r, "decide")
    /\ LET c == caller[r]
       IN \/ /\ c.open /\ Chosen(c) \in c.models
             /\ Request(r, [c EXCEPT !.pc = "reserve", !.asked = Chosen(c)])
          \/ /\ ~ c.open \/ Chosen(c) \notin c.models \/ c.scene = "signal"
             /\ Request(r, [pc |-> "idle"])
    /\ UNCHANGED calls

Row(r) == [id |-> Cardinality(calls) + 1, user |-> UserOf[r], scene |-> caller[r].scene,
           model |-> caller[r].asked, day |-> day, status |-> "started"]

(* Mutant: the count that was read before the lock decides.                *)
ReserveOnOldCount(r) ==
    /\ Asking(r, "reserve")
    /\ IF caller[r].scene \in Low /\ caller[r].used >= DailyLimit
       THEN /\ Request(r, [pc |-> "idle"]) /\ UNCHANGED calls
       ELSE /\ Request(r, [pc |-> "called", id |-> Row(r).id])
            /\ calls' = calls \cup {Row(r)}

(* The calls of the day are counted and the new one is written in one      *)
(* transaction under the storage's lock.                                   *)
Reserve(r) ==
    /\ Asking(r, "reserve")
    /\ IF caller[r].scene \in Low /\ Cardinality(CallsToday(UserOf[r])) >= DailyLimit
       THEN /\ Request(r, [pc |-> "idle"]) /\ UNCHANGED calls
       ELSE /\ Request(r, [pc |-> "called", id |-> Row(r).id])
            /\ calls' = calls \cup {Row(r)}

(* finish_call, or a provider that is blocked, which leaves the row.       *)
Finish(r) ==
    /\ Asking(r, "called")
    /\ Request(r, [pc |-> "idle"])
    /\ \E status \in {"completed", "failed", "started"} :
          calls' = {IF c.id = caller[r].id THEN [c EXCEPT !.status = status] ELSE c : c \in calls}

NextDay ==
    /\ day < MaxDays
    /\ day' = day + 1
    /\ UNCHANGED <<catalogVars, admin, caller, calls, ops, crashes, repair>>

(* The server stops: what was in progress is not continued.                *)
Crash ==
    /\ crashes < MaxCrashes
    /\ crashes' = crashes + 1
    /\ admin' = [a \in Admins |-> Idle]
    /\ caller' = [r \in Requests |-> [pc |-> "idle"]]
    /\ repair' = IF \A a \in Admins : admin[a].pc = "idle" THEN repair ELSE "none"
    /\ UNCHANGED <<catalogVars, calls, day, ops>>

Next ==
    \/ \E a \in Admins :
          \/ Withdraw(a) \/ Announce(a) \/ Compare(a) \/ EnableFallback(a) \/ RepairConfig(a)
          \/ ReadScenes(a) \/ RepairBindings(a)
          \/ UpdateScene(a) \/ ScenesWritten(a) \/ DeleteList(a) \/ InsertModel(a)
          \/ SaveScene(a) \/ CheckModel(a) \/ SetModel(a)
    \/ \E r \in Requests :
          Ask(r) \/ ReadList(r) \/ ReadValid(r) \/ Decide(r) \/ Reserve(r) \/ Finish(r)
    \/ NextDay \/ Crash

Spec == Init /\ [][Next]_vars

----------------------------------------------------------------------------

(* A user makes no more calls a day in the scenes of low frequency than the *)
(* membership allows, however many requests reserve at once.                *)
QuotaKept == \A r \in Requests, d \in 1..MaxDays :
    Cardinality({c \in calls : c.user = UserOf[r] /\ c.scene \in Low /\ c.day = d}) <= DailyLimit

(* After a synchronisation that nothing disturbed, and whatever a crash or  *)
(* two writers left before it, every reference is to a model one may use:   *)
(* the provider's, the source's, and a list of each scene with its default. *)
ReferencesRepaired ==
    repair = "whole" /\ (\A a \in Admins : admin[a].pc = "idle")
        => /\ {config, binding} \subseteq Valid
           /\ \A s \in Scenes : /\ scenes[s].models # {} /\ scenes[s].models \subseteq Valid
                                /\ scenes[s].default \in scenes[s].models

=============================================================================
