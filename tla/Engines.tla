------------------------------ MODULE Engines ------------------------------
(***************************************************************************)
(* The engine manager (trading_engine_manager.py) on top of the scheduler: *)
(* one user's market engine (account 0) and account engines, made on first *)
(* use, evicted by the scheduler's tick thread when idle, and the analyses *)
(* of the language model that their analyzers run (llm_analyzer.py).       *)
(*                                                                         *)
(* The tick thread is the only evictor and the only caller that submits    *)
(* tasks under engine keys; requests hold the engine they have been given  *)
(* for as long as they run, a web socket for as long as it is connected.   *)
(***************************************************************************)
EXTENDS Integers, Sequences, FiniteSets

CONSTANTS
    Accounts,       \* trading accounts of the user; 0 is the market engine
    Requests,       \* request handlers that may run at the same time
    Workers,
    MaxTasks,       \* bound: tasks submitted
    MaxEngines      \* bound: engines made

VARIABLES
    tasks, queue, busy, worker, submitter, stop, janitor, crashes,
    inst,       \* engines in order of creation
    table,      \* _engines: account -> engine, 0 when absent
    request,    \* what each request is doing and the engine it holds
    tick,       \* where _scheduler_tick is, with which engine, and the engines after it
    callback,   \* the engine a task's callback belongs to
    closing     \* close_all has been called

sched == <<tasks, queue, busy, worker, submitter, stop, janitor, crashes>>
vars == <<sched, inst, table, request, tick, callback, closing>>

Market == 0
None == 0
Ids == DOMAIN tasks
Insts == DOMAIN inst

Cleanup(a) == <<"cleanup", a>>      \* (EngineKey, "pending_cleanup"), (EngineKey, "signal_cleanup")
Scheduled == <<"analysis", Market>> \* (EngineKey, "llm_analysis"), on the market engine only
Manual(n) == <<"llm", n>>           \* ("llm", id(llm_service))

Keys == {Cleanup(a) : a \in Accounts \union {Market}} \union {Scheduled}
        \union {Manual(n) : n \in 1..MaxEngines}

Retries == [k \in Keys |-> IF k[1] = "llm" THEN 1 ELSE 0]

(* No step of the manager reads a row of background_tasks. *)
Sched == INSTANCE TaskScheduler WITH HasStorage <- FALSE, MaxCrashes <- 0

Idle == [at |-> "idle", engine |-> None]
Asleep == [at |-> "asleep", engine |-> None, todo |-> {}]

(* The application's startup hands over the event loop, which starts the    *)
(* scheduler before any request comes.                                      *)
Init ==
    /\ tasks = <<>> /\ queue = <<>> /\ busy = {} /\ submitter = Sched!NoKey
    /\ worker = [w \in Workers |-> [at |-> "idle", task |-> None]]
    /\ stop = FALSE /\ janitor = [at |-> "none", task |-> None] /\ crashes = 0
    /\ inst = <<>>
    /\ table = [a \in Accounts \union {Market} |-> None]
    /\ request = [r \in Requests |-> Idle]
    /\ tick = Asleep
    /\ callback = <<>>
    /\ closing = FALSE

(* TradingServer(...): an account engine refers to the stores of its source. *)
NewEngine(a, source) ==
    [account |-> a, source |-> source, open |-> TRUE, recent |-> TRUE,
     clients |-> 0, analysing |-> "no"]

(* get_engine, under the lock: touch the engine of the table, or make one;  *)
(* an account engine gets the user's market engine the same way first.      *)
Touch(engines, n) == [engines EXCEPT ![n].recent = TRUE]

MarketOf == IF table[Market] = None THEN Len(inst) + 1 ELSE table[Market]

WithMarket ==
    IF table[Market] = None THEN Append(inst, NewEngine(Market, None))
    ELSE Touch(inst, table[Market])

Provided(a) ==
    IF table[a] # None THEN Touch(inst, table[a])
    ELSE IF a = Market THEN WithMarket
    ELSE Append(WithMarket, NewEngine(a, MarketOf))

GetEngine(r, a) ==
    /\ request[r].at = "idle" /\ ~closing
    /\ \E engines \in {Provided(a)} :
          /\ Len(engines) <= MaxEngines
          /\ inst' = engines
          /\ table' = IF table[a] # None THEN table
                      ELSE [table EXCEPT ![a] = Len(engines), ![Market] = MarketOf]
    /\ request' = [request EXCEPT ![r] = [at |-> "using", engine |-> table'[a]]]
    /\ UNCHANGED <<sched, tick, callback, closing>>

Finish(r) ==
    /\ request[r].at = "using"
    /\ request' = [request EXCEPT ![r] = Idle]
    /\ UNCHANGED <<sched, inst, table, tick, callback, closing>>

(* /ws/market: the client is added to the engine the handler was given. *)
Connect(r) ==
    /\ request[r].at = "using"
    /\ inst' = [inst EXCEPT ![request[r].engine].clients = @ + 1]
    /\ request' = [request EXCEPT ![r].at = "connected"]
    /\ UNCHANGED <<sched, table, tick, callback, closing>>

(* remove_ws_client discards; close() has emptied the set already. *)
Disconnect(r) ==
    /\ request[r].at = "connected"
    /\ inst' = [inst EXCEPT ![request[r].engine].clients = IF @ = 0 THEN 0 ELSE @ - 1]
    /\ request' = [request EXCEPT ![r] = Idle]
    /\ UNCHANGED <<sched, table, tick, callback, closing>>

(* trigger_analysis: the analyzer's lock is tried, then a task is submitted; *)
(* a refusal gives the lock back.                                            *)
LockFree(n) == inst[n].analysing = "no"

Trigger(r) ==
    /\ request[r].at = "using" /\ LockFree(request[r].engine)
    /\ inst' = [inst EXCEPT ![request[r].engine].analysing = "manual"]
    /\ request' = [request EXCEPT ![r].at = "submitting"]
    /\ UNCHANGED <<sched, table, tick, callback, closing>>

Submit(k, n) ==
    /\ Sched!SubmitCheck(k)
    /\ callback' = Append(callback, n)

SubmitManual(r) ==
    /\ request[r].at = "submitting"
    /\ Submit(Manual(request[r].engine), request[r].engine)
    /\ request' = [request EXCEPT ![r] = Idle]
    /\ UNCHANGED <<inst, table, tick, closing>>

\* Mutant: a refused trigger keeps the analyzer's lock.
RefuseKeepingLock(r) ==
    /\ request[r].at = "submitting" /\ ~Sched!Locked
    /\ Sched!Refuses(Manual(request[r].engine))
    /\ request' = [request EXCEPT ![r] = Idle]
    /\ UNCHANGED <<sched, inst, table, tick, callback, closing>>

RefuseManual(r) ==
    /\ request[r].at = "submitting" /\ ~Sched!Locked
    /\ Sched!Refuses(Manual(request[r].engine))
    /\ inst' = [inst EXCEPT ![request[r].engine].analysing = "no"]
    /\ request' = [request EXCEPT ![r] = Idle]
    /\ UNCHANGED <<sched, table, tick, callback, closing>>

(* The idle timeout passes: no request that is not a web socket lasts as long. *)
Age(n) ==
    /\ inst[n].recent /\ inst[n].open
    /\ \A r \in Requests : request[r].engine = n => request[r].at = "connected"
    /\ inst' = [inst EXCEPT ![n].recent = FALSE]
    /\ UNCHANGED <<sched, table, request, tick, callback, closing>>

(* The tick thread: a snapshot of the table, then one engine at a time, the  *)
(* oldest first.                                                             *)
Handed == {n \in Insts : table[inst[n].account] = n}

Following(todo) ==
    IF todo = {} THEN tick' = Asleep
    ELSE \E n \in todo : /\ \A m \in todo : n <= m
                         /\ tick' = [at |-> "look", engine |-> n, todo |-> todo \ {n}]

TickBegin ==
    /\ tick.at = "asleep" /\ ~stop
    /\ Handed # {} /\ Following(Handed)
    /\ UNCHANGED <<sched, inst, table, request, callback, closing>>

Current == tick.engine
Account == inst[Current].account

(* _evict_if_idle, the conditions read without the manager's lock. *)
KeyBusy(a) == \E k \in busy : k[1] # "llm" /\ k[2] = a
\* Mutant: the market engine is evicted like the others.
SeemsIdleAny(n) == ~inst[n].recent /\ ~KeyBusy(inst[n].account)

SeemsIdle(n) == inst[n].account # Market /\ ~inst[n].recent /\ ~KeyBusy(inst[n].account)

Look ==
    /\ tick.at = "look" /\ ~Sched!Locked
    /\ tick' = [tick EXCEPT !.at = IF SeemsIdle(Current) THEN "idle" ELSE "submit"]
    /\ UNCHANGED <<sched, inst, table, request, callback, closing>>

CanEvict ==
    /\ tick.at = "idle"
    /\ tick' = [tick EXCEPT !.at = IF inst[Current].clients = 0 THEN "evict" ELSE "submit"]
    /\ UNCHANGED <<sched, inst, table, request, callback, closing>>

(* Under the lock only the identity of the runtime is checked again. *)
Evict ==
    /\ tick.at = "evict"
    /\ IF table[Account] = Current
       THEN /\ table' = [table EXCEPT ![Account] = None]
            /\ tick' = [tick EXCEPT !.at = "close"]
       ELSE /\ tick' = [tick EXCEPT !.at = "submit"]
            /\ UNCHANGED table
    /\ UNCHANGED <<sched, inst, request, callback, closing>>

Closed(n) == [inst EXCEPT ![n].open = FALSE, ![n].clients = 0]

Close ==
    /\ tick.at = "close"
    /\ inst' = Closed(Current)
    /\ Following(tick.todo)
    /\ UNCHANGED <<sched, table, request, callback, closing>>

(* What is due is submitted; refusals are ignored. *)
Due(a) == {Cleanup(a)} \union (IF a = Market THEN {Scheduled} ELSE {})

TickSubmit(k) ==
    /\ tick.at = "submit" /\ k \in Due(Account)
    /\ Submit(k, Current)
    /\ UNCHANGED <<inst, table, request, tick, closing>>

TickNext ==
    /\ tick.at = "submit" /\ ~Sched!Locked
    /\ Following(tick.todo)
    /\ UNCHANGED <<sched, inst, table, request, callback, closing>>

(* A worker calls back.  A scheduled analysis tries the analyzer's lock and  *)
(* returns at once when it is taken; a manual one holds it since its trigger.*)
Task(w) == worker[w].task
Analyses(w) ==
    /\ worker[w].at = "calling"
    /\ \/ tasks[Task(w)].key[1] = "llm"
       \/ tasks[Task(w)].key = Scheduled /\ inst[callback[Task(w)]].analysing = w

Attempt(w) ==
    /\ Sched!Attempt(w)
    /\ inst' = IF tasks[Task(w)].key = Scheduled /\ LockFree(callback[Task(w)])
               THEN [inst EXCEPT ![callback[Task(w)]].analysing = w]
               ELSE inst
    /\ UNCHANGED <<table, request, tick, callback, closing>>

(* finally: the lock is released however the analysis ended; the manual     *)
(* callback catches its exceptions, a scheduled one and a cleanup may fail. *)
Unlocked(w) ==
    IF Analyses(w) THEN [inst EXCEPT ![callback[Task(w)]].analysing = "no"] ELSE inst

CallbackEnds(w) ==
    /\ worker[w].at = "calling"
    /\ \/ Sched!Succeed(w)
       \/ tasks[Task(w)].key[1] # "llm" /\ Sched!Fail(w)
    /\ inst' = Unlocked(w)
    /\ UNCHANGED <<table, request, tick, callback, closing>>

(* close_all, in the application's shutdown handler, when the requests are   *)
(* over: the table is cleared, its engines are closed, then the scheduler is *)
(* shut down.                                                                *)
CloseAll ==
    /\ ~closing /\ \A r \in Requests : request[r] = Idle
    /\ closing' = TRUE
    /\ table' = [a \in DOMAIN table |-> None]
    /\ inst' = [n \in Insts |-> IF table[inst[n].account] = n THEN Closed(n)[n] ELSE inst[n]]
    /\ UNCHANGED <<sched, request, tick, callback>>

Shutdown ==
    /\ closing /\ Sched!Shutdown
    /\ UNCHANGED <<inst, table, request, tick, callback, closing>>

SchedulerStep ==
    /\ \/ Sched!SubmitPut \/ Sched!Drain \/ Sched!Cancel
       \/ \E w \in Workers : Sched!Take(w) \/ Sched!Running(w) \/ Sched!Release(w)
    /\ UNCHANGED <<inst, table, request, tick, callback, closing>>

RequestStep(r) ==
    \/ \E a \in Accounts \union {Market} : GetEngine(r, a)
    \/ Finish(r) \/ Connect(r) \/ Disconnect(r)
    \/ Trigger(r) \/ SubmitManual(r) \/ RefuseManual(r)

TickStep ==
    \/ TickBegin \/ Look \/ CanEvict \/ Evict \/ Close
    \/ \E k \in Keys : TickSubmit(k)
    \/ TickNext

Next ==
    \/ \E r \in Requests : RequestStep(r)
    \/ TickStep
    \/ \E n \in Insts : Age(n)
    \/ SchedulerStep
    \/ \E w \in Workers : Attempt(w) \/ CallbackEnds(w)
    \/ CloseAll \/ Shutdown

Spec == Init /\ [][Next]_vars

----------------------------------------------------------------------------

TypeOK ==
    /\ Sched!TypeOK
    /\ \A n \in Insts : inst[n] \in [account : Accounts \union {Market}, source : 0..MaxEngines,
                                     open : BOOLEAN, recent : BOOLEAN,
                                     clients : 0..Cardinality(Requests),
                                     analysing : {"no", "manual"} \union Workers]
    /\ table \in [Accounts \union {Market} -> Insts \union {None}]
    /\ request \in [Requests -> [at : {"idle", "using", "submitting", "connected"},
                                 engine : Insts \union {None}]]
    /\ tick.at \in {"asleep", "look", "idle", "evict", "close", "submit"}
    /\ DOMAIN callback = DOMAIN tasks
    /\ closing \in BOOLEAN

(* A task submitted for an engine never finds that engine closed by an       *)
(* eviction: the busy check and the submission are made by one thread.       *)
TaskEngineOpen ==
    closing \/ \A t \in Ids : tasks[t].key[1] # "llm" /\ Sched!Holders(t) # {} =>
                  inst[callback[t]].open

(* Every engine that is open is the one the table hands out, or the one that *)
(* the tick thread is about to close, and the market engine whose stores it  *)
(* shares is the user's present one: no account trades on data that nobody   *)
(* feeds any more.                                                           *)
NoOrphans ==
    closing \/ \A n \in Insts : inst[n].open =>
        \/ tick.at = "close" /\ Current = n
        \/ /\ table[inst[n].account] = n
           /\ inst[n].account # Market => inst[n].source = table[Market]

(* The lock of an analyzer is held by exactly one of: a trigger before its   *)
(* submission, the task of a trigger, a worker in a scheduled analysis; so   *)
(* it is never left locked, and one analyzer never analyses twice at a time. *)
LockHasOwner ==
    stop \/ \A n \in Insts :
        LET triggers == {r \in Requests : request[r] = [at |-> "submitting", engine |-> n]}
            held == {t \in Ids : /\ tasks[t].key = Manual(n)
                                 /\ tasks[t].mem \in {"queued", "running"}}
            scheduled == {w \in Workers : Analyses(w) /\ inst[n].analysing = w}
        IN  /\ Cardinality(triggers) + Cardinality(held)
                 = IF inst[n].analysing = "manual" THEN 1 ELSE 0
            /\ inst[n].analysing \in Workers => scheduled = {inst[n].analysing}

(* The next two do not hold; the README says how they fail. *)

(* The engines of one user share one store of analyses; the comment at       *)
(* trading_engine_manager.py:503 has them analyse once, on the market engine.*)
OneAnalysisPerUser ==
    Cardinality({w \in Workers : Analyses(w)}) <= 1

(* "An account engine with a long connection must not be evicted." *)
ClientsKeepEngine ==
    closing \/ \A r \in Requests : request[r].at = "connected" => inst[request[r].engine].open

============================================================================
