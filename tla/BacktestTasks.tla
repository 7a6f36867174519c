--------------------------- MODULE BacktestTasks ---------------------------
(***************************************************************************)
(* The queue of backtests (backtest_engine.py, backtest_tasks.py).  A        *)
(* template becomes a batch of tasks, one for each of its data sets; the     *)
(* worker thread of the server claims them one by one, replays them and      *)
(* records the verdict, while users cancel and the server stops and starts.  *)
(* Every method of the repository is one transaction under storage._lock.    *)
(***************************************************************************)
EXTENDS Integers, FiniteSets

CONSTANTS
    Batches,      \* 1..n in order of creation
    Tasks,        \* tasks of all batches
    BatchOf,      \* [Tasks -> Batches]
    MaxRestarts,  \* bound: stops of the server
    MaxFaults     \* bound: statements that fail

VARIABLES
    rows,     \* backtest_tasks, and the status of the task's backtest_accounts row
    batch,    \* backtest_batches
    worker,   \* the thread: where it is, and its task
    stops, errors
vars == <<rows, batch, worker, stops, errors>>

None == "none"
Ended == {"completed", "failed", "canceled"}
TasksOf(b) == {t \in Tasks : BatchOf[t] = b}
Created == {t \in Tasks : rows[t].st # None}

(* fresh: the heartbeat is younger than stale_seconds. *)
NewRow == [st |-> "queued", cancel |-> FALSE, fresh |-> FALSE, ledger |-> None]
NewBatch == [st |-> "queued", completed |-> 0, failed |-> 0, canceled |-> 0]

Init ==
    /\ rows = [t \in Tasks |-> [NewRow EXCEPT !.st = None]]
    /\ batch = [b \in Batches |-> [NewBatch EXCEPT !.st = None]]
    /\ worker = [at |-> "idle", task |-> None]
    /\ stops = 0 /\ errors = 0

(* _refresh_batch: the counters and the status of a batch from its tasks. *)
Count(rs, b, st) == Cardinality({t \in TasksOf(b) : rs[t].st = st})
Verdict(rs, b) ==
    IF Count(rs, b, "queued") + Count(rs, b, "running") > 0 THEN "running"
    ELSE IF Count(rs, b, "failed") > 0 THEN "failed"
    ELSE IF Count(rs, b, "canceled") > 0 THEN "canceled" ELSE "completed"
Refreshed(rs, b) ==
    [st |-> Verdict(rs, b), completed |-> Count(rs, b, "completed"),
     failed |-> Count(rs, b, "failed"), canceled |-> Count(rs, b, "canceled")]
Refresh(rs, bs) == batch' = [b \in Batches |-> IF b \in bs THEN Refreshed(rs, b) ELSE batch[b]]

Unasked == UNCHANGED <<stops, errors>>
----------------------------------------------------------------------------
(* The user. *)
RunTemplate(b) ==
    /\ batch[b].st = None /\ \A c \in Batches : c < b => batch[c].st # None
    /\ rows' = [t \in Tasks |-> IF BatchOf[t] = b THEN NewRow ELSE rows[t]]
    /\ batch' = [batch EXCEPT ![b] = NewBatch]
    /\ UNCHANGED worker /\ Unasked

(* A queued task ends here; a running one is told, and its worker ends it. *)
Asked(row) ==
    CASE row.st = "queued" -> [row EXCEPT !.st = "canceled", !.cancel = TRUE]
      [] row.st = "running" -> [row EXCEPT !.cancel = TRUE]
      [] OTHER -> row

CancelAll(ts, bs) ==
    /\ rows' = [t \in Tasks |-> IF t \in ts THEN Asked(rows[t]) ELSE rows[t]]
    /\ Refresh(rows', bs)
    /\ UNCHANGED worker /\ Unasked
CancelTask(t) == t \in Created /\ CancelAll({t}, {BatchOf[t]})
CancelBatch(b) == batch[b].st # None /\ CancelAll(TasksOf(b), {b})

----------------------------------------------------------------------------
(* The worker.  claim_next: the oldest batch first, and within it any task. *)
Queued(b) == {t \in TasksOf(b) : rows[t].st = "queued" /\ ~rows[t].cancel}
Claim ==
    /\ worker.at = "idle"
    /\ \E b \in Batches : \E t \in Queued(b) :
          /\ \A c \in Batches : c < b => Queued(c) = {}
          /\ rows' = [rows EXCEPT ![t].st = "running", ![t].fresh = TRUE]
          /\ batch' = [batch EXCEPT ![b].st = IF batch[b].st = "queued" THEN "running" ELSE batch[b].st]
          /\ worker' = [at |-> "working", task |-> t]
    /\ Unasked

Mine == worker.task
Running == rows[Mine].st = "running" /\ ~rows[Mine].cancel

(* heartbeat and record_llm_analysis, without and with the account; what they
   answer is not looked at. *)
Beat ==
    /\ worker.at = "working" /\ Running
    /\ rows' = [rows EXCEPT ![Mine].fresh = TRUE]
    /\ UNCHANGED <<batch, worker>> /\ Unasked
Checkpoint ==
    /\ worker.at = "working" /\ Running
    /\ rows' = [rows EXCEPT ![Mine].fresh = TRUE, ![Mine].ledger = "running"]
    /\ UNCHANGED <<batch, worker>> /\ Unasked

(* The replay ends: cancel_callback says so, it is through (the last look at
   the flag is before the result is built), or it raises. *)
Stops ==
    /\ worker.at = "working" /\ ~Running
    /\ worker' = [worker EXCEPT !.at = "canceled"]
    /\ UNCHANGED <<rows, batch>> /\ Unasked
Through ==
    /\ worker.at = "working" /\ Running
    /\ worker' = [worker EXCEPT !.at = "through"]
    /\ UNCHANGED <<rows, batch>> /\ Unasked
Raises ==
    /\ worker.at = "working"
    /\ worker' = [worker EXCEPT !.at = "failed"]
    /\ UNCHANGED <<rows, batch>> /\ Unasked

Ends(row) ==
    /\ rows' = [rows EXCEPT ![Mine] = row]
    /\ Refresh(rows', {BatchOf[Mine]})
    /\ worker' = [at |-> "idle", task |-> None]
    /\ Unasked

AccountCanceled(row) == IF row.ledger = None THEN None ELSE "canceled"
Canceled(row) == [row EXCEPT !.st = "canceled", !.cancel = TRUE, !.ledger = AccountCanceled(row)]
Cancel == worker.at = "canceled" /\ Ends(Canceled(rows[Mine]))

\* Mutant: the flag is not read again when the result is recorded.
CompleteBlindly ==
    worker.at = "through" /\ Ends([rows[Mine] EXCEPT !.st = "completed", !.ledger = "completed"])
Complete ==
    /\ worker.at = "through"
    /\ Ends(IF rows[Mine].cancel THEN [rows[Mine] EXCEPT !.st = "canceled", !.ledger = "canceled"]
            ELSE [rows[Mine] EXCEPT !.st = "completed", !.ledger = "completed"])

Fail ==
    /\ worker.at = "failed"
    /\ Ends(IF rows[Mine].cancel THEN Canceled(rows[Mine]) ELSE [rows[Mine] EXCEPT !.st = "failed"])

(* A statement that fails: complete() is inside the try, the others end the
   thread, and nothing starts it again. *)
StatementFails ==
    /\ errors < MaxFaults
    /\ errors' = errors + 1
    /\ \/ worker.at = "through" /\ worker' = [worker EXCEPT !.at = "failed"]
       \/ worker.at \in {"idle", "canceled", "failed"} /\ worker' = [worker EXCEPT !.at = "dead"]
    /\ UNCHANGED <<rows, batch, stops>>

----------------------------------------------------------------------------
(* The server stops, ten minutes may pass, and it starts: what was to be
   canceled is, and what has not been heard of for ten minutes is queued. *)
Stop ==
    /\ stops < MaxRestarts /\ worker.at # "off"
    /\ stops' = stops + 1
    /\ worker' = [at |-> "off", task |-> None]
    /\ UNCHANGED <<rows, batch, errors>>
TimePasses ==
    /\ worker.at = "off" /\ \E t \in Tasks : rows[t].fresh
    /\ rows' = [t \in Tasks |-> [rows[t] EXCEPT !.fresh = FALSE]]
    /\ UNCHANGED <<batch, worker>> /\ Unasked

Recovered(row) ==
    IF row.st # "running" THEN row
    ELSE IF row.cancel THEN [row EXCEPT !.st = "canceled"]
    ELSE IF ~row.fresh THEN [row EXCEPT !.st = "queued"] ELSE row
Given(ts) == {BatchOf[t] : t \in ts}
\* Mutant: the batches of the tasks canceled here are not counted again.
StartUncounted ==
    /\ worker.at = "off"
    /\ rows' = [t \in Tasks |-> Recovered(rows[t])]
    /\ worker' = [worker EXCEPT !.at = "idle"]
    /\ UNCHANGED batch /\ Unasked
Start ==
    /\ worker.at = "off"
    /\ rows' = [t \in Tasks |-> Recovered(rows[t])]
    /\ Refresh(rows', Given({t \in Tasks : rows[t].st = "running" /\ rows[t].cancel}))
    /\ worker' = [worker EXCEPT !.at = "idle"]
    /\ Unasked

User == \/ \E b \in Batches : RunTemplate(b) \/ CancelBatch(b)
        \/ \E t \in Tasks : CancelTask(t)
Replay == Beat \/ Checkpoint
Records == Stops \/ Through \/ Cancel \/ Complete \/ Fail
Server == Stop \/ TimePasses \/ Start

Next == User \/ Claim \/ Replay \/ Raises \/ Records \/ StatementFails \/ Server
Spec == Init /\ [][Next]_vars
(* The thread goes on to its next look at the table and to the end of every
   replay; a server that stopped is started again. *)
Fairness == WF_vars(Claim) /\ WF_vars(Records) /\ WF_vars(Start)
----------------------------------------------------------------------------
TypeOK ==
    /\ rows \in [Tasks -> [st : {None, "queued", "running"} \union Ended, cancel : BOOLEAN, fresh : BOOLEAN,
                           ledger : {None, "running", "completed", "canceled"}]]
    /\ \A b \in Batches : batch[b].st \in {None, "queued", "running"} \union Ended
    /\ worker.at \in {"idle", "working", "through", "canceled", "failed", "dead", "off"}
    /\ worker.task \in Tasks \union {None}

(* A batch counts its tasks: it has ended exactly when they have, with their
   verdicts, whoever gave them, and an account of a finished replay is that of
   a task that completed. *)
BatchAgrees ==
    /\ \A b \in Batches : batch[b].st # None =>
          /\ batch[b].completed = Count(rows, b, "completed")
          /\ batch[b].failed = Count(rows, b, "failed")
          /\ batch[b].canceled = Count(rows, b, "canceled")
          /\ batch[b].st = "queued" \/ batch[b].st = Verdict(rows, b)
          /\ batch[b].st = "queued" => \A t \in TasksOf(b) : rows[t].st = "queued"
    /\ \A t \in Tasks : rows[t].st = "completed" <=> rows[t].ledger = "completed"

(* A task that was told to stop never counts as completed or failed, and what
   has ended is not begun again. *)
CancelHolds ==
    [][\A t \in Tasks :
          /\ rows[t].cancel /\ rows[t].st \notin Ended => rows'[t].st \notin {"completed", "failed"}
          /\ rows[t].st \in Ended => rows'[t].st = rows[t].st]_vars

(* Every task ends.  Not those the thread left behind: a task that ran when the
   server stopped and was heard of within the ten minutes before it started
   again stays "running" until the next start, and no task ends when a failing
   statement has ended the thread. *)
LeftBehind(t) == rows[t].st = "running" /\ Mine # t
RunsEnd == \A t \in Tasks :
    rows[t].st = "queued" ~> rows[t].st \in Ended \/ LeftBehind(t) \/ worker.at = "dead"
=============================================================================
