--------------------------- MODULE TaskScheduler ---------------------------
(***************************************************************************)
(* The shared scheduler of background tasks (background_scheduler.py): one *)
(* queue, a few workers, one busy entry per task key, and a row of         *)
(* background_tasks per task.                                              *)
(*                                                                         *)
(* submit() holds the scheduler's lock from its checks to the put; every   *)
(* other access to the tables takes the lock for one step.  shutdown()     *)
(* sets the stop event and empties the queue without holding it.           *)
(***************************************************************************)
EXTENDS Integers, Sequences, FiniteSets

CONSTANTS
    Keys,           \* task keys, tuples such as ("system", "outbox_dispatch")
    Workers,        \* worker threads (AI_TRADER_TASK_WORKERS)
    Retries,        \* max_retries a key is submitted with
    HasStorage,     \* rows are written: the scheduler is given a storage
    MaxTasks,       \* bound: tasks submitted over all lives of the process
    MaxCrashes      \* bound: crashes of the process

VARIABLES
    tasks,      \* task ids in order of submission: key, record in memory, row, attempts
    queue,      \* _queue: task ids and pills
    busy,       \* _busy_keys
    worker,     \* what each worker thread is doing, and with which task
    submitter,  \* key between the checks of submit and its put; holds _lock
    stop,       \* _stop_event
    janitor,    \* where shutdown() is, and the task it has taken
    crashes

vars == <<tasks, queue, busy, worker, submitter, stop, janitor, crashes>>

NoTask == 0
NoKey == <<>>
Pill == -1
Final == {"succeeded", "failed", "canceled"}
Ids == DOMAIN tasks

Init ==
    /\ tasks = <<>>
    /\ queue = <<>>
    /\ busy = {}
    /\ worker = [w \in Workers |-> [at |-> "unborn", task |-> NoTask]]
    /\ submitter = NoKey
    /\ stop = FALSE
    /\ janitor = [at |-> "none", task |-> NoTask]
    /\ crashes = 0

Locked == submitter # NoKey
Started == \A w \in Workers : worker[w].at # "unborn"

(* _persist writes the row of a task, or fails and is only logged. *)
Persisted(before, row) == IF HasStorage THEN {row, before} ELSE {before}

(* A step that changes a record in memory under the lock and then its row. *)
Record(t, mem, attempts) ==
    \E row \in Persisted(tasks[t].row, mem) :
        tasks' = [tasks EXCEPT ![t].mem = mem, ![t].row = row, ![t].attempts = attempts]

(* start(): the workers begin to take items; tasks may be waiting already. *)
Start ==
    /\ ~Started /\ ~Locked /\ ~stop
    /\ worker' = [w \in Workers |-> [at |-> "idle", task |-> NoTask]]
    /\ UNCHANGED <<tasks, queue, busy, submitter, stop, janitor, crashes>>

\* Mutant: submit looks at the stop event alone.
RefusesWhenStopped(k) == stop

(* submit(): under the lock, a key that is busy or a set stop event refuses. *)
Refuses(k) == k \in busy \/ stop

SubmitCheck(k) ==
    /\ ~Locked
    /\ Len(tasks) < MaxTasks
    /\ ~Refuses(k)
    /\ busy' = busy \union {k}
    /\ \E row \in Persisted("none", "queued") :
          tasks' = Append(tasks, [key |-> k, mem |-> "queued", row |-> row, attempts |-> 0])
    /\ submitter' = k
    /\ UNCHANGED <<queue, worker, stop, janitor, crashes>>

SubmitPut ==
    /\ Locked
    /\ queue' = Append(queue, Len(tasks))
    /\ submitter' = NoKey
    /\ UNCHANGED <<tasks, busy, worker, stop, janitor, crashes>>

(* _worker_loop: an item is taken without the lock. *)
Take(w) ==
    /\ worker[w].at = "idle" /\ queue # <<>>
    /\ worker' = [worker EXCEPT ![w] = IF Head(queue) = Pill
                                       THEN [at |-> "gone", task |-> NoTask]
                                       ELSE [at |-> "taken", task |-> Head(queue)]]
    /\ queue' = Tail(queue)
    /\ UNCHANGED <<tasks, busy, submitter, stop, janitor, crashes>>

Running(w) ==
    /\ worker[w].at = "taken" /\ ~Locked
    /\ Record(worker[w].task, "running", tasks[worker[w].task].attempts)
    /\ worker' = [worker EXCEPT ![w].at = "ready"]
    /\ UNCHANGED <<queue, busy, submitter, stop, janitor, crashes>>

(* The attempt is counted, then the callback runs outside the lock. *)
Attempt(w) ==
    /\ worker[w].at = "ready" /\ ~Locked
    /\ tasks' = [tasks EXCEPT ![worker[w].task].attempts = @ + 1]
    /\ worker' = [worker EXCEPT ![w].at = "calling"]
    /\ UNCHANGED <<queue, busy, submitter, stop, janitor, crashes>>

\* Mutant: the verdict is written inside the try block, so a failed write is a failed callback.
SucceedInTry(w) ==
    /\ worker[w].at = "calling" /\ ~Locked
    /\ Record(worker[w].task, "succeeded", tasks[worker[w].task].attempts)
    /\ worker' = [worker EXCEPT ![w].at = IF tasks'[worker[w].task].row = "succeeded"
                                          THEN "ended" ELSE "calling"]
    /\ UNCHANGED <<queue, busy, submitter, stop, janitor, crashes>>

Succeed(w) ==
    /\ worker[w].at = "calling" /\ ~Locked
    /\ Record(worker[w].task, "succeeded", tasks[worker[w].task].attempts)
    /\ worker' = [worker EXCEPT ![w].at = "ended"]
    /\ UNCHANGED <<queue, busy, submitter, stop, janitor, crashes>>

(* An exception: another attempt after a pause, or the record fails. *)
MayRetry(t) == tasks[t].attempts <= Retries[tasks[t].key] /\ ~stop

\* Mutant: the last exception of a callback is not caught and ends the worker thread.
FailUncaught(w) ==
    /\ worker[w].at = "calling"
    /\ worker' = [worker EXCEPT ![w] = IF MayRetry(@.task) THEN [@ EXCEPT !.at = "ready"]
                                       ELSE [at |-> "gone", task |-> NoTask]]
    /\ UNCHANGED <<tasks, queue, busy, submitter, stop, janitor, crashes>>

Fail(w) ==
    /\ worker[w].at = "calling"
    /\ \/ /\ MayRetry(worker[w].task)
          /\ worker' = [worker EXCEPT ![w].at = "ready"]
          /\ UNCHANGED tasks
       \/ /\ ~MayRetry(worker[w].task) /\ ~Locked
          /\ Record(worker[w].task, "failed", tasks[worker[w].task].attempts)
          /\ worker' = [worker EXCEPT ![w].at = "ended"]
    /\ UNCHANGED <<queue, busy, submitter, stop, janitor, crashes>>

(* finally: the key may be submitted again. *)
Release(w) ==
    /\ worker[w].at = "ended" /\ ~Locked
    /\ busy' = busy \ {tasks[worker[w].task].key}
    /\ worker' = [worker EXCEPT ![w] = [at |-> "idle", task |-> NoTask]]
    /\ UNCHANGED <<tasks, queue, submitter, stop, janitor, crashes>>

(* shutdown(): the event is set first, without the lock. *)
Shutdown ==
    /\ janitor.at = "none"
    /\ stop' = TRUE
    /\ janitor' = [at |-> "drain", task |-> NoTask]
    /\ UNCHANGED <<tasks, queue, busy, worker, submitter, crashes>>

(* get_nowait takes an item; an empty queue ends the loop, and one pill per *)
(* worker is put behind whatever has been put in the meantime.              *)
Drain ==
    /\ janitor.at = "drain"
    /\ IF queue # <<>>
       THEN /\ janitor' = [at |-> "cancel", task |-> Head(queue)]
            /\ queue' = Tail(queue)
       ELSE /\ janitor' = [at |-> "done", task |-> NoTask]
            /\ queue' = IF Started THEN [i \in 1..Cardinality(Workers) |-> Pill] ELSE <<>>
    /\ UNCHANGED <<tasks, busy, worker, submitter, stop, crashes>>

(* The record of a drained task is canceled in memory; its row is not written. *)
Cancel ==
    /\ janitor.at = "cancel" /\ ~Locked
    /\ busy' = busy \ {tasks[janitor.task].key}
    /\ tasks' = [tasks EXCEPT ![janitor.task].mem = "canceled"]
    /\ janitor' = [at |-> "drain", task |-> NoTask]
    /\ UNCHANGED <<queue, worker, submitter, stop, crashes>>

(* A crash, or the end after a shutdown; the next process constructs its    *)
(* scheduler and calls recover_expired_leases once: a running row whose     *)
(* lease has run out becomes queued, a younger one stays running.           *)
Recovered(row) == IF row = "running" THEN {"queued", "running"} ELSE {row}

Restart ==
    /\ crashes < MaxCrashes
    /\ crashes' = crashes + 1
    /\ \E rows \in {r \in [Ids -> {"none", "queued", "running"} \union Final] :
                        \A t \in Ids : r[t] \in Recovered(tasks[t].row)} :
          tasks' = [t \in Ids |-> [tasks[t] EXCEPT !.mem = "gone", !.row = rows[t]]]
    /\ queue' = <<>>
    /\ busy' = {}
    /\ worker' = [w \in Workers |-> [at |-> "unborn", task |-> NoTask]]
    /\ submitter' = NoKey
    /\ stop' = FALSE
    /\ janitor' = [at |-> "none", task |-> NoTask]

WorkerStep(w) ==
    Take(w) \/ Running(w) \/ Attempt(w) \/ Succeed(w) \/ Fail(w) \/ Release(w)

Next ==
    \/ Start
    \/ \E k \in Keys : SubmitCheck(k)
    \/ SubmitPut
    \/ \E w \in Workers : WorkerStep(w)
    \/ Shutdown \/ Drain \/ Cancel
    \/ Restart

Spec == Init /\ [][Next]_vars

(* The threads run; callers need not submit, and nobody need shut down. *)
Fairness ==
    /\ WF_vars(Start) /\ WF_vars(SubmitPut)
    /\ \A w \in Workers : WF_vars(WorkerStep(w))

FairSpec == Spec /\ Fairness

----------------------------------------------------------------------------

TypeOK ==
    /\ \A t \in Ids : tasks[t] \in [key : Keys,
                                    mem : {"queued", "running", "gone"} \union Final,
                                    row : {"none", "queued", "running"} \union Final,
                                    attempts : Nat]
    /\ \A i \in DOMAIN queue : queue[i] \in Ids \union {Pill}
    /\ busy \subseteq Keys
    /\ worker \in [Workers -> [at : {"unborn", "idle", "taken", "ready", "calling", "ended", "gone"},
                               task : Ids \union {NoTask}]]
    /\ submitter \in Keys \union {NoKey}
    /\ stop \in BOOLEAN
    /\ janitor \in [at : {"none", "drain", "cancel", "done"}, task : Ids \union {NoTask}]
    /\ crashes \in 0..MaxCrashes

(* Who has a task: the caller that has not put it yet, the queue, a worker *)
(* or the drainer.                                                         *)
Holders(t) ==
    {<<"submitter", 0>> : x \in IF Locked /\ t = Len(tasks) THEN {1} ELSE {}}
    \union {<<"queue", i>> : i \in {j \in DOMAIN queue : queue[j] = t}}
    \union {<<"worker", w>> : w \in {v \in Workers : worker[v].task = t}}
    \union {<<"drainer", 0>> : x \in IF janitor.task = t THEN {1} ELSE {}}

(* A key is busy exactly while one task of it is somewhere between submit   *)
(* and its release, and that task is in one place: never two executions of  *)
(* one job at once, and never a key that stays busy with nobody to free it. *)
OneTaskPerKey ==
    \A k \in Keys :
        LET held == {t \in Ids : tasks[t].key = k /\ Holders(t) # {}}
        IN  /\ (k \in busy) = (held # {})
            /\ Cardinality(UNION {Holders(t) : t \in held}) <= 1

(* A task is tried at most once more than its retries allow. *)
AttemptsBounded == \A t \in Ids : tasks[t].attempts <= Retries[tasks[t].key] + 1

(* A task no one holds any more has ended: no release, cancel or refused    *)
(* submit leaves the record of a live process without a verdict.            *)
NothingForgotten ==
    \A t \in Ids : Holders(t) = {} => tasks[t].mem \in Final \union {"gone"}

(* A verdict is given once: neither a late worker nor the drainer changes it. *)
VerdictStays ==
    [][\A t \in Ids : tasks[t].mem \in Final =>
          tasks'[t].mem \in {tasks[t].mem, "gone"}]_vars

(* Without a shutdown or a crash every submitted task ends. *)
TasksEnd ==
    \A t \in 1..MaxTasks :
        (t \in Ids /\ tasks[t].mem = "queued") ~>
            (stop \/ (t \in Ids /\ tasks[t].mem \in Final \union {"gone"}))

============================================================================
