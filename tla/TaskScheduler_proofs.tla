------------------------ MODULE TaskScheduler_proofs ------------------------
(***************************************************************************)
(* Theorems about TaskScheduler, for any keys, workers and retries and any *)
(* number of tasks and crashes, with or without rows.                      *)
(*                                                                         *)
(* The queue, the workers, the drainer and the caller between the checks   *)
(* of submit and its put each take and give away tasks in steps of their   *)
(* own, most of them outside the lock.  What keeps two executions of one   *)
(* job apart is that a task is always in one of these places only, that no *)
(* two places hold tasks of one key, and that the busy keys are exactly    *)
(* those of the tasks in some place.                                       *)
(***************************************************************************)
EXTENDS TaskScheduler, SequenceTheorems, FiniteSetTheorems, WellFoundedInduction, TLAPS

(* What the code provides: a key is never the empty tuple, retries are a     *)
(* number, and a process has finitely many workers.                          *)
Parameters ==
    /\ NoKey \notin Keys
    /\ Retries \in [Keys -> Nat]
    /\ IsFiniteSet(Workers)
    /\ MaxTasks \in Nat /\ MaxCrashes \in Nat

MemStatus == {"queued", "running", "gone"} \union Final
RowStatus == {"none", "queued", "running"} \union Final
TaskRecord == [key : Keys, mem : MemStatus, row : RowStatus, attempts : Nat]

Sequenced == tasks \in Seq(TaskRecord) /\ queue \in Seq(Int)

(* Pills are put behind the last task the drainer could have taken, which is *)
(* why it never takes one.                                                   *)
PillsComeLast == janitor.at # "done" => \A i \in DOMAIN queue : queue[i] # Pill

Typed == TypeOK /\ Sequenced /\ PillsComeLast /\ (Locked => tasks # <<>>)

-----------------------------------------------------------------------------
(* Where tasks are.                                                          *)
Submitted(t) == Locked /\ t = Len(tasks)
Waits(t) == \E i \in DOMAIN queue : queue[i] = t
Works(t) == \E w \in Workers : worker[w].task = t
Drains(t) == janitor.task = t

Held(t) == Submitted(t) \/ Waits(t) \/ Works(t) \/ Drains(t)

(* Two tasks, perhaps the same one, of one key.                              *)
Same(t, u) == t \in Ids /\ u \in Ids /\ tasks[t].key = tasks[u].key

OnePlace ==
    /\ \A i, j \in DOMAIN queue : Same(queue[i], queue[j]) => i = j
    /\ \A v, w \in Workers : Same(worker[v].task, worker[w].task) => v = w
    /\ \A i \in DOMAIN queue, w \in Workers : ~Same(queue[i], worker[w].task)
    /\ \A i \in DOMAIN queue : ~Same(queue[i], janitor.task)
    /\ \A w \in Workers : ~Same(worker[w].task, janitor.task)
    /\ Locked => /\ \A i \in DOMAIN queue : ~Same(queue[i], Len(tasks))
                 /\ \A w \in Workers : ~Same(worker[w].task, Len(tasks))
                 /\ ~Same(janitor.task, Len(tasks))

BusyIsHeld ==
    \A k \in Keys : k \in busy <=> \E t \in Ids : Held(t) /\ tasks[t].key = k

(* What a place says of the task in it.                                      *)
Fresh(t) == tasks[t].mem = "queued" /\ tasks[t].attempts = 0

Stages ==
    /\ Locked => Len(tasks) \in Ids /\ tasks[Len(tasks)].key = submitter /\ Fresh(Len(tasks))
    /\ \A i \in DOMAIN queue : queue[i] \in Ids => Fresh(queue[i])
    /\ IF janitor.at = "cancel" THEN janitor.task \in Ids /\ Fresh(janitor.task)
                                ELSE janitor.task = NoTask
    /\ \A w \in Workers :
          LET t == worker[w].task
          IN  /\ worker[w].at \in {"unborn", "idle", "gone"} => t = NoTask
              /\ worker[w].at \in {"taken", "ready", "calling", "ended"} => t \in Ids
              /\ worker[w].at = "taken" => Fresh(t)
              /\ worker[w].at \in {"ready", "calling"} => tasks[t].mem = "running"
              /\ worker[w].at = "ready" => tasks[t].attempts <= Retries[tasks[t].key]
              /\ worker[w].at = "ended" => tasks[t].mem \in Final

UnheldHasEnded ==
    \A t \in Ids : ~Held(t) => tasks[t].mem \in Final \union {"gone"}

BornTogether == Started \/ \A w \in Workers : worker[w].at = "unborn"

PlaceInv ==
    /\ OnePlace /\ BusyIsHeld /\ Stages /\ UnheldHasEnded /\ AttemptsBounded
    /\ BornTogether

-----------------------------------------------------------------------------
(* Sequences.                                                                *)
LEMMA SequenceDomains ==
    ASSUME Sequenced
    PROVE  /\ Len(tasks) \in Nat /\ Ids = 1..Len(tasks)
           /\ Len(queue) \in Nat /\ DOMAIN queue = 1..Len(queue)
           /\ \A t \in Ids : tasks[t] \in TaskRecord
           /\ \A i \in DOMAIN queue : queue[i] \in Int
           /\ (tasks # <<>>) <=> Len(tasks) \in Ids
  <1>1. tasks \in Seq(TaskRecord) /\ queue \in Seq(Int)
    BY DEF Sequenced
  <1>2. /\ Len(tasks) \in Nat /\ Ids = 1..Len(tasks)
        /\ Len(queue) \in Nat /\ DOMAIN queue = 1..Len(queue)
    BY <1>1 DEF Ids
  <1>3. tasks = <<>> <=> Len(tasks) = 0
    BY <1>1, EmptySeq
  <1> QED
    BY <1>1, <1>2, <1>3

LEMMA QueueGrows ==
    ASSUME Sequenced, NEW x \in Int, queue' = Append(queue, x)
    PROVE  /\ queue' \in Seq(Int)
           /\ DOMAIN queue' = 1..(Len(queue) + 1)
           /\ \A i \in DOMAIN queue : queue'[i] = queue[i]
           /\ queue'[Len(queue) + 1] = x
  BY AppendProperties DEF Sequenced

LEMMA QueueShrinks ==
    ASSUME Sequenced, queue # <<>>, queue' = Tail(queue)
    PROVE  /\ queue' \in Seq(Int)
           /\ 1 \in DOMAIN queue /\ Head(queue) = queue[1]
           /\ DOMAIN queue' = 1..(Len(queue) - 1)
           /\ \A i \in DOMAIN queue' : i + 1 \in DOMAIN queue /\ queue'[i] = queue[i + 1]
           /\ \A i \in DOMAIN queue : i # 1 => i - 1 \in DOMAIN queue' /\ queue'[i - 1] = queue[i]
  <1>1. queue \in Seq(Int)
    BY DEF Sequenced
  <1>2. /\ queue' \in Seq(Int) /\ Len(queue') = Len(queue) - 1
        /\ \A i \in 1..Len(queue') : queue'[i] = queue[i + 1]
    BY <1>1, HeadTailProperties
  <1>3. Len(queue) \in Nat /\ Len(queue) # 0
    BY <1>1, EmptySeq
  <1> QED
    BY <1>1, <1>2, <1>3

(* What changing the record of a task leaves alone.                          *)
LEMMA RecordChanges ==
    ASSUME Sequenced, NEW t \in Ids, NEW r \in TaskRecord, tasks' = [tasks EXCEPT ![t] = r]
    PROVE  /\ tasks' \in Seq(TaskRecord) /\ Len(tasks') = Len(tasks) /\ Ids' = Ids
           /\ \A u \in Ids : u # t => tasks'[u] = tasks[u]
           /\ tasks'[t] = r
  <1>1. tasks \in Seq(TaskRecord) /\ t \in 1..Len(tasks)
    BY SequenceDomains DEF Sequenced
  <1>2. /\ tasks' \in Seq(TaskRecord) /\ Len(tasks') = Len(tasks)
        /\ \A u \in 1..Len(tasks) : tasks'[u] = IF u = t THEN r ELSE tasks[u]
    BY <1>1, ExceptSeq
  <1> QED
    BY <1>1, <1>2, SequenceDomains DEF Ids

LEMMA RecordShape ==
    ASSUME Sequenced, NEW t \in Ids, NEW mem \in {"running"} \union Final, NEW attempts \in Nat,
           Record(t, mem, attempts)
    PROVE  /\ tasks' \in Seq(TaskRecord) /\ Len(tasks') = Len(tasks) /\ Ids' = Ids
           /\ \A u \in Ids : u # t => tasks'[u] = tasks[u]
           /\ tasks'[t].key = tasks[t].key /\ tasks'[t].mem = mem
           /\ tasks'[t].attempts = attempts
  <1>1. tasks[t] \in TaskRecord
    BY SequenceDomains
  <1>2. PICK row \in Persisted(tasks[t].row, mem) :
            tasks' = [tasks EXCEPT ![t].mem = mem, ![t].row = row, ![t].attempts = attempts]
    BY DEF Record
  <1> DEFINE r == [[[tasks[t] EXCEPT !.mem = mem] EXCEPT !.row = row] EXCEPT !.attempts = attempts]
  <1>3. row \in RowStatus
    BY <1>1, <1>2 DEF Persisted, RowStatus, TaskRecord
  <1>4. /\ r \in TaskRecord
        /\ r.key = tasks[t].key /\ r.mem = mem /\ r.attempts = attempts
    BY <1>1, <1>3 DEF TaskRecord, MemStatus
  <1>5. tasks' = [tasks EXCEPT ![t] = r]
    BY <1>2
  <1> HIDE DEF r
  <1> QED
    BY <1>4, <1>5, RecordChanges

-----------------------------------------------------------------------------
(* Steps that move no task.                                                  *)
LEMMA PlacesKept ==
    ASSUME Sequenced, UNCHANGED <<queue, busy, submitter>>,
           Ids' = Ids, Len(tasks') = Len(tasks),
           \A t \in Ids : tasks'[t].key = tasks[t].key,
           \A w \in Workers : worker'[w].task = worker[w].task,
           janitor'.task = janitor.task,
           OnePlace, BusyIsHeld
    PROVE  /\ OnePlace' /\ BusyIsHeld'
           /\ \A t \in Ids : Held(t)' <=> Held(t)
  <1>1. \A t \in Ids : Held(t)' <=> Held(t)
    BY DEF Held, Submitted, Waits, Works, Drains, Locked
  <1>2. \A t, u : Same(t, u)' <=> Same(t, u)
    BY DEF Same
  <1>3. OnePlace'
    BY <1>2 DEF OnePlace, Locked
  <1>4. BusyIsHeld'
    BY <1>1 DEF BusyIsHeld
  <1> QED
    BY <1>1, <1>3, <1>4

(* A worker goes on with its task: only this task may change.                *)
LEMMA WorkerMoves ==
    ASSUME Parameters, Typed, PlaceInv, NEW w \in Workers, NEW t \in Ids, worker[w].task = t,
           NEW at \in {"ready", "calling", "ended"},
           tasks' \in Seq(TaskRecord), Ids' = Ids, Len(tasks') = Len(tasks),
           \A u \in Ids : u # t => tasks'[u] = tasks[u],
           tasks'[t].key = tasks[t].key,
           tasks'[t].attempts <= Retries[tasks[t].key] + 1,
           at \in {"ready", "calling"} => tasks'[t].mem = "running",
           at = "ready" => tasks'[t].attempts <= Retries[tasks[t].key],
           at = "ended" => tasks'[t].mem \in Final,
           worker' = [worker EXCEPT ![w].at = at],
           UNCHANGED <<queue, busy, submitter, stop, janitor, crashes>>
    PROVE  Typed' /\ PlaceInv'
  <1>1. /\ worker' \in [Workers -> [at : {"unborn", "idle", "taken", "ready", "calling",
                                          "ended", "gone"}, task : Ids \union {NoTask}]]
        /\ worker'[w].task = t /\ worker'[w].at = at
        /\ \A v \in Workers : v # w => worker'[v] = worker[v]
    BY DEF Typed, TypeOK
  <1>2. Typed'
    <2>1. Sequenced' /\ PillsComeLast' /\ (Locked' => tasks' # <<>>)
      BY SequenceDomains DEF Typed, Sequenced, PillsComeLast, Locked
    <2>2. \A u \in Ids : tasks'[u] \in TaskRecord
      BY DEF Ids
    <2>3. TypeOK'
      BY <1>1, <2>2 DEF Typed, TypeOK, TaskRecord, MemStatus, RowStatus
    <2> QED
      BY <2>1, <2>3 DEF Typed
  <1>3. OnePlace' /\ BusyIsHeld' /\ \A u \in Ids : Held(u)' <=> Held(u)
    BY <1>1, PlacesKept DEF Typed, PlaceInv
  <1>4. /\ \A i \in DOMAIN queue : queue[i] # t
        /\ \A v \in Workers : v # w => worker[v].task # t
        /\ janitor.task # t
        /\ Locked => Len(tasks) # t
    BY DEF PlaceInv, OnePlace, Same
  <1>5. Stages'
    <2>1. /\ Locked' => Len(tasks') \in Ids' /\ tasks'[Len(tasks')].key = submitter'
                        /\ Fresh(Len(tasks))'
          /\ \A i \in DOMAIN queue' : queue'[i] \in Ids' => Fresh(queue[i])'
          /\ IF janitor'.at = "cancel" THEN janitor'.task \in Ids' /\ Fresh(janitor.task)'
                                       ELSE janitor'.task = NoTask
      BY <1>4 DEF PlaceInv, Stages, Fresh, Locked
    <2>2. ASSUME NEW v \in Workers PROVE Stages!4!(v)'
      <3>1. CASE v = w
        BY <1>1, <3>1 DEF PlaceInv, Stages, Fresh
      <3>2. CASE v # w
        <4>1. worker'[v] = worker[v] /\ (worker[v].task \in Ids => tasks'[worker[v].task] = tasks[worker[v].task])
          BY <1>1, <1>4, <3>2
        <4> QED
          BY <4>1 DEF PlaceInv, Stages, Fresh
      <3> QED
        BY <3>1, <3>2
    <2> QED
      BY <2>1, <2>2 DEF Stages, Fresh
  <1>6. UnheldHasEnded'
    <2>1. Held(t)
      BY DEF Held, Works
    <2> QED
      BY <1>3, <2>1 DEF PlaceInv, UnheldHasEnded
  <1>7. AttemptsBounded'
    <2> SUFFICES ASSUME NEW u \in Ids PROVE tasks'[u].attempts <= Retries[tasks'[u].key] + 1
      BY DEF AttemptsBounded
    <2> QED
      BY DEF PlaceInv, AttemptsBounded
  <1>8. BornTogether'
    <2>1. worker[w].at # "unborn"
      BY SequenceDomains DEF Typed, PlaceInv, Stages, NoTask
    <2>2. Started
      BY <2>1 DEF PlaceInv, BornTogether
    <2> QED
      BY <1>1, <2>2 DEF Started, BornTogether
  <1> QED
    BY <1>2, <1>3, <1>5, <1>6, <1>7, <1>8 DEF PlaceInv

LEMMA RunningStep ==
    ASSUME Parameters, Typed, PlaceInv, NEW w \in Workers, Running(w)
    PROVE  Typed' /\ PlaceInv'
  <1>1. PICK t : t = worker[w].task
    OBVIOUS
  <1>2. t \in Ids /\ Fresh(t)
    BY <1>1 DEF Running, PlaceInv, Stages
  <1>3. tasks[t] \in TaskRecord /\ Retries[tasks[t].key] \in Nat
    BY <1>2, SequenceDomains DEF Typed, TaskRecord, Parameters
  <1>4. Record(t, "running", tasks[t].attempts) /\ tasks[t].attempts = 0
    BY <1>1, <1>2 DEF Running, Fresh
  <1>5. /\ tasks' \in Seq(TaskRecord) /\ Len(tasks') = Len(tasks) /\ Ids' = Ids
        /\ \A u \in Ids : u # t => tasks'[u] = tasks[u]
        /\ tasks'[t].key = tasks[t].key /\ tasks'[t].mem = "running"
        /\ tasks'[t].attempts = 0
    BY <1>2, <1>4, RecordShape DEF Typed
  <1>6. /\ tasks'[t].attempts <= Retries[tasks[t].key] + 1
        /\ tasks'[t].attempts <= Retries[tasks[t].key]
    BY <1>3, <1>5
  <1>7. worker' = [worker EXCEPT ![w].at = "ready"]
    BY DEF Running
  <1> QED
    BY <1>1, <1>2, <1>5, <1>6, <1>7, WorkerMoves DEF Running

LEMMA AttemptStep ==
    ASSUME Parameters, Typed, PlaceInv, NEW w \in Workers, Attempt(w)
    PROVE  Typed' /\ PlaceInv'
  <1>1. PICK t : t = worker[w].task
    OBVIOUS
  <1>2. /\ t \in Ids /\ tasks[t].mem = "running"
        /\ tasks[t].attempts <= Retries[tasks[t].key]
    BY <1>1 DEF Attempt, PlaceInv, Stages
  <1>3. tasks[t] \in TaskRecord /\ Retries[tasks[t].key] \in Nat
    BY <1>2, SequenceDomains DEF Typed, TaskRecord, Parameters
  <1> DEFINE r == [tasks[t] EXCEPT !.attempts = tasks[t].attempts + 1]
  <1>4. /\ r \in TaskRecord /\ r.key = tasks[t].key /\ r.mem = "running"
        /\ r.attempts = tasks[t].attempts + 1
    BY <1>2, <1>3 DEF TaskRecord
  <1>5. tasks' = [tasks EXCEPT ![t] = r]
    BY <1>1 DEF Attempt
  <1> HIDE DEF r
  <1>6. /\ tasks' \in Seq(TaskRecord) /\ Len(tasks') = Len(tasks) /\ Ids' = Ids
        /\ \A u \in Ids : u # t => tasks'[u] = tasks[u]
        /\ tasks'[t] = r
    BY <1>2, <1>4, <1>5, RecordChanges DEF Typed
  <1>7. tasks'[t].attempts <= Retries[tasks[t].key] + 1
    <2>1. tasks[t].attempts \in Nat
      BY <1>3 DEF TaskRecord
    <2> QED
      BY <1>2, <1>3, <1>4, <1>6, <2>1
  <1>8. worker' = [worker EXCEPT ![w].at = "calling"]
    BY DEF Attempt
  <1> QED
    BY <1>1, <1>2, <1>4, <1>6, <1>7, <1>8, WorkerMoves DEF Attempt

(* A verdict, succeeded or failed.                                           *)
LEMMA VerdictStep ==
    ASSUME Parameters, Typed, PlaceInv, NEW w \in Workers, worker[w].at = "calling",
           NEW verdict \in {"succeeded", "failed"},
           Record(worker[w].task, verdict, tasks[worker[w].task].attempts),
           worker' = [worker EXCEPT ![w].at = "ended"],
           UNCHANGED <<queue, busy, submitter, stop, janitor, crashes>>
    PROVE  Typed' /\ PlaceInv'
  <1>1. PICK t : t = worker[w].task
    OBVIOUS
  <1>2. t \in Ids
    BY <1>1 DEF PlaceInv, Stages
  <1>3. tasks[t] \in TaskRecord /\ tasks[t].attempts \in Nat
    BY <1>2, SequenceDomains DEF Typed, TaskRecord
  <1>4. Record(t, verdict, tasks[t].attempts)
    BY <1>1
  <1>5. /\ tasks' \in Seq(TaskRecord) /\ Len(tasks') = Len(tasks) /\ Ids' = Ids
        /\ \A u \in Ids : u # t => tasks'[u] = tasks[u]
        /\ tasks'[t].key = tasks[t].key /\ tasks'[t].mem = verdict
        /\ tasks'[t].attempts = tasks[t].attempts
    BY <1>2, <1>3, <1>4, RecordShape DEF Typed, Final
  <1>6. tasks[t].attempts <= Retries[tasks[t].key] + 1
    BY <1>2 DEF PlaceInv, AttemptsBounded
  <1> QED
    BY <1>1, <1>2, <1>5, <1>6, WorkerMoves DEF Final

LEMMA FailStep ==
    ASSUME Parameters, Typed, PlaceInv, NEW w \in Workers, Fail(w)
    PROVE  Typed' /\ PlaceInv'
  <1>1. PICK t : t = worker[w].task
    OBVIOUS
  <1>2. t \in Ids /\ tasks[t].mem = "running"
    BY <1>1 DEF Fail, PlaceInv, Stages
  <1>3. CASE MayRetry(t) /\ worker' = [worker EXCEPT ![w].at = "ready"] /\ UNCHANGED tasks
    <2>1. tasks \in Seq(TaskRecord) /\ tasks[t].attempts <= Retries[tasks[t].key]
      BY <1>3 DEF MayRetry, Typed, Sequenced
    <2>2. tasks[t].attempts <= Retries[tasks[t].key] + 1
      BY <1>2 DEF PlaceInv, AttemptsBounded
    <2>3. Ids' = Ids /\ Len(tasks') = Len(tasks)
      BY <1>3 DEF Ids
    <2> QED
      BY <1>1, <1>2, <1>3, <2>1, <2>2, <2>3, WorkerMoves DEF Fail
  <1>4. CASE /\ Record(worker[w].task, "failed", tasks[worker[w].task].attempts)
             /\ worker' = [worker EXCEPT ![w].at = "ended"]
    BY <1>4, VerdictStep DEF Fail
  <1> QED
    BY <1>1, <1>3, <1>4 DEF Fail

-----------------------------------------------------------------------------
(* submit: the key is not busy, so no task of it is anywhere.                *)
LEMMA SubmitCheckStep ==
    ASSUME Parameters, Typed, PlaceInv, NEW k \in Keys, SubmitCheck(k)
    PROVE  Typed' /\ PlaceInv'
  <1>1. PICK n : n = Len(tasks) + 1
    OBVIOUS
  <1>2. /\ Len(tasks) \in Nat /\ Ids = 1..Len(tasks)
        /\ DOMAIN queue = 1..Len(queue) /\ Len(queue) \in Nat
        /\ tasks \in Seq(TaskRecord)
    BY SequenceDomains DEF Typed, Sequenced
  <1>3. PICK row \in {"none", "queued"} :
            tasks' = Append(tasks, [key |-> k, mem |-> "queued", row |-> row, attempts |-> 0])
    BY DEF SubmitCheck, Persisted
  <1> DEFINE r == [key |-> k, mem |-> "queued", row |-> row, attempts |-> 0]
  <1>4. r \in TaskRecord /\ r.key = k /\ r.mem = "queued" /\ r.attempts = 0
    BY DEF TaskRecord, MemStatus, RowStatus
  <1>5. tasks' = Append(tasks, r)
    BY <1>3
  <1> HIDE DEF r
  <1>6. /\ tasks' \in Seq(TaskRecord) /\ Len(tasks') = n /\ Ids' = Ids \union {n}
        /\ n \notin Ids /\ n \in Nat \ {0} /\ tasks'[n] = r
        /\ \A t \in Ids : tasks'[t] = tasks[t]
    <2>1. /\ tasks' \in Seq(TaskRecord) /\ Len(tasks') = n /\ tasks'[n] = r
          /\ \A t \in 1..Len(tasks) : tasks'[t] = tasks[t]
      BY <1>1, <1>2, <1>4, <1>5, AppendProperties
    <2>2. Ids' = 1..n
      BY <2>1 DEF Ids
    <2> QED
      BY <1>1, <1>2, <2>1, <2>2
  <1>7. ~Locked /\ Locked' /\ submitter' = k /\ k \notin busy /\ busy' = busy \union {k}
    BY DEF SubmitCheck, Refuses, Locked, Parameters
  <1>8. UNCHANGED <<queue, worker, stop, janitor, crashes>>
    BY DEF SubmitCheck
  <1>9. Typed'
    <2>1. \A t \in Ids' : tasks'[t] \in TaskRecord
      BY <1>6 DEF Ids
    <2>2. TypeOK'
      BY <1>6, <1>7, <1>8, <2>1 DEF Typed, TypeOK, TaskRecord, MemStatus, RowStatus
    <2>3. Sequenced' /\ PillsComeLast'
      BY <1>6, <1>8 DEF Typed, Sequenced, PillsComeLast
    <2>4. tasks' # <<>>
      BY <1>6
    <2> QED
      BY <2>2, <2>3, <2>4 DEF Typed
  <1>10. /\ \A i \in DOMAIN queue : queue[i] # n
         /\ \A w \in Workers : worker[w].task # n
         /\ janitor.task # n
    <2>1. n # NoTask /\ n # Pill
      BY <1>6 DEF NoTask, Pill
    <2> QED
      BY <1>6, <2>1 DEF Typed, TypeOK
  <1>11. \A t \in Ids : Held(t)' <=> Held(t)
    BY <1>6, <1>7, <1>8 DEF Held, Submitted, Waits, Works, Drains
  <1>12. \A t \in Ids : Held(t) => tasks[t].key # k
    BY <1>7 DEF PlaceInv, BusyIsHeld
  <1>13. OnePlace'
    <2>1. \A t, u : t # n /\ u # n => (Same(t, u)' <=> Same(t, u))
      BY <1>6 DEF Same
    <2>2. \A t : t # n /\ Same(t, n)' => t \in Ids /\ tasks[t].key = k
      BY <1>4, <1>6 DEF Same
    <2>3. /\ \A i \in DOMAIN queue : ~Same(queue[i], n)'
          /\ \A w \in Workers : ~Same(worker[w].task, n)'
          /\ ~Same(janitor.task, n)'
      <3>1. ASSUME NEW i \in DOMAIN queue PROVE ~Same(queue[i], n)'
        BY <1>8, <1>10, <1>12, <2>2 DEF Held, Waits
      <3>2. ASSUME NEW w \in Workers PROVE ~Same(worker[w].task, n)'
        BY <1>8, <1>10, <1>12, <2>2 DEF Held, Works
      <3>3. ~Same(janitor.task, n)'
        BY <1>8, <1>10, <1>12, <2>2 DEF Held, Drains
      <3> QED
        BY <3>1, <3>2, <3>3
    <2> QED
      BY <1>6, <1>8, <1>10, <2>1, <2>3 DEF PlaceInv, OnePlace
  <1>14. BusyIsHeld'
    <2>1. Held(n)' /\ tasks'[n].key = k
      BY <1>4, <1>6, <1>7 DEF Held, Submitted
    <2> QED
      BY <1>6, <1>7, <1>11, <2>1 DEF PlaceInv, BusyIsHeld
  <1>15. Stages'
    <2>1. Fresh(n)'
      BY <1>4, <1>6 DEF Fresh
    <2>2. \A t \in Ids : Fresh(t)' <=> Fresh(t)
      BY <1>6 DEF Fresh
    <2>3. /\ \A i \in DOMAIN queue : queue[i] \in Ids' => queue[i] \in Ids
          /\ Pill \notin Ids' /\ NoTask \notin Ids'
      BY <1>2, <1>6, <1>10 DEF Pill, NoTask
    <2>4. Len(tasks') \in Ids' /\ tasks'[Len(tasks')].key = submitter' /\ Fresh(Len(tasks))'
      BY <1>4, <1>6, <1>7 DEF Fresh
    <2>5. \A i \in DOMAIN queue' : queue'[i] \in Ids' => Fresh(queue[i])'
      BY <1>8, <2>2, <2>3 DEF PlaceInv, Stages, Fresh
    <2>6. IF janitor'.at = "cancel" THEN janitor'.task \in Ids' /\ Fresh(janitor.task)'
                                    ELSE janitor'.task = NoTask
      BY <1>6, <1>8 DEF PlaceInv, Stages, Fresh
    <2>7. ASSUME NEW w \in Workers PROVE Stages!4!(w)'
      BY <1>6, <1>8 DEF PlaceInv, Stages, Fresh
    <2> QED
      BY <2>4, <2>5, <2>6, <2>7 DEF Stages, Fresh
  <1>16. UnheldHasEnded'
    <2>1. Held(n)'
      BY <1>6, <1>7 DEF Held, Submitted
    <2> QED
      BY <1>6, <1>11, <2>1 DEF PlaceInv, UnheldHasEnded
  <1>17. AttemptsBounded'
    <2>1. Retries[k] \in Nat
      BY DEF Parameters
    <2>2. tasks'[n].attempts <= Retries[tasks'[n].key] + 1
      BY <1>4, <1>6, <2>1
    <2> QED
      BY <1>6, <2>2 DEF PlaceInv, AttemptsBounded
  <1>18. BornTogether'
    BY <1>8 DEF PlaceInv, BornTogether, Started
  <1> QED
    BY <1>9, <1>13, <1>14, <1>15, <1>16, <1>17, <1>18 DEF PlaceInv

LEMMA SubmitPutStep ==
    ASSUME Typed, PlaceInv, SubmitPut
    PROVE  Typed' /\ PlaceInv'
  <1>1. PICK n : n = Len(tasks)
    OBVIOUS
  <1>2. /\ Locked /\ n \in Ids /\ n \in Nat /\ Fresh(n) /\ ~Locked'
        /\ UNCHANGED <<tasks, busy, worker, stop, janitor, crashes>>
    BY <1>1, SequenceDomains DEF SubmitPut, PlaceInv, Stages, Locked, Typed
  <1>3. queue' = Append(queue, n)
    BY <1>1 DEF SubmitPut
  <1> DEFINE last == Len(queue) + 1
  <1>4. /\ queue' \in Seq(Int) /\ DOMAIN queue' = 1..last
        /\ DOMAIN queue = 1..Len(queue) /\ Len(queue) \in Nat
        /\ \A i \in DOMAIN queue : queue'[i] = queue[i]
        /\ queue'[last] = n
    BY <1>2, <1>3, QueueGrows, SequenceDomains DEF Typed
  <1>5. /\ DOMAIN queue' = DOMAIN queue \union {last} /\ last \notin DOMAIN queue
    BY <1>4
  <1> HIDE DEF last
  <1>6. Ids' = Ids
    BY <1>2 DEF Ids
  <1>7. Typed'
    <2>1. n # Pill
      BY <1>2 DEF Pill
    <2>2. TypeOK'
      BY <1>2, <1>4, <1>5, <1>6 DEF SubmitPut, Typed, TypeOK
    <2>3. Sequenced' /\ PillsComeLast'
      BY <1>2, <1>4, <1>5, <2>1 DEF Typed, Sequenced, PillsComeLast
    <2> QED
      BY <1>2, <2>2, <2>3 DEF Typed
  <1>8. \A t \in Ids : Held(t)' <=> Held(t)
    <2>1. \A t : Waits(t)' <=> Waits(t) \/ t = n
      BY <1>4, <1>5 DEF Waits
    <2> QED
      BY <1>1, <1>2, <2>1 DEF Held, Submitted, Works, Drains
  <1>9. \A t, u : Same(t, u)' <=> Same(t, u)
    BY <1>2, <1>6 DEF Same
  <1>10. /\ \A i \in DOMAIN queue : ~Same(queue[i], n) /\ ~Same(n, queue[i])
         /\ \A w \in Workers : ~Same(worker[w].task, n) /\ ~Same(n, worker[w].task)
         /\ ~Same(janitor.task, n) /\ ~Same(n, janitor.task)
    BY <1>1, <1>2 DEF PlaceInv, OnePlace, Same
  <1>11. OnePlace'
    BY <1>2, <1>4, <1>5, <1>9, <1>10 DEF PlaceInv, OnePlace
  <1>12. Stages'
    <2>1. \A i \in DOMAIN queue' : queue'[i] \in Ids => Fresh(queue'[i])
      BY <1>2, <1>4, <1>5 DEF PlaceInv, Stages
    <2> QED
      BY <1>2, <1>6, <2>1 DEF PlaceInv, Stages, Fresh
  <1>13. BusyIsHeld' /\ UnheldHasEnded' /\ AttemptsBounded' /\ BornTogether'
    BY <1>2, <1>6, <1>8 DEF PlaceInv, BusyIsHeld, UnheldHasEnded, AttemptsBounded,
                            BornTogether, Started
  <1> QED
    BY <1>7, <1>11, <1>12, <1>13 DEF PlaceInv

(* The head of the queue leaves it.                                          *)
LEMMA HeadLeaves ==
    ASSUME Typed, PlaceInv, queue # <<>>, queue' = Tail(queue), UNCHANGED tasks
    PROVE  /\ Sequenced' /\ Ids' = Ids
           /\ \A i \in DOMAIN queue' : i + 1 \in DOMAIN queue /\ queue'[i] = queue[i + 1]
           /\ 1 \in DOMAIN queue /\ Head(queue) = queue[1] /\ queue[1] \in Ids \union {Pill}
           /\ \A i \in DOMAIN queue' :
                 queue'[i] \in Ids \union {Pill} /\ (queue'[i] \in Ids => Fresh(queue'[i]))
           /\ \A i, j \in DOMAIN queue' : Same(queue'[i], queue'[j]) => i = j
           /\ \A i \in DOMAIN queue' :
                 /\ ~Same(queue'[i], queue[1]) /\ ~Same(queue[1], queue'[i])
                 /\ \A w \in Workers : ~Same(queue'[i], worker[w].task)
                 /\ ~Same(queue'[i], janitor.task)
                 /\ Locked => ~Same(queue'[i], Len(tasks))
           /\ \A t \in Ids : Waits(t) <=> Waits(t)' \/ t = queue[1]
           /\ \A t \in Ids : t = queue[1] => ~Waits(t)' /\ Fresh(t)
  <1>1. /\ queue' \in Seq(Int)
        /\ 1 \in DOMAIN queue /\ Head(queue) = queue[1]
        /\ DOMAIN queue' = 1..(Len(queue) - 1)
        /\ \A i \in DOMAIN queue' : i + 1 \in DOMAIN queue /\ queue'[i] = queue[i + 1]
        /\ \A i \in DOMAIN queue : i # 1 => i - 1 \in DOMAIN queue' /\ queue'[i - 1] = queue[i]
    BY QueueShrinks DEF Typed
  <1>2. /\ Sequenced' /\ Ids' = Ids
        /\ \A i \in DOMAIN queue : queue[i] \in Ids \union {Pill}
                                   /\ (queue[i] \in Ids => Fresh(queue[i]))
    BY <1>1 DEF Typed, TypeOK, Sequenced, Ids, PlaceInv, Stages
  <1>3. \A i, j \in DOMAIN queue : Same(queue[i], queue[j]) => i = j
    BY DEF PlaceInv, OnePlace
  <1>4. \A i \in DOMAIN queue' : i \in Int /\ i + 1 # 1
    BY <1>1
  <1>5. \A i, j \in DOMAIN queue' : Same(queue'[i], queue'[j]) => i = j
    <2> SUFFICES ASSUME NEW i \in DOMAIN queue', NEW j \in DOMAIN queue', Same(queue'[i], queue'[j])
                 PROVE  i = j
      OBVIOUS
    <2>1. i + 1 = j + 1
      BY <1>1, <1>3
    <2> QED
      BY <1>4, <2>1
  <1>6. \A i \in DOMAIN queue' :
            /\ ~Same(queue'[i], queue[1]) /\ ~Same(queue[1], queue'[i])
            /\ \A w \in Workers : ~Same(queue'[i], worker[w].task)
            /\ ~Same(queue'[i], janitor.task)
            /\ Locked => ~Same(queue'[i], Len(tasks))
    <2> TAKE i \in DOMAIN queue'
    <2>1. PICK j \in DOMAIN queue : j # 1 /\ queue'[i] = queue[j]
      BY <1>1, <1>4
    <2> QED
      BY <1>1, <1>3, <2>1 DEF PlaceInv, OnePlace
  <1>7. ASSUME NEW t \in Ids
        PROVE  Waits(t) <=> Waits(t)' \/ t = queue[1]
    <2>1. ASSUME Waits(t) PROVE Waits(t)' \/ t = queue[1]
      <3>1. PICK i \in DOMAIN queue : queue[i] = t
        BY <2>1 DEF Waits
      <3>2. i # 1 => i - 1 \in DOMAIN queue' /\ queue'[i - 1] = t
        BY <1>1, <3>1
      <3> QED
        BY <3>1, <3>2 DEF Waits
    <2>2. ASSUME Waits(t)' PROVE Waits(t)
      <3>1. PICK i \in DOMAIN queue' : queue'[i] = t
        BY <2>2 DEF Waits
      <3>2. i + 1 \in DOMAIN queue /\ queue[i + 1] = t
        BY <1>1, <3>1
      <3> QED
        BY <3>2 DEF Waits
    <2>3. t = queue[1] => Waits(t)
      BY <1>1 DEF Waits
    <2> QED
      BY <2>1, <2>2, <2>3
  <1>8. ASSUME NEW t \in Ids, t = queue[1]
        PROVE  ~Waits(t)' /\ Fresh(t)
    BY <1>1, <1>2, <1>6, <1>8 DEF Waits, Same
  <1> QED
    BY <1>1, <1>2, <1>5, <1>6, <1>7, <1>8

LEMMA NoId == ASSUME Sequenced PROVE NoTask \notin Ids /\ Pill \notin Ids
  BY SequenceDomains DEF NoTask, Pill

LEMMA TakeStep ==
    ASSUME Typed, PlaceInv, NEW w \in Workers, Take(w)
    PROVE  Typed' /\ PlaceInv'
  <1>1. /\ queue # <<>> /\ queue' = Tail(queue)
        /\ UNCHANGED <<tasks, busy, submitter, stop, janitor, crashes>>
        /\ worker[w].at = "idle" /\ worker[w].task = NoTask
        /\ NoTask \notin Ids /\ Pill \notin Ids
    BY NoId DEF Take, PlaceInv, Stages, Typed
  <1> PICK h : h = queue[1]
    OBVIOUS
  <1>2. /\ Sequenced' /\ Ids' = Ids
        /\ Head(queue) = h /\ h \in Ids \union {Pill} /\ 1 \in DOMAIN queue
        /\ \A i \in DOMAIN queue' :
              queue'[i] \in Ids \union {Pill} /\ (queue'[i] \in Ids => Fresh(queue'[i]))
        /\ \A i \in DOMAIN queue' : i + 1 \in DOMAIN queue /\ queue'[i] = queue[i + 1]
        /\ \A t \in Ids : Waits(t) <=> Waits(t)' \/ t = h
        /\ h \in Ids => ~Waits(h)' /\ Fresh(h)
    BY <1>1, HeadLeaves
  <1>3. /\ \A i, j \in DOMAIN queue' : Same(queue'[i], queue'[j]) => i = j
        /\ \A i \in DOMAIN queue' :
              /\ ~Same(queue'[i], h)
              /\ \A v \in Workers : ~Same(queue'[i], worker[v].task)
              /\ ~Same(queue'[i], janitor.task)
              /\ Locked => ~Same(queue'[i], Len(tasks))
    BY <1>1, HeadLeaves
  <1>4. /\ \A v \in Workers : ~Same(h, worker[v].task)
        /\ ~Same(h, janitor.task)
        /\ Locked => ~Same(h, Len(tasks))
    BY <1>2 DEF PlaceInv, OnePlace
  <1> DEFINE got == IF h = Pill THEN [at |-> "gone", task |-> NoTask]
                                ELSE [at |-> "taken", task |-> h]
  <1>5. /\ worker' = [worker EXCEPT ![w] = got]
        /\ got \in [at : {"gone", "taken"}, task : Ids \union {NoTask}]
        /\ h = Pill => got.task = NoTask /\ got.at = "gone"
        /\ h # Pill => got.task = h /\ got.at = "taken" /\ h \in Ids
    BY <1>2 DEF Take
  <1> HIDE DEF got
  <1>6. worker'[w] = got /\ \A v \in Workers : v # w => worker'[v] = worker[v]
    BY <1>5 DEF Typed, TypeOK
  <1>7. Typed'
    <2>1. TypeOK'
      BY <1>1, <1>2, <1>5 DEF Typed, TypeOK
    <2>2. PillsComeLast'
      BY <1>1, <1>2 DEF Typed, PillsComeLast
    <2> QED
      BY <1>1, <1>2, <2>1, <2>2 DEF Typed, Locked
  <1>8. \A t \in Ids : Held(t)' <=> Held(t)
    <2> TAKE t \in Ids
    <2>1. Works(t)' <=> Works(t) \/ t = h
      BY <1>1, <1>5, <1>6 DEF Works
    <2> QED
      BY <1>1, <1>2, <2>1 DEF Held, Submitted, Drains, Locked
  <1>9. \A t, u : Same(t, u)' <=> Same(t, u)
    BY <1>1, <1>2 DEF Same
  <1>10. \A t : Same(NoTask, t) = FALSE /\ Same(t, NoTask) = FALSE
    BY <1>1 DEF Same
  <1>11. \A t, u : Same(t, u) <=> Same(u, t)
    BY DEF Same
  <1>12. OnePlace'
    <2>2. \A u, v \in Workers : Same(worker'[u].task, worker'[v].task) => u = v
      BY <1>4, <1>5, <1>6, <1>10, <1>11 DEF PlaceInv, OnePlace
    <2>3. \A i \in DOMAIN queue', v \in Workers : ~Same(queue'[i], worker'[v].task)
      BY <1>3, <1>5, <1>6, <1>10
    <2>4. \A i \in DOMAIN queue' : ~Same(queue'[i], janitor.task)
      BY <1>3
    <2>5. \A v \in Workers : ~Same(worker'[v].task, janitor.task)
      BY <1>4, <1>5, <1>6, <1>10 DEF PlaceInv, OnePlace
    <2>6. Locked => /\ \A i \in DOMAIN queue' : ~Same(queue'[i], Len(tasks))
                    /\ \A v \in Workers : ~Same(worker'[v].task, Len(tasks))
                    /\ ~Same(janitor.task, Len(tasks))
      BY <1>3, <1>4, <1>5, <1>6, <1>10 DEF PlaceInv, OnePlace
    <2> QED
      BY <1>1, <1>3, <1>9, <2>2, <2>3, <2>4, <2>5, <2>6 DEF OnePlace, Locked
  <1>13. Stages'
    <2>1. ASSUME NEW v \in Workers PROVE Stages!4!(v)'
      <3>1. CASE v = w
        BY <1>1, <1>2, <1>5, <1>6, <3>1 DEF Stages, Fresh
      <3>2. CASE v # w
        BY <1>1, <1>2, <1>6, <3>2 DEF PlaceInv, Stages, Fresh
      <3> QED
        BY <3>1, <3>2
    <2>2. \A i \in DOMAIN queue' : queue'[i] \in Ids => Fresh(queue'[i])
      BY <1>2
    <2> QED
      BY <1>1, <1>2, <2>1, <2>2 DEF PlaceInv, Stages, Fresh, Locked
  <1>14. BusyIsHeld' /\ UnheldHasEnded' /\ AttemptsBounded'
    BY <1>1, <1>2, <1>8 DEF PlaceInv, BusyIsHeld, UnheldHasEnded, AttemptsBounded
  <1>15. BornTogether'
    <2>1. Started
      BY <1>1 DEF PlaceInv, BornTogether
    <2> QED
      BY <1>5, <1>6, <2>1 DEF BornTogether, Started
  <1> QED
    BY <1>7, <1>12, <1>13, <1>14, <1>15 DEF PlaceInv

LEMMA ReleaseStep ==
    ASSUME Typed, PlaceInv, NEW w \in Workers, Release(w)
    PROVE  Typed' /\ PlaceInv'
  <1> PICK t : t = worker[w].task
    OBVIOUS
  <1>1. /\ UNCHANGED <<tasks, queue, submitter, stop, janitor, crashes>>
        /\ ~Locked /\ worker[w].at = "ended" /\ t \in Ids /\ tasks[t].mem \in Final
        /\ busy' = busy \ {tasks[t].key}
        /\ NoTask \notin Ids /\ Ids' = Ids
    BY NoId DEF Release, PlaceInv, Stages, Typed, Ids
  <1>2. /\ worker' = [worker EXCEPT ![w] = [at |-> "idle", task |-> NoTask]]
        /\ worker'[w] = [at |-> "idle", task |-> NoTask]
        /\ \A v \in Workers : v # w => worker'[v] = worker[v]
    BY DEF Release, Typed, TypeOK
  <1>3. Typed'
    BY <1>1, <1>2 DEF Typed, TypeOK, Sequenced, PillsComeLast, Locked
  <1>4. \A u \in Ids : tasks[u].key = tasks[t].key =>
            /\ ~Waits(u) /\ ~Drains(u)
            /\ \A v \in Workers : worker[v].task = u => v = w /\ u = t
    BY <1>1 DEF PlaceInv, OnePlace, Same, Waits, Drains
  <1>5. \A u \in Ids : Held(u)' <=> Held(u) /\ u # t
    <2> TAKE u \in Ids
    <2>1. Works(u)' => Works(u) /\ u # t
      BY <1>1, <1>2, <1>4 DEF Works
    <2>2. Works(u) /\ u # t => Works(u)'
      BY <1>2 DEF Works
    <2> QED
      BY <1>1, <1>4, <2>1, <2>2 DEF Held, Submitted, Waits, Drains, Locked
  <1>6. \A u \in Ids : Held(u) /\ tasks[u].key = tasks[t].key => u = t
    BY <1>1, <1>4 DEF Held, Submitted, Works
  <1>7. BusyIsHeld'
    BY <1>1, <1>5, <1>6 DEF PlaceInv, BusyIsHeld
  <1>8. \A u : ~Same(NoTask, u) /\ ~Same(u, NoTask)
    BY <1>1 DEF Same
  <1>9. OnePlace'
    <2>1. \A u, v : Same(u, v)' <=> Same(u, v)
      BY <1>1 DEF Same
    <2> QED
      BY <1>1, <1>2, <1>8, <2>1 DEF PlaceInv, OnePlace, Locked
  <1>10. Stages'
    BY <1>1, <1>2 DEF PlaceInv, Stages, Fresh, Locked
  <1>11. UnheldHasEnded' /\ AttemptsBounded'
    BY <1>1, <1>5 DEF PlaceInv, UnheldHasEnded, AttemptsBounded
  <1>12. BornTogether'
    <2>1. Started
      BY <1>1 DEF PlaceInv, BornTogether
    <2> QED
      BY <1>2, <2>1 DEF BornTogether, Started
  <1> QED
    BY <1>3, <1>7, <1>9, <1>10, <1>11, <1>12 DEF PlaceInv

LEMMA StartStep ==
    ASSUME Typed, PlaceInv, Start
    PROVE  Typed' /\ PlaceInv'
  <1>1. /\ UNCHANGED <<tasks, queue, busy, submitter, stop, janitor, crashes>>
        /\ worker' = [w \in Workers |-> [at |-> "idle", task |-> NoTask]]
        /\ \A w \in Workers : worker[w].task = NoTask
    BY DEF Start, PlaceInv, BornTogether, Stages
  <1>2. Typed'
    BY <1>1 DEF Typed, TypeOK, Sequenced, PillsComeLast, Locked, Ids
  <1>3. OnePlace' /\ BusyIsHeld' /\ \A t \in Ids : Held(t)' <=> Held(t)
    <2>1. Ids' = Ids
      BY <1>1 DEF Ids
    <2> QED
      BY <1>1, <2>1, PlacesKept DEF Typed, PlaceInv
  <1>4. Stages'
    BY <1>1 DEF PlaceInv, Stages, Fresh, Locked, Ids
  <1>5. UnheldHasEnded' /\ AttemptsBounded' /\ BornTogether'
    BY <1>1, <1>3 DEF PlaceInv, UnheldHasEnded, AttemptsBounded, BornTogether, Started, Ids
  <1> QED
    BY <1>2, <1>3, <1>4, <1>5 DEF PlaceInv

LEMMA ShutdownStep ==
    ASSUME Typed, PlaceInv, Shutdown
    PROVE  Typed' /\ PlaceInv'
  <1>1. /\ UNCHANGED <<tasks, queue, busy, worker, submitter, crashes>>
        /\ stop' = TRUE /\ janitor' = [at |-> "drain", task |-> NoTask]
        /\ janitor.at = "none" /\ janitor.task = NoTask
    BY DEF Shutdown, PlaceInv, Stages
  <1>2. Typed'
    BY <1>1 DEF Typed, TypeOK, Sequenced, PillsComeLast, Locked, Ids
  <1>3. OnePlace' /\ BusyIsHeld' /\ \A t \in Ids : Held(t)' <=> Held(t)
    <2>1. Ids' = Ids
      BY <1>1 DEF Ids
    <2> QED
      BY <1>1, <2>1, PlacesKept DEF Typed, PlaceInv
  <1>4. Stages'
    BY <1>1 DEF PlaceInv, Stages, Fresh, Locked, Ids
  <1>5. UnheldHasEnded' /\ AttemptsBounded' /\ BornTogether'
    BY <1>1, <1>3 DEF PlaceInv, UnheldHasEnded, AttemptsBounded, BornTogether, Started, Ids
  <1> QED
    BY <1>2, <1>3, <1>4, <1>5 DEF PlaceInv

LEMMA DrainTakesStep ==
    ASSUME Typed, PlaceInv, Drain, queue # <<>>
    PROVE  Typed' /\ PlaceInv'
  <1> PICK h : h = queue[1]
    OBVIOUS
  <1>1. /\ queue' = Tail(queue)
        /\ UNCHANGED <<tasks, busy, worker, submitter, stop, crashes>>
        /\ janitor.at = "drain" /\ janitor.task = NoTask
        /\ NoTask \notin Ids /\ Pill \notin Ids
    BY NoId DEF Drain, PlaceInv, Stages, Typed
  <1>2. /\ Sequenced' /\ Ids' = Ids
        /\ Head(queue) = h /\ h \in Ids \union {Pill} /\ 1 \in DOMAIN queue
        /\ \A i \in DOMAIN queue' :
              queue'[i] \in Ids \union {Pill} /\ (queue'[i] \in Ids => Fresh(queue'[i]))
        /\ \A i \in DOMAIN queue' : i + 1 \in DOMAIN queue /\ queue'[i] = queue[i + 1]
        /\ \A t \in Ids : Waits(t) <=> Waits(t)' \/ t = h
        /\ h \in Ids => ~Waits(h)' /\ Fresh(h)
    BY <1>1, HeadLeaves
  <1>3. /\ \A i, j \in DOMAIN queue' : Same(queue'[i], queue'[j]) => i = j
        /\ \A i \in DOMAIN queue' :
              /\ ~Same(queue'[i], h)
              /\ \A v \in Workers : ~Same(queue'[i], worker[v].task)
              /\ Locked => ~Same(queue'[i], Len(tasks))
    BY <1>1, HeadLeaves
  <1>4. /\ \A v \in Workers : ~Same(worker[v].task, h) /\ ~Same(h, worker[v].task)
        /\ Locked => ~Same(h, Len(tasks))
    BY <1>2 DEF PlaceInv, OnePlace, Same
  <1>5. h \in Ids
    BY <1>1, <1>2 DEF Typed, PillsComeLast
  <1>6. janitor' = [at |-> "cancel", task |-> h]
    BY <1>2 DEF Drain
  <1>7. Typed'
    <2>1. TypeOK'
      BY <1>1, <1>2, <1>5, <1>6 DEF Typed, TypeOK
    <2>2. PillsComeLast'
      BY <1>1, <1>2 DEF Typed, PillsComeLast
    <2> QED
      BY <1>1, <1>2, <2>1, <2>2 DEF Typed, Locked
  <1>8. \A t \in Ids : Held(t)' <=> Held(t)
    BY <1>1, <1>2, <1>6 DEF Held, Submitted, Works, Drains, Locked
  <1>9. OnePlace'
    <2>1. \A t, u : Same(t, u)' <=> Same(t, u)
      BY <1>1, <1>2 DEF Same
    <2> QED
      BY <1>1, <1>3, <1>4, <1>6, <2>1 DEF PlaceInv, OnePlace, Locked
  <1>10. Stages'
    <2>1. \A i \in DOMAIN queue' : queue'[i] \in Ids => Fresh(queue'[i])
      BY <1>2
    <2> QED
      BY <1>1, <1>2, <1>5, <1>6, <2>1 DEF PlaceInv, Stages, Fresh, Locked
  <1>11. BusyIsHeld' /\ UnheldHasEnded' /\ AttemptsBounded' /\ BornTogether'
    BY <1>1, <1>2, <1>8 DEF PlaceInv, BusyIsHeld, UnheldHasEnded, AttemptsBounded,
                            BornTogether, Started
  <1> QED
    BY <1>7, <1>9, <1>10, <1>11 DEF PlaceInv

LEMMA DrainEndsStep ==
    ASSUME Parameters, Typed, PlaceInv, Drain, queue = <<>>
    PROVE  Typed' /\ PlaceInv'
  <1>1. /\ UNCHANGED <<tasks, busy, worker, submitter, stop, crashes>>
        /\ janitor.task = NoTask /\ janitor' = [at |-> "done", task |-> NoTask]
        /\ Ids' = Ids
    BY DEF Drain, PlaceInv, Stages, Ids
  <1>2. queue' \in Seq({Pill})
    <2>1. PICK n \in Nat : n = Cardinality(Workers)
      BY FS_CardinalityType DEF Parameters
    <2>2. queue' = <<>> \/ queue' = [i \in 1..n |-> Pill]
      BY <2>1 DEF Drain
    <2>3. [i \in 1..n |-> Pill] \in Seq({Pill})
      OBVIOUS
    <2> QED
      BY <2>2, <2>3, EmptySeq
  <1>3. queue' \in Seq(Int) /\ \A i \in DOMAIN queue' : queue'[i] = Pill
    BY <1>2 DEF Pill
  <1>4. DOMAIN queue = {}
    BY DEF Drain
  <1>5. Pill \notin Ids
    BY NoId DEF Typed
  <1>6. Typed'
    BY <1>1, <1>3 DEF Typed, TypeOK, Sequenced, PillsComeLast, Locked
  <1>7. \A t \in Ids : Held(t)' <=> Held(t)
    BY <1>1, <1>3, <1>4, <1>5 DEF Held, Submitted, Waits, Works, Drains, Locked
  <1>8. OnePlace'
    <2>1. \A t, u : Same(t, u)' <=> Same(t, u)
      BY <1>1 DEF Same
    <2>2. \A t : ~Same(Pill, t)
      BY <1>5 DEF Same
    <2> QED
      BY <1>1, <1>3, <2>1, <2>2 DEF PlaceInv, OnePlace, Locked
  <1>9. Stages'
    BY <1>1, <1>3, <1>5 DEF PlaceInv, Stages, Fresh, Locked
  <1>10. BusyIsHeld' /\ UnheldHasEnded' /\ AttemptsBounded' /\ BornTogether'
    BY <1>1, <1>7 DEF PlaceInv, BusyIsHeld, UnheldHasEnded, AttemptsBounded, BornTogether,
                      Started
  <1> QED
    BY <1>6, <1>8, <1>9, <1>10 DEF PlaceInv

LEMMA CancelStep ==
    ASSUME Typed, PlaceInv, Cancel
    PROVE  Typed' /\ PlaceInv'
  <1> PICK t : t = janitor.task
    OBVIOUS
  <1>1. /\ UNCHANGED <<queue, worker, submitter, stop, crashes>>
        /\ ~Locked /\ janitor.at = "cancel" /\ t \in Ids
        /\ busy' = busy \ {tasks[t].key}
        /\ janitor' = [at |-> "drain", task |-> NoTask]
        /\ tasks' = [tasks EXCEPT ![t].mem = "canceled"]
        /\ NoTask \notin Ids
    BY NoId DEF Cancel, PlaceInv, Stages, Typed
  <1> DEFINE r == [tasks[t] EXCEPT !.mem = "canceled"]
  <1>2. /\ r \in TaskRecord /\ r.key = tasks[t].key /\ r.mem = "canceled"
        /\ r.attempts = tasks[t].attempts
    BY <1>1, SequenceDomains DEF Typed, TaskRecord, MemStatus, Final
  <1>3. tasks' = [tasks EXCEPT ![t] = r]
    BY <1>1
  <1> HIDE DEF r
  <1>4. /\ tasks' \in Seq(TaskRecord) /\ Len(tasks') = Len(tasks) /\ Ids' = Ids
        /\ \A u \in Ids : u # t => tasks'[u] = tasks[u]
        /\ tasks'[t] = r
    BY <1>1, <1>2, <1>3, RecordChanges DEF Typed
  <1>5. \A u \in Ids : tasks'[u].key = tasks[u].key /\ tasks'[u].attempts = tasks[u].attempts
    BY <1>2, <1>4
  <1>6. Typed'
    <2>1. \A u \in Ids' : tasks'[u] \in TaskRecord
      BY <1>4 DEF Ids
    <2>2. TypeOK'
      BY <1>1, <1>4, <2>1 DEF Typed, TypeOK, TaskRecord, MemStatus, RowStatus
    <2> QED
      BY <1>1, <1>4, <2>2 DEF Typed, Sequenced, PillsComeLast, Locked
  <1>7. \A u \in Ids : tasks[u].key = tasks[t].key => ~Waits(u) /\ ~Works(u) /\ (Drains(u) => u = t)
    BY <1>1 DEF PlaceInv, OnePlace, Same, Waits, Works, Drains
  <1>8. \A u \in Ids : Held(u)' <=> Held(u) /\ u # t
    BY <1>1, <1>4, <1>7 DEF Held, Submitted, Waits, Works, Drains, Locked
  <1>9. \A u \in Ids : Held(u) /\ tasks[u].key = tasks[t].key => u = t
    BY <1>1, <1>7 DEF Held, Submitted
  <1>10. BusyIsHeld'
    BY <1>1, <1>4, <1>5, <1>8, <1>9 DEF PlaceInv, BusyIsHeld
  <1>11. OnePlace'
    <2>1. \A u, v : Same(u, v)' <=> Same(u, v)
      BY <1>4, <1>5 DEF Same
    <2>2. \A u : ~Same(u, NoTask)
      BY <1>1 DEF Same
    <2> QED
      BY <1>1, <2>1, <2>2 DEF PlaceInv, OnePlace, Locked
  <1>12. Stages'
    <2>1. /\ \A i \in DOMAIN queue : queue[i] # t
          /\ \A w \in Workers : worker[w].task # t
      BY <1>1, <1>7 DEF Waits, Works
    <2> QED
      BY <1>1, <1>4, <2>1 DEF PlaceInv, Stages, Fresh, Locked
  <1>13. UnheldHasEnded'
    BY <1>2, <1>4, <1>8 DEF PlaceInv, UnheldHasEnded, Final
  <1>14. AttemptsBounded' /\ BornTogether'
    BY <1>1, <1>4, <1>5 DEF PlaceInv, AttemptsBounded, BornTogether, Started
  <1> QED
    BY <1>6, <1>10, <1>11, <1>12, <1>13, <1>14 DEF PlaceInv

(* A new process begins with empty tables; what the old one held is gone.    *)
LEMMA RestartStep ==
    ASSUME Parameters, Typed, PlaceInv, Restart
    PROVE  Typed' /\ PlaceInv'
  <1>1. PICK rows \in [Ids -> {"none", "queued", "running"} \union Final] :
            tasks' = [t \in Ids |-> [tasks[t] EXCEPT !.mem = "gone", !.row = rows[t]]]
    BY DEF Restart
  <1>2. /\ queue' = <<>> /\ busy' = {} /\ submitter' = NoKey /\ stop' = FALSE
        /\ worker' = [w \in Workers |-> [at |-> "unborn", task |-> NoTask]]
        /\ janitor' = [at |-> "none", task |-> NoTask]
        /\ crashes' = crashes + 1 /\ crashes < MaxCrashes
    BY DEF Restart
  <1>3. \A t \in Ids : /\ tasks'[t] \in TaskRecord /\ tasks'[t].mem = "gone"
                       /\ tasks'[t].key = tasks[t].key
                       /\ tasks'[t].attempts = tasks[t].attempts
    <2> TAKE t \in Ids
    <2>1. tasks[t] \in TaskRecord /\ rows[t] \in RowStatus
      BY SequenceDomains DEF Typed, RowStatus
    <2> QED
      BY <1>1, <2>1 DEF TaskRecord, MemStatus
  <1>4. tasks' \in Seq(TaskRecord) /\ Len(tasks') = Len(tasks) /\ Ids' = Ids
    <2>1. Ids = 1..Len(tasks) /\ Len(tasks) \in Nat
      BY SequenceDomains DEF Typed
    <2>2. tasks' \in [1..Len(tasks) -> TaskRecord]
      BY <1>1, <1>3, <2>1
    <2>3. tasks' \in Seq(TaskRecord) /\ Len(tasks') = Len(tasks)
      BY <2>1, <2>2
    <2> QED
      BY <2>1, <2>3 DEF Ids
  <1>5. Typed'
    <2>1. crashes' \in 0..MaxCrashes
      BY <1>2 DEF Typed, TypeOK, Parameters
    <2>2. DOMAIN queue' = {}
      BY <1>2
    <2>3. \A t \in Ids' : tasks'[t] \in TaskRecord
      BY <1>3, <1>4
    <2>4. TypeOK'
      BY <1>2, <1>4, <2>1, <2>2, <2>3 DEF TypeOK, TaskRecord, MemStatus, RowStatus
    <2> QED
      BY <1>2, <1>4, <2>2, <2>4, EmptySeq DEF Typed, Sequenced, PillsComeLast, Locked
  <1>6. NoTask \notin Ids
    BY NoId DEF Typed
  <1>7. \A t \in Ids : ~Held(t)'
    BY <1>2, <1>6 DEF Held, Submitted, Waits, Works, Drains, Locked
  <1>8. OnePlace' /\ BusyIsHeld'
    BY <1>2, <1>4, <1>6, <1>7 DEF OnePlace, BusyIsHeld, Same, Locked
  <1>9. Stages' /\ UnheldHasEnded'
    BY <1>2, <1>3, <1>4 DEF Stages, UnheldHasEnded, Locked
  <1>10. AttemptsBounded' /\ BornTogether'
    BY <1>2, <1>3, <1>4 DEF PlaceInv, AttemptsBounded, BornTogether
  <1> QED
    BY <1>5, <1>8, <1>9, <1>10 DEF PlaceInv

LEMMA PlaceInit == ASSUME Parameters PROVE Init => Typed /\ PlaceInv
  <1> SUFFICES ASSUME Init PROVE Typed /\ PlaceInv
    OBVIOUS
  <1>1. /\ tasks = <<>> /\ queue = <<>> /\ Ids = {} /\ ~Locked
        /\ tasks \in Seq(TaskRecord) /\ queue \in Seq(Int)
    BY DEF Init, Ids, Locked
  <1>2. Typed
    <2>1. DOMAIN queue = {}
      BY <1>1
    <2>2. crashes \in 0..MaxCrashes
      BY DEF Init, Parameters
    <2>3. /\ worker \in [Workers -> [at : {"unborn", "idle", "taken", "ready", "calling", "ended", "gone"},
                                     task : Ids \union {NoTask}]]
          /\ janitor \in [at : {"none", "drain", "cancel", "done"}, task : Ids \union {NoTask}]
      BY DEF Init
    <2>4. busy \subseteq Keys /\ submitter \in Keys \union {NoKey} /\ stop \in BOOLEAN
      BY DEF Init
    <2>5. TypeOK
      BY <1>1, <2>1, <2>2, <2>3, <2>4 DEF TypeOK
    <2> QED
      BY <1>1, <2>1, <2>5 DEF Typed, Sequenced, PillsComeLast
  <1>3. PlaceInv
    BY <1>1 DEF Init, PlaceInv, OnePlace, BusyIsHeld, Stages, UnheldHasEnded,
                AttemptsBounded, BornTogether, Same
  <1> QED
    BY <1>2, <1>3

LEMMA PlaceStep ==
    ASSUME Parameters
    PROVE  Typed /\ PlaceInv /\ [Next]_vars => (Typed /\ PlaceInv)'
  <1> SUFFICES ASSUME Typed, PlaceInv, [Next]_vars PROVE Typed' /\ PlaceInv'
    OBVIOUS
  <1>1. CASE UNCHANGED vars
    <2>1. Typed'
      BY <1>1 DEF vars, Typed, TypeOK, Sequenced, PillsComeLast, Locked, Ids
    <2>2. \A t : Held(t)' <=> Held(t)
      BY <1>1 DEF vars, Held, Submitted, Waits, Works, Drains, Locked
    <2>3. OnePlace' /\ BusyIsHeld'
      BY <1>1, <2>2 DEF vars, PlaceInv, OnePlace, BusyIsHeld, Same, Locked, Ids
    <2>4. Stages'
      BY <1>1 DEF vars, PlaceInv, Stages, Fresh, Locked, Ids
    <2>5. UnheldHasEnded' /\ AttemptsBounded' /\ BornTogether'
      BY <1>1, <2>2 DEF vars, PlaceInv, UnheldHasEnded, AttemptsBounded, BornTogether,
                        Started, Ids
    <2> QED
      BY <2>1, <2>3, <2>4, <2>5 DEF PlaceInv
  <1>2. ASSUME NEW w \in Workers, Succeed(w) PROVE Typed' /\ PlaceInv'
    BY <1>2, VerdictStep DEF Succeed
  <1>3. CASE Drain
    BY <1>3, DrainTakesStep, DrainEndsStep
  <1> QED
    BY <1>1, <1>2, <1>3, StartStep, SubmitCheckStep, SubmitPutStep, TakeStep, RunningStep,
       AttemptStep, FailStep, ReleaseStep, ShutdownStep, CancelStep, RestartStep
       DEF Next, WorkerStep

LEMMA PlacesHold == ASSUME Parameters PROVE Spec => [](Typed /\ PlaceInv)
  BY PlaceInit, PlaceStep, PTL DEF Spec

-----------------------------------------------------------------------------
(* The places of a task as the model's property counts them.                 *)
LEMMA HoldersOf ==
    ASSUME NEW t
    PROVE  /\ Holders(t) # {} <=> Held(t)
           /\ \A x \in Holders(t) :
                 \/ x = <<"submitter", 0>> /\ Submitted(t)
                 \/ \E i \in DOMAIN queue : x = <<"queue", i>> /\ queue[i] = t
                 \/ \E w \in Workers : x = <<"worker", w>> /\ worker[w].task = t
                 \/ x = <<"drainer", 0>> /\ Drains(t)
  BY DEF Holders, Held, Submitted, Waits, Works, Drains

LEMMA OneHolderEach ==
    ASSUME OnePlace, NEW t \in Ids, NEW u \in Ids, tasks[t].key = tasks[u].key,
           NEW x \in Holders(t), NEW y \in Holders(u), Locked => Len(tasks) \in Ids
    PROVE  x = y
  <1>1. Same(t, u) /\ Same(u, t)
    BY DEF Same
  <1>2. CASE x = <<"submitter", 0>> /\ Submitted(t)
    BY <1>1, <1>2, HoldersOf DEF OnePlace, Submitted, Drains
  <1>3. ASSUME NEW i \in DOMAIN queue, x = <<"queue", i>>, queue[i] = t PROVE x = y
    BY <1>1, <1>3, HoldersOf DEF OnePlace, Submitted, Drains
  <1>4. ASSUME NEW w \in Workers, x = <<"worker", w>>, worker[w].task = t PROVE x = y
    BY <1>1, <1>4, HoldersOf DEF OnePlace, Submitted, Drains
  <1>5. CASE x = <<"drainer", 0>> /\ Drains(t)
    BY <1>1, <1>5, HoldersOf DEF OnePlace, Submitted, Drains
  <1> QED
    BY <1>2, <1>3, <1>4, <1>5, HoldersOf

LEMMA AtMostOne ==
    ASSUME NEW S, \A x, y \in S : x = y
    PROVE  Cardinality(S) <= 1
  <1>1. CASE S = {}
    BY <1>1, FS_EmptySet
  <1>2. CASE S # {}
    <2>1. PICK x \in S : TRUE
      BY <1>2
    <2>2. S = {x}
      BY <2>1
    <2> QED
      BY <2>2, FS_Singleton
  <1> QED
    BY <1>1, <1>2

(* Every variable keeps its type; in particular the drainer never takes a    *)
(* pill for a task.                                                          *)
THEOREM TypeCorrect ==
    ASSUME Parameters
    PROVE  Spec => []TypeOK
  <1>1. Typed => TypeOK
    BY DEF Typed
  <1> QED
    BY <1>1, PlacesHold, PTL

(* A job never runs twice at the same time, and its key is busy exactly      *)
(* while a task of it is in one of the places: no interleaving of callers,   *)
(* workers and a shutdown leaves a key busy with nobody to free it.          *)
THEOREM OneExecutionPerKey ==
    ASSUME Parameters
    PROVE  Spec => []OneTaskPerKey
  <1>1. PlaceInv => OneTaskPerKey
    <2> SUFFICES ASSUME PlaceInv, NEW k \in Keys
                 PROVE  LET held == {t \in Ids : tasks[t].key = k /\ Holders(t) # {}}
                        IN  /\ (k \in busy) = (held # {})
                            /\ Cardinality(UNION {Holders(t) : t \in held}) <= 1
      BY DEF OneTaskPerKey
    <2> DEFINE held == {t \in Ids : tasks[t].key = k /\ Holders(t) # {}}
               places == UNION {Holders(t) : t \in held}
    <2>1. k \in busy <=> held # {}
      BY HoldersOf DEF PlaceInv, BusyIsHeld
    <2>2. Locked => Len(tasks) \in Ids
      BY DEF PlaceInv, Stages
    <2>3. \A x, y \in places : x = y
      BY <2>2, OneHolderEach DEF PlaceInv
    <2>4. Cardinality(places) <= 1
      BY <2>3, AtMostOne
    <2> QED
      BY <2>1, <2>4
  <1> QED
    BY <1>1, PlacesHold, PTL

(* A task is called at most once more than it may be retried.                *)
THEOREM AttemptsAreBounded ==
    ASSUME Parameters
    PROVE  Spec => []AttemptsBounded
  <1>1. PlaceInv => AttemptsBounded
    BY DEF PlaceInv
  <1> QED
    BY <1>1, PlacesHold, PTL

(* No task of a live process is lost: one that is in no place any more has   *)
(* a verdict.                                                                *)
THEOREM NoTaskIsForgotten ==
    ASSUME Parameters
    PROVE  Spec => []NothingForgotten
  <1>1. PlaceInv => NothingForgotten
    BY HoldersOf DEF PlaceInv, UnheldHasEnded, NothingForgotten
  <1> QED
    BY <1>1, PlacesHold, PTL

(* A verdict is given once: a worker still busy with a retry, a drainer and  *)
(* a late callback never change it.                                          *)
THEOREM VerdictIsFinal ==
    ASSUME Parameters
    PROVE  Spec => VerdictStays
  <1>1. Typed /\ PlaceInv /\ [Next]_vars =>
            [\A t \in Ids : tasks[t].mem \in Final => tasks'[t].mem \in {tasks[t].mem, "gone"}]_vars
    <2> SUFFICES ASSUME Typed, PlaceInv, Next, NEW t \in Ids, tasks[t].mem \in Final
                 PROVE  tasks'[t].mem \in {tasks[t].mem, "gone"}
      OBVIOUS
    <2>1. tasks[t] \in TaskRecord /\ tasks \in Seq(TaskRecord)
      BY SequenceDomains DEF Typed, Sequenced
    <2>2. ASSUME NEW w \in Workers, worker[w].at \in {"taken", "ready", "calling"}
          PROVE  worker[w].task # t /\ worker[w].task \in Ids
      BY <2>2 DEF PlaceInv, Stages, Fresh, Final
    <2>3. ASSUME NEW u \in Ids, u # t, NEW mem \in {"running"} \union Final,
                 Record(u, mem, tasks[u].attempts)
          PROVE  tasks'[t] = tasks[t]
      <3>1. tasks[u].attempts \in Nat
        BY SequenceDomains DEF Typed, TaskRecord
      <3> QED
        BY <2>3, <3>1, RecordShape DEF Typed
    <2>4. ASSUME NEW w \in Workers, WorkerStep(w) PROVE tasks'[t] = tasks[t]
      <3>1. CASE Running(w)
        BY <2>2, <2>3, <3>1 DEF Running
      <3>2. CASE Attempt(w)
        BY <2>1, <2>2, <3>2 DEF Attempt
      <3>3. CASE Succeed(w)
        BY <2>2, <2>3, <3>3 DEF Succeed, Final
      <3>4. CASE Fail(w)
        BY <2>2, <2>3, <3>4 DEF Fail, Final
      <3> QED
        BY <2>4, <3>1, <3>2, <3>3, <3>4 DEF WorkerStep, Take, Release
    <2>5. ASSUME NEW k \in Keys, SubmitCheck(k) PROVE tasks'[t] = tasks[t]
      <3>1. PICK r : tasks' = Append(tasks, r)
        BY <2>5 DEF SubmitCheck
      <3>2. t \in 1..Len(tasks) /\ Len(tasks) \in Nat
        BY SequenceDomains DEF Typed
      <3> QED
        BY <2>1, <3>1, <3>2
    <2>6. CASE Cancel
      <3>1. janitor.task # t
        BY <2>6 DEF Cancel, PlaceInv, Stages, Fresh, Final
      <3> QED
        BY <2>1, <2>6, <3>1 DEF Cancel
    <2>7. CASE Restart
      BY <2>1, <2>7 DEF Restart, TaskRecord
    <2> QED
      BY <2>4, <2>5, <2>6, <2>7 DEF Next, Start, SubmitPut, Shutdown, Drain
  <1> QED
    BY <1>1, PlacesHold, PTL DEF Spec, VerdictStays

-----------------------------------------------------------------------------
(* What a step leaves alone, for modules that compose the scheduler: no key   *)
(* is taken, no task begins or ends, no call is begun or given up.            *)
Places == Typed /\ PlaceInv

NoMoreKeys ==
    /\ Len(tasks') = Len(tasks)
    /\ \A t \in 1..Len(tasks) : tasks'[t].key = tasks[t].key
    /\ \A t \in 1..Len(tasks) : Held(t)' => Held(t)
    /\ busy' \subseteq busy

Alive(t) == tasks[t].mem \in {"queued", "running"}
SameAlive == \A t \in 1..Len(tasks) : Alive(t)' <=> Alive(t)

SameCalling ==
    \A w \in Workers : worker[w].at = "calling" => worker'[w] = worker[w]

LEMMA TaskIds ==
    ASSUME Places
    PROVE  /\ Sequenced /\ Ids = 1..Len(tasks) /\ Len(tasks) \in Nat
           /\ \A t \in Ids : tasks[t] \in TaskRecord
           /\ 0 \notin Ids /\ -1 \notin Ids
<1>1. Sequenced
  BY DEF Places, Typed
<1> QED
  BY <1>1, SequenceDomains

(* A worker goes on with its task, whose record may be written.              *)
LEMMA WorkerGoesOn ==
    ASSUME Places, NEW w \in Workers, NEW t, t = worker[w].task,
           UNCHANGED <<queue, submitter, janitor>>,
           \A v \in Workers : worker'[v].task = worker[v].task,
           Len(tasks') = Len(tasks)
    PROVE  \A u \in 1..Len(tasks) : Held(u)' => Held(u)
  BY DEF Held, Submitted, Waits, Works, Drains, Locked

LEMMA PutIsQuiet ==
    ASSUME Places, SubmitPut
    PROVE  NoMoreKeys /\ SameAlive /\ SameCalling
<1>1. tasks' = tasks /\ busy' = busy /\ worker' = worker
      /\ janitor' = janitor /\ queue' = Append(queue, Len(tasks))
      /\ ~Locked' /\ Locked
  BY DEF SubmitPut, Locked
<1>2. /\ DOMAIN queue' = 1..(Len(queue) + 1)
      /\ DOMAIN queue = 1..Len(queue) /\ Len(queue) \in Nat
      /\ \A i \in DOMAIN queue : queue'[i] = queue[i]
      /\ queue'[Len(queue) + 1] = Len(tasks)
  BY <1>1, TaskIds, QueueGrows, SequenceDomains
<1>3. ASSUME NEW t \in 1..Len(tasks), Held(t)' PROVE Held(t)
  <2>1. Waits(t)' => Waits(t) \/ Submitted(t)
    BY <1>1, <1>2 DEF Waits, Submitted
  <2>2. ~Submitted(t)' /\ (Works(t)' => Works(t)) /\ (Drains(t)' => Drains(t))
    BY <1>1 DEF Submitted, Works, Drains
  <2> QED
    BY <1>3, <2>1, <2>2 DEF Held
<1> QED
  BY <1>1, <1>3 DEF NoMoreKeys, SameAlive, Alive, SameCalling

LEMMA QueueHeadGoes ==
    ASSUME Places, queue # <<>>, queue' = Tail(queue),
           UNCHANGED <<tasks, submitter>>, NEW t \in 1..Len(tasks)
    PROVE  /\ Waits(t)' => Waits(t)
           /\ Head(queue) = t => Waits(t)
           /\ Submitted(t)' => Submitted(t)
<1>1. /\ 1 \in DOMAIN queue /\ Head(queue) = queue[1]
      /\ \A i \in DOMAIN queue' : i + 1 \in DOMAIN queue /\ queue'[i] = queue[i + 1]
  BY TaskIds, QueueShrinks
<1> QED
  BY <1>1 DEF Waits, Submitted, Locked

LEMMA TakeIsQuiet ==
    ASSUME Places, NEW w \in Workers, Take(w)
    PROVE  NoMoreKeys /\ SameAlive /\ SameCalling
<1>1. /\ queue # <<>> /\ queue' = Tail(queue)
      /\ UNCHANGED <<tasks, busy, submitter, janitor>>
      /\ worker[w].at = "idle"
      /\ \A v \in Workers : v # w => worker'[v] = worker[v]
      /\ worker'[w].task \in {0, Head(queue)}
  BY DEF Take, NoTask, Places, Typed, TypeOK
<1>2. ASSUME NEW t \in 1..Len(tasks), Held(t)' PROVE Held(t)
  <2>1. Works(t)' => Works(t) \/ Head(queue) = t
    BY <1>1, TaskIds DEF Works
  <2>2. Drains(t)' => Drains(t)
    BY <1>1 DEF Drains
  <2>3. /\ Waits(t)' => Waits(t)
        /\ Head(queue) = t => Waits(t)
        /\ Submitted(t)' => Submitted(t)
    BY <1>1, QueueHeadGoes
  <2> QED
    BY <1>2, <2>1, <2>2, <2>3 DEF Held
<1> QED
  BY <1>1, <1>2 DEF NoMoreKeys, SameAlive, Alive, SameCalling

LEMMA DrainIsQuiet ==
    ASSUME Places, Drain
    PROVE  NoMoreKeys /\ SameAlive /\ SameCalling
<1>1. UNCHANGED <<tasks, busy, worker, submitter>>
  BY DEF Drain
<1>2. ASSUME NEW t \in 1..Len(tasks), Held(t)' PROVE Held(t)
  <2>1. (Works(t)' => Works(t)) /\ (Submitted(t)' => Submitted(t))
    BY <1>1 DEF Works, Submitted, Locked
  <2>2. CASE queue # <<>>
    <3>1. queue' = Tail(queue) /\ janitor'.task = Head(queue)
      BY <2>2 DEF Drain
    <3>2. /\ Waits(t)' => Waits(t)
          /\ Drains(t)' => Waits(t)
      BY <1>1, <2>2, <3>1, QueueHeadGoes DEF Drains
    <3> QED
      BY <1>2, <2>1, <3>2 DEF Held
  <2>3. CASE queue = <<>>
    <3>1. janitor'.task = 0
      BY <2>3 DEF Drain, NoTask
    <3>2. \A i \in DOMAIN queue' : queue'[i] = -1
      <4> DEFINE pills == [i \in 1..Cardinality(Workers) |-> -1]
      <4>1. queue' = pills \/ queue' = <<>>
        BY <2>3 DEF Drain, Pill
      <4>2. \A i \in DOMAIN pills : pills[i] = -1
        OBVIOUS
      <4>3. \A i \in DOMAIN <<>> : <<>>[i] = -1
        OBVIOUS
      <4> HIDE DEF pills
      <4> QED
        BY <4>1, <4>2, <4>3
    <3>3. ~Waits(t)' /\ ~Drains(t)'
      BY <3>1, <3>2, TaskIds DEF Waits, Drains
    <3> QED
      BY <1>2, <2>1, <3>3 DEF Held
  <2> QED
    BY <2>2, <2>3
<1> QED
  BY <1>1, <1>2 DEF NoMoreKeys, SameAlive, Alive, SameCalling

LEMMA CancelIsQuiet ==
    ASSUME Places, Cancel
    PROVE  NoMoreKeys /\ SameCalling /\ janitor.at # "none"
<1>1. UNCHANGED <<queue, worker, submitter>> /\ janitor'.task = 0
      /\ janitor.at = "cancel" /\ busy' \subseteq busy
  BY DEF Cancel, NoTask
<1>2. janitor.task \in Ids
  BY <1>1 DEF Places, PlaceInv, Stages
<1> DEFINE d == janitor.task
           r == [tasks[d] EXCEPT !.mem = "canceled"]
<1>3. tasks' = [tasks EXCEPT ![d] = r]
  BY DEF Cancel
<1>4. r \in TaskRecord /\ r.key = tasks[d].key
  BY <1>2, TaskIds DEF TaskRecord, MemStatus, Final
<1> HIDE DEF r, d
<1>5. /\ Len(tasks') = Len(tasks)
      /\ \A t \in Ids : tasks'[t].key = tasks[t].key
  BY <1>2, <1>3, <1>4, TaskIds, RecordChanges DEF d
<1>6. ASSUME NEW t \in 1..Len(tasks), Held(t)' PROVE Held(t)
  <2>1. ~Drains(t)'
    BY <1>1, TaskIds DEF Drains
  <2>2. /\ Waits(t)' => Waits(t)
        /\ Works(t)' => Works(t)
        /\ Submitted(t)' => Submitted(t)
    BY <1>1, <1>5 DEF Waits, Works, Submitted, Locked
  <2> QED
    BY <1>6, <2>1, <2>2 DEF Held
<1> QED
  BY <1>1, <1>5, <1>6, TaskIds DEF NoMoreKeys, SameCalling

LEMMA ReleaseIsQuiet ==
    ASSUME Places, NEW w \in Workers, Release(w)
    PROVE  NoMoreKeys /\ SameAlive /\ SameCalling
<1>1. /\ UNCHANGED <<tasks, queue, submitter, janitor>>
      /\ busy' \subseteq busy /\ worker[w].at = "ended"
      /\ \A v \in Workers : v # w => worker'[v] = worker[v]
      /\ worker'[w].task = 0
  BY DEF Release, NoTask, Places, Typed, TypeOK
<1>2. ASSUME NEW t \in 1..Len(tasks), Held(t)' PROVE Held(t)
  <2>1. Works(t)' => Works(t)
    BY <1>1, TaskIds DEF Works
  <2>2. /\ Waits(t)' => Waits(t)
        /\ Drains(t)' => Drains(t)
        /\ Submitted(t)' => Submitted(t)
    BY <1>1 DEF Waits, Drains, Submitted, Locked
  <2> QED
    BY <1>2, <2>1, <2>2 DEF Held
<1> QED
  BY <1>1, <1>2 DEF NoMoreKeys, SameAlive, Alive, SameCalling

LEMMA RunningIsQuiet ==
    ASSUME Places, NEW w \in Workers, Running(w)
    PROVE  NoMoreKeys /\ SameAlive /\ SameCalling
<1> DEFINE t == worker[w].task
<1>1. t \in Ids /\ tasks[t].mem = "queued"
  BY DEF Running, Places, PlaceInv, Stages, Fresh
<1>2. /\ Record(t, "running", tasks[t].attempts)
      /\ UNCHANGED <<queue, busy, submitter, janitor>>
      /\ worker' = [worker EXCEPT ![w].at = "ready"] /\ worker[w].at = "taken"
  BY DEF Running
<1>3. \A v \in Workers : /\ worker'[v].task = worker[v].task
                         /\ v # w => worker'[v] = worker[v]
  BY <1>2 DEF Places, Typed, TypeOK
<1> HIDE DEF t
<1>4. tasks[t].attempts \in Nat
  BY <1>1, TaskIds DEF TaskRecord
<1>5. /\ Len(tasks') = Len(tasks)
      /\ \A u \in Ids : u # t => tasks'[u] = tasks[u]
      /\ tasks'[t].key = tasks[t].key /\ tasks'[t].mem = "running"
  BY <1>1, <1>2, <1>4, TaskIds, RecordShape
<1>6. \A u \in 1..Len(tasks) : Held(u)' => Held(u)
  BY <1>2, <1>3, <1>5, WorkerGoesOn
<1> QED
  BY <1>1, <1>2, <1>3, <1>5, <1>6, TaskIds DEF NoMoreKeys, SameAlive, Alive, SameCalling

LEMMA AttemptIsQuiet ==
    ASSUME Places, NEW w \in Workers, Attempt(w)
    PROVE  /\ NoMoreKeys /\ SameAlive /\ SameCalling
           /\ worker[w].at = "ready" /\ worker'[w].at = "calling"
           /\ worker'[w].task = worker[w].task /\ worker[w].task \in Ids
<1> DEFINE t == worker[w].task
           r == [tasks[t] EXCEPT !.attempts = tasks[t].attempts + 1]
<1>1. t \in Ids
  BY DEF Attempt, Places, PlaceInv, Stages
<1>2. /\ UNCHANGED <<queue, busy, submitter, janitor>>
      /\ worker' = [worker EXCEPT ![w].at = "calling"] /\ worker[w].at = "ready"
      /\ tasks' = [tasks EXCEPT ![t] = r]
  BY DEF Attempt
<1>3. /\ \A v \in Workers : /\ worker'[v].task = worker[v].task
                            /\ v # w => worker'[v] = worker[v]
      /\ worker'[w].at = "calling"
  BY <1>2 DEF Places, Typed, TypeOK
<1>4. r \in TaskRecord /\ r.key = tasks[t].key /\ r.mem = tasks[t].mem
  BY <1>1, TaskIds DEF TaskRecord
<1> HIDE DEF r, t
<1>5. /\ Len(tasks') = Len(tasks)
      /\ \A u \in Ids : u # t => tasks'[u] = tasks[u]
      /\ tasks'[t] = r
  BY <1>1, <1>2, <1>4, TaskIds, RecordChanges
<1>6. \A u \in 1..Len(tasks) : Held(u)' => Held(u)
  BY <1>2, <1>3, <1>5, WorkerGoesOn
<1> QED
  BY <1>1, <1>2, <1>3, <1>4, <1>5, <1>6, TaskIds
     DEF NoMoreKeys, SameAlive, Alive, SameCalling, t

(* A worker's callback comes back: its task may get its verdict.             *)
LEMMA ReturnIsQuiet ==
    ASSUME Places, NEW w \in Workers, Succeed(w) \/ Fail(w)
    PROVE  /\ NoMoreKeys
           /\ worker[w].at = "calling" /\ worker[w].task \in Ids
           /\ tasks[worker[w].task].mem = "running"
           /\ \A v \in Workers : v # w => worker'[v] = worker[v]
           /\ \A u \in 1..Len(tasks) : u # worker[w].task => (Alive(u)' <=> Alive(u))
           /\ Succeed(w) => ~Alive(worker[w].task)'
           /\ worker'[w].task = worker[w].task
           /\ UNCHANGED <<stop, janitor>>
<1> DEFINE t == worker[w].task
<1>1. /\ worker[w].at = "calling" /\ t \in Ids /\ tasks[t].mem = "running"
      /\ UNCHANGED <<queue, busy, submitter, janitor, stop>>
  BY DEF Succeed, Fail, Places, PlaceInv, Stages
<1>2. \A v \in Workers : /\ worker'[v].task = worker[v].task
                         /\ v # w => worker'[v] = worker[v]
  <2>1. \/ worker' = [worker EXCEPT ![w].at = "ended"]
        \/ worker' = [worker EXCEPT ![w].at = "ready"]
    BY DEF Succeed, Fail
  <2> QED
    BY <2>1 DEF Places, Typed, TypeOK
<1>3. /\ Len(tasks') = Len(tasks)
      /\ \A u \in Ids : u # t => tasks'[u] = tasks[u]
      /\ tasks'[t].key = tasks[t].key
      /\ Succeed(w) => tasks'[t].mem = "succeeded"
  <2>1. tasks[t].attempts \in Nat
    BY <1>1, TaskIds DEF TaskRecord
  <2>2. \/ Record(t, "succeeded", tasks[t].attempts)
        \/ Record(t, "failed", tasks[t].attempts) /\ ~Succeed(w)
        \/ tasks' = tasks /\ ~Succeed(w)
    <3>1. CASE Succeed(w)
      BY <3>1 DEF Succeed
    <3>2. CASE ~Succeed(w)
      BY <3>2 DEF Fail
    <3> QED
      BY <3>1, <3>2
  <2> HIDE DEF t
  <2>3. ASSUME NEW verdict \in {"succeeded", "failed"}, Record(t, verdict, tasks[t].attempts)
        PROVE  /\ Len(tasks') = Len(tasks)
               /\ \A u \in Ids : u # t => tasks'[u] = tasks[u]
               /\ tasks'[t].key = tasks[t].key /\ tasks'[t].mem = verdict
    BY <1>1, <2>1, <2>3, TaskIds, RecordShape DEF Final
  <2> QED
    BY <2>2, <2>3
<1> HIDE DEF t
<1>4. \A u \in 1..Len(tasks) : Held(u)' => Held(u)
  BY <1>1, <1>2, <1>3, WorkerGoesOn
<1> QED
  BY <1>1, <1>2, <1>3, <1>4, TaskIds DEF NoMoreKeys, Alive, t

LEMMA ShutdownIsQuiet ==
    ASSUME Places, Shutdown
    PROVE  NoMoreKeys /\ SameAlive /\ SameCalling /\ stop'
<1>1. /\ UNCHANGED <<tasks, queue, busy, worker, submitter>>
      /\ stop' = TRUE /\ janitor'.task = 0
  BY DEF Shutdown, NoTask
<1>2. \A t \in 1..Len(tasks) : Held(t)' => Held(t)
  BY <1>1, TaskIds DEF Held, Submitted, Waits, Works, Drains, Locked
<1> QED
  BY <1>1, <1>2 DEF NoMoreKeys, SameAlive, Alive, SameCalling

-----------------------------------------------------------------------------
(* Numbers and sums, whatever the scheduler does: what the modules need that *)
(* are proved from this one.                                                 *)
(* A set of numbers has a least one.                                         *)
LEMMA NumbersHaveLeast ==
  ASSUME NEW S \in SUBSET Nat, S # {}
  PROVE  \E x \in S : \A y \in S : x <= y
<1> DEFINE W == {0..s : s \in S}
<1>1. W \in SUBSET FiniteSubsetsOf(Nat) /\ W # {}
  <2>1. ASSUME NEW s \in S PROVE 0..s \in FiniteSubsetsOf(Nat)
    <3>1. 0..s \subseteq Nat /\ s \in Int OBVIOUS
    <3> QED BY <3>1, FS_Interval DEF FiniteSubsetsOf
  <2> QED BY <2>1
<1>2. PICK x \in W : \A y \in W : <<y, x>> \notin StrictSubsetOrdering(Nat)
  <2> HIDE DEF W
  <2> QED BY <1>1, FS_StrictSubsetOrderingWellFounded, WFMin
<1>3. PICK least \in S : x = 0..least BY <1>2
<1>4. ASSUME NEW y \in S, y < least PROVE FALSE
  <2>1. 0..y \in SUBSET Nat /\ 0..least \in SUBSET Nat /\ 0..y \subseteq 0..least BY <1>4
  <2>2. least \in 0..least /\ least \notin 0..y BY <1>4
  <2>3. <<0..y, 0..least>> \in StrictSubsetOrdering(Nat) BY <2>1, <2>2 DEF StrictSubsetOrdering
  <2> QED BY <1>2, <1>3, <2>3
<1>5. \A y \in S : y \in Int OBVIOUS
<1> QED BY <1>4, <1>5

(* Sums over a finite set, taken off one element after the other. *)

AddsUp(s, f, S) ==
  s = [W \in SUBSET S |-> IF W = {} THEN 0
                          ELSE f[CHOOSE x \in W : TRUE] + s[W \ {CHOOSE x \in W : TRUE}]]

LEMMA SumIsDefined ==
  ASSUME NEW S, IsFiniteSet(S), NEW f
  PROVE  \E s : AddsUp(s, f, S)
<1> DEFINE first(W) == CHOOSE x \in W : TRUE
    Level(n) == {W \in SUBSET S : Cardinality(W) <= n}
    Adds(s, W) == IF W = {} THEN 0 ELSE f[first(W)] + s[W \ {first(W)}]
    Missing == {n \in Nat : ~ \E s : s = [W \in Level(n) |-> Adds(s, W)]}
<1>1. \A W \in SUBSET S : /\ IsFiniteSet(W) /\ Cardinality(W) \in Nat
                          /\ Cardinality(W) = 0 <=> W = {}
                          /\ W # {} => /\ first(W) \in W /\ W \ {first(W)} \in SUBSET S
                                       /\ Cardinality(W \ {first(W)}) = Cardinality(W) - 1
  <2> SUFFICES ASSUME NEW W \in SUBSET S
               PROVE  /\ IsFiniteSet(W) /\ Cardinality(W) \in Nat
                      /\ Cardinality(W) = 0 <=> W = {}
                      /\ W # {} => /\ first(W) \in W /\ W \ {first(W)} \in SUBSET S
                                   /\ Cardinality(W \ {first(W)}) = Cardinality(W) - 1 OBVIOUS
  <2>1. IsFiniteSet(W) /\ Cardinality(W) \in Nat BY FS_Subset, FS_CardinalityType
  <2>2. Cardinality(W) = 0 <=> W = {} BY <2>1, FS_EmptySet
  <2>3. W # {} => first(W) \in W OBVIOUS
  <2> HIDE DEF first
  <2>4. W # {} => Cardinality(W \ {first(W)}) = Cardinality(W) - 1 BY <2>1, <2>3, FS_RemoveElement
  <2> QED BY <2>1, <2>2, <2>3, <2>4
<1> HIDE DEF first
<1>2. Missing = {}
  <2> SUFFICES ASSUME Missing # {} PROVE FALSE OBVIOUS
  <2>1. PICK n \in Missing : \A m \in Missing : n <= m
    <3>1. Missing \in SUBSET Nat OBVIOUS
    <3> HIDE DEF Missing
    <3> QED BY <3>1, NumbersHaveLeast
  <2>2. n \in Nat OBVIOUS
  <2>3. CASE n = 0
    <3> DEFINE g == [W \in Level(n) |-> 0]
    <3>1. \A W \in Level(n) : W = {}
      <4> SUFFICES ASSUME NEW W \in Level(n) PROVE W = {} OBVIOUS
      <4>1. W \in SUBSET S /\ Cardinality(W) <= 0 BY <2>3
      <4>2. Cardinality(W) \in Nat /\ (Cardinality(W) = 0 => W = {}) BY <1>1, <4>1
      <4> QED BY <4>1, <4>2
    <3>2. g = [W \in Level(n) |-> Adds(g, W)] BY <3>1
    <3> QED BY <3>2
  <2>4. CASE n # 0
    <3>1. n - 1 \in Nat /\ n - 1 \notin Missing
      <4> HIDE DEF Missing
      <4> QED BY <2>1, <2>2, <2>4
    <3>2. PICK s : s = [W \in Level(n - 1) |-> Adds(s, W)] BY <3>1
    <3> DEFINE g == [W \in Level(n) |-> Adds(s, W)]
    <3>3. ASSUME NEW W \in Level(n), W # {} PROVE g[W \ {first(W)}] = s[W \ {first(W)}]
      <4> DEFINE rest == W \ {first(W)}
      <4>1. rest \in Level(n - 1) /\ rest \in Level(n) BY <1>1, <2>2, <3>3
      <4>2. s[rest] = Adds(s, rest) /\ g[rest] = Adds(s, rest)
        <5> HIDE DEF rest, Adds, Level
        <5> QED BY <3>2, <4>1
      <4> QED BY <4>2
    <3>4. \A W \in Level(n) : Adds(s, W) = Adds(g, W)
      <4> HIDE DEF g, Level
      <4> QED BY <3>3
    <3>5. g = [W \in Level(n) |-> Adds(g, W)]
      <4> DEFINE h == [W \in Level(n) |-> Adds(g, W)]
      <4>1. \A W \in Level(n) : g[W] = h[W] BY <3>4
      <4> QED BY <4>1
    <3> QED BY <3>5
  <2> QED BY <2>3, <2>4
<1>3. Cardinality(S) \in Nat BY <1>1
<1>4. \E s : s = [W \in Level(Cardinality(S)) |-> Adds(s, W)] BY <1>2, <1>3
<1>5. Level(Cardinality(S)) = SUBSET S BY FS_Subset
<1> QED BY <1>4, <1>5 DEF first, AddsUp

(* What holds of the empty set, and of a set when it holds without the
   element that is taken off, holds of every subset. *)
LEMMA EverySubset ==
  ASSUME NEW S, IsFiniteSet(S), NEW Good, {} \in Good,
         \A W \in SUBSET S : W # {} /\ W \ {CHOOSE x \in W : TRUE} \in Good => W \in Good
  PROVE  \A W \in SUBSET S : W \in Good
<1> DEFINE Bad == {W \in SUBSET S : W \notin Good}
<1> SUFFICES ASSUME Bad # {} PROVE FALSE OBVIOUS
<1>1. Bad \in SUBSET FiniteSubsetsOf(S) BY FS_Subset DEF FiniteSubsetsOf
<1>2. PICK W \in Bad : \A U \in Bad : <<U, W>> \notin StrictSubsetOrdering(S)
  <2> HIDE DEF Bad
  <2> QED BY <1>1, FS_StrictSubsetOrderingWellFounded, WFMin
<1> DEFINE x == CHOOSE x \in W : TRUE
<1>3. W \in SUBSET S /\ W \notin Good /\ W # {} OBVIOUS
<1>4. x \in W BY <1>3
<1>5. W \ {x} \notin Good BY <1>3
<1> HIDE DEF x
<1>6. W \ {x} \in Bad /\ <<W \ {x}, W>> \in StrictSubsetOrdering(S) BY <1>3, <1>4, <1>5 DEF StrictSubsetOrdering
<1> QED BY <1>2, <1>6

(* A sum of numbers is one of any element and the sum of the others. *)
LEMMA AnyTakesOff ==
  ASSUME NEW S, IsFiniteSet(S), NEW f \in [S -> Int], NEW s, AddsUp(s, f, S)
  PROVE  \A W \in SUBSET S : s[W] \in Int /\ \A x \in W : s[W] = f[x] + s[W \ {x}]
<1> DEFINE Good(W) == s[W] \in Int /\ \A x \in W : s[W] = f[x] + s[W \ {x}]
    Bad == {W \in SUBSET S : ~Good(W)}
<1> SUFFICES ASSUME Bad # {} PROVE FALSE OBVIOUS
<1>1. Bad \in SUBSET FiniteSubsetsOf(S) BY FS_Subset DEF FiniteSubsetsOf
<1>2. PICK W \in Bad : \A U \in Bad : <<U, W>> \notin StrictSubsetOrdering(S)
  <2> HIDE DEF Bad
  <2> QED BY <1>1, FS_StrictSubsetOrderingWellFounded, WFMin
<1>3. W \in SUBSET S /\ ~Good(W) OBVIOUS
<1>4. ASSUME NEW U \in SUBSET W, U # W PROVE Good(U)
  <2>1. U \in SUBSET S /\ <<U, W>> \in StrictSubsetOrdering(S) BY <1>3, <1>4 DEF StrictSubsetOrdering
  <2>2. U \notin Bad BY <1>2, <2>1
  <2> QED BY <2>1, <2>2
<1> DEFINE c == CHOOSE x \in W : TRUE
<1>5. CASE W = {}
  <2>1. s[W] = 0 BY <1>5 DEF AddsUp
  <2> QED BY <1>3, <1>5, <2>1
<1>6. CASE W # {}
  <2>1. s[W] = f[c] + s[W \ {c}] BY <1>3, <1>6 DEF AddsUp
  <2>2. c \in W /\ c \in S /\ f[c] \in Int BY <1>3, <1>6
  <2> HIDE DEF c, Good
  <2>3. Good(W \ {c}) BY <1>4, <2>2
  <2>4. s[W \ {c}] \in Int BY <2>3 DEF Good
  <2>5. ASSUME NEW x \in W, x # c PROVE s[W] = f[x] + s[W \ {x}]
    <3>1. (W \ {c}) \ {x} = (W \ {x}) \ {c} OBVIOUS
    <3>2. s[W \ {c}] = f[x] + s[(W \ {c}) \ {x}] BY <2>3, <2>5 DEF Good
    <3>3. Good(W \ {x}) /\ Good((W \ {x}) \ {c}) BY <1>4
    <3>4. s[W \ {x}] = f[c] + s[(W \ {x}) \ {c}] /\ s[(W \ {x}) \ {c}] \in Int BY <2>2, <2>5, <3>3 DEF Good
    <3>5. f[x] \in Int BY <1>3
    <3> DEFINE rest == s[(W \ {x}) \ {c}]
    <3>6. s[W \ {c}] = f[x] + rest BY <3>1, <3>2
    <3>7. s[W \ {x}] = f[c] + rest /\ rest \in Int BY <3>4
    <3> HIDE DEF rest
    <3> QED BY <2>1, <2>2, <3>5, <3>6, <3>7
  <2>6. s[W] \in Int BY <2>1, <2>2, <2>4
  <2>7. Good(W) BY <2>1, <2>5, <2>6 DEF Good
  <2> QED BY <1>3, <2>7
<1> QED BY <1>5, <1>6
=============================================================================
