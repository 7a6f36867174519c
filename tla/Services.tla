------------------------------ MODULE Services ------------------------------
(***************************************************************************)
(* The parts that work in one server process and share no state: the       *)
(* positions of the paper account under their rules (PositionLife), the    *)
(* scheduler of background tasks (TaskScheduler), the manager of engines   *)
(* with a scheduler of its own (Engines), the orders that wait for a       *)
(* confirmation (PendingOrders) and become instructions                    *)
(* (InstructionDelivery), the events of the outbox (Outbox), and the       *)
(* backtesting side: data sets (DatasetUpload), backtests (BacktestTasks), *)
(* the replay of one (BacktestReplay) with its pivots (ReplayPivots), and   *)
(* searches (AlphaRuns).                                                   *)
(*                                                                         *)
(* Each keeps to its own specification, and all of them do: ServicesSpec.  *)
(***************************************************************************)
EXTENDS PositionLife, BacktestReplay

CONSTANTS TaskKeys, Workers, TaskRetries, HasStorage, MaxTasks, MaxCrashes
VARIABLES tasks, queue, busy, worker, submitter, stop, janitor, crashes
taskVars == <<tasks, queue, busy, worker, submitter, stop, janitor, crashes>>
Jobs == INSTANCE TaskScheduler WITH Keys <- TaskKeys, Retries <- TaskRetries

CONSTANTS Accounts, Requests, Callers, MaxEngineTasks, MaxEngines
VARIABLES engineTasks, engineQueue, engineBusy, engineWorker, engineSubmitter, engineStop,
          engineJanitor, engineCrashes, inst, table, request, tick, callback, closing
engineVars == <<engineTasks, engineQueue, engineBusy, engineWorker, engineSubmitter,
                engineStop, engineJanitor, engineCrashes, inst, table, request, tick,
                callback, closing>>
Manager == INSTANCE Engines WITH
    Workers <- Callers, MaxTasks <- MaxEngineTasks,
    tasks <- engineTasks, queue <- engineQueue, busy <- engineBusy, worker <- engineWorker,
    submitter <- engineSubmitter, stop <- engineStop, janitor <- engineJanitor,
    crashes <- engineCrashes

CONSTANTS Orders, OrderFaults, OrderRestarts
VARIABLES book, object, orderRow, past, issued, decision, told, asked, thread,
          cleaner, live, faults, restarts
pendingVars == <<book, object, orderRow, past, issued, decision, told, asked, thread,
                 cleaner, live, faults, restarts>>
Pending == INSTANCE PendingOrders WITH
    MaxFaults <- OrderFaults, MaxRestarts <- OrderRestarts, row <- orderRow

CONSTANTS Instr, Droppable, MaxAttempts, PostTries, DealCrash, HandlerCrash, NoJob
VARIABLES used, mem, instrRow, cooling, report, receipts, srvPc, srvJob, settled, handed,
          inbox, eaPc, eaJob, gv, deals
deliveryVars == <<used, mem, instrRow, cooling, report, receipts, srvPc, srvJob, settled,
                  handed, inbox, eaPc, eaJob, gv, deals>>
Delivery == INSTANCE InstructionDelivery WITH row <- instrRow, posts <- receipts

CONSTANTS Event, Dispatcher, MaxAbandoned, MaxHandled
VARIABLES eventStatus, stale, due, dispatching, fetched, reserved, handled, abandoned
eventVars == <<eventStatus, stale, due, dispatching, fetched, reserved, handled, abandoned>>
Events == INSTANCE Outbox WITH
    MaxCrashes <- MaxAbandoned, status <- eventStatus, pc <- dispatching, rows <- fetched,
    batch <- reserved, crashes <- abandoned

CONSTANTS Chunks, Got, MaxSets, MaxLost, UploadCrashes, RetryLimit
VARIABLES sets, ea, posts, handler, lost, uploadCrashes
uploadVars == <<sets, ea, posts, handler, lost, uploadCrashes>>
Upload == INSTANCE DatasetUpload WITH
    MaxCrashes <- UploadCrashes, crashes <- uploadCrashes

CONSTANTS Batches, Tasks, BatchOf, TestRestarts, TestFaults
VARIABLES testRows, batch, tester, stops, errors
testVars == <<testRows, batch, tester, stops, errors>>
Tests == INSTANCE BacktestTasks WITH
    MaxRestarts <- TestRestarts, MaxFaults <- TestFaults, rows <- testRows, worker <- tester

CONSTANTS Runs, RunRestarts, RunFaults
VARIABLES runs, user, searcher, halts, slips
alphaVars == <<runs, user, searcher, halts, slips>>
Alphas == INSTANCE AlphaRuns WITH MaxRestarts <- RunRestarts, MaxFaults <- RunFaults

CONSTANTS Highs, Period, Strength, TestStart, MaxSkip, MaxStream
VARIABLES minutes, pivotRows
pivotVars == <<minutes, pivotRows>>
Pivots == INSTANCE ReplayPivots WITH
    Start <- TestStart, MaxMinute <- MaxStream, seen <- minutes, pivots <- pivotRows

(* Keys of tasks are tuples with a kind; every job may be retried a number of
   times; an account's id is not that of the market engine, and who holds the
   lock of an analyzer can be told; an event is no stage of a dispatcher; there
   is a chunk to send and "none" is not one; the tasks of a batch are known when
   it is made; a bar has a length, and a pivot bars on either side. *)
ASSUME ServicesAssumption ==
    /\ <<>> \notin TaskKeys /\ TaskRetries \in [TaskKeys -> Nat] /\ IsFiniteSet(Workers)
    /\ MaxTasks \in Nat /\ MaxCrashes \in Nat
    /\ 0 \notin Accounts /\ MaxEngineTasks \in Nat /\ MaxEngines \in Nat
    /\ IsFiniteSet(Callers) /\ Callers \cap {"no", "manual"} = {}
    /\ OrderFaults \in Nat /\ OrderRestarts \in Nat
    /\ DealCrash \in BOOLEAN /\ HandlerCrash \in BOOLEAN
    /\ Droppable \subseteq Instr /\ NoJob \notin Delivery!Job
    /\ MaxAttempts \in Nat \ {0} /\ PostTries \in Nat \ {0}
    /\ IsFiniteSet(Dispatcher) /\ MaxAbandoned \in Nat /\ MaxHandled \in Nat
    /\ Event \cap {"idle", "read", "claim"} = {}
    /\ Chunks \in Nat \ {0} /\ "none" \notin Got
    /\ IsFiniteSet(Tasks) /\ BatchOf \in [Tasks -> Batches]
    /\ Period \in Nat \ {0} /\ Strength \in Nat \ {0} /\ TestStart \in Nat

ServicesSpec ==
    /\ LifeSpec /\ Jobs!Spec /\ Manager!Spec /\ Pending!Spec /\ Delivery!Spec
    /\ Events!Spec /\ Upload!Spec /\ Tests!Spec /\ Alphas!Spec
    /\ ReplaySpec /\ Pivots!Spec

----------------------------------------------------------------------------

(* A key is busy exactly while one task of it is between its submission and
   its release, and that task is in one place; it is tried no more often than
   its retries allow, and is not let go without a verdict.  An open engine is
   the one its manager hands out, or is about to be closed, an account's engine
   shares the stores of the present market engine, and a task submitted for an
   engine never finds it closed by an eviction.  The lock of an analyzer is held
   by exactly one of: a request before its submission, its task, a worker in a
   scheduled analysis. *)
OneOwner == /\ Jobs!OneTaskPerKey /\ Jobs!AttemptsBounded /\ Jobs!NothingForgotten
            /\ Manager!NoOrphans /\ Manager!TaskEngineOpen /\ Manager!LockHasOwner

(* An order becomes at most one instruction, whoever confirms it and however
   often the server restarts, and a traded order is not offered again. *)
OneInstruction == Pending!OneInstruction /\ Pending!TradedLeaves

(* While the server does not stop inside the receipt handler, the row of a
   settled instruction says what its receipt says. *)
SettledRowAgrees == ~HandlerCrash => Delivery!SettledRowAgrees

(* An event is published only after its handler has completed, for any number of
   dispatchers and any batch abandoned half way; one dispatcher, as it is
   deployed, calls the handler again only where a batch was abandoned between
   the handler and the mark: the case the handlers must be idempotent for. *)
EventsAreHandled == Events!PublishedWasHandled /\ Events!RepeatNeedsAbandon

(* A data set that is ready has every chunk of its range, a batch of backtests
   agrees with its tasks, whoever ended them, and a search is canceled only for
   someone who asked. *)
StudiesAgree == Upload!ReadyIsWhole /\ Tests!BatchAgrees /\ Alphas!CanceledOnRequest

(* The money of a replay is explained by its trades, every order of it is
   accounted for and the limits hold, in bars and in ticks; and the pivots the
   position rules see in it are those a later look confirms, and all of them. *)
ReplayIsSound == /\ LedgerAddsUp /\ OrdersAccounted
                 /\ Pivots!PivotsAreFinal /\ Pivots!PivotsAreFound

(* A verdict is given once: a late worker or the drainer does not change that
   of a task, what the user was told was rejected is never traded, a data set
   or a search that has ended is not begun again, a backtest that was told to
   stop does not end otherwise, and one dispatcher does not take a published
   event up again. *)
VerdictStays ==
    /\ Jobs!VerdictStays /\ Pending!RejectedStays
    /\ Upload!EndedStays /\ Alphas!EndedStays /\ Tests!CancelHolds /\ Events!PublishedIsFinal

============================================================================
