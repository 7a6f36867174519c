----------------------------- MODULE MCEndings -----------------------------
(***************************************************************************)
(* What must end: the parts of the system that work on something until it  *)
(* is finished, each on its smallest instance that can be late, lost or    *)
(* refused.  They share no state here, so a behaviour lets one of them     *)
(* move, the one in `focus`, and the others stay as they begin: the        *)
(* instances lie side by side and are not multiplied.  Each property       *)
(* assumes the fairness its own component states.                          *)
(***************************************************************************)
EXTENDS Outbox, TLC

CONSTANTS Nothing   \* no receipt in hand

VARIABLES focus

VARIABLES used, mem, row, cooling, report, posts, srvPc, srvJob, settled, handed,
          inbox, eaPc, eaJob, gv, deals
deliveryVars == <<used, mem, row, cooling, report, posts, srvPc, srvJob, settled, handed,
                  inbox, eaPc, eaJob, gv, deals>>

VARIABLES stopRow, queued, stopCooling, managed, view, listed, stopReport, stopPosts,
          stopPc, srvStop, stopInbox, sent, broker, open, reached, stopAsked
stopVars == <<stopRow, queued, stopCooling, managed, view, listed, stopReport, stopPosts,
              stopPc, srvStop, stopInbox, sent, broker, open, reached, stopAsked>>

VARIABLES plan, claimRows, orders, evaluator, matcher, sweep, pub, restarts
claimVars == <<plan, claimRows, orders, evaluator, matcher, sweep, pub, restarts>>

VARIABLES tasks, queue, busy, worker, submitter, stop, janitor, stops
taskVars == <<tasks, queue, busy, worker, submitter, stop, janitor, stops>>

VARIABLES book, object, orderRow, past, issued, decision, told, asked, thread,
          cleaner, live, faults, renewed
pendingVars == <<book, object, orderRow, past, issued, decision, told, asked, thread,
                 cleaner, live, faults, renewed>>

VARIABLES sets, ea, chunks, uploader, losses, uploadCrashes
uploadVars == <<sets, ea, chunks, uploader, losses, uploadCrashes>>

VARIABLES testRows, testBatch, tester, halted, errors
testVars == <<testRows, testBatch, tester, halted, errors>>

VARIABLES runs, user, searcher, halts, slips
alphaVars == <<runs, user, searcher, halts, slips>>

VARIABLES published, newest, round, event, publisher, writer, events
planVars == <<published, newest, round, event, publisher, writer, events>>

VARIABLES supplier, policy, quiet, cached, ask, met
sourceVars == <<supplier, policy, quiet, cached, ask, met>>

VARIABLES clock, table, memory, ready, source, ea2, slow, renews, moves
barVars == <<clock, table, memory, ready, source, ea2, slow, renews, moves>>

(* An instruction the EA may deal, refuse or drop without a receipt, which  *)
(* it posts twice; the terminal may die between deal and record.            *)
Delivery == INSTANCE InstructionDelivery WITH
    Instr <- {"i1"}, Droppable <- {"i1"}, MaxAttempts <- 2, PostTries <- 2,
    DealCrash <- TRUE, HandlerCrash <- FALSE, NoJob <- Nothing

(* One tightening of the stop, over losses, refusals and restarts.          *)
Stops == INSTANCE StopUpdate WITH
    Top <- 2, Transient <- TRUE, Lossy <- TRUE, Ratchet <- FALSE,
    row <- stopRow, cooling <- stopCooling, report <- stopReport, posts <- stopPosts,
    srvPc <- stopPc, inbox <- stopInbox, asked <- stopAsked

(* Two threads for one plan, statements that fail, a publisher.             *)
Claims == INSTANCE PlanClaim WITH
    Plan <- {"p1"}, Worker <- {"w1", "w2"}, Grouped <- FALSE, Supersession <- TRUE,
    LateSweep <- FALSE, FailingWrites <- TRUE, MaxOrders <- 1, MaxRestarts <- 0,
    rows <- claimRows, worker <- evaluator

(* Two keys, one of them retried once, two workers; no crash and no rows.   *)
Keys == {<<"a", 0>>, <<"b", 0>>}
Jobs == INSTANCE TaskScheduler WITH
    Workers <- {"w1", "w2"}, Retries <- [k \in Keys |-> IF k[1] = "a" THEN 1 ELSE 0],
    HasStorage <- FALSE, MaxTasks <- 2, MaxCrashes <- 0, crashes <- stops

(* One order that waits for a confirmation, one failing statement.          *)
Pending == INSTANCE PendingOrders WITH
    Orders <- {"o1"}, MaxFaults <- 1, MaxRestarts <- 0,
    row <- orderRow, restarts <- renewed

(* One family of plans and one thread that pauses and resumes them.         *)
Plans == INSTANCE PlanRows WITH
    Families <- {"f"}, Writers <- {"w1"}, MaxEvents <- 6, MaxCycles <- 2,
    plan <- published

(* Two data sets of two chunks and one answer too late; a copy of an        *)
(* unfinished one may stand in the way.                                     *)
Upload == INSTANCE DatasetUpload WITH
    Chunks <- 2, Got <- {"bars"}, MaxSets <- 2, MaxLost <- 1, MaxCrashes <- 0, RetryLimit <- 2,
    posts <- chunks, handler <- uploader, lost <- losses, crashes <- uploadCrashes

(* A batch of two backtests, two restarts, a failing statement.             *)
Tests == INSTANCE BacktestTasks WITH
    Batches <- {1}, Tasks <- {"t1", "t2"}, BatchOf <- [t \in {"t1", "t2"} |-> 1],
    MaxRestarts <- 2, MaxFaults <- 1, rows <- testRows, batch <- testBatch,
    worker <- tester, stops <- halted

(* Two factor searches, two restarts, a failing statement.                  *)
Alphas == INSTANCE AlphaRuns WITH Runs <- 1..2, MaxRestarts <- 2, MaxFaults <- 1

(* Two accounts of one broker, one of which may go quiet for ever.          *)
Source == INSTANCE MarketSource WITH
    Accounts <- {"a1", "a2"}, BrokerOf <- [a \in {"a1", "a2"} |-> 1],
    Caches <- {"c1"}, MaxAsking <- 2, None <- "none", source <- supplier

(* One terminal and three bars, of which the retention leaves one.          *)
Bars == INSTANCE KlineSync WITH
    Terminals <- {"t1"}, FullCount <- 2, Batch <- 1, Keep <- 3, Horizon <- 1,
    MaxBars <- 3, MaxFaults <- 1, MaxRestarts <- 1, MaxMoves <- 1,
    ea <- ea2, faults <- slow, restarts <- renews

Parts == {"source", "bars", "upload", "tests", "alphas", "outbox", "delivery", "stops", "claims", "tasks", "pending", "plans"}

AllInit ==
    /\ focus \in Parts
    /\ Init /\ Delivery!Init /\ Stops!Init /\ Claims!Init
    /\ Jobs!Init /\ Pending!Init /\ Plans!Init
    /\ Upload!Init /\ Tests!Init /\ Alphas!Init /\ Source!Init /\ Bars!Init
    /\ focus # "bars" => source = "t1"

OutboxStep == /\ focus = "outbox" /\ Next
              /\ UNCHANGED <<focus, deliveryVars, stopVars, claimVars, taskVars,
                            pendingVars, planVars, uploadVars, testVars, alphaVars, sourceVars, barVars>>
DeliveryStep == /\ focus = "delivery" /\ Delivery!Next
                /\ UNCHANGED <<focus, vars, stopVars, claimVars, taskVars,
                              pendingVars, planVars, uploadVars, testVars, alphaVars, sourceVars, barVars>>
StopStep == /\ focus = "stops" /\ Stops!Next
            /\ UNCHANGED <<focus, vars, deliveryVars, claimVars, taskVars,
                          pendingVars, planVars, uploadVars, testVars, alphaVars, sourceVars, barVars>>
ClaimStep == /\ focus = "claims" /\ Claims!Next
             /\ UNCHANGED <<focus, vars, deliveryVars, stopVars, taskVars,
                           pendingVars, planVars, uploadVars, testVars, alphaVars, sourceVars, barVars>>
TaskStep == /\ focus = "tasks" /\ Jobs!Next
            /\ UNCHANGED <<focus, vars, deliveryVars, stopVars, claimVars,
                          pendingVars, planVars, uploadVars, testVars, alphaVars, sourceVars, barVars>>
PendingStep == /\ focus = "pending" /\ Pending!Next
               /\ UNCHANGED <<focus, vars, deliveryVars, stopVars, claimVars,
                             taskVars, planVars, uploadVars, testVars, alphaVars, sourceVars, barVars>>
PlanStep == /\ focus = "plans" /\ Plans!Next
            /\ UNCHANGED <<focus, vars, deliveryVars, stopVars, claimVars,
                          taskVars, pendingVars, uploadVars, testVars, alphaVars, sourceVars, barVars>>
UploadStep == /\ focus = "upload" /\ Upload!Next
              /\ UNCHANGED <<focus, vars, deliveryVars, stopVars, claimVars,
                            taskVars, pendingVars, planVars, testVars, alphaVars, sourceVars, barVars>>
TestStep == /\ focus = "tests" /\ Tests!Next
            /\ UNCHANGED <<focus, vars, deliveryVars, stopVars, claimVars,
                          taskVars, pendingVars, planVars, uploadVars, alphaVars, sourceVars, barVars>>
AlphaStep == /\ focus = "alphas" /\ Alphas!Next
             /\ UNCHANGED <<focus, vars, deliveryVars, stopVars, claimVars,
                           taskVars, pendingVars, planVars, uploadVars, testVars, sourceVars, barVars>>

SourceStep == /\ focus = "source" /\ Source!Next
              /\ UNCHANGED <<focus, vars, deliveryVars, stopVars, claimVars, taskVars, barVars,
                            pendingVars, planVars, uploadVars, testVars, alphaVars>>
BarStep == /\ focus = "bars" /\ Bars!Next
           /\ UNCHANGED <<focus, vars, deliveryVars, stopVars, claimVars, taskVars, sourceVars,
                         pendingVars, planVars, uploadVars, testVars, alphaVars>>

AllNext == \/ SourceStep \/ BarStep
           \/ OutboxStep \/ DeliveryStep \/ StopStep \/ ClaimStep \/ TaskStep
           \/ PendingStep \/ PlanStep \/ UploadStep \/ TestStep \/ AlphaStep

AllSpec == AllInit /\ [][AllNext]_<<focus, vars, deliveryVars, stopVars, claimVars, taskVars,
                                    pendingVars, planVars, uploadVars, testVars, alphaVars,
                                    sourceVars, barVars>>

----------------------------------------------------------------------------

(* What was handed to the EA is answered: an instruction does not stay in
   delivery for ever, and a delivered stop update is settled, or replaced, or
   its position is closed, over any losses and refusals that end. *)
CommandsEnd ==
    /\ focus = "delivery" /\ Delivery!Fairness => Delivery!DeliveryEnds
    /\ focus = "stops" /\ Stops!Fairness => Stops!UpdateIsAnswered

(* A plan goes on: a claimed one is ordered, recorded or released by its
   thread, whichever statement fails, and one that was paused for an event
   window does not stay paused after it. *)
PlansGoOn ==
    /\ focus = "claims" /\ Claims!Fairness => Claims!ClaimsResolve
    /\ focus = "plans" /\ Plans!Fairness => Plans!PauseEnds

(* Work ends: a queued task, without a shutdown or a crash, though its attempts
   fail; an order to be confirmed leaves the table, whatever the user does; a
   data set is complete or failed though answers come too late; a backtest and
   a factor search end over any restarts. *)
WorkEnds ==
    /\ focus = "tasks" /\ Jobs!Fairness => Jobs!TasksEnd
    /\ focus = "pending" /\ Pending!Fairness => Pending!OrdersLeave
    /\ focus = "upload" /\ Upload!Fairness => Upload!UploadEnds
    /\ focus = "tests" /\ Tests!Fairness => Tests!RunsEnd
    /\ focus = "alphas" /\ Alphas!Fairness => Alphas!RunsEnd

(* The market data goes on: a source that stays quiet is replaced and the
   replaced one is told, and a closed bar is stored though a request, a
   statement or an answer is lost and the server or a terminal restarts. *)
MarketFlows ==
    /\ focus = "source" /\ Source!Fairness => Source!FailsOver /\ Source!RolesSettle
    /\ focus = "bars" /\ Bars!Fairness => Bars!BarsArrive

(* Events that are written arrive (Outbox), with a dispatcher that runs.   *)
PendingArrives == focus = "outbox" /\ Fairness => EventsArrive

============================================================================
