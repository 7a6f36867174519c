---------------------------- MODULE MCServices ----------------------------
(***************************************************************************)
(* Safety of the parts that work in one server process beside the delivery *)
(* of instructions: the position rules, the scheduler of background tasks, *)
(* the engine manager, orders that wait for a confirmation, and the        *)
(* backtests with their data.                                              *)
(*                                                                         *)
(* They share no state here, so a behaviour lets one of them move, the one *)
(* in `focus`, and the others stay as they begin: the instances lie side   *)
(* by side and are not multiplied.                                         *)
(***************************************************************************)
EXTENDS Services, MCPositionLife, ReplayCases, TLC

VARIABLE focus

(* What the configuration gives: two task keys, one of them retried once, with
   rows and a crash; one user with one trading account, whose engine may be
   evicted and made again, over one worker; two waiting orders, a failing
   statement and a restart while there is only one; an instruction the EA may
   deal, refuse or drop; two events, one dispatcher and two batches abandoned;
   two data sets of two chunks, one answer too late and
   one crash; a batch of two backtests and one of one, two restarts and a
   failing statement; two searches likewise; a replay of four minutes of bars or
   of ticks, at two costs and two sets of rules, and pivots of bars of two
   minutes from the fourth minute on. *)
JobKeys == {<<"a", 0>>, <<"b", 0>>}
JobRetries == [k \in JobKeys |-> IF k[1] = "a" THEN 1 ELSE 0]
TestBatch == [t \in {"t1", "t2", "t3"} |-> IF t = "t3" THEN 2 ELSE 1]

Symmetry == Permutations(Workers)

Parts == {"life", "tasks", "manager", "pending", "delivery", "events",
          "upload", "tests", "alphas", "replay", "pivots"}

AllInit ==
    /\ focus \in Parts
    /\ LifeInit /\ (focus # "life" => scn = CHOOSE s \in Scenarios : TRUE)
    /\ Jobs!Init /\ Manager!Init /\ Pending!Init /\ Delivery!Init
    /\ Events!Init /\ Upload!Init /\ Tests!Init /\ Alphas!Init
    /\ ReplayInit /\ (focus # "replay" => mode = "bars" /\ cfg = CHOOSE c \in SmallCfgs : TRUE)
    /\ Pivots!Init

LifeStep == /\ focus = "life" /\ LifeNext
            /\ UNCHANGED <<focus, taskVars, engineVars, pendingVars, deliveryVars, eventVars, uploadVars, testVars,
                          alphaVars, replayVars, pivotVars>>
TaskStep == /\ focus = "tasks" /\ Jobs!Next
            /\ UNCHANGED <<focus, lifeVars, engineVars, pendingVars, deliveryVars, eventVars, uploadVars, testVars,
                          alphaVars, replayVars, pivotVars>>
ManagerStep == /\ focus = "manager" /\ Manager!Next
               /\ UNCHANGED <<focus, lifeVars, taskVars, pendingVars, deliveryVars, eventVars, uploadVars, testVars,
                             alphaVars, replayVars, pivotVars>>
PendingStep == /\ focus = "pending" /\ Pending!Next
               /\ (faults' = 1 /\ restarts' = 0) \/ object'["o2"] = "unborn"
               /\ UNCHANGED <<focus, lifeVars, taskVars, engineVars, deliveryVars, eventVars, uploadVars,
                             testVars, alphaVars, replayVars, pivotVars>>
DeliveryStep == /\ focus = "delivery" /\ Delivery!Next
                /\ UNCHANGED <<focus, lifeVars, taskVars, engineVars, pendingVars, eventVars, uploadVars,
                              testVars, alphaVars, replayVars, pivotVars>>
EventStep == /\ focus = "events" /\ Events!Next
             /\ UNCHANGED <<focus, lifeVars, taskVars, engineVars, pendingVars, deliveryVars, uploadVars,
                           testVars, alphaVars, replayVars, pivotVars>>
UploadStep == /\ focus = "upload" /\ Upload!Next
              /\ UNCHANGED <<focus, lifeVars, taskVars, engineVars, pendingVars, deliveryVars, eventVars, testVars,
                            alphaVars, replayVars, pivotVars>>
TestStep == /\ focus = "tests" /\ Tests!Next
            /\ UNCHANGED <<focus, lifeVars, taskVars, engineVars, pendingVars, deliveryVars, eventVars, uploadVars,
                          alphaVars, replayVars, pivotVars>>
AlphaStep == /\ focus = "alphas" /\ Alphas!Next
             /\ UNCHANGED <<focus, lifeVars, taskVars, engineVars, pendingVars, deliveryVars, eventVars, uploadVars,
                           testVars, replayVars, pivotVars>>
ReplayStep == /\ focus = "replay" /\ ReplayNext
              /\ UNCHANGED <<focus, lifeVars, taskVars, engineVars, pendingVars, deliveryVars, eventVars, uploadVars,
                            testVars, alphaVars, pivotVars>>
PivotStep == /\ focus = "pivots" /\ Pivots!Next
             /\ UNCHANGED <<focus, lifeVars, taskVars, engineVars, pendingVars, deliveryVars, eventVars, uploadVars,
                           testVars, alphaVars, replayVars>>

AllNext == \/ LifeStep \/ TaskStep \/ ManagerStep \/ PendingStep \/ DeliveryStep \/ EventStep
           \/ UploadStep \/ TestStep \/ AlphaStep \/ ReplayStep \/ PivotStep

AllSpec == AllInit /\ [][AllNext]_<<focus, lifeVars, taskVars, engineVars, pendingVars,
                                    deliveryVars, eventVars, uploadVars, testVars, alphaVars, replayVars, pivotVars>>

============================================================================
