----------------------------- MODULE PlanClaim -----------------------------
(***************************************************************************)
(* How one deployment consumes the public structure plans.  Tick threads   *)
(* ("workers") race to claim a plan by writing its row of                  *)
(* structure_plan_executions, turn the claim into one order and record it; *)
(* the paper matcher settles orders and writes the outcome back to the     *)
(* row; a sweep cancels the orders that waited too long; the plan          *)
(* publisher supersedes plans while all this goes on.  Every statement     *)
(* of the store commits by itself, so each one is a step here              *)
(* (market/store/structure_plan_store.py).                                 *)
(*                                                                         *)
(* One account, one deployment, one stage; a plan has one direction, so    *)
(* the unique key (plan, stage, direction) is the plan.                    *)
(***************************************************************************)
EXTENDS Naturals, Sequences, FiniteSets

CONSTANTS
  Plan,          \* the plans one deployment may consume
  Worker,        \* the threads that evaluate ticks for it
  Grouped,       \* the plans are alternatives of one plan group
  Supersession,  \* the publisher replaces plans while ticks run
  LateSweep,     \* the sweep also runs outside the matching lock
  FailingWrites, \* a statement after the insert of the order may raise
  MaxOrders,     \* bound: orders ever created
  MaxRestarts    \* bound: restarts of the server

Stale == "stale"   \* a claim token whose holder is no longer at work

ASSUME PlanClaimAssumption ==
  /\ Stale \notin Worker
  /\ {Grouped, Supersession, LateSweep, FailingWrites} \subseteq BOOLEAN
  /\ MaxOrders \in Nat
  /\ MaxRestarts \in Nat

VARIABLES
  plan,      \* status column of structure_trade_plans
  rows,      \* structure_plan_executions, by plan
  orders,    \* paper_orders
  worker,    \* where each tick thread is in claim, order and record
  matcher,   \* process_account_tick: settled orders still to be reported
  sweep,     \* expire_stale_pending_orders
  pub,       \* supersede_plan
  restarts   \* restarts so far

vars == <<plan, rows, orders, worker, matcher, sweep, pub, restarts>>

NoRow == [status |-> "none"]
Failed == {"released", "rejected", "timeout", "canceled"}

OrderId == 1..Len(orders)
Pending == {o \in OrderId : orders[o].status = "pending"}

(* execution_id: the group, when the plan has one, else the plan itself. *)
SameClaim(p) == IF Grouped THEN Plan ELSE {p}
Holder(p) == {q \in SameClaim(p) : rows[q] # NoRow}
HeldByOther(p) == Holder(p) \ {p} # {}

Claimed(w) == [status |-> "claimed", token |-> w, order |-> 0]
Idle == [at |-> "idle"]

(* The upsert of record_execution: MySQL updates whichever row has the     *)
(* same execution id, and the payload with the claim token is replaced.    *)
Recorded(p, status, o) ==
  LET q == IF HeldByOther(p) THEN CHOOSE h \in Holder(p) : h # p ELSE p
  IN  [rows EXCEPT ![q] = [status |-> status, token |-> Stale, order |-> o]]

(* A claim token is random: once its thread is done no later thread can    *)
(* mistake it for its own.                                                 *)
Retire(table, w) ==
  [p \in Plan |->
     IF table[p] # NoRow /\ table[p].token = w
     THEN [table[p] EXCEPT !.token = Stale] ELSE table[p]]

Init ==
  /\ plan = [p \in Plan |-> "active"]
  /\ rows = [p \in Plan |-> NoRow]
  /\ orders = <<>>
  /\ worker = [w \in Worker |-> Idle]
  /\ matcher = Idle
  /\ sweep = Idle
  /\ pub = Idle
  /\ restarts = 0

----------------------------------------------------------------------------
(* claim_execution_result, statement by statement.                         *)

Goto(w, step) == worker' = [worker EXCEPT ![w].at = step]
Done(w, table) ==
  /\ worker' = [worker EXCEPT ![w] = Idle]
  /\ rows' = Retire(table, w)
ClaimFrame == UNCHANGED <<plan, matcher, sweep, pub, restarts>>

CheckPlan(w, p) ==
  /\ worker[w].at = "idle"
  /\ plan[p] = "active"
  /\ worker' = [worker EXCEPT ![w] = [at |-> "sibling", plan |-> p, order |-> 0]]
  /\ ClaimFrame /\ UNCHANGED <<rows, orders>>

(* claim_race when an alternative of the group owns the row, whatever that *)
(* row's status is.                                                        *)
ReadSibling(w) ==
  LET p == worker[w].plan IN
  /\ worker[w].at = "sibling"
  /\ IF HeldByOther(p)
     THEN Done(w, rows)
     ELSE /\ Goto(w, IF rows[p].status \in Failed THEN "reopen" ELSE "insert")
          /\ UNCHANGED rows
  /\ ClaimFrame /\ UNCHANGED orders

(* Mutant: the UPDATE reopens the row whatever its status is by now. *)
ReopenAny(w) ==
  /\ worker[w].at = "reopen"
  /\ rows' = [q \in Plan |-> IF q \in Holder(worker[w].plan) THEN Claimed(w) ELSE rows[q]]
  /\ Goto(w, "insert")
  /\ ClaimFrame /\ UNCHANGED orders

(* UPDATE ... WHERE execution_id=? AND status IN (failures). *)
Reopen(w) ==
  LET p == worker[w].plan IN
  /\ worker[w].at = "reopen"
  /\ rows' = [q \in Plan |->
                IF q \in Holder(p) /\ rows[q].status \in Failed
                THEN Claimed(w) ELSE rows[q]]
  /\ Goto(w, "insert")
  /\ ClaimFrame /\ UNCHANGED orders

(* Mutant: ON CONFLICT DO UPDATE takes a claim over. *)
InsertOver(w) ==
  LET p == worker[w].plan IN
  /\ worker[w].at = "insert"
  /\ rows' = IF Holder(p) = {} \/ rows[p].status = "claimed"
             THEN [rows EXCEPT ![p] = Claimed(w)] ELSE rows
  /\ Goto(w, "verify")
  /\ ClaimFrame /\ UNCHANGED orders

(* INSERT ... ON CONFLICT DO NOTHING. *)
InsertClaim(w) ==
  LET p == worker[w].plan IN
  /\ worker[w].at = "insert"
  /\ rows' = IF Holder(p) = {} THEN [rows EXCEPT ![p] = Claimed(w)] ELSE rows
  /\ Goto(w, "verify")
  /\ ClaimFrame /\ UNCHANGED orders

(* Mutant: a claimed row of this plan is taken for ours, token or not. *)
ClaimSeen(w) == rows[worker[w].plan].status = "claimed"

OwnsClaim(w) ==
  LET row == rows[worker[w].plan] IN row # NoRow /\ row.token = w

(* The row read back: ours when it carries our token, else claim_failed or *)
(* already_consumed.                                                       *)
Verify(w) ==
  /\ worker[w].at = "verify"
  /\ IF OwnsClaim(w) THEN Goto(w, "order") /\ UNCHANGED rows
                     ELSE Done(w, rows)
  /\ ClaimFrame /\ UNCHANGED orders

----------------------------------------------------------------------------
(* The order of a claim: created and recorded, or not created and the      *)
(* claim released.                                                         *)

CreateOrder(w) ==
  /\ worker[w].at = "order"
  /\ Len(orders) < MaxOrders
  /\ orders' = Append(orders, [plan |-> worker[w].plan, status |-> "pending"])
  /\ worker' = [worker EXCEPT ![w].at = "owner", ![w].order = Len(orders) + 1]
  /\ ClaimFrame /\ UNCHANGED rows

OrderFails(w) ==
  /\ worker[w].at = "order"
  /\ Goto(w, "release")
  /\ ClaimFrame /\ UNCHANGED <<rows, orders>>

(* The exception handler of create does not ask whether the order was      *)
(* inserted before a later statement raised.                               *)
RecordFails(w) ==
  /\ FailingWrites
  /\ worker[w].at \in {"owner", "record"}
  /\ Goto(w, "release")
  /\ ClaimFrame /\ UNCHANGED <<rows, orders>>

(* Mutant: the claim of an order that was not created is left behind. *)
ReleaseNothing(w) ==
  /\ worker[w].at = "release"
  /\ Done(w, rows)
  /\ ClaimFrame /\ UNCHANGED orders

(* DELETE ... WHERE status='claimed', by plan and not by token. *)
Release(w) ==
  LET p == worker[w].plan IN
  /\ worker[w].at = "release"
  /\ Done(w, IF rows[p].status = "claimed" THEN [rows EXCEPT ![p] = NoRow] ELSE rows)
  /\ ClaimFrame /\ UNCHANGED orders

(* record_execution("ordered"): the owner is read, then the row written. *)
ReadOwner(w) ==
  /\ worker[w].at = "owner"
  /\ IF HeldByOther(worker[w].plan) THEN Done(w, rows)
                                    ELSE Goto(w, "record") /\ UNCHANGED rows
  /\ ClaimFrame /\ UNCHANGED orders

RecordOrder(w) ==
  /\ worker[w].at = "record"
  /\ Done(w, Recorded(worker[w].plan, "ordered", worker[w].order))
  /\ ClaimFrame /\ UNCHANGED orders

----------------------------------------------------------------------------
(* process_tick, under the paper lock: one transaction settles orders, and *)
(* each settled order is reported after the commit.                        *)

LockFree(other) == LateSweep \/ other.at = "idle"
MatchFrame == UNCHANGED <<plan, worker, sweep, pub, restarts>>

Match ==
  /\ matcher.at = "idle" /\ LockFree(sweep)
  /\ Pending # {}
  /\ \E outcome \in [Pending -> {"filled", "rejected", "pending"}] :
       orders' = [o \in OrderId |->
                    IF o \in Pending THEN [orders[o] EXCEPT !.status = outcome[o]]
                                     ELSE orders[o]]
  /\ matcher' = [at |-> "report", todo |-> Pending, order |-> 0]
  /\ MatchFrame /\ UNCHANGED rows

(* Mutant: an order the tick left pending is reported like the others. *)
ReadAnyOutcome(o) ==
  /\ matcher.at = "report"
  /\ o \in matcher.todo
  /\ matcher' = IF HeldByOther(orders[o].plan)
                THEN [matcher EXCEPT !.todo = @ \ {o}]
                ELSE [at |-> "write", todo |-> matcher.todo \ {o}, order |-> o]
  /\ MatchFrame /\ UNCHANGED <<rows, orders>>

(* The outcome, which is final, and the row's owner are read; an order     *)
(* still pending or a row of another plan is skipped.                      *)
ReadOutcome(o) ==
  /\ matcher.at = "report"
  /\ o \in matcher.todo
  /\ matcher' =
       IF orders[o].status = "pending" \/ HeldByOther(orders[o].plan)
       THEN [matcher EXCEPT !.todo = @ \ {o}]
       ELSE [at |-> "write", todo |-> matcher.todo \ {o}, order |-> o]
  /\ MatchFrame /\ UNCHANGED <<rows, orders>>

ReportOutcome ==
  LET o == matcher.order IN
  /\ matcher.at = "write"
  /\ rows' = Recorded(orders[o].plan, orders[o].status, o)
  /\ matcher' = [matcher EXCEPT !.at = "report"]
  /\ MatchFrame /\ UNCHANGED orders

EndMatch ==
  /\ matcher.at = "report" /\ matcher.todo = {}
  /\ matcher' = Idle
  /\ MatchFrame /\ UNCHANGED <<rows, orders>>

----------------------------------------------------------------------------
(* expire_stale_pending_orders: under the lock at the end of process_tick, *)
(* and without it at the end of process_strategy_signals.                  *)

SweepFrame == UNCHANGED <<plan, worker, matcher, pub, restarts>>
NextSwept(todo) ==
  IF todo = {} THEN Idle ELSE [at |-> "cancel", todo |-> todo, order |-> 0]

SweepBegin ==
  /\ sweep.at = "idle" /\ LockFree(matcher)
  /\ \E old \in (SUBSET Pending) \ {{}} : sweep' = NextSwept(old)
  /\ SweepFrame /\ UNCHANGED <<rows, orders>>

(* UPDATE ... WHERE status='pending'; the code goes on whether or not the  *)
(* order still was.                                                        *)
SweepCancel(o) ==
  /\ sweep.at = "cancel"
  /\ o \in sweep.todo
  /\ orders' = IF o \in Pending THEN [orders EXCEPT ![o].status = "canceled"] ELSE orders
  /\ sweep' = [at |-> "owner", todo |-> sweep.todo \ {o}, order |-> o]
  /\ SweepFrame /\ UNCHANGED rows

SweepOwner ==
  /\ sweep.at = "owner"
  /\ sweep' = IF HeldByOther(orders[sweep.order].plan) THEN NextSwept(sweep.todo)
              ELSE [sweep EXCEPT !.at = "write"]
  /\ SweepFrame /\ UNCHANGED <<rows, orders>>

SweepReport ==
  LET o == sweep.order IN
  /\ sweep.at = "write"
  /\ rows' = Recorded(orders[o].plan, "timeout", o)
  /\ sweep' = NextSwept(sweep.todo)
  /\ SweepFrame /\ UNCHANGED orders

----------------------------------------------------------------------------
(* The publisher: supersede_plan in its statements, the upsert of           *)
(* replace_scope that publishes a plan again, and expiry or invalidation.  *)
(* The last statement of supersede_plan, which would release the claims,   *)
(* selects the account of the plan.  Plans are published with account 0    *)
(* (structure_plan_signal.py:2225, routes_structure_plans.py:132) and      *)
(* claims carry the account of a deployment: it changes no row.            *)

PubFrame == UNCHANGED <<orders, worker, matcher, sweep, restarts>>

SupersedePlan(p) ==
  /\ Supersession /\ pub.at = "idle"
  /\ plan[p] = "active"
  /\ plan' = [plan EXCEPT ![p] = "superseded"]
  /\ pub' = [at |-> "related", plan |-> p]
  /\ PubFrame /\ UNCHANGED rows

SupersedeRelated ==
  /\ pub.at = "related"
  /\ plan' = [q \in Plan |-> IF q \in SameClaim(pub.plan) /\ plan[q] = "active"
                           THEN "superseded" ELSE plan[q]]
  /\ pub' = Idle
  /\ PubFrame /\ UNCHANGED rows

Publish(p) ==
  /\ Supersession /\ pub.at = "idle"
  /\ plan' = [plan EXCEPT ![p] = "active"]
  /\ PubFrame /\ UNCHANGED <<rows, pub>>

Invalidate(p) ==
  /\ plan[p] = "active"
  /\ plan' = [plan EXCEPT ![p] = "invalidated"]
  /\ PubFrame /\ UNCHANGED <<rows, pub>>

(* The process ends: every thread is gone, the tables stay. *)
Restart ==
  /\ restarts < MaxRestarts
  /\ restarts' = restarts + 1
  /\ worker' = [w \in Worker |-> Idle]
  /\ rows' = [p \in Plan |-> IF rows[p] = NoRow THEN NoRow
                             ELSE [rows[p] EXCEPT !.token = Stale]]
  /\ matcher' = Idle /\ sweep' = Idle /\ pub' = Idle
  /\ UNCHANGED <<plan, orders>>

----------------------------------------------------------------------------
ClaimStep(w) ==
  \/ ReadSibling(w) \/ Reopen(w) \/ InsertClaim(w) \/ Verify(w)
OrderStep(w) ==
  \/ CreateOrder(w) \/ OrderFails(w) \/ RecordFails(w) \/ Release(w)
  \/ ReadOwner(w) \/ RecordOrder(w)
MatchStep ==
  \/ Match
  \/ \E o \in OrderId : ReadOutcome(o)
  \/ ReportOutcome
  \/ EndMatch
SweepStep ==
  \/ SweepBegin
  \/ \E o \in OrderId : SweepCancel(o)
  \/ SweepOwner
  \/ SweepReport
PubStep ==
  \/ \E p \in Plan : SupersedePlan(p) \/ Publish(p) \/ Invalidate(p)
  \/ SupersedeRelated

Next ==
  \/ \E w \in Worker : (\E p \in Plan : CheckPlan(w, p)) \/ ClaimStep(w) \/ OrderStep(w)
  \/ MatchStep
  \/ SweepStep
  \/ PubStep
  \/ Restart

Spec == Init /\ [][Next]_vars

(* A thread that started an evaluation goes on with it; nothing forces a   *)
(* quote to come, so CheckPlan, Match and SweepBegin are not fair.         *)
Fairness == \A w \in Worker : WF_vars(ClaimStep(w)) /\ WF_vars(OrderStep(w))
FairSpec == Spec /\ Fairness

----------------------------------------------------------------------------
(* What may be in the variables. *)
Row == [status : Failed \union {"claimed", "ordered", "filled"},
        token : Worker \union {Stale}, order : 0..MaxOrders]
TypeOK ==
  /\ plan \in [Plan -> {"active", "superseded", "invalidated"}]
  /\ rows \in [Plan -> Row \union {NoRow}]
  /\ orders \in Seq([plan : Plan,
                     status : {"pending", "filled", "rejected", "canceled"}])
  /\ Len(orders) <= MaxOrders
  /\ worker \in [Worker -> {Idle} \union
                 [at : {"sibling", "reopen", "insert", "verify", "order",
                        "release", "owner", "record"},
                  plan : Plan, order : 0..MaxOrders]]
  /\ matcher = Idle
     \/ matcher \in [at : {"report", "write"}, todo : SUBSET OrderId, order : 0..MaxOrders]
  /\ sweep = Idle
     \/ sweep \in [at : {"cancel", "owner", "write"}, todo : SUBSET OrderId,
                   order : 0..MaxOrders]
  /\ pub = Idle
     \/ pub \in [at : {"related"}, plan : Plan]
  /\ restarts \in 0..MaxRestarts

Alive(o) == orders[o].status \in {"pending", "filled"}

(* One execution identity is consumed by one order: at most one order that *)
(* is pending or filled exists for a plan or, when the plans are           *)
(* alternatives, for their group (README.md:144).                          *)
ConsumedOnce ==
  \A o1, o2 \in OrderId :
    Alive(o1) /\ Alive(o2) /\ orders[o2].plan \in SameClaim(orders[o1].plan) => o1 = o2

(* Two threads never hold the claim of one execution identity at once:     *)
(* from the moment the row is read back until the order is created or the   *)
(* claim given back.                                                       *)
Holding(w) == worker[w].at \in {"order", "release"}
OneHolder ==
  \A v, w \in Worker :
    Holding(v) /\ Holding(w) /\ worker[w].plan \in SameClaim(worker[v].plan) => v = w

(* A claim row that says filled tells of a fill that happened, and it is   *)
(* never turned into a status from which the plan can be claimed again.    *)
FilledNeverReopens ==
  [][\A p \in Plan : rows[p].status = "filled" =>
        rows'[p].status \notin Failed \union {"none", "claimed"}]_vars

(* A claim is not kept: it becomes an order or is given back.              *)
ClaimsResolve ==
  \A p \in Plan : rows[p].status = "claimed" ~> rows[p].status # "claimed"
=============================================================================
