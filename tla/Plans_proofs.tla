---------------------------- MODULE Plans_proofs ----------------------------
(***************************************************************************)
(* What is proved of the life of structure plans and of the decisions on   *)
(* entries (Plans).                                                        *)
(*                                                                         *)
(* Claims.  When the sweep keeps to the lock of the coordinator and every  *)
(* update of an order succeeds, a claim has one holder, a plan is consumed *)
(* by one order at most, and a plan that was filled never reopens, for any *)
(* plans, alone or two to a claim, tick threads, orders and restarts.      *)
(* The two conditions are those of the run, and they are needed: the       *)
(* run plan_claim_sweep shows a plan consumed twice by a sweep that writes *)
(* outside the lock.  The argument counts nothing.  Whoever is between a   *)
(* claim and its order holds the token that the row of the claim carries,  *)
(* and while it does, no order of the claim is active and nobody else can  *)
(* be handed the token; once an order is active the row says executed, or  *)
(* an open report will say it, and a claimed row never gives way to that.  *)
(*                                                                         *)
(* Entries.  EntriesAreBounded says four things of an account, each from an *)
(* invariant about the threads that are in the middle of a decision:       *)
(*                                                                         *)
(*   - the count of the day covers every order that was sent on it, and    *)
(*     exceeds the limit by no more than the threads that had passed the   *)
(*     check and not counted their order yet (CountInv).  The hard steps   *)
(*     are midnight, when the next look begins the day with nothing        *)
(*     counted though orders of yesterday are still being decided, and a   *)
(*     restart, which loads the row: it may be behind the memory, but an   *)
(*     order whose count could not be written is not sent;                 *)
(*   - of the orders on their way only those that were checked blindly,    *)
(*     while another was not in the snapshot, may take the account past    *)
(*     its positions (PlacesKept);                                         *)
(*   - a strategy that has sent an order is cooling, or its cooldown is    *)
(*     among those a restart or a failing statement lost (CoolingKept).    *)
(*                                                                         *)
(* TriggersAreEarned rests on what every copy of a plan, in the row, the   *)
(* cache and the engines, warrants (Warranted): copies may be old, of an   *)
(* earlier life even, and a tick writes what it computed of an old copy    *)
(* into the present row.                                                   *)
(*                                                                         *)
(* VoteIsFair is no invariant of steps but a fact about every list of      *)
(* signals (FairVote): the words heard last of a mirrored list are the     *)
(* mirrored words (LatestTurned), those of a list without a superseded     *)
(* signal are the same (LatestWithout), and finitely many signals have a   *)
(* best one (BestIs).                                                      *)
(***************************************************************************)
EXTENDS Plans, SequenceTheorems, FiniteSetTheorems, WellFoundedInduction, TLAPS

----------------------------------------------------------------------------
(* Claims.                                                                  *)

Order == [plan : Plan, status : {"pending", "filled", "rejected", "canceled"}]
At == {"sibling", "reopen", "insert", "verify", "order", "release", "owner", "record"}
Work == [at : At, plan : Plan, order : 0..MaxOrders]

(* The order a report is about exists and is settled.                      *)
Cursors ==
  /\ matcher.at = "write" =>
       matcher.order \in OrderId /\ orders[matcher.order].status # "pending"
  /\ sweep.at \in {"owner", "write"} => sweep.order \in OrderId

TypeInv == TypeOK /\ Cursors

----------------------------------------------------------------------------
(* The operators of the model.                                             *)

(* Claims of one identity form a class.                                    *)
LEMMA SameClaimFacts ==
  ASSUME NEW p \in Plan
  PROVE  /\ p \in SameClaim(p) /\ SameClaim(p) \subseteq Plan
         /\ \A q \in SameClaim(p) : SameClaim(q) = SameClaim(p)
  BY DEF SameClaim

LEMMA RowFacts ==
  /\ NoRow \notin Row /\ NoRow.status = "none"
  /\ \A r \in Row : r.status # "none"
  BY DEF Row, NoRow, Failed

(* Writing an outcome changes one row of the claim's identity: the only    *)
(* one there is, or the plan's own.                                        *)
LEMMA RecordedFacts ==
  ASSUME TypeOK, NEW p \in Plan, NEW status, NEW o
  PROVE  \E q \in SameClaim(p) :
           /\ Recorded(p, status, o) =
                [rows EXCEPT ![q] = [status |-> status, token |-> Stale, order |-> o]]
           /\ HeldByOther(p) => q # p /\ rows[q] # NoRow
           /\ ~HeldByOther(p) => q = p
<1> DEFINE h == CHOOSE x \in Holder(p) : x # p
<1>1. CASE HeldByOther(p)
  <2>1. h \in Holder(p) /\ h # p
    BY <1>1 DEF HeldByOther
  <2>2. h \in SameClaim(p) /\ rows[h] # NoRow
    BY <2>1 DEF Holder
  <2> QED
    BY <1>1, <2>1, <2>2 DEF Recorded
<1>2. CASE ~HeldByOther(p)
  BY <1>2, SameClaimFacts DEF Recorded
<1> QED
  BY <1>1, <1>2

(* Retiring a token changes nothing else in the rows.                      *)
LEMMA RetireFacts ==
  ASSUME NEW t \in [Plan -> Row \union {NoRow}], NEW w \in Worker
  PROVE  /\ Retire(t, w) \in [Plan -> Row \union {NoRow}]
         /\ \A p \in Plan :
              /\ Retire(t, w)[p] = NoRow <=> t[p] = NoRow
              /\ Retire(t, w)[p].status = t[p].status
              /\ t[p] # NoRow => Retire(t, w)[p].token = IF t[p].token = w THEN Stale ELSE t[p].token
<1> SUFFICES ASSUME NEW p \in Plan
             PROVE  /\ Retire(t, w)[p] \in Row \union {NoRow}
                    /\ Retire(t, w)[p] = NoRow <=> t[p] = NoRow
                    /\ Retire(t, w)[p].status = t[p].status
                    /\ t[p] # NoRow => Retire(t, w)[p].token = IF t[p].token = w THEN Stale ELSE t[p].token
  BY DEF Retire
<1>1. CASE t[p] = NoRow
  BY <1>1 DEF Retire
<1>2. CASE t[p] \in Row /\ t[p].token = w
  <2>1. Retire(t, w)[p] = [t[p] EXCEPT !.token = Stale]
    BY <1>2, RowFacts DEF Retire
  <2>2. [t[p] EXCEPT !.token = Stale] \in Row
    BY <1>2 DEF Row
  <2> QED
    BY <1>2, <2>1, <2>2, RowFacts DEF Row
<1>3. CASE t[p] \in Row /\ t[p].token # w
  BY <1>3, RowFacts DEF Retire
<1> QED
  BY <1>1, <1>2, <1>3

LEMMA OrdersFacts ==
  ASSUME TypeOK
  PROVE  /\ Len(orders) \in Nat
         /\ orders \in [OrderId -> Order]
         /\ OrderId \subseteq 0..MaxOrders
         /\ Pending \subseteq OrderId
<1>1. orders \in Seq(Order) /\ Len(orders) <= MaxOrders
  BY DEF TypeOK, Order
<1>2. Len(orders) \in Nat /\ orders \in [1..Len(orders) -> Order]
  BY <1>1, LenProperties
<1>3. 1..Len(orders) \subseteq 0..MaxOrders
  BY <1>1, <1>2, PlanClaimAssumption
<1> QED
  BY <1>2, <1>3 DEF OrderId, Pending

(* The orders after each of the three writes.                              *)
LEMMA Appended ==
  ASSUME TypeOK, NEW p \in Plan, Len(orders) < MaxOrders,
         orders' = Append(orders, [plan |-> p, status |-> "pending"])
  PROVE  /\ orders' \in Seq(Order) /\ Len(orders') = Len(orders) + 1
         /\ Len(orders) + 1 \in 1..MaxOrders
         /\ OrderId' = OrderId \union {Len(orders) + 1} /\ Len(orders) + 1 \notin OrderId
         /\ \A o \in OrderId : orders'[o] = orders[o]
         /\ orders'[Len(orders) + 1] = [plan |-> p, status |-> "pending"]
<1>1. [plan |-> p, status |-> "pending"] \in Order /\ orders \in Seq(Order)
  BY DEF Order, TypeOK
<1>2. Len(orders) \in Nat
  BY OrdersFacts
<1>3. orders' \in Seq(Order) /\ Len(orders') = Len(orders) + 1
  BY <1>1
<1>4. \A o \in 1..Len(orders) : orders'[o] = orders[o]
  BY <1>1
<1>5. orders'[Len(orders) + 1] = [plan |-> p, status |-> "pending"]
  BY <1>1
<1> QED
  BY <1>2, <1>3, <1>4, <1>5, PlanClaimAssumption DEF OrderId

LEMMA Restated ==
  ASSUME TypeOK, orders' \in [OrderId -> Order]
  PROVE  orders' \in Seq(Order) /\ Len(orders') = Len(orders) /\ OrderId' = OrderId
<1>1. orders' \in [1..Len(orders) -> Order] /\ Len(orders) \in Nat
  BY OrdersFacts DEF OrderId
<1>2. orders' \in Seq(Order) /\ Len(orders') = Len(orders)
  BY <1>1
<1> QED
  BY <1>2 DEF OrderId

(* Orders are only added, keep their plan, and once settled their status.  *)
OrdersGrow ==
  /\ orders' \in Seq(Order) /\ Len(orders') <= MaxOrders /\ Len(orders') \in Nat
  /\ OrderId \subseteq OrderId'
  /\ \A o \in OrderId :
       /\ orders'[o].plan = orders[o].plan
       /\ orders[o].status # "pending" => orders'[o].status = orders[o].status

LEMMA SameOrders == TypeOK /\ UNCHANGED orders => OrdersGrow /\ OrderId' = OrderId
  BY OrdersFacts DEF OrdersGrow, OrderId, TypeOK, Order

LEMMA CreateFacts ==
  ASSUME TypeOK, NEW w \in Worker, CreateOrder(w)
  PROVE  /\ OrdersGrow
         /\ worker[w] \in Work /\ worker[w].at = "order"
         /\ worker' = [worker EXCEPT ![w].at = "owner", ![w].order = Len(orders) + 1]
         /\ Len(orders) + 1 \in 1..MaxOrders
         /\ OrderId' = OrderId \union {Len(orders) + 1} /\ Len(orders) + 1 \notin OrderId
         /\ \A o \in OrderId : orders'[o] = orders[o]
         /\ orders'[Len(orders) + 1] = [plan |-> worker[w].plan, status |-> "pending"]
<1>1. worker[w] \in Work /\ worker[w].at = "order"
  BY DEF CreateOrder, TypeOK, Idle, Work, At
<1>2. worker[w].plan \in Plan
  BY <1>1 DEF Work
<1>3. Len(orders) < MaxOrders /\ orders' = Append(orders, [plan |-> worker[w].plan, status |-> "pending"])
  BY DEF CreateOrder
<1> QED
  BY <1>1, <1>2, <1>3, Appended, OrdersFacts, PlanClaimAssumption DEF CreateOrder, OrdersGrow

LEMMA MatchFacts ==
  ASSUME TypeOK, Match
  PROVE  /\ OrdersGrow /\ OrderId' = OrderId
         /\ \A o \in OrderId : orders'[o].status # orders[o].status => o \in Pending
<1>1. PICK outcome \in [Pending -> {"filled", "rejected", "pending"}] :
        orders' = [o \in OrderId |->
                    IF o \in Pending THEN [orders[o] EXCEPT !.status = outcome[o]]
                                     ELSE orders[o]]
  BY DEF Match
<1>2. \A o \in OrderId : orders[o] \in Order
  BY OrdersFacts
<1>3. \A o \in OrderId :
        /\ orders'[o] \in Order /\ orders'[o].plan = orders[o].plan
        /\ o \notin Pending => orders'[o] = orders[o]
  BY <1>1, <1>2 DEF Order
<1>4. orders' \in [OrderId -> Order]
  BY <1>1, <1>3
<1> QED
  BY <1>3, <1>4, Restated, OrdersFacts DEF OrdersGrow, TypeOK, Pending

LEMMA CancelFacts ==
  ASSUME TypeOK, NEW o \in OrderId, SweepCancel(o)
  PROVE  /\ OrdersGrow /\ OrderId' = OrderId
         /\ orders'[o].status # "pending"
         /\ \A q \in OrderId : q # o \/ o \notin Pending => orders'[q] = orders[q]
         /\ o \in Pending => orders'[o].status = "canceled"
<1>1. orders' = IF o \in Pending THEN [orders EXCEPT ![o].status = "canceled"] ELSE orders
  BY DEF SweepCancel
<1>2. orders \in [OrderId -> Order] /\ orders[o] \in Order
  BY OrdersFacts
<1>3. [orders[o] EXCEPT !.status = "canceled"] \in Order
  BY <1>2 DEF Order
<1>4. orders' \in [OrderId -> Order]
  BY <1>1, <1>2, <1>3
<1>5. \A q \in OrderId : /\ orders'[q].plan = orders[q].plan
                         /\ q # o \/ o \notin Pending => orders'[q] = orders[q]
  BY <1>1, <1>2 DEF Order
<1>6. orders'[o].status # "pending" /\ (o \in Pending => orders'[o].status = "canceled")
  BY <1>1, <1>2 DEF Pending, Order
<1> QED
  BY <1>4, <1>5, <1>6, Restated, OrdersFacts DEF OrdersGrow, TypeOK, Pending

----------------------------------------------------------------------------
(* Types.                                                                  *)

RowTable == [Plan -> Row \union {NoRow}]

LEMMA ClaimedIsRow == \A w \in Worker : Claimed(w) \in Row /\ Claimed(w) # NoRow
  BY PlanClaimAssumption, RowFacts DEF Claimed, Row

LEMMA RecordedTypes ==
  ASSUME TypeOK, NEW p \in Plan, NEW o \in 0..MaxOrders,
         NEW status \in Failed \union {"claimed", "ordered", "filled"}
  PROVE  Recorded(p, status, o) \in RowTable
<1>1. PICK q \in SameClaim(p) :
        Recorded(p, status, o) = [rows EXCEPT ![q] = [status |-> status, token |-> Stale, order |-> o]]
  BY RecordedFacts
<1>2. [status |-> status, token |-> Stale, order |-> o] \in Row
  BY DEF Row
<1> QED
  BY <1>1, <1>2, SameClaimFacts DEF TypeOK, RowTable

(* A thread at work has a plan; a step of it moves it alone.               *)
LEMMA WorkerFacts ==
  ASSUME TypeOK, NEW w \in Worker
  PROVE  /\ worker[w].at # "idle" => worker[w] \in Work
         /\ worker[w].at = "idle" => worker[w] = Idle
  BY DEF TypeOK, Idle, Work, At

LEMMA TypeWorker ==
  ASSUME TypeInv, NEW w \in Worker,
         (\E p \in Plan : CheckPlan(w, p)) \/ ClaimStep(w) \/ OrderStep(w)
  PROVE  TypeInv'
<1> DEFINE p == worker[w].plan
<1>0. TypeOK /\ rows \in RowTable /\ (worker[w].at # "idle" => worker[w] \in Work /\ p \in Plan)
  BY WorkerFacts DEF TypeInv, TypeOK, RowTable, Work
<1>1. UNCHANGED <<plan, matcher, sweep, pub, restarts>>
  BY DEF CheckPlan, ClaimStep, OrderStep, ClaimFrame, ReadSibling, Reopen, InsertClaim, Verify,
     CreateOrder, OrderFails, RecordFails, Release, ReadOwner, RecordOrder
<1>2. OrdersGrow
  <2>1. CASE CreateOrder(w)
    BY <2>1, <1>0, CreateFacts
  <2>2. CASE ~CreateOrder(w)
    BY <2>2, <1>0, SameOrders DEF CheckPlan, ClaimStep, OrderStep, ReadSibling, Reopen, InsertClaim,
       Verify, OrderFails, RecordFails, Release, ReadOwner, RecordOrder
  <2> QED
    BY <2>1, <2>2
<1>3. worker' \in [Worker -> {Idle} \union Work]
  <2>0. worker \in [Worker -> {Idle} \union Work]
    BY <1>0 DEF TypeOK, Work, At
  <2>1. ASSUME NEW step \in At, worker[w].at # "idle", Goto(w, step)
        PROVE  worker' \in [Worker -> {Idle} \union Work]
    <3>1. [worker[w] EXCEPT !.at = step] \in Work
      BY <1>0, <2>1 DEF Work
    <3> QED
      BY <2>0, <2>1, <3>1 DEF Goto
  <2>2. ASSUME NEW t, Done(w, t) PROVE worker' \in [Worker -> {Idle} \union Work]
    BY <2>0, <2>2 DEF Done
  <2>3. ASSUME NEW q \in Plan, CheckPlan(w, q) PROVE worker' \in [Worker -> {Idle} \union Work]
    <3>1. [at |-> "sibling", plan |-> q, order |-> 0] \in Work
      BY PlanClaimAssumption DEF Work, At
    <3> QED
      BY <2>0, <2>3, <3>1 DEF CheckPlan
  <2>4. CASE CreateOrder(w)
    <3> DEFINE n == Len(orders) + 1
    <3>1. n \in 0..MaxOrders /\ worker[w] \in Work
          /\ worker' = [worker EXCEPT ![w].at = "owner", ![w].order = n]
      <4>1. n \in 1..MaxOrders /\ worker[w] \in Work
            /\ worker' = [worker EXCEPT ![w].at = "owner", ![w].order = n]
        BY <2>4, <1>0, CreateFacts
      <4> QED
        BY <4>1, PlanClaimAssumption
    <3> HIDE DEF n
    <3>2. [worker[w] EXCEPT !.at = "owner", !.order = n] \in Work
      BY <3>1 DEF Work, At
    <3> QED
      BY <2>0, <3>1, <3>2
  <2>5. CASE ClaimStep(w)
    BY <2>1, <2>2, <2>5 DEF ClaimStep, ReadSibling, Reopen, InsertClaim, Verify, At
  <2>6. CASE OrderStep(w) /\ ~CreateOrder(w)
    BY <2>1, <2>2, <2>6 DEF OrderStep, OrderFails, RecordFails, Release, ReadOwner, RecordOrder, At
  <2> QED
    BY <2>3, <2>4, <2>5, <2>6
<1>4. rows' \in RowTable
  <2>1. ASSUME NEW t \in RowTable, Done(w, t) PROVE rows' \in RowTable
    BY <2>1, RetireFacts DEF Done, RowTable
  <2>2. CASE Reopen(w)
    BY <2>2, <1>0, ClaimedIsRow DEF Reopen, RowTable
  <2>3. CASE InsertClaim(w)
    BY <2>3, <1>0, ClaimedIsRow DEF InsertClaim, RowTable
  <2>4. CASE Release(w)
    <3>1. [rows EXCEPT ![p] = NoRow] \in RowTable
      BY <2>4, <1>0 DEF Release, RowTable
    <3> QED
      BY <1>0, <2>1, <2>4, <3>1 DEF Release
  <2>5. CASE RecordOrder(w)
    <3>1. worker[w].order \in 0..MaxOrders /\ p \in Plan
      BY <2>5, <1>0 DEF RecordOrder, Work
    <3>2. Recorded(p, "ordered", worker[w].order) \in RowTable
      BY <3>1, <1>0, RecordedTypes
    <3> QED
      BY <2>1, <2>5, <3>2 DEF RecordOrder
  <2>6. CASE ReadSibling(w) \/ Verify(w) \/ ReadOwner(w)
    BY <2>6, <2>1, <1>0 DEF ReadSibling, Verify, ReadOwner
  <2>7. CASE UNCHANGED rows
    BY <2>7, <1>0
  <2> QED
    BY <2>2, <2>3, <2>4, <2>5, <2>6, <2>7 DEF CheckPlan, ClaimStep, OrderStep, CreateOrder,
       OrderFails, RecordFails
<1>5. TypeOK'
  BY <1>0, <1>1, <1>2, <1>3, <1>4, PlanClaimAssumption
     DEF TypeOK, OrdersGrow, Order, RowTable, Work, At
<1>6. Cursors'
  BY <1>1, <1>2 DEF TypeInv, Cursors, OrdersGrow
<1> QED
  BY <1>5, <1>6 DEF TypeInv

LEMMA TypeMatch ==
  ASSUME TypeInv, MatchStep
  PROVE  TypeInv'
<1>0. TypeOK /\ OrderId \subseteq 0..MaxOrders /\ Pending \subseteq OrderId
  BY OrdersFacts DEF TypeInv
<1>1. CASE Match
  <2>1. matcher' = [at |-> "report", todo |-> Pending, order |-> 0]
        /\ UNCHANGED <<plan, rows, worker, sweep, pub, restarts>>
    BY <1>1 DEF Match, MatchFrame
  <2>2. OrdersGrow /\ OrderId' = OrderId
    BY <1>0, <1>1, MatchFacts
  <2>3. matcher' \in [at : {"report", "write"}, todo : SUBSET OrderId', order : 0..MaxOrders]
    BY <1>0, <2>1, <2>2, PlanClaimAssumption
  <2>4. TypeOK'
    BY <1>0, <2>1, <2>2, <2>3 DEF TypeOK, OrdersGrow, Order
  <2>5. Cursors'
    BY <2>1, <2>2 DEF TypeInv, Cursors
  <2> QED
    BY <2>4, <2>5 DEF TypeInv
<1>2. ASSUME NEW o \in OrderId, ReadOutcome(o) PROVE TypeInv'
  <2>1. matcher.at = "report" /\ UNCHANGED <<rows, orders, plan, worker, sweep, pub, restarts>>
    BY <1>2 DEF ReadOutcome, MatchFrame
  <2>2. matcher \in [at : {"report", "write"}, todo : SUBSET OrderId, order : 0..MaxOrders]
    BY <1>0, <2>1 DEF TypeOK, Idle
  <2>3. \/ matcher' = [matcher EXCEPT !.todo = @ \ {o}]
        \/ /\ matcher' = [at |-> "write", todo |-> matcher.todo \ {o}, order |-> o]
           /\ orders[o].status # "pending"
    BY <1>2 DEF ReadOutcome
  <2>4. matcher' \in [at : {"report", "write"}, todo : SUBSET OrderId, order : 0..MaxOrders]
    BY <1>0, <2>2, <2>3
  <2>5. OrderId' = OrderId /\ OrdersGrow
    BY <1>0, <2>1, SameOrders
  <2>6. TypeOK'
    BY <1>0, <2>1, <2>4, <2>5 DEF TypeOK
  <2>7. matcher'.at = "write" => matcher'.order = o /\ orders[o].status # "pending"
    BY <2>1, <2>2, <2>3
  <2>8. Cursors'
    BY <2>1, <2>5, <2>7 DEF TypeInv, Cursors
  <2> QED
    BY <2>6, <2>8 DEF TypeInv
<1>3. CASE ReportOutcome
  <2> DEFINE o == matcher.order
  <2>1. /\ matcher.at = "write" /\ matcher' = [matcher EXCEPT !.at = "report"]
        /\ rows' = Recorded(orders[o].plan, orders[o].status, o)
        /\ UNCHANGED <<orders, plan, worker, sweep, pub, restarts>>
    BY <1>3 DEF ReportOutcome, MatchFrame
  <2>2. o \in OrderId /\ orders[o].status # "pending"
    BY <2>1 DEF TypeInv, Cursors
  <2>3. orders[o] \in Order
    BY <1>0, <2>2, OrdersFacts
  <2>4. orders[o].plan \in Plan /\ orders[o].status \in Failed \union {"claimed", "ordered", "filled"}
    BY <2>2, <2>3 DEF Order, Failed
  <2>5. rows' \in RowTable
    BY <1>0, <2>1, <2>2, <2>4, RecordedTypes
  <2>6. matcher' \in [at : {"report", "write"}, todo : SUBSET OrderId, order : 0..MaxOrders]
    BY <1>0, <2>1 DEF TypeOK, Idle
  <2>7. OrderId' = OrderId
    BY <1>0, <2>1, SameOrders
  <2>8. TypeOK'
    BY <1>0, <2>1, <2>5, <2>6, <2>7 DEF TypeOK, RowTable
  <2>9. Cursors'
    <3>1. matcher'.at = "report"
      BY <1>0, <2>1 DEF TypeOK, Idle
    <3> QED
      BY <2>1, <2>7, <3>1 DEF TypeInv, Cursors
  <2> QED
    BY <2>8, <2>9 DEF TypeInv
<1>4. CASE EndMatch
  <2>1. matcher' = Idle /\ UNCHANGED <<rows, orders, plan, worker, sweep, pub, restarts>>
    BY <1>4 DEF EndMatch, MatchFrame
  <2>2. OrderId' = OrderId
    BY <1>0, <2>1, SameOrders
  <2>3. TypeOK'
    BY <1>0, <2>1, <2>2 DEF TypeOK
  <2>4. Cursors'
    BY <2>1, <2>2 DEF TypeInv, Cursors, Idle
  <2> QED
    BY <2>3, <2>4 DEF TypeInv
<1> QED
  BY <1>1, <1>2, <1>3, <1>4 DEF MatchStep

LEMMA TypeSweep ==
  ASSUME TypeInv, SweepStep
  PROVE  TypeInv'
<1> DEFINE SweepAt == [at : {"cancel", "owner", "write"}, todo : SUBSET OrderId, order : 0..MaxOrders]
<1>0. TypeOK /\ OrderId \subseteq 0..MaxOrders /\ Pending \subseteq OrderId
      /\ (sweep.at # "idle" => sweep \in SweepAt)
  BY OrdersFacts DEF TypeInv, TypeOK, Idle
<1>1. UNCHANGED <<plan, worker, matcher, pub, restarts>>
  BY DEF SweepStep, SweepBegin, SweepCancel, SweepOwner, SweepReport, SweepFrame
<1>2. \A todo \in SUBSET OrderId : NextSwept(todo) = Idle \/ NextSwept(todo) \in SweepAt
  BY PlanClaimAssumption DEF NextSwept
<1>3. OrdersGrow /\ OrderId' = OrderId
  <2>1. ASSUME NEW o \in OrderId, SweepCancel(o) PROVE OrdersGrow /\ OrderId' = OrderId
    BY <2>1, <1>0, CancelFacts
  <2>2. CASE UNCHANGED orders
    BY <2>2, <1>0, SameOrders
  <2> QED
    BY <2>1, <2>2 DEF SweepStep, SweepBegin, SweepOwner, SweepReport
<1>4. /\ sweep' = Idle \/ sweep' \in SweepAt
      /\ sweep'.at \in {"owner", "write"} => sweep'.order \in OrderId
  <2>1. CASE SweepBegin
    BY <2>1, <1>0, <1>2 DEF SweepBegin, NextSwept, Idle
  <2>2. ASSUME NEW o \in OrderId, SweepCancel(o)
        PROVE  sweep' \in SweepAt /\ sweep'.order \in OrderId
    <3>1. sweep' = [at |-> "owner", todo |-> sweep.todo \ {o}, order |-> o] /\ sweep \in SweepAt
      BY <2>2, <1>0 DEF SweepCancel
    <3> QED
      BY <3>1, <1>0
  <2>3. CASE SweepOwner \/ SweepReport
    <3>1. sweep \in SweepAt /\ sweep.order \in OrderId
      BY <2>3, <1>0 DEF SweepOwner, SweepReport, TypeInv, Cursors
    <3>2. sweep' = NextSwept(sweep.todo) \/ sweep' = [sweep EXCEPT !.at = "write"]
      BY <2>3 DEF SweepOwner, SweepReport
    <3>3. CASE sweep' = NextSwept(sweep.todo)
      BY <3>1, <3>3, <1>2 DEF NextSwept, Idle
    <3>4. CASE sweep' = [sweep EXCEPT !.at = "write"]
      BY <3>1, <3>4
    <3> QED
      BY <3>2, <3>3, <3>4
  <2> QED
    BY <2>1, <2>2, <2>3 DEF SweepStep
<1>5. rows' \in RowTable
  <2>1. CASE SweepReport
    <3>1. sweep.order \in OrderId /\ orders[sweep.order] \in Order
          /\ rows' = Recorded(orders[sweep.order].plan, "timeout", sweep.order)
      BY <2>1, <1>0, OrdersFacts DEF SweepReport, TypeInv, Cursors
    <3> QED
      BY <3>1, <1>0, RecordedTypes DEF Order, Failed
  <2>2. CASE UNCHANGED rows
    BY <2>2, <1>0 DEF TypeOK, RowTable
  <2> QED
    BY <2>1, <2>2 DEF SweepStep, SweepBegin, SweepCancel, SweepOwner
<1>6. TypeOK'
  BY <1>0, <1>1, <1>3, <1>4, <1>5 DEF TypeOK, OrdersGrow, Order, RowTable
<1>7. Cursors'
  BY <1>1, <1>3, <1>4 DEF TypeInv, Cursors, OrdersGrow
<1> QED
  BY <1>6, <1>7 DEF TypeInv

LEMMA TypeRest ==
  ASSUME TypeInv, PubStep \/ Restart \/ UNCHANGED vars
  PROVE  TypeInv'
<1>0. TypeOK
  BY DEF TypeInv
<1>1. UNCHANGED orders /\ OrderId' = OrderId
  BY <1>0, SameOrders DEF PubStep, SupersedePlan, Publish, Invalidate, SupersedeRelated, PubFrame,
     Restart, vars
<1>2. CASE PubStep
  <2>1. UNCHANGED <<rows, orders, worker, matcher, sweep, restarts>>
    BY <1>2 DEF PubStep, SupersedePlan, Publish, Invalidate, SupersedeRelated, PubFrame
  <2>2. plan' \in [Plan -> {"active", "superseded", "invalidated"}]
    BY <1>0, <1>2 DEF TypeOK, PubStep, SupersedePlan, Publish, Invalidate, SupersedeRelated
  <2>3. pub' = Idle \/ pub' \in [at : {"related"}, plan : Plan]
    BY <1>0, <1>2 DEF TypeOK, PubStep, SupersedePlan, Publish, Invalidate, SupersedeRelated
  <2> QED
    BY <1>0, <1>1, <2>1, <2>2, <2>3 DEF TypeInv, TypeOK, Cursors
<1>3. CASE Restart
  <2>1. /\ worker' = [w \in Worker |-> Idle]
        /\ matcher' = Idle /\ sweep' = Idle /\ pub' = Idle
        /\ restarts < MaxRestarts /\ restarts' = restarts + 1 /\ UNCHANGED <<plan, orders>>
    BY <1>3 DEF Restart
  <2>2. \A p \in Plan : rows[p] \in Row => [rows[p] EXCEPT !.token = Stale] \in Row
    BY DEF Row
  <2>3. rows' \in RowTable
    BY <1>0, <1>3, <2>2 DEF Restart, TypeOK, RowTable
  <2>4. restarts' \in 0..MaxRestarts
    BY <1>0, <2>1, PlanClaimAssumption DEF TypeOK
  <2>5. TypeOK'
    BY <1>0, <1>1, <2>1, <2>3, <2>4 DEF TypeOK, RowTable
  <2>6. Cursors'
    BY <2>1 DEF Cursors, Idle
  <2> QED
    BY <2>5, <2>6 DEF TypeInv
<1>4. CASE UNCHANGED vars
  BY <1>0, <1>1, <1>4 DEF TypeInv, TypeOK, Cursors, vars
<1> QED
  BY <1>2, <1>3, <1>4

LEMMA TypeInit == Init => TypeInv
<1> SUFFICES ASSUME Init PROVE TypeInv
  OBVIOUS
<1>1. orders = <<>> /\ Len(orders) = 0
  BY DEF Init
<1>2. orders \in Seq([plan : Plan, status : {"pending", "filled", "rejected", "canceled"}])
  BY <1>1, EmptySeq
<1> QED
  BY <1>1, <1>2, PlanClaimAssumption DEF Init, TypeInv, TypeOK, Cursors, Idle

LEMMA TypeHolds == Spec => []TypeInv
<1>1. TypeInv /\ [Next]_vars => TypeInv'
  BY TypeWorker, TypeMatch, TypeSweep, TypeRest DEF Next
<1> QED
  BY <1>1, TypeInit, PTL DEF Spec

(* The rows, orders and threads keep their types, whatever sweeps, fails,  *)
(* is superseded or restarts in between.                                   *)
THEOREM TypeCorrect == Spec => []TypeOK
<1>1. TypeInv => TypeOK
  BY DEF TypeInv
<1> QED
  BY <1>1, TypeHolds, PTL

----------------------------------------------------------------------------
(* One order for one identity.  An order is active while it can still be   *)
(* filled, while it is filled, and while its end has not reached the row.  *)

HasToken(w, p) == rows[p] # NoRow /\ rows[p].token = w
Standing(p) == rows[p] # NoRow /\ rows[p].status \notin Failed

Unreported(o) ==
  \/ matcher.at # "idle" /\ o \in matcher.todo
  \/ matcher.at = "write" /\ o = matcher.order
  \/ sweep.at # "idle" /\ o \in sweep.todo
  \/ sweep.at \in {"owner", "write"} /\ o = sweep.order
Active(o) == Alive(o) \/ Unreported(o)

(* A thread that holds the claim, or will when it reads its row back.      *)
Contends(w) ==
  \/ Holding(w)
  \/ worker[w].at \in {"insert", "verify"} /\ \E q \in Plan : HasToken(w, q)

OneRow ==
  \A p \in Plan : \A q \in SameClaim(p) : rows[p] # NoRow /\ rows[q] # NoRow => p = q
TokensAreHeld ==
  \A p \in Plan, w \in Worker :
    HasToken(w, p) =>
      /\ rows[p].status = "claimed"
      /\ worker[w].at \in {"insert", "verify", "order", "release", "owner", "record"}
      /\ worker[w].plan \in SameClaim(p)
(* While a thread holds the claim the row is its own, unless a thread of   *)
(* an earlier, settled order has just written "ordered" over it.           *)
HoldersRow ==
  \A w \in Worker :
    Holding(w) =>
      \E q \in SameClaim(worker[w].plan) :
        /\ rows[q] # NoRow
        /\ rows[q].status = "ordered" \/ (rows[q].status = "claimed" /\ rows[q].token = w)
NoneActive ==
  \A w \in Worker, o \in OrderId :
    Contends(w) /\ Active(o) => orders[o].plan \notin SameClaim(worker[w].plan)
OneActive ==
  \A o1, o2 \in OrderId :
    Active(o1) /\ Active(o2) /\ orders[o2].plan \in SameClaim(orders[o1].plan) => o1 = o2
(* The row of an active order is not one that can be claimed again.        *)
ActiveIsKept ==
  \A o \in OrderId : Active(o) => \E q \in SameClaim(orders[o].plan) : Standing(q)
FilledWasFilled ==
  \A p \in Plan : rows[p].status = "filled" =>
    \E o \in OrderId : orders[o].status = "filled" /\ orders[o].plan \in SameClaim(p)
(* The paper lock: the sweep and the matcher report one after the other.   *)
Locked ==
  /\ matcher.at = "idle" \/ sweep.at = "idle"
  /\ matcher.at = "write" => matcher.order \notin matcher.todo
  /\ sweep.at # "idle" => sweep.todo \subseteq Pending
  /\ sweep.at \in {"owner", "write"} => ~Alive(sweep.order)

ClaimInv ==
  /\ OneRow
  /\ TokensAreHeld
  /\ HoldersRow
  /\ NoneActive
  /\ OneActive
  /\ ActiveIsKept
  /\ FilledWasFilled
  /\ Locked
  /\ OneHolder

Calm ==
  /\ OrdersGrow
  /\ OrderId' = OrderId
  /\ \A o \in OrderId : Active(o)' => Active(o)

LEMMA ClaimInit == Init => ClaimInv
<1> SUFFICES ASSUME Init PROVE ClaimInv
  OBVIOUS
<1>1. OrderId = {} /\ \A p \in Plan : rows[p] = NoRow
  BY DEF Init, OrderId
<1>2. \A w \in Worker : ~Holding(w) /\ ~Contends(w)
  BY DEF Init, Holding, Contends, Idle
<1>3. matcher.at = "idle" /\ sweep.at = "idle"
  BY DEF Init, Idle
<1> QED
  BY <1>1, <1>2, <1>3 DEF ClaimInv, OneRow, TokensAreHeld, HoldersRow, NoneActive, OneActive,
     ActiveIsKept, FilledWasFilled, Locked, OneHolder, HasToken, NoRow

(* Orders, reports and rows as they are: only thread w moves.              *)
LEMMA CalmWorker ==
  ASSUME TypeInv, UNCHANGED <<orders, matcher, sweep>>
  PROVE  Calm
<1>1. OrdersGrow /\ OrderId' = OrderId
  BY SameOrders DEF TypeInv
<1>2. \A o \in OrderId : Active(o)' => Active(o)
  BY DEF Active, Alive, Unreported
<1> QED
  BY <1>1, <1>2 DEF Calm

LEMMA LockedWorker == Locked /\ UNCHANGED <<orders, matcher, sweep>> => Locked'
  BY DEF Locked, Pending, OrderId, Alive

LEMMA CalmKeeps ==
  ASSUME TypeInv, ClaimInv, Calm
  PROVE  /\ OneActive'
         /\ (\A w \in Worker : Contends(w)' => Contends(w) /\ worker'[w].plan = worker[w].plan)
              => NoneActive'
         /\ (\A p \in Plan : Standing(p) => Standing(p)') => ActiveIsKept'
         /\ (\A p \in Plan : rows'[p].status = "filled" => rows[p].status = "filled")
              => FilledWasFilled'
<1>0. \A o \in OrderId : orders[o].plan \in Plan
  BY OrdersFacts DEF TypeInv, Order
<1>1. OneActive'
  BY DEF ClaimInv, OneActive, Calm, OrdersGrow
<1>2. ASSUME \A w \in Worker : Contends(w)' => Contends(w) /\ worker'[w].plan = worker[w].plan
      PROVE  NoneActive'
  BY <1>2 DEF ClaimInv, NoneActive, Calm, OrdersGrow
<1>3. ASSUME \A p \in Plan : Standing(p) => Standing(p)'
      PROVE  ActiveIsKept'
  BY <1>0, <1>3, SameClaimFacts DEF ClaimInv, ActiveIsKept, Calm, OrdersGrow
<1>4. ASSUME \A p \in Plan : rows'[p].status = "filled" => rows[p].status = "filled"
      PROVE  FilledWasFilled'
  BY <1>4 DEF ClaimInv, FilledWasFilled, Calm, OrdersGrow
<1> QED
  BY <1>1, <1>2, <1>3, <1>4

(* A step of thread w that leaves the rows alone and does not make it a    *)
(* contender.                                                              *)
LEMMA WorkerMoves ==
  ASSUME TypeInv, ClaimInv, NEW w \in Worker, UNCHANGED <<rows, orders, matcher, sweep>>,
         \A v \in Worker \ {w} : worker'[v] = worker[v],
         \A p \in Plan : HasToken(w, p) =>
           /\ worker'[w].at \in {"insert", "verify", "order", "release", "owner", "record"}
           /\ worker'[w].plan = worker[w].plan,
         Contends(w)' => Contends(w) /\ worker'[w].plan = worker[w].plan,
         Holding(w)' => Holding(w)
  PROVE  ClaimInv'
<1>1. Calm /\ Locked'
  BY CalmWorker, LockedWorker DEF ClaimInv
<1>2. \A v \in Worker : Contends(v)' => Contends(v) /\ worker'[v].plan = worker[v].plan
  BY DEF Contends, Holding, HasToken
<1>3. OneActive' /\ NoneActive' /\ ActiveIsKept' /\ FilledWasFilled'
  BY <1>1, <1>2, CalmKeeps DEF Standing
<1>4. OneRow'
  BY DEF ClaimInv, OneRow
<1>5. TokensAreHeld'
  BY DEF ClaimInv, TokensAreHeld, HasToken
<1>6. \A v \in Worker : Holding(v)' => Holding(v) /\ worker'[v].plan = worker[v].plan
  BY <1>2 DEF Holding, Contends
<1>7. HoldersRow'
  BY <1>6 DEF ClaimInv, HoldersRow
<1>8. OneHolder'
  BY <1>6 DEF ClaimInv, OneHolder
<1> QED
  BY <1>1, <1>3, <1>4, <1>5, <1>7, <1>8 DEF ClaimInv

(* The end of a thread's work, after which rows t stand with its token     *)
(* retired: t may differ from the rows in one place, where it has no live  *)
(* token and no order or holder depends on it.                             *)
LEMMA WorkerEnds ==
  ASSUME TypeInv, ClaimInv, NEW w \in Worker, UNCHANGED <<orders, matcher, sweep>>,
         NEW t \in RowTable, Done(w, t),
         \A p \in Plan : \/ t[p] = rows[p]
                         \/ t[p] = NoRow
                         \/ t[p].token = Stale /\ t[p].status = "ordered",
         \A p \in Plan : \A q \in SameClaim(p) : t[p] # NoRow /\ t[q] # NoRow => p = q,
         \A p \in Plan : t[p] = NoRow /\ rows[p] # NoRow =>
           Holding(w) /\ p = worker[w].plan
  PROVE  ClaimInv'
<1> DEFINE new == Retire(t, w)
<1>0. /\ rows' = new /\ worker' = [worker EXCEPT ![w] = Idle]
      /\ worker \in [Worker -> {Idle} \union Work]
  BY DEF Done, TypeInv, TypeOK, Work, At
<1>1. /\ worker'[w].at = "idle"
      /\ \A v \in Worker \ {w} : worker'[v] = worker[v]
  BY <1>0 DEF Idle
<1>2. \A p \in Plan :
        /\ rows'[p] = NoRow <=> t[p] = NoRow
        /\ rows'[p].status = t[p].status
        /\ t[p] # NoRow => rows'[p].token = IF t[p].token = w THEN Stale ELSE t[p].token
  BY <1>0, RetireFacts DEF RowTable
<1>3. Calm /\ Locked'
  BY CalmWorker, LockedWorker DEF ClaimInv
<1>4. \A v \in Worker, p \in Plan : HasToken(v, p)' => v # w /\ HasToken(v, p) /\ t[p] = rows[p]
  BY <1>2, PlanClaimAssumption DEF HasToken
<1>5. \A v \in Worker : /\ Holding(v)' => v # w /\ Holding(v) /\ worker'[v] = worker[v]
                        /\ Contends(v)' => v # w /\ Contends(v) /\ worker'[v] = worker[v]
  <2>1. \A v \in Worker : Holding(v)' => v # w /\ Holding(v) /\ worker'[v] = worker[v]
    BY <1>1 DEF Holding
  <2>2. \A v \in Worker : Contends(v)' => v # w /\ Contends(v) /\ worker'[v] = worker[v]
    BY <1>1, <1>4, <2>1 DEF Contends
  <2> QED
    BY <2>1, <2>2
<1>6. OneActive' /\ NoneActive'
  BY <1>3, <1>5, CalmKeeps
<1>7. FilledWasFilled'
  <2>1. \A p \in Plan : rows'[p].status = "filled" => rows[p].status = "filled"
    BY <1>2, RowFacts
  <2> QED
    BY <1>3, <2>1, CalmKeeps
<1>8. ActiveIsKept'
  <2> SUFFICES ASSUME NEW o \in OrderId', Active(o)'
               PROVE  \E q \in SameClaim(orders[o].plan) : Standing(q)'
    BY DEF ActiveIsKept
  <2>1. o \in OrderId /\ Active(o) /\ orders[o].plan \in Plan
    BY <1>3, OrdersFacts DEF Calm, TypeInv, Order
  <2>2. PICK q \in SameClaim(orders[o].plan) : Standing(q)
    BY <2>1 DEF ClaimInv, ActiveIsKept
  <2>3. q \in Plan /\ orders[o].plan \in SameClaim(q)
    BY <2>1, SameClaimFacts
  <2>4. t[q] # NoRow
    <3> SUFFICES ASSUME t[q] = NoRow PROVE FALSE
      OBVIOUS
    <3>1. Holding(w) /\ q = worker[w].plan
      BY <2>2, <2>3 DEF Standing
    <3> QED
      BY <2>1, <2>3, <3>1 DEF ClaimInv, NoneActive, Contends
  <2>5. Standing(q)'
    BY <1>2, <2>2, <2>3, <2>4 DEF Standing, Failed
  <2> QED
    BY <2>2, <2>5
<1>9. OneRow'
  BY <1>2, SameClaimFacts DEF OneRow
<1>10. TokensAreHeld'
  BY <1>1, <1>2, <1>4 DEF ClaimInv, TokensAreHeld
<1>11. HoldersRow'
  <2> SUFFICES ASSUME NEW v \in Worker, Holding(v)'
               PROVE  \E q \in SameClaim(worker'[v].plan) :
                        /\ rows'[q] # NoRow
                        /\ rows'[q].status = "ordered" \/ (rows'[q].status = "claimed" /\ rows'[q].token = v)
    BY DEF HoldersRow
  <2>1. v # w /\ Holding(v) /\ worker'[v] = worker[v] /\ worker[v].plan \in Plan
    BY <1>5, WorkerFacts DEF Holding, TypeInv, Work
  <2>2. PICK q \in SameClaim(worker[v].plan) :
          /\ rows[q] # NoRow
          /\ rows[q].status = "ordered" \/ (rows[q].status = "claimed" /\ rows[q].token = v)
    BY <2>1 DEF ClaimInv, HoldersRow
  <2>3. q \in Plan /\ t[q] # NoRow
    BY <2>1, <2>2, SameClaimFacts DEF ClaimInv, OneHolder
  <2> QED
    BY <1>2, <2>1, <2>2, <2>3
<1>12. OneHolder'
  BY <1>5 DEF ClaimInv, OneHolder
<1> QED
  BY <1>3, <1>6, <1>7, <1>8, <1>9, <1>10, <1>11, <1>12 DEF ClaimInv

LEMMA OnlyWorker ==
  ASSUME TypeInv, NEW w \in Worker, NEW step \in At, Goto(w, step)
  PROVE  /\ worker'[w].at = step
         /\ worker[w].at # "idle" => worker'[w].plan = worker[w].plan
         /\ \A v \in Worker \ {w} : worker'[v] = worker[v]
  BY WorkerFacts DEF Goto, TypeInv, TypeOK, Work, At

(* Rows are written by Reopen and InsertClaim: a row that was none or told *)
(* of a failure becomes the thread's own.                                  *)
LEMMA ClaimWritten ==
  ASSUME TypeInv, ClaimInv, NEW w \in Worker, UNCHANGED <<orders, matcher, sweep>>,
         NEW step \in {"insert", "verify"}, Goto(w, step),
         worker[w].at \in {"reopen", "insert"},
         rows' \in RowTable,
         \A q \in Plan : \/ rows'[q] = rows[q]
                         \/ /\ q \in SameClaim(worker[w].plan) /\ rows'[q] = Claimed(w)
                            /\ (rows[q] = NoRow /\ q = worker[w].plan) \/ rows[q].status \in Failed
                            /\ \A r \in SameClaim(worker[w].plan) : rows[r] # NoRow => r = q
  PROVE  ClaimInv'
<1> DEFINE p == worker[w].plan
<1>0. /\ worker[w] \in Work /\ p \in Plan
      /\ worker'[w].at = step /\ worker'[w].plan = p
      /\ \A v \in Worker \ {w} : worker'[v] = worker[v]
  BY WorkerFacts, OnlyWorker DEF TypeInv, Work, At
<1>1. Calm /\ Locked'
  BY CalmWorker, LockedWorker DEF ClaimInv
<1>2. Claimed(w).status = "claimed" /\ Claimed(w).token = w /\ Claimed(w) # NoRow
  BY ClaimedIsRow DEF Claimed
<1>3. \A q \in Plan : Standing(q) => Standing(q)' /\ rows'[q] = rows[q]
  BY DEF Standing
<1>4. \A v \in Worker \ {w}, q \in Plan : HasToken(v, q)' => HasToken(v, q) /\ rows'[q] = rows[q]
  BY <1>2 DEF HasToken
<1>5. \A v \in Worker : Holding(v)' => v # w /\ Holding(v) /\ worker'[v] = worker[v]
  BY <1>0 DEF Holding
<1>6. OneActive' /\ ActiveIsKept'
  BY <1>1, <1>3, CalmKeeps
<1>7. FilledWasFilled'
  <2>1. \A q \in Plan : rows'[q].status = "filled" => rows[q].status = "filled"
    BY <1>2
  <2> QED
    BY <1>1, <2>1, CalmKeeps
<1>8. OneRow'
  <2> SUFFICES ASSUME NEW a \in Plan, NEW b \in SameClaim(a), rows'[a] # NoRow, rows'[b] # NoRow
               PROVE  a = b
    BY DEF OneRow
  <2>1. b \in Plan /\ a \in SameClaim(b) /\ SameClaim(a) = SameClaim(b)
    BY SameClaimFacts
  <2>2. CASE rows'[a] = rows[a] /\ rows'[b] = rows[b]
    BY <2>1, <2>2 DEF ClaimInv, OneRow
  <2>3. CASE rows'[a] # rows[a]
    <3>1. a \in SameClaim(p) /\ b \in SameClaim(p)
      BY <1>0, <2>1, <2>3, SameClaimFacts
    <3>2. CASE rows'[b] = rows[b]
      BY <2>3, <3>1, <3>2
    <3>3. CASE rows'[b] # rows[b]
      <4>1. rows[a] # NoRow => a = b
        BY <2>1, <3>1, <3>3
      <4>2. rows[b] # NoRow => a = b
        BY <2>1, <2>3, <3>1
      <4>3. CASE rows[a] = NoRow /\ rows[b] = NoRow
        BY <2>1, <2>3, <3>1, <3>3, <4>3, RowFacts DEF Failed
      <4> QED
        BY <4>1, <4>2, <4>3
    <3> QED
      BY <3>2, <3>3
  <2>4. CASE rows'[b] # rows[b] /\ rows'[a] = rows[a]
    <3>1. a \in SameClaim(p)
      BY <1>0, <2>1, <2>4, SameClaimFacts
    <3> QED
      BY <2>1, <2>4, <3>1
  <2> QED
    BY <2>2, <2>3, <2>4
<1>9. TokensAreHeld'
  <2> SUFFICES ASSUME NEW q \in Plan, NEW v \in Worker, HasToken(v, q)'
               PROVE  /\ rows'[q].status = "claimed"
                      /\ worker'[v].at \in {"insert", "verify", "order", "release", "owner", "record"}
                      /\ worker'[v].plan \in SameClaim(q)
    BY DEF TokensAreHeld
  <2>1. CASE v # w
    BY <1>0, <1>4, <2>1 DEF ClaimInv, TokensAreHeld
  <2>2. CASE v = w /\ rows'[q] = rows[q]
    BY <1>0, <2>2 DEF ClaimInv, TokensAreHeld, HasToken
  <2>3. CASE v = w /\ rows'[q] # rows[q]
    BY <1>0, <1>2, <2>3, SameClaimFacts
  <2> QED
    BY <2>1, <2>2, <2>3
<1>10. NoneActive'
  <2>1. \A v \in Worker \ {w} : Contends(v)' => Contends(v) /\ worker'[v] = worker[v]
    BY <1>0, <1>4, <1>5 DEF Contends
  <2>2. \A o \in OrderId' : o \in OrderId /\ orders'[o].plan = orders[o].plan
                            /\ (Active(o)' => Active(o)) /\ orders[o].plan \in Plan
    BY <1>1, OrdersFacts DEF Calm, OrdersGrow, TypeInv, Order
  <2>3. ASSUME Contends(w)', NEW o \in OrderId, Active(o), orders[o].plan \in SameClaim(p)
        PROVE  FALSE
    <3>1. PICK q \in Plan : HasToken(w, q)'
      BY <1>5, <2>3 DEF Contends
    <3>2. CASE rows'[q] = rows[q]
      BY <1>0, <2>3, <3>1, <3>2 DEF HasToken, ClaimInv, TokensAreHeld, NoneActive, Contends
    <3>3. CASE rows'[q] # rows[q]
      <4>1. PICK x \in SameClaim(orders[o].plan) : Standing(x)
        BY <2>3 DEF ClaimInv, ActiveIsKept
      <4>2. x \in SameClaim(p)
        BY <1>0, <2>3, <4>1, SameClaimFacts
      <4> QED
        BY <3>3, <4>1, <4>2 DEF Standing
    <3> QED
      BY <3>2, <3>3
  <2> QED
    BY <1>0, <2>1, <2>2, <2>3 DEF ClaimInv, NoneActive
<1>11. HoldersRow'
  <2> SUFFICES ASSUME NEW v \in Worker, Holding(v)'
               PROVE  \E q \in SameClaim(worker'[v].plan) :
                        /\ rows'[q] # NoRow
                        /\ rows'[q].status = "ordered" \/ (rows'[q].status = "claimed" /\ rows'[q].token = v)
    BY DEF HoldersRow
  <2>1. v # w /\ Holding(v) /\ worker'[v] = worker[v] /\ worker[v].plan \in Plan
    BY <1>5, WorkerFacts DEF Holding, TypeInv, Work
  <2>2. PICK q \in SameClaim(worker[v].plan) :
          /\ rows[q] # NoRow
          /\ rows[q].status = "ordered" \/ (rows[q].status = "claimed" /\ rows[q].token = v)
    BY <2>1 DEF ClaimInv, HoldersRow
  <2>3. q \in Plan /\ rows'[q] = rows[q]
    BY <2>1, <2>2, <1>3, SameClaimFacts DEF Standing, Failed
  <2> QED
    BY <2>1, <2>2, <2>3
<1>12. OneHolder'
  BY <1>5 DEF ClaimInv, OneHolder
<1> QED
  BY <1>1, <1>6, <1>7, <1>8, <1>9, <1>10, <1>11, <1>12 DEF ClaimInv

LEMMA ClaimSteps ==
  ASSUME TypeInv, ClaimInv, NEW w \in Worker,
         (\E p \in Plan : CheckPlan(w, p)) \/ ClaimStep(w)
  PROVE  ClaimInv'
<1> DEFINE p == worker[w].plan
<1>0. /\ TypeOK /\ rows \in RowTable /\ UNCHANGED <<orders, matcher, sweep>>
      /\ worker[w].at # "idle" => worker[w] \in Work /\ p \in Plan
  BY WorkerFacts DEF TypeInv, TypeOK, RowTable, Work, CheckPlan, ClaimStep, ReadSibling, Reopen,
     InsertClaim, Verify, ClaimFrame
<1>1. ASSUME worker[w].at \in {"idle", "sibling", "reopen"} PROVE \A q \in Plan : ~HasToken(w, q)
  BY <1>1 DEF ClaimInv, TokensAreHeld
<1>2. Done(w, rows) => ClaimInv'
  BY <1>0, WorkerEnds DEF ClaimInv, OneRow
<1>3. ASSUME NEW q \in Plan, CheckPlan(w, q) PROVE ClaimInv'
  <2>1. /\ worker'[w].at = "sibling" /\ UNCHANGED rows
        /\ \A v \in Worker \ {w} : worker'[v] = worker[v]
    BY <1>0, <1>3 DEF CheckPlan, TypeOK
  <2> QED
    BY <1>0, <1>1, <1>3, <2>1, WorkerMoves DEF CheckPlan, Holding, Contends
<1>4. CASE ReadSibling(w)
  <2>1. CASE Done(w, rows)
    BY <1>2, <2>1
  <2>2. ASSUME NEW step \in {"reopen", "insert"}, Goto(w, step), UNCHANGED rows PROVE ClaimInv'
    <3>1. worker[w].at = "sibling" /\ \A q \in Plan : ~HasToken(w, q)
      BY <1>1, <1>4 DEF ReadSibling
    <3>2. worker'[w].at = step /\ \A v \in Worker \ {w} : worker'[v] = worker[v]
      BY <2>2, OnlyWorker DEF At
    <3>3. ~Holding(w)' /\ ~Contends(w)'
      BY <2>2, <3>1, <3>2 DEF Holding, Contends, HasToken
    <3> QED
      BY <1>0, <2>2, <3>1, <3>2, <3>3, WorkerMoves
  <2> QED
    BY <1>4, <2>1, <2>2 DEF ReadSibling
<1>5. CASE Reopen(w)
  <2>1. /\ worker[w].at = "reopen" /\ Goto(w, "insert")
        /\ rows' = [q \in Plan |-> IF q \in Holder(p) /\ rows[q].status \in Failed
                                   THEN Claimed(w) ELSE rows[q]]
    BY <1>5 DEF Reopen
  <2>2. \A q \in Plan : \/ rows'[q] = rows[q]
                        \/ /\ q \in SameClaim(p) /\ rows'[q] = Claimed(w)
                           /\ rows[q].status \in Failed
                           /\ \A r \in SameClaim(p) : rows[r] # NoRow => r = q
    <3> SUFFICES ASSUME NEW q \in Plan, q \in Holder(p), rows[q].status \in Failed
                 PROVE  \A r \in SameClaim(p) : rows[r] # NoRow => r = q
      BY <2>1 DEF Holder
    <3>1. q \in SameClaim(p) /\ rows[q] # NoRow
      BY DEF Holder
    <3> QED
      BY <1>0, <2>1, <3>1, SameClaimFacts DEF ClaimInv, OneRow
  <2>3. rows' \in RowTable
    BY <1>0, <2>1, ClaimedIsRow DEF RowTable
  <2> QED
    BY <1>0, <2>1, <2>2, <2>3, ClaimWritten
<1>6. CASE InsertClaim(w)
  <2>1. /\ worker[w].at = "insert" /\ Goto(w, "verify")
        /\ rows' = IF Holder(p) = {} THEN [rows EXCEPT ![p] = Claimed(w)] ELSE rows
    BY <1>6 DEF InsertClaim
  <2>2. CASE Holder(p) = {}
    <3>1. \A r \in SameClaim(p) : rows[r] = NoRow
      BY <2>2 DEF Holder
    <3>2. rows' \in RowTable
      BY <1>0, <2>1, ClaimedIsRow DEF RowTable
    <3>3. \A q \in Plan : rows'[q] = rows[q] \/ (q = p /\ rows'[q] = Claimed(w))
      BY <1>0, <2>1 DEF RowTable
    <3> QED
      BY <1>0, <2>1, <3>1, <3>2, <3>3, SameClaimFacts, ClaimWritten
  <2>3. CASE Holder(p) # {}
    BY <1>0, <2>1, <2>3, ClaimWritten
  <2> QED
    BY <2>2, <2>3
<1>7. CASE Verify(w) /\ ~OwnsClaim(w)
  BY <1>2, <1>7 DEF Verify
<1>8. CASE Verify(w) /\ OwnsClaim(w)
  <2>1. worker[w].at = "verify" /\ Goto(w, "order") /\ UNCHANGED rows /\ HasToken(w, p)
    BY <1>8 DEF Verify, OwnsClaim, HasToken
  <2>2. /\ worker'[w].at = "order" /\ worker'[w].plan = p /\ p \in Plan
        /\ \A v \in Worker \ {w} : worker'[v] = worker[v]
    BY <1>0, <2>1, OnlyWorker DEF At
  <2>3. Contends(w) /\ rows[p].status = "claimed"
    BY <1>0, <2>1 DEF Contends, ClaimInv, TokensAreHeld
  <2>4. Calm /\ Locked'
    BY <1>0, CalmWorker, LockedWorker DEF ClaimInv
  <2>5. \A v \in Worker : Contends(v)' => Contends(v) /\ worker'[v].plan = worker[v].plan
    BY <2>1, <2>2, <2>3 DEF Contends, Holding, HasToken
  <2>6. OneActive' /\ NoneActive' /\ ActiveIsKept' /\ FilledWasFilled'
    BY <2>1, <2>4, <2>5, CalmKeeps DEF Standing
  <2>7. OneRow' /\ TokensAreHeld'
    BY <2>1, <2>2 DEF ClaimInv, OneRow, TokensAreHeld, HasToken
  <2>8. HoldersRow'
    <3>1. \A v \in Worker \ {w} : Holding(v)' => Holding(v) /\ worker'[v].plan = worker[v].plan
      BY <2>2 DEF Holding
    <3>2. p \in SameClaim(p) /\ rows'[p] # NoRow /\ rows'[p].status = "claimed" /\ rows'[p].token = w
      BY <2>1, <2>2, <2>3, SameClaimFacts DEF HasToken
    <3> QED
      BY <2>1, <2>2, <3>1, <3>2 DEF ClaimInv, HoldersRow
  <2>9. \A v \in Worker \ {w} : Holding(v) /\ worker[v].plan \in Plan => p \notin SameClaim(worker[v].plan)
    <3> SUFFICES ASSUME NEW v \in Worker \ {w}, Holding(v), worker[v].plan \in Plan,
                        p \in SameClaim(worker[v].plan)
                 PROVE  FALSE
      OBVIOUS
    <3>1. PICK q \in SameClaim(worker[v].plan) :
            /\ rows[q] # NoRow
            /\ rows[q].status = "ordered" \/ (rows[q].status = "claimed" /\ rows[q].token = v)
      BY DEF ClaimInv, HoldersRow
    <3>2. q \in SameClaim(p)
      BY <3>1, SameClaimFacts
    <3>3. q = p
      BY <1>0, <2>1, <2>2, <3>1, <3>2 DEF ClaimInv, OneRow, HasToken
    <3> QED
      BY <2>1, <2>3, <3>1, <3>3 DEF HasToken
  <2>10. OneHolder'
    <3> SUFFICES ASSUME NEW v \in Worker, NEW u \in Worker, Holding(v)', Holding(u)',
                        worker'[u].plan \in SameClaim(worker'[v].plan)
                 PROVE  u = v
      BY DEF OneHolder
    <3>1. \A x \in Worker \ {w} : Holding(x)' => Holding(x) /\ worker'[x] = worker[x] /\ worker[x].plan \in Plan
      BY <1>0, <2>2, WorkerFacts DEF Holding, Work
    <3>2. CASE v # w /\ u # w
      BY <3>1, <3>2 DEF ClaimInv, OneHolder
    <3>3. CASE v = w /\ u # w
      BY <2>2, <2>9, <3>1, <3>3, SameClaimFacts
    <3>4. CASE v # w /\ u = w
      BY <2>2, <2>9, <3>1, <3>4
    <3> QED
      BY <3>2, <3>3, <3>4
  <2> QED
    BY <2>4, <2>6, <2>7, <2>8, <2>10 DEF ClaimInv
<1> QED
  BY <1>3, <1>4, <1>5, <1>6, <1>7, <1>8 DEF ClaimStep

(* The order of a claim is the first active one of its identity.           *)
LEMMA ClaimCreate ==
  ASSUME TypeInv, ClaimInv, NEW w \in Worker, CreateOrder(w)
  PROVE  ClaimInv'
<1> DEFINE p == worker[w].plan
           n == Len(orders) + 1
<1>0. /\ TypeOK /\ OrdersGrow /\ worker[w] \in Work /\ worker[w].at = "order" /\ p \in Plan
      /\ OrderId' = OrderId \union {n} /\ n \notin OrderId
      /\ \A o \in OrderId : orders'[o] = orders[o] /\ orders[o].plan \in Plan
      /\ orders'[n] = [plan |-> p, status |-> "pending"]
  BY CreateFacts, OrdersFacts DEF TypeInv, Work, Order
<1> HIDE DEF n
<1>1. /\ UNCHANGED <<rows, matcher, sweep>>
      /\ worker'[w].at = "owner" /\ worker'[w].plan = p
      /\ \A v \in Worker \ {w} : worker'[v] = worker[v]
  BY <1>0, CreateFacts DEF CreateOrder, ClaimFrame, TypeOK, Work
<1>2. Holding(w) /\ Contends(w)
  BY <1>0 DEF Holding, Contends
<1>3. \A o \in OrderId : Active(o)' <=> Active(o)
  BY <1>0, <1>1 DEF Active, Alive, Unreported
<1>4. \A o \in OrderId : Active(o) => orders[o].plan \notin SameClaim(p)
  BY <1>2 DEF ClaimInv, NoneActive
<1>5. \A v \in Worker : Holding(v)' => v # w /\ Holding(v) /\ worker'[v] = worker[v]
  BY <1>1 DEF Holding
<1>6. \A v \in Worker : Contends(v)' => v # w /\ Contends(v) /\ worker'[v] = worker[v]
  BY <1>1 DEF Contends, Holding, HasToken
<1>7. OneRow' /\ TokensAreHeld' /\ HoldersRow' /\ OneHolder'
  <2>1. OneRow' /\ TokensAreHeld'
    BY <1>1 DEF ClaimInv, OneRow, TokensAreHeld, HasToken
  <2>2. HoldersRow' /\ OneHolder'
    BY <1>1, <1>5 DEF ClaimInv, HoldersRow, OneHolder
  <2> QED
    BY <2>1, <2>2
<1>8. OneActive'
  <2> SUFFICES ASSUME NEW a \in OrderId', NEW b \in OrderId', Active(a)', Active(b)',
                      orders'[b].plan \in SameClaim(orders'[a].plan)
               PROVE  a = b
    BY DEF OneActive
  <2>1. CASE a \in OrderId /\ b \in OrderId
    BY <1>0, <1>3, <2>1 DEF ClaimInv, OneActive
  <2>2. CASE a = n /\ b \in OrderId
    BY <1>0, <1>3, <1>4, <2>2
  <2>3. CASE a \in OrderId /\ b = n
    BY <1>0, <1>3, <1>4, <2>3, SameClaimFacts
  <2> QED
    BY <1>0, <2>1, <2>2, <2>3
<1>9. PICK q \in SameClaim(p) :
        /\ rows[q] # NoRow
        /\ rows[q].status = "ordered" \/ (rows[q].status = "claimed" /\ rows[q].token = w)
  BY <1>2 DEF ClaimInv, HoldersRow
<1>10. ActiveIsKept'
  <2>1. Standing(q)'
    BY <1>1, <1>9 DEF Standing, Failed
  <2>2. \A o \in OrderId : Active(o) => \E x \in SameClaim(orders[o].plan) : Standing(x)'
    BY <1>1 DEF ClaimInv, ActiveIsKept, Standing
  <2> QED
    BY <1>0, <1>3, <1>9, <2>1, <2>2 DEF ActiveIsKept
<1>11. NoneActive'
  <2> SUFFICES ASSUME NEW v \in Worker, Contends(v)', NEW o \in OrderId', Active(o)',
                      orders'[o].plan \in SameClaim(worker'[v].plan)
               PROVE  FALSE
    BY DEF NoneActive
  <2>1. v # w /\ Contends(v) /\ worker'[v] = worker[v] /\ worker[v].plan \in Plan
    BY <1>0, <1>6, WorkerFacts DEF Contends, Holding, Work
  <2>2. CASE o \in OrderId
    BY <1>0, <1>3, <2>1, <2>2 DEF ClaimInv, NoneActive
  <2>3. CASE o = n
    <3>1. p \in SameClaim(worker[v].plan) /\ SameClaim(p) = SameClaim(worker[v].plan)
      BY <1>0, <2>1, <2>3, SameClaimFacts
    <3>2. ~Holding(v)
      BY <1>2, <2>1, <3>1 DEF ClaimInv, OneHolder
    <3>3. PICK x \in Plan : HasToken(v, x)
      BY <2>1, <3>2 DEF Contends
    <3>4. rows[x].status = "claimed" /\ worker[v].plan \in SameClaim(x)
      BY <3>3 DEF ClaimInv, TokensAreHeld
    <3>5. x \in SameClaim(p)
      BY <1>0, <2>1, <3>1, <3>3, <3>4, SameClaimFacts
    <3>6. x = q
      BY <1>0, <1>9, <3>3, <3>5, SameClaimFacts DEF ClaimInv, OneRow, HasToken
    <3> QED
      BY <1>9, <2>1, <3>3, <3>4, <3>6 DEF HasToken
  <2> QED
    BY <1>0, <2>2, <2>3
<1>12. FilledWasFilled'
  BY <1>0, <1>1 DEF ClaimInv, FilledWasFilled
<1>13. Locked'
  <2>1. Pending \subseteq Pending'
    BY <1>0 DEF Pending
  <2>2. sweep.at \in {"owner", "write"} => sweep.order \in OrderId
    BY DEF TypeInv, Cursors
  <2> QED
    BY <1>0, <1>1, <2>1, <2>2 DEF ClaimInv, Locked, Alive
<1> QED
  BY <1>7, <1>8, <1>10, <1>11, <1>12, <1>13 DEF ClaimInv

LEMMA OrderSteps ==
  ASSUME TypeInv, ClaimInv, NEW w \in Worker, OrderStep(w), ~FailingWrites
  PROVE  ClaimInv'
<1> DEFINE p == worker[w].plan
<1>1. CASE CreateOrder(w)
  BY <1>1, ClaimCreate
<1>0. CASE ~CreateOrder(w)
  <2>0. /\ TypeOK /\ rows \in RowTable /\ UNCHANGED <<orders, matcher, sweep>>
        /\ worker[w] \in Work /\ p \in Plan
    BY <1>0, WorkerFacts DEF TypeInv, TypeOK, RowTable, Work, OrderStep, OrderFails,
       RecordFails, Release, ReadOwner, RecordOrder, ClaimFrame
  <2>1. ASSUME NEW at \in {"order", "owner"}, worker[w].at = at,
               NEW step \in {"release", "record"}, Goto(w, step), UNCHANGED rows,
               step = "release" => at = "order"
        PROVE  ClaimInv'
    <3>1. /\ worker'[w].at = step /\ worker'[w].plan = p
          /\ \A v \in Worker \ {w} : worker'[v] = worker[v]
      BY <2>1, OnlyWorker DEF At
    <3>2. /\ Contends(w)' => Contends(w)
          /\ Holding(w)' => Holding(w)
      BY <2>1, <3>1 DEF Contends, Holding
    <3> QED
      BY <2>0, <2>1, <3>1, <3>2, WorkerMoves
  <2>2. CASE OrderFails(w)
    BY <2>1, <2>2 DEF OrderFails
  <2>3. CASE Release(w)
    <3> DEFINE t == IF rows[p].status = "claimed" THEN [rows EXCEPT ![p] = NoRow] ELSE rows
    <3>1. worker[w].at = "release" /\ Done(w, t)
      BY <2>3 DEF Release
    <3>2. t \in RowTable /\ \A q \in Plan : t[q] = rows[q] \/ (q = p /\ t[q] = NoRow)
      BY <2>0 DEF RowTable
    <3> HIDE DEF t
    <3>3. \A a \in Plan : \A b \in SameClaim(a) : t[a] # NoRow /\ t[b] # NoRow => a = b
      BY <3>2, SameClaimFacts DEF ClaimInv, OneRow
    <3>4. Holding(w)
      BY <3>1 DEF Holding
    <3> QED
      BY <2>0, <3>1, <3>2, <3>3, <3>4, WorkerEnds
  <2>4. CASE ReadOwner(w)
    <3>1. CASE Done(w, rows)
      BY <2>0, <3>1, WorkerEnds DEF ClaimInv, OneRow
    <3>2. CASE Goto(w, "record") /\ UNCHANGED rows
      BY <2>1, <2>4, <3>2 DEF ReadOwner
    <3> QED
      BY <2>4, <3>1, <3>2 DEF ReadOwner
  <2>5. CASE RecordOrder(w)
    <3> DEFINE o == worker[w].order
               t == Recorded(p, "ordered", o)
    <3>1. worker[w].at = "record" /\ Done(w, t)
      BY <2>5 DEF RecordOrder
    <3>2. o \in 0..MaxOrders /\ t \in RowTable
      BY <2>0, RecordedTypes DEF Work
    <3>3. PICK q \in SameClaim(p) :
            /\ t = [rows EXCEPT ![q] = [status |-> "ordered", token |-> Stale, order |-> o]]
            /\ HeldByOther(p) => q # p /\ rows[q] # NoRow
            /\ ~HeldByOther(p) => q = p
      BY <2>0, RecordedFacts
    <3> HIDE DEF t
    <3>4. q \in Plan /\ \A x \in Plan \ {q} : t[x] = rows[x]
      BY <2>0, <3>3, SameClaimFacts DEF RowTable
    <3>5. t[q].status = "ordered" /\ t[q].token = Stale /\ t[q] # NoRow
      BY <2>0, <3>3, <3>4, RowFacts DEF RowTable
    <3>6. \A r \in SameClaim(p) : rows[r] # NoRow => r = q
      <4>1. CASE HeldByOther(p)
        BY <2>0, <3>3, <3>4, <4>1, SameClaimFacts DEF ClaimInv, OneRow
      <4>2. CASE ~HeldByOther(p)
        BY <3>3, <4>2 DEF HeldByOther, Holder
      <4> QED
        BY <4>1, <4>2
    <3>7. \A a \in Plan : \A b \in SameClaim(a) : t[a] # NoRow /\ t[b] # NoRow => a = b
      BY <2>0, <3>3, <3>4, <3>6, SameClaimFacts DEF ClaimInv, OneRow
    <3> QED
      BY <2>0, <3>1, <3>2, <3>4, <3>5, <3>7, WorkerEnds
  <2> QED
    BY <1>0, <2>2, <2>3, <2>4, <2>5 DEF OrderStep, RecordFails
<1> QED
  BY <1>0, <1>1

(* A step of the matcher, the sweep or the publisher that writes no row.   *)
LEMMA RowsUntouched ==
  ASSUME TypeInv, ClaimInv, UNCHANGED <<rows, worker>>, Calm, Locked'
  PROVE  ClaimInv'
<1>1. \A v \in Worker : Contends(v)' <=> Contends(v)
  BY DEF Contends, Holding, HasToken
<1>2. OneActive' /\ NoneActive' /\ ActiveIsKept' /\ FilledWasFilled'
  BY <1>1, CalmKeeps DEF Standing
<1>3. OneRow' /\ TokensAreHeld' /\ HoldersRow' /\ OneHolder'
  BY DEF ClaimInv, OneRow, TokensAreHeld, HoldersRow, OneHolder, HasToken, Holding
<1> QED
  BY <1>2, <1>3 DEF ClaimInv

(* A report writes the end of order o, which until then was active: the    *)
(* fill it was, or a failure after which no order of the identity is left. *)
LEMMA ClaimReported ==
  ASSUME TypeInv, ClaimInv, UNCHANGED worker, Calm, Locked',
         NEW o \in OrderId, Active(o), orders[o].plan \in Plan,
         NEW status \in Failed \union {"filled"},
         rows' = Recorded(orders[o].plan, status, o),
         status = "filled" => orders'[o].status = "filled",
         status # "filled" => ~Active(o)'
  PROVE  ClaimInv'
<1> DEFINE p == orders[o].plan
<1>0. /\ TypeOK /\ rows \in RowTable /\ o \in 0..MaxOrders
  BY OrdersFacts DEF TypeInv, TypeOK, RowTable
<1>1. rows' \in RowTable
  BY <1>0, RecordedTypes
<1>2. PICK q \in SameClaim(p) :
        /\ rows' = [rows EXCEPT ![q] = [status |-> status, token |-> Stale, order |-> o]]
        /\ HeldByOther(p) => q # p /\ rows[q] # NoRow
        /\ ~HeldByOther(p) => q = p
  BY <1>0, RecordedFacts
<1>3. q \in Plan /\ \A x \in Plan \ {q} : rows'[x] = rows[x]
  BY <1>0, <1>2, SameClaimFacts DEF RowTable
<1>4. rows'[q].status = status /\ rows'[q].token = Stale /\ rows'[q] # NoRow
  BY <1>0, <1>2, <1>3, RowFacts DEF RowTable, Failed
<1>5. \A r \in SameClaim(p) : rows[r] # NoRow => r = q
  <2>1. CASE HeldByOther(p)
    BY <1>2, <1>3, <2>1, SameClaimFacts DEF ClaimInv, OneRow
  <2>2. CASE ~HeldByOther(p)
    BY <1>2, <2>2 DEF HeldByOther, Holder
  <2> QED
    BY <2>1, <2>2
<1>6. OneRow'
  BY <1>2, <1>3, <1>5, SameClaimFacts DEF ClaimInv, OneRow
<1>7. \A v \in Worker, x \in Plan : HasToken(v, x)' => HasToken(v, x) /\ x # q
  BY <1>3, <1>4, PlanClaimAssumption DEF HasToken
<1>8. TokensAreHeld'
  BY <1>3, <1>7 DEF ClaimInv, TokensAreHeld
<1>9. \A v \in Worker : /\ Holding(v)' <=> Holding(v)
                        /\ Contends(v)' => Contends(v)
  BY <1>7 DEF Holding, Contends
<1>10. OneHolder'
  BY <1>9 DEF ClaimInv, OneHolder
<1>11. OneActive' /\ NoneActive'
  BY <1>9, CalmKeeps
<1>12. HoldersRow'
  <2> SUFFICES ASSUME NEW v \in Worker, Holding(v)
               PROVE  \E x \in SameClaim(worker[v].plan) :
                        /\ rows'[x] # NoRow
                        /\ rows'[x].status = "ordered" \/ (rows'[x].status = "claimed" /\ rows'[x].token = v)
    BY <1>9 DEF HoldersRow
  <2>1. worker[v].plan \in Plan /\ Contends(v)
    BY <1>0, WorkerFacts DEF Holding, Contends, Work
  <2>2. PICK x \in SameClaim(worker[v].plan) :
          /\ rows[x] # NoRow
          /\ rows[x].status = "ordered" \/ (rows[x].status = "claimed" /\ rows[x].token = v)
    BY DEF ClaimInv, HoldersRow
  <2>3. x # q
    BY <1>2, <2>1, <2>2, SameClaimFacts DEF ClaimInv, NoneActive
  <2> QED
    BY <1>3, <2>1, <2>2, <2>3, SameClaimFacts
<1>13. ActiveIsKept'
  <2> SUFFICES ASSUME NEW a \in OrderId, Active(a)', Active(a), orders[a].plan \in Plan
               PROVE  \E x \in SameClaim(orders[a].plan) : Standing(x)'
    BY OrdersFacts DEF ActiveIsKept, Calm, OrdersGrow, TypeInv, Order
  <2>1. PICK x \in SameClaim(orders[a].plan) : Standing(x)
    BY DEF ClaimInv, ActiveIsKept
  <2>2. CASE x # q
    BY <1>3, <2>1, <2>2, SameClaimFacts DEF Standing
  <2>3. CASE x = q
    <3>1. orders[a].plan \in SameClaim(p)
      BY <1>2, <2>1, <2>3, SameClaimFacts
    <3>2. a = o
      BY <3>1 DEF ClaimInv, OneActive
    <3> QED
      BY <1>4, <2>1, <2>3, <3>2 DEF Standing, Failed
  <2> QED
    BY <2>2, <2>3
<1>14. FilledWasFilled'
  <2> SUFFICES ASSUME NEW x \in Plan, rows'[x].status = "filled"
               PROVE  \E a \in OrderId' : orders'[a].status = "filled" /\ orders'[a].plan \in SameClaim(x)
    BY DEF FilledWasFilled
  <2>1. CASE x # q
    BY <1>3, <2>1 DEF ClaimInv, FilledWasFilled, Calm, OrdersGrow
  <2>2. CASE x = q
    <3>1. p \in SameClaim(q)
      BY <1>2, SameClaimFacts
    <3>2. status = "filled" /\ orders'[o].plan = p /\ o \in OrderId'
      BY <1>4, <2>2 DEF Calm, OrdersGrow
    <3> QED
      BY <2>2, <3>1, <3>2
  <2> QED
    BY <2>1, <2>2
<1> QED
  BY <1>6, <1>8, <1>10, <1>11, <1>12, <1>13, <1>14 DEF ClaimInv

LEMMA ClaimMatch ==
  ASSUME TypeInv, ClaimInv, MatchStep, ~LateSweep
  PROVE  ClaimInv'
<1>0. /\ TypeOK /\ UNCHANGED <<worker, sweep>>
      /\ matcher = Idle \/ matcher \in [at : {"report", "write"}, todo : SUBSET OrderId, order : 0..MaxOrders]
      /\ matcher.at \in {"idle", "report", "write"}
  BY DEF TypeInv, TypeOK, Idle, MatchStep, Match, ReadOutcome, ReportOutcome, EndMatch, MatchFrame
<1>1. CASE Match
  <2>1. /\ matcher.at = "idle" /\ sweep.at = "idle" /\ UNCHANGED <<rows, worker, sweep>>
        /\ matcher' = [at |-> "report", todo |-> Pending, order |-> 0]
    BY <1>1 DEF Match, LockFree, MatchFrame
  <2>2. /\ OrdersGrow /\ OrderId' = OrderId
        /\ \A o \in OrderId : orders'[o].status # orders[o].status => o \in Pending
    BY <1>0, <1>1, MatchFacts
  <2>3. \A o \in OrderId : Active(o)' => Active(o)
    BY <2>1, <2>2 DEF Active, Alive, Unreported, Pending
  <2>4. Locked'
    BY <2>1 DEF Locked
  <2> QED
    BY <2>1, <2>2, <2>3, <2>4, RowsUntouched DEF Calm
<1>2. ASSUME NEW o \in OrderId, ReadOutcome(o) PROVE ClaimInv'
  <2>1. matcher.at = "report" /\ o \in matcher.todo /\ UNCHANGED <<rows, orders, worker, sweep>>
    BY <1>2 DEF ReadOutcome, MatchFrame
  <2>2. \/ matcher' = [matcher EXCEPT !.todo = @ \ {o}]
        \/ matcher' = [at |-> "write", todo |-> matcher.todo \ {o}, order |-> o]
    BY <1>2 DEF ReadOutcome
  <2>3. /\ matcher'.at # "idle" /\ matcher'.todo = matcher.todo \ {o}
        /\ matcher'.at = "write" => matcher'.order = o
    BY <1>0, <2>1, <2>2 DEF Idle
  <2>4. OrdersGrow /\ OrderId' = OrderId
    BY <1>0, <2>1, SameOrders
  <2>5. \A a \in OrderId : Active(a)' => Active(a)
    BY <2>1, <2>3 DEF Active, Alive, Unreported
  <2>6. Locked'
    BY <2>1, <2>3, <2>4 DEF ClaimInv, Locked, Pending, OrderId, Alive
  <2> QED
    BY <2>1, <2>4, <2>5, <2>6, RowsUntouched DEF Calm
<1>3. CASE ReportOutcome
  <2> DEFINE o == matcher.order
  <2>1. /\ matcher.at = "write" /\ matcher' = [matcher EXCEPT !.at = "report"]
        /\ rows' = Recorded(orders[o].plan, orders[o].status, o)
        /\ UNCHANGED <<orders, worker, sweep>>
    BY <1>3 DEF ReportOutcome, MatchFrame
  <2>2. o \in OrderId /\ orders[o].status # "pending" /\ o \notin matcher.todo /\ sweep.at = "idle"
    BY <2>1 DEF TypeInv, Cursors, ClaimInv, Locked
  <2>3. orders[o].plan \in Plan /\ orders[o].status \in Failed \union {"filled"}
    BY <1>0, <2>2, OrdersFacts DEF Order, Failed
  <2>4. matcher'.at = "report" /\ matcher'.todo = matcher.todo /\ matcher'.order = o
    BY <1>0, <2>1 DEF Idle
  <2>5. Calm
    <3>1. OrdersGrow /\ OrderId' = OrderId
      BY <1>0, <2>1, SameOrders
    <3>2. \A a \in OrderId : Active(a)' => Active(a)
      BY <2>1, <2>4 DEF Active, Alive, Unreported
    <3> QED
      BY <3>1, <3>2 DEF Calm
  <2>6. Active(o) /\ (orders[o].status # "filled" => ~Active(o)')
    BY <2>1, <2>2, <2>4 DEF Active, Alive, Unreported
  <2>7. Locked'
    BY <2>1, <2>2, <2>4 DEF Locked
  <2> QED
    BY <2>1, <2>2, <2>3, <2>5, <2>6, <2>7, ClaimReported
<1>4. CASE EndMatch
  <2>1. matcher' = Idle /\ UNCHANGED <<rows, orders, worker, sweep>>
    BY <1>4 DEF EndMatch, MatchFrame
  <2>2. OrdersGrow /\ OrderId' = OrderId
    BY <1>0, <2>1, SameOrders
  <2>3. \A a \in OrderId : Active(a)' => Active(a)
    BY <2>1 DEF Active, Alive, Unreported, Idle
  <2>4. Locked'
    BY <2>1, <2>2 DEF ClaimInv, Locked, Pending, OrderId, Alive, Idle
  <2> QED
    BY <2>1, <2>2, <2>3, <2>4, RowsUntouched DEF Calm
<1> QED
  BY <1>1, <1>2, <1>3, <1>4 DEF MatchStep

LEMMA ClaimSweep ==
  ASSUME TypeInv, ClaimInv, SweepStep, ~LateSweep
  PROVE  ClaimInv'
<1> DEFINE SweepAt == [at : {"cancel", "owner", "write"}, todo : SUBSET OrderId, order : 0..MaxOrders]
<1>0. /\ TypeOK /\ UNCHANGED <<worker, matcher>>
      /\ (sweep.at # "idle" => sweep \in SweepAt)
      /\ (sweep.at \in {"owner", "write"} => sweep.order \in OrderId)
      /\ (sweep.at # "idle" => matcher.at = "idle" /\ sweep.todo \subseteq Pending)
      /\ Pending \subseteq OrderId
  BY OrdersFacts DEF TypeInv, TypeOK, Idle, Cursors, ClaimInv, Locked, SweepStep, SweepBegin,
     SweepCancel, SweepOwner, SweepReport, SweepFrame
<1>1. CASE SweepBegin
  <2>1. PICK old \in (SUBSET Pending) \ {{}} : sweep' = NextSwept(old)
    BY <1>1 DEF SweepBegin
  <2>2. sweep' = [at |-> "cancel", todo |-> old, order |-> 0]
    <3>1. old # {}
      BY <2>1
    <3> QED
      BY <2>1, <3>1 DEF NextSwept
  <2>3. matcher.at = "idle" /\ UNCHANGED <<rows, orders, worker, matcher>>
    BY <1>1 DEF SweepBegin, LockFree, SweepFrame
  <2>4. OrdersGrow /\ OrderId' = OrderId /\ Pending' = Pending
    BY <1>0, <2>3, SameOrders DEF Pending
  <2>5. \A o \in OrderId : Active(o)' => Active(o)
    BY <2>1, <2>2, <2>3 DEF Active, Alive, Unreported, Pending
  <2>6. Locked'
    BY <2>1, <2>2, <2>3, <2>4 DEF Locked
  <2> QED
    BY <2>3, <2>4, <2>5, <2>6, RowsUntouched DEF Calm
<1>2. ASSUME NEW o \in OrderId, SweepCancel(o) PROVE ClaimInv'
  <2>1. /\ sweep.at = "cancel" /\ o \in sweep.todo /\ UNCHANGED <<rows, worker, matcher>>
        /\ sweep' = [at |-> "owner", todo |-> sweep.todo \ {o}, order |-> o]
    BY <1>2 DEF SweepCancel, SweepFrame
  <2>2. /\ OrdersGrow /\ OrderId' = OrderId
        /\ orders'[o].status = "canceled"
        /\ \A a \in OrderId \ {o} : orders'[a] = orders[a]
    BY <1>0, <1>2, <2>1, CancelFacts
  <2>3. \A a \in OrderId : Active(a)' => Active(a)
    BY <2>1, <2>2 DEF Active, Alive, Unreported
  <2>4. Locked'
    BY <1>0, <2>1, <2>2 DEF Locked, Pending, Alive
  <2> QED
    BY <2>1, <2>2, <2>3, <2>4, RowsUntouched DEF Calm
<1>3. \A a \in OrderId : orders[a].plan \in Plan
  BY <1>0, OrdersFacts DEF Order
<1>4. ASSUME NEW o \in OrderId, o = sweep.order, sweep.at \in {"owner", "write"},
             sweep' = NextSwept(sweep.todo), UNCHANGED orders
      PROVE  Calm /\ Locked' /\ ~Active(o)'
  <2>1. \/ sweep' = Idle
        \/ sweep' = [at |-> "cancel", todo |-> sweep.todo, order |-> 0]
    BY <1>4 DEF NextSwept
  <2>2. OrdersGrow /\ OrderId' = OrderId /\ Pending' = Pending
    BY <1>0, <1>4, SameOrders DEF Pending
  <2>3. \A a \in OrderId : Active(a)' => Active(a)
    BY <1>0, <1>4, <2>1 DEF Active, Alive, Unreported, Idle
  <2>4. Locked'
    BY <1>0, <1>4, <2>1, <2>2 DEF Locked, Idle
  <2>5. o \notin sweep.todo /\ ~Alive(o)
    BY <1>0, <1>4 DEF ClaimInv, Locked, Pending, Alive
  <2>6. ~Active(o)'
    BY <1>0, <1>4, <2>1, <2>5 DEF Active, Alive, Unreported, Idle
  <2> QED
    BY <2>2, <2>3, <2>4, <2>6 DEF Calm
<1>5. CASE SweepOwner
  <2>1. /\ sweep.at = "owner" /\ UNCHANGED <<rows, orders, worker, matcher>>
        /\ sweep' = NextSwept(sweep.todo) \/ sweep' = [sweep EXCEPT !.at = "write"]
    BY <1>5 DEF SweepOwner, SweepFrame
  <2>2. CASE sweep' = NextSwept(sweep.todo)
    BY <1>0, <1>4, <2>1, <2>2, RowsUntouched
  <2>3. CASE sweep' = [sweep EXCEPT !.at = "write"]
    <3>1. sweep'.at = "write" /\ sweep'.todo = sweep.todo /\ sweep'.order = sweep.order
      BY <1>0, <2>1, <2>3
    <3>2. OrdersGrow /\ OrderId' = OrderId /\ Pending' = Pending
      BY <1>0, <2>1, SameOrders DEF Pending
    <3>3. \A a \in OrderId : Active(a)' => Active(a)
      BY <2>1, <3>1 DEF Active, Alive, Unreported
    <3>4. Locked'
      BY <1>0, <2>1, <3>1, <3>2 DEF ClaimInv, Locked, Alive
    <3> QED
      BY <2>1, <3>2, <3>3, <3>4, RowsUntouched DEF Calm
  <2> QED
    BY <2>1, <2>2, <2>3
<1>6. CASE SweepReport
  <2>0. PICK o \in OrderId : o = sweep.order
    BY <1>0, <1>6 DEF SweepReport
  <2>1. /\ sweep.at = "write" /\ sweep' = NextSwept(sweep.todo)
        /\ rows' = Recorded(orders[o].plan, "timeout", o)
        /\ UNCHANGED <<orders, worker, matcher>>
    BY <1>6, <2>0 DEF SweepReport, SweepFrame
  <2>2. o \in OrderId /\ Active(o)
    BY <2>0, <2>1 DEF Active, Unreported
  <2>3. "timeout" \in Failed \union {"filled"}
    BY DEF Failed
  <2> QED
    BY <1>0, <1>3, <1>4, <2>0, <2>1, <2>2, <2>3, ClaimReported
<1> QED
  BY <1>1, <1>2, <1>5, <1>6 DEF SweepStep

LEMMA ClaimRest ==
  ASSUME TypeInv, ClaimInv, PubStep \/ Restart \/ UNCHANGED vars
  PROVE  ClaimInv'
<1>1. CASE PubStep \/ UNCHANGED vars
  <2>1. UNCHANGED <<rows, orders, worker, matcher, sweep>>
    BY <1>1 DEF PubStep, SupersedePlan, Publish, Invalidate, SupersedeRelated, PubFrame, vars
  <2> QED
    BY <2>1, CalmWorker, LockedWorker, RowsUntouched DEF ClaimInv
<1>2. CASE Restart
  <2>1. /\ worker' = [w \in Worker |-> Idle] /\ matcher' = Idle /\ sweep' = Idle /\ UNCHANGED orders
        /\ rows' = [p \in Plan |-> IF rows[p] = NoRow THEN NoRow
                                   ELSE [rows[p] EXCEPT !.token = Stale]]
    BY <1>2 DEF Restart
  <2>2. \A p \in Plan : /\ rows'[p] = NoRow <=> rows[p] = NoRow
                        /\ rows'[p].status = rows[p].status
                        /\ rows'[p] # NoRow => rows'[p].token = Stale
    <3> SUFFICES ASSUME NEW p \in Plan
                 PROVE  /\ rows'[p] = NoRow <=> rows[p] = NoRow
                        /\ rows'[p].status = rows[p].status
                        /\ rows'[p] # NoRow => rows'[p].token = Stale
      OBVIOUS
    <3>1. CASE rows[p] = NoRow
      BY <2>1, <3>1
    <3>2. CASE rows[p] \in Row
      BY <2>1, <3>2, RowFacts DEF Row
    <3> QED
      BY <3>1, <3>2 DEF TypeInv, TypeOK
  <2>3. \A w \in Worker : /\ ~Holding(w)' /\ ~Contends(w)'
                          /\ \A p \in Plan : ~HasToken(w, p)'
    BY <2>1, <2>2, PlanClaimAssumption DEF Holding, Contends, HasToken, Idle
  <2>4. Calm
    <3>1. OrdersGrow /\ OrderId' = OrderId
      BY <2>1, SameOrders DEF TypeInv
    <3>2. \A o \in OrderId : Active(o)' => Active(o)
      BY <2>1 DEF Active, Alive, Unreported, Idle
    <3> QED
      BY <3>1, <3>2 DEF Calm
  <2>5. OneActive' /\ NoneActive' /\ ActiveIsKept' /\ FilledWasFilled'
    BY <2>2, <2>3, <2>4, CalmKeeps DEF Standing
  <2>6. OneRow' /\ TokensAreHeld' /\ HoldersRow' /\ OneHolder'
    BY <2>2, <2>3, SameClaimFacts DEF ClaimInv, OneRow, TokensAreHeld, HoldersRow, OneHolder
  <2>7. Locked'
    BY <2>1 DEF Locked, Idle
  <2> QED
    BY <2>5, <2>6, <2>7 DEF ClaimInv
<1> QED
  BY <1>1, <1>2

LEMMA ClaimNext ==
  ASSUME TypeInv, ClaimInv, [Next]_vars, ~LateSweep, ~FailingWrites
  PROVE  ClaimInv'
  BY ClaimSteps, OrderSteps, ClaimMatch, ClaimSweep, ClaimRest DEF Next

LEMMA ClaimHolds ==
  ASSUME ~LateSweep, ~FailingWrites
  PROVE  Spec => []ClaimInv
<1>1. TypeInv /\ ClaimInv /\ [Next]_vars => ClaimInv'
  BY ClaimNext
<1> QED
  BY <1>1, ClaimInit, TypeHolds, PTL DEF Spec

(* As long as the sweep keeps to the paper lock and no statement after the *)
(* insert of an order raises, a plan, or a group of alternative plans, is  *)
(* consumed by one order: any number of threads may race for it, plans be  *)
(* superseded and published again, failures reopen it and restarts cut     *)
(* into every step.                                                        *)
THEOREM PlanIsConsumedOnce ==
  ASSUME ~LateSweep, ~FailingWrites
  PROVE  Spec => []ConsumedOnce
<1>1. ClaimInv => ConsumedOnce
  BY DEF ClaimInv, OneActive, Active, ConsumedOnce
<1> QED
  BY <1>1, ClaimHolds, PTL

(* On the same conditions no two threads hold one claim at once.           *)
THEOREM ClaimHasOneHolder ==
  ASSUME ~LateSweep, ~FailingWrites
  PROVE  Spec => []OneHolder
<1>1. ClaimInv => OneHolder
  BY DEF ClaimInv
<1> QED
  BY <1>1, ClaimHolds, PTL

----------------------------------------------------------------------------
(* What a step may do to a row that says filled.                           *)

StaysFilled(p) ==
  rows[p].status = "filled" => rows'[p].status \notin Failed \union {"none", "claimed"}

LEMMA FilledWorker ==
  ASSUME TypeInv, NEW w \in Worker, NEW p \in Plan,
         (\E q \in Plan : CheckPlan(w, q)) \/ ClaimStep(w) \/ OrderStep(w)
  PROVE  StaysFilled(p)
<1> DEFINE own == worker[w].plan
<1> SUFFICES ASSUME rows[p].status = "filled"
             PROVE  rows'[p].status \in {"filled", "ordered"}
  BY DEF StaysFilled, Failed
<1>0. TypeOK /\ rows \in RowTable /\ rows[p] # NoRow
      /\ (worker[w].at # "idle" => worker[w] \in Work /\ own \in Plan)
  BY RowFacts, WorkerFacts DEF TypeInv, TypeOK, RowTable, Work
<1>1. ASSUME NEW t \in RowTable, Done(w, t), t[p].status \in {"filled", "ordered"}
      PROVE  rows'[p].status \in {"filled", "ordered"}
  BY <1>1, RetireFacts DEF Done, RowTable
<1>2. CASE UNCHANGED rows
  BY <1>2
<1>3. CASE Reopen(w)
  BY <1>3, <1>0 DEF Reopen, Failed
<1>4. CASE InsertClaim(w)
  <2>1. rows'[p] = rows[p]
    <3>1. CASE Holder(own) = {}
      <4>1. own # p
        BY <1>0, <3>1, SameClaimFacts DEF Holder
      <4> QED
        BY <1>0, <1>4, <3>1, <4>1 DEF InsertClaim, RowTable
    <3>2. CASE Holder(own) # {}
      BY <1>4, <3>2 DEF InsertClaim
    <3> QED
      BY <3>1, <3>2
  <2> QED
    BY <2>1
<1>5. CASE Release(w)
  <2> DEFINE t == IF rows[own].status = "claimed" THEN [rows EXCEPT ![own] = NoRow] ELSE rows
  <2>1. Done(w, t) /\ t \in RowTable /\ t[p] = rows[p]
    BY <1>0, <1>5 DEF Release, RowTable
  <2> HIDE DEF t
  <2> QED
    BY <1>1, <2>1
<1>6. CASE RecordOrder(w)
  <2> DEFINE o == worker[w].order
             t == Recorded(own, "ordered", o)
  <2>1. Done(w, t) /\ own \in Plan /\ o \in 0..MaxOrders
    BY <1>0, <1>6 DEF RecordOrder, Work
  <2>2. t \in RowTable
    BY <1>0, <2>1, RecordedTypes
  <2>3. PICK q \in SameClaim(own) :
          t = [rows EXCEPT ![q] = [status |-> "ordered", token |-> Stale, order |-> o]]
    BY <1>0, <2>1, RecordedFacts
  <2> HIDE DEF t
  <2>4. t[p].status \in {"filled", "ordered"}
    <3>1. CASE p = q
      BY <1>0, <2>3, <3>1 DEF RowTable
    <3>2. CASE p # q
      BY <1>0, <2>3, <3>2 DEF RowTable
    <3> QED
      BY <3>1, <3>2
  <2> QED
    BY <1>1, <2>1, <2>2, <2>4
<1>7. CASE Done(w, rows)
  BY <1>0, <1>1, <1>7
<1> QED
  BY <1>2, <1>3, <1>4, <1>5, <1>6, <1>7 DEF CheckPlan, ClaimStep, OrderStep, ReadSibling, Verify,
     CreateOrder, OrderFails, RecordFails, ReadOwner

(* A failure is never reported into the identity of a filled order: the    *)
(* order reported would be a second active one.                            *)
LEMMA FilledReported ==
  ASSUME TypeInv, ClaimInv, NEW p \in Plan, NEW o \in OrderId, Active(o),
         NEW status \in Failed \union {"filled"},
         rows' = Recorded(orders[o].plan, status, o),
         orders[o].status = "filled" => status = "filled"
  PROVE  StaysFilled(p)
<1>0. TypeOK /\ rows \in RowTable /\ \A a \in OrderId : orders[a].plan \in Plan
  BY OrdersFacts DEF TypeInv, TypeOK, RowTable, Order
<1>1. PICK q \in SameClaim(orders[o].plan) :
        rows' = [rows EXCEPT ![q] = [status |-> status, token |-> Stale, order |-> o]]
  BY <1>0, RecordedFacts
<1>2. CASE p # q
  BY <1>0, <1>1, <1>2 DEF StaysFilled, RowTable, Failed
<1>3. CASE p = q
  <2> SUFFICES ASSUME rows[p].status = "filled" PROVE rows'[p].status = "filled"
    BY DEF StaysFilled, Failed
  <2>1. PICK a \in OrderId : orders[a].status = "filled" /\ orders[a].plan \in SameClaim(p)
    BY DEF ClaimInv, FilledWasFilled
  <2>2. orders[a].plan \in SameClaim(orders[o].plan)
    BY <1>0, <1>1, <1>3, <2>1, SameClaimFacts
  <2>3. a = o
    BY <2>1, <2>2 DEF ClaimInv, OneActive, Active, Alive
  <2> QED
    BY <1>0, <1>1, <1>3, <2>1, <2>3 DEF RowTable
<1> QED
  BY <1>2, <1>3

LEMMA FilledNext ==
  ASSUME TypeInv, ClaimInv, [Next]_vars, NEW p \in Plan
  PROVE  StaysFilled(p)
<1>1. CASE UNCHANGED rows
  BY <1>1 DEF StaysFilled, Failed
<1>2. ASSUME NEW w \in Worker, (\E q \in Plan : CheckPlan(w, q)) \/ ClaimStep(w) \/ OrderStep(w)
      PROVE  StaysFilled(p)
  BY <1>2, FilledWorker
<1>3. CASE ReportOutcome
  <2>1. /\ matcher.order \in OrderId /\ orders[matcher.order].status # "pending"
        /\ Active(matcher.order)
        /\ rows' = Recorded(orders[matcher.order].plan, orders[matcher.order].status, matcher.order)
    BY <1>3 DEF ReportOutcome, TypeInv, Cursors, Active, Unreported
  <2>2. orders[matcher.order].status \in Failed \union {"filled"}
    BY <2>1, OrdersFacts DEF TypeInv, Order, Failed
  <2> QED
    BY <2>1, <2>2, FilledReported
<1>4. CASE SweepReport
  <2>1. /\ sweep.order \in OrderId /\ Active(sweep.order) /\ ~Alive(sweep.order)
        /\ rows' = Recorded(orders[sweep.order].plan, "timeout", sweep.order)
    BY <1>4 DEF SweepReport, TypeInv, Cursors, Active, Unreported, ClaimInv, Locked
  <2> QED
    BY <2>1, FilledReported DEF Alive, Failed
<1>5. CASE Restart
  <2>1. rows'[p] = IF rows[p] = NoRow THEN NoRow ELSE [rows[p] EXCEPT !.token = Stale]
    BY <1>5 DEF Restart
  <2>2. rows[p] \in Row \union {NoRow}
    BY DEF TypeInv, TypeOK
  <2>3. rows'[p].status = rows[p].status
    BY <2>1, <2>2, RowFacts DEF Row
  <2> QED
    BY <2>3 DEF StaysFilled, Failed
<1> QED
  BY <1>1, <1>2, <1>3, <1>4, <1>5 DEF Next, vars, MatchStep, SweepStep, PubStep, PubFrame, Match,
     ReadOutcome, EndMatch, SweepBegin, SweepCancel, SweepOwner, SupersedePlan, Publish,
     Invalidate, SupersedeRelated

(* On the same conditions a row that says filled never again becomes one   *)
(* from which the plan could be claimed.                                   *)
THEOREM FilledIsFinal ==
  ASSUME ~LateSweep, ~FailingWrites
  PROVE  Spec => FilledNeverReopens
<1>1. TypeInv /\ ClaimInv /\ [Next]_vars =>
        [\A p \in Plan : rows[p].status = "filled" =>
           rows'[p].status \notin Failed \union {"none", "claimed"}]_vars
  BY FilledNext DEF StaysFilled
<1> QED
  BY <1>1, TypeHolds, ClaimHolds, PTL DEF Spec, FilledNeverReopens

----------------------------------------------------------------------------
(* The account's limits.                                                    *)

(* The assumption on the constants, as a lemma cites it.                    *)
PlansParameters ==
  /\ IsFiniteSet(Strategies)
  /\ IsFiniteSet(Orders) /\ Orders \subseteq Nat \ {0}
  /\ DailyLimit \in Nat \ {0} /\ MaxPositions \in Nat \ {0} /\ LossLimit \in Nat
  /\ Days \in Nat \ {0}

Account == [day : 1..Days, count : Nat, breaker : BOOLEAN]
ThreadRecord == [at : {"idle", "limits", "recheck", "record", "submit", "cool"},
                 id : Orders \union {0}]
OrderRecord == [by : Strategies \union {"nobody"}, day : 0..Days,
                at : {"none", "made", "sent", "open", "closed", "gone"}]

RiskTyped ==
  /\ today \in 1..Days /\ lost \in Nat
  /\ risk \in Account /\ riskRow \in Account
  /\ thread \in [Strategies -> ThreadRecord]
  /\ order \in [Orders -> OrderRecord]
  /\ seen \subseteq Orders /\ blind \subseteq Orders
  /\ cool \in [mem : SUBSET Strategies, table : SUBSET Strategies]
  /\ close \subseteq Strategies /\ forgot \subseteq Strategies

(* A thread with an order in hand has one of its own, and every order that  *)
(* is made is in the hands of a thread.                                     *)
Holds(s, o) == thread[s].at \in {"recheck", "record", "submit"} /\ thread[s].id = o
ThreadsHold ==
  /\ \A s \in Strategies : thread[s].at \in {"recheck", "record", "submit"} =>
        /\ thread[s].id \in Orders
        /\ order[thread[s].id].at = "made" /\ order[thread[s].id].by = s
  /\ \A o \in Orders : order[o].at = "made" => \E s \in Strategies : Holds(s, o)

LEMMA RiskTypedInit == ASSUME PlansParameters PROVE Risk!Init => RiskTyped /\ ThreadsHold
  BY DEF PlansParameters, Risk!Init, RiskTyped, ThreadsHold, Holds, Risk!Fresh, Risk!Absent, Risk!NoOrder,
         Account, ThreadRecord, OrderRecord

LEMMA RiskTypedStep ==
  ASSUME PlansParameters, RiskTyped, ThreadsHold, [Risk!Next]_(Risk!vars)
  PROVE  RiskTyped' /\ ThreadsHold'
<1> USE DEF PlansParameters, RiskTyped, Account, ThreadRecord, OrderRecord,
           Risk!Fresh, Risk!Absent, Risk!NoOrder
<1>1. ASSUME NEW s \in Strategies, Risk!Guard(s) PROVE RiskTyped' /\ ThreadsHold'
  <2>1. RiskTyped'
    BY <1>1 DEF Risk!Guard, Risk!To, Risk!world
  <2>2. ThreadsHold'
    BY <1>1, SMTT(30) DEF Risk!Guard, Risk!To, Risk!world, ThreadsHold, Holds
  <2> QED
    BY <2>1, <2>2
<1> DEFINE sync == Risk!Synced
<1>2. sync \in Account
  <2>1. Risk!Reset \in Account
    BY DEF Risk!Reset
  <2> DEFINE trips == lost >= LossLimit
  <2>2. trips \in BOOLEAN
    OBVIOUS
  <2>3. sync = [Risk!Reset EXCEPT !.breaker = trips]
    BY DEF Risk!Synced
  <2> HIDE DEF trips, sync
  <2> QED
    BY <2>1, <2>2, <2>3
<1> HIDE DEF sync
<1>3. ASSUME NEW s \in Strategies, Risk!Limits(s) PROVE RiskTyped' /\ ThreadsHold'
  <2>1. risk' = sync /\ riskRow' \in {sync, riskRow}
    BY <1>3 DEF Risk!Limits, Risk!CheckRisk, sync
  <2>2. CASE Risk!Leave(s) /\ UNCHANGED <<order, blind>>
    <3>1. RiskTyped'
      BY <1>2, <1>3, <2>1, <2>2 DEF Risk!Limits, Risk!Leave
    <3>2. ThreadsHold'
      BY <1>3, <2>2 DEF Risk!Limits, Risk!Leave, ThreadsHold, Holds
    <3> QED
      BY <3>1, <3>2
  <2>3. CASE ~ (Risk!Leave(s) /\ UNCHANGED <<order, blind>>)
    <3>1. PICK o \in Orders :
             /\ order[o].at = "none"
             /\ order' = [order EXCEPT ![o] = [by |-> s, at |-> "made", day |-> 0]]
             /\ thread' = [thread EXCEPT ![s] = [at |-> "recheck", id |-> o]]
             /\ blind' = IF Risk!Unseen # {} \/ Risk!Begun # {} THEN blind \cup {o} ELSE blind
      BY <1>3, <2>3 DEF Risk!Limits
    <3>2. RiskTyped'
      <4>1. order' \in [Orders -> OrderRecord] /\ thread' \in [Strategies -> ThreadRecord]
        BY <3>1
      <4>2. blind' \subseteq Orders
        BY <3>1
      <4>3. risk' \in Account /\ riskRow' \in Account
        BY <1>2, <2>1
      <4>4. UNCHANGED <<today, seen, lost, cool, close, forgot>>
        BY <1>3 DEF Risk!Limits
      <4> HIDE DEF Account, ThreadRecord, OrderRecord
      <4> QED
        BY <4>1, <4>2, <4>3, <4>4
    <3>3. ThreadsHold'
      BY <1>3, <3>1 DEF Risk!Limits, ThreadsHold, Holds
    <3> QED
      BY <3>2, <3>3
  <2> QED
    BY <2>2, <2>3
<1>4. ASSUME NEW s \in Strategies, Risk!Recheck(s) PROVE RiskTyped' /\ ThreadsHold'
  <2>1. risk' = sync /\ riskRow' \in {sync, riskRow}
    BY <1>4 DEF Risk!Recheck, Risk!CheckRisk, sync
  <2> DEFINE o == thread[s].id
  <2>2. o \in Orders /\ thread[s].at = "recheck"
    BY <1>4 DEF Risk!Recheck, ThreadsHold
  <2> HIDE DEF o
  <2>3. \/ order' = order /\ Risk!To(s, "record")
        \/ order' = [order EXCEPT ![o].at = "gone"] /\ Risk!Leave(s)
    BY <1>4, <2>2 DEF Risk!Recheck, Risk!Drop, o
  <2>4. order' \in [Orders -> OrderRecord]
    BY <2>2, <2>3
  <2>5. RiskTyped'
    BY <1>2, <1>4, <2>1, <2>4 DEF Risk!Recheck, Risk!Leave, Risk!To, Risk!histories
  <2>6. CASE order' = order /\ Risk!To(s, "record")
    BY <2>2, <2>5, <2>6 DEF Risk!To, ThreadsHold, Holds
  <2>7. CASE order' = [order EXCEPT ![o].at = "gone"] /\ Risk!Leave(s)
    BY <2>7, <2>2, <2>5 DEF Risk!Leave, ThreadsHold, Holds, o
  <2> QED
    BY <2>3, <2>5, <2>6, <2>7
<1>5. ASSUME NEW s \in Strategies, Risk!Record(s) PROVE RiskTyped' /\ ThreadsHold'
  <2>1. Risk!Counted \in Account
    <3>1. Risk!Reset \in Account
      BY DEF Risk!Reset
    <3> QED
      BY <3>1 DEF Risk!Counted
  <2> DEFINE o == thread[s].id
  <2>2. o \in Orders /\ thread[s].at = "record"
    BY <1>5 DEF Risk!Record, ThreadsHold
  <2> HIDE DEF o
  <2>3. \/ order' = [order EXCEPT ![o].day = today] /\ Risk!To(s, "submit")
        \/ order' = [order EXCEPT ![o].at = "gone"] /\ Risk!To(s, "cool")
    BY <1>5, <2>2 DEF Risk!Record, Risk!Drop, o
  <2>4. order' \in [Orders -> OrderRecord]
    BY <2>2, <2>3
  <2>5. risk' \in Account /\ riskRow' \in Account
    BY <1>5, <2>1 DEF Risk!Record
  <2>6. thread' \in [Strategies -> ThreadRecord]
    BY <2>3, SMTT(30) DEF Risk!To
  <2>7. RiskTyped'
    BY <1>5, <2>4, <2>5, <2>6 DEF Risk!Record, Risk!histories
  <2>8. CASE order' = [order EXCEPT ![o].day = today] /\ Risk!To(s, "submit")
    <3>1. \A p \in Orders : order'[p].at = order[p].at /\ order'[p].by = order[p].by
      BY <2>8, <2>2
    <3> QED
      BY <3>1, <2>2, <2>7, <2>8 DEF Risk!To, ThreadsHold, Holds, o
  <2>9. CASE order' = [order EXCEPT ![o].at = "gone"] /\ Risk!To(s, "cool")
    BY <2>2, <2>7, <2>9 DEF Risk!To, ThreadsHold, Holds, o
  <2> QED
    BY <2>3, <2>7, <2>8, <2>9
<1>6. ASSUME NEW s \in Strategies, Risk!Submit(s) PROVE RiskTyped' /\ ThreadsHold'
  <2> DEFINE o == thread[s].id
  <2>1. o \in Orders /\ thread[s].at = "submit" /\ Risk!To(s, "cool")
    BY <1>6 DEF Risk!Submit, ThreadsHold
  <2> HIDE DEF o
  <2>2. \/ order' = [order EXCEPT ![o].at = "sent"]
        \/ order' = [order EXCEPT ![o].at = "gone"]
    BY <1>6 DEF Risk!Submit, Risk!Drop, o
  <2>3. order' \in [Orders -> OrderRecord]
    BY <2>1, <2>2
  <2>4. RiskTyped'
    BY <1>6, <2>3 DEF Risk!Submit, Risk!To
  <2>5. \A p \in Orders : /\ p # o => order'[p] = order[p]
                         /\ order'[o].at # "made"
    BY <2>1, <2>2
  <2>6. ThreadsHold'
    BY <2>1, <2>5 DEF Risk!To, ThreadsHold, Holds, o
  <2> QED
    BY <2>4, <2>6
<1>7. ASSUME NEW s \in Strategies, Risk!Cool(s) \/ Risk!Lapse(s) PROVE RiskTyped' /\ ThreadsHold'
  <2>1. RiskTyped'
    BY <1>7 DEF Risk!Cool, Risk!Lapse, Risk!Leave, Risk!world
  <2>2. ThreadsHold'
    BY <1>7 DEF Risk!Cool, Risk!Lapse, Risk!Leave, Risk!world, ThreadsHold, Holds
  <2> QED
    BY <2>1, <2>2
<1>8. ASSUME NEW o \in Orders, Risk!Deal(o) \/ Risk!Close(o) PROVE RiskTyped' /\ ThreadsHold'
  <2>1. \/ order[o].at = "sent" /\ order' = [order EXCEPT ![o].at = "open"]
        \/ order[o].at = "open" /\ order' = [order EXCEPT ![o].at = "closed"]
    BY <1>8 DEF Risk!Deal, Risk!Close
  <2>2. order' \in [Orders -> OrderRecord]
    BY <2>1
  <2>3. RiskTyped'
    BY <1>8, <2>2 DEF Risk!Deal, Risk!Close, Risk!histories
  <2>4. thread' = thread
    BY <1>8 DEF Risk!Deal, Risk!Close
  <2>5. ThreadsHold'
    BY <2>1, <2>4, SMTT(30) DEF ThreadsHold, Holds
  <2> QED
    BY <2>3, <2>5
<1>9. ASSUME Risk!Snapshot \/ Risk!NewDay \/ \E o \in Orders : Risk!Report(o) \/ Risk!Forgive(o)
      PROVE  RiskTyped' /\ ThreadsHold'
  <2>1. UNCHANGED <<risk, riskRow, thread, order, cool, blind, close, forgot>>
    BY <1>9 DEF Risk!Snapshot, Risk!NewDay, Risk!Report, Risk!Forgive, Risk!histories
  <2>2. today' \in 1..Days /\ lost' \in Nat
    BY <1>9 DEF Risk!Snapshot, Risk!NewDay, Risk!Report, Risk!Forgive
  <2>3. Risk!Open \subseteq Orders
    BY DEF Risk!Open
  <2>4. seen' \subseteq Orders
    BY <1>9, <2>3 DEF Risk!Snapshot, Risk!NewDay, Risk!Report, Risk!Forgive
  <2> QED
    BY <2>1, <2>2, <2>4 DEF ThreadsHold, Holds
<1>10. ASSUME Risk!Restart PROVE RiskTyped' /\ ThreadsHold'
  <2>1. order' = [o \in Orders |-> IF order[o].at = "made" THEN [order[o] EXCEPT !.at = "gone"]
                                   ELSE order[o]]
    BY <1>10 DEF Risk!Restart
  <2>2. order' \in [Orders -> OrderRecord] /\ \A o \in Orders : order'[o].at # "made"
    BY <2>1
  <2>3. risk' \in Account /\ riskRow' \in Account
    BY <1>10 DEF Risk!Restart
  <2>4. thread' = [t \in Strategies |-> [at |-> "idle", id |-> 0]]
    BY <1>10 DEF Risk!Restart
  <2>5. RiskTyped'
    BY <1>10, <2>2, <2>3, <2>4 DEF Risk!Restart
  <2>6. ThreadsHold'
    BY <2>2, <2>4 DEF ThreadsHold, Holds
  <2> QED
    BY <2>5, <2>6
<1>11. ASSUME UNCHANGED Risk!vars PROVE RiskTyped' /\ ThreadsHold'
  BY <1>11 DEF Risk!vars, ThreadsHold, Holds
<1> QED
  BY <1>1, <1>3, <1>4, <1>5, <1>6, <1>7, <1>8, <1>9, <1>10, <1>11
     DEF Risk!Next, Risk!Tick, Risk!Terminal

(* The count of the day.                                                    *)
CountedOn(d) == {o \in Orders : order[o].day = d}
Recording == {s \in Strategies : thread[s].at = "record"}
Most == DailyLimit - 1 + Cardinality(Strategies)

DaysOrdered ==
  /\ riskRow.day <= risk.day /\ risk.day <= today
  /\ riskRow.day = risk.day => riskRow.count <= risk.count
CountsCover ==
  /\ \A o \in Orders : order[o].day <= riskRow.day
  /\ Cardinality(CountedOn(risk.day)) <= risk.count
  /\ Cardinality(CountedOn(riskRow.day)) <= riskRow.count
(* A thread that has passed the limit and not counted its order yet is one  *)
(* of the strategies.                                                       *)
LimitKept ==
  /\ risk.day = today => risk.count + Cardinality(Recording) <= Most
  /\ \A d \in 1..Days : Cardinality(CountedOn(d)) <= Most

CountInv == DaysOrdered /\ CountsCover /\ LimitKept

LEMMA Parts ==
  ASSUME NEW T, IsFiniteSet(T), NEW S, S \subseteq T
  PROVE  /\ IsFiniteSet(S)
         /\ Cardinality(S) \in Nat /\ Cardinality(T) \in Nat
         /\ Cardinality(S) <= Cardinality(T)
  BY FS_Subset, FS_CardinalityType

LEMMA Grows ==
  ASSUME NEW S, IsFiniteSet(S), NEW x
  PROVE  /\ IsFiniteSet(S \union {x})
         /\ Cardinality(S \union {x}) <= Cardinality(S) + 1
<1>1. /\ IsFiniteSet(S \union {x})
      /\ Cardinality(S \union {x}) = IF x \in S THEN Cardinality(S) ELSE Cardinality(S) + 1
  BY FS_AddElement
<1>2. Cardinality(S) \in Nat
  BY FS_CardinalityType
<1> QED
  BY <1>1, <1>2

LEMMA CountInit == ASSUME PlansParameters PROVE Risk!Init => CountInv
<1> SUFFICES ASSUME Risk!Init PROVE CountInv
  OBVIOUS
<1> USE DEF PlansParameters
<1>1. \A d \in 1..Days : CountedOn(d) = {}
  BY DEF Risk!Init, Risk!Absent, CountedOn
<1>2. Recording = {}
  BY DEF Risk!Init, Recording
<1>3. Cardinality(Strategies) \in Nat /\ Cardinality({}) = 0
  BY FS_CardinalityType, FS_EmptySet
<1>4. risk.day = 1 /\ riskRow.day = 1 /\ risk.count = 0 /\ riskRow.count = 0 /\ today = 1
  BY DEF Risk!Init, Risk!Fresh
<1>5. \A o \in Orders : order[o].day = 0
  BY DEF Risk!Init, Risk!Absent
<1>6. \A d \in 1..Days : Cardinality(CountedOn(d)) = 0
  BY <1>1, <1>3
<1>7. Most \in Nat
  BY <1>3 DEF Most
<1>8. DaysOrdered /\ CountsCover
  BY <1>4, <1>5, <1>6 DEF DaysOrdered, CountsCover
<1>9. Cardinality(Recording) = 0
  BY <1>2, <1>3
<1>10. LimitKept
  BY <1>4, <1>6, <1>7, <1>9 DEF LimitKept
<1> QED
  BY <1>8, <1>10 DEF CountInv

(* What the parts of CountInv say of the counts, as numbers.                *)
LEMMA CountFacts ==
  ASSUME PlansParameters, RiskTyped
  PROVE  /\ Cardinality(Strategies) \in Nat /\ Cardinality(Recording) \in Nat
         /\ Cardinality(Recording) <= Cardinality(Strategies)
         /\ Most \in Nat /\ Cardinality(Strategies) <= Most
         /\ \A d : IsFiniteSet(CountedOn(d)) /\ Cardinality(CountedOn(d)) \in Nat
<1> USE DEF PlansParameters
<1>1. Recording \subseteq Strategies /\ \A d : CountedOn(d) \subseteq Orders
  BY DEF Recording, CountedOn
<1>2. /\ Cardinality(Strategies) \in Nat /\ Cardinality(Recording) \in Nat
      /\ Cardinality(Recording) <= Cardinality(Strategies)
  BY <1>1, Parts
<1>3. \A d : IsFiniteSet(CountedOn(d)) /\ Cardinality(CountedOn(d)) \in Nat
  BY <1>1, Parts
<1> QED
  BY <1>2, <1>3 DEF Most

(* The day begins anew at the first look after midnight.                    *)
LEMMA ResetFacts ==
  ASSUME PlansParameters, RiskTyped, CountInv, NEW r \in Account,
         r = Risk!Reset \/ r = Risk!Synced
  PROVE  /\ r.day = today /\ riskRow.day <= today
         /\ r.count = IF risk.day = today THEN risk.count ELSE 0
         /\ riskRow.day = today => risk.day = today /\ riskRow.count <= r.count
         /\ Cardinality(CountedOn(today)) <= r.count
         /\ r.count + Cardinality(Recording) <= Most
<1> USE DEF PlansParameters, RiskTyped, Account
<1>1. /\ Risk!Reset.day = today
      /\ Risk!Reset.count = IF risk.day = today THEN risk.count ELSE 0
  BY DEF Risk!Reset, Risk!Fresh
<1>2. Risk!Synced.day = Risk!Reset.day /\ Risk!Synced.count = Risk!Reset.count
  <2>1. Risk!Reset \in Account
    BY DEF Risk!Reset, Risk!Fresh
  <2> DEFINE trips == lost >= LossLimit
  <2>2. Risk!Synced = [Risk!Reset EXCEPT !.breaker = trips]
    BY DEF Risk!Synced
  <2> HIDE DEF trips
  <2> QED
    BY <2>1, <2>2
<1>3. r.day = today /\ r.count = IF risk.day = today THEN risk.count ELSE 0
  BY <1>1, <1>2
<1>4. CASE risk.day = today
  BY <1>3, <1>4 DEF CountInv, DaysOrdered, CountsCover, LimitKept
<1>5. CASE risk.day # today
  <2>1. risk.day < today /\ riskRow.day < today
    BY <1>5 DEF CountInv, DaysOrdered
  <2>2. CountedOn(today) = {}
    <3>1. \A o \in Orders : order[o].day \in Int /\ order[o].day <= riskRow.day
      BY DEF CountInv, CountsCover, OrderRecord
    <3>2. \A o \in Orders : order[o].day # today
      BY <2>1, <3>1
    <3> QED
      BY <3>2 DEF CountedOn
  <2>3. Cardinality(CountedOn(today)) = 0
    BY <2>2, FS_EmptySet
  <2> QED
    BY <1>3, <1>5, <2>1, <2>3, CountFacts DEF CountInv, DaysOrdered, CountsCover, LimitKept
<1> QED
  BY <1>4, <1>5

(* A step that counts nothing, and one that begins the day at most.         *)
LEMMA CountsKept ==
  ASSUME PlansParameters, RiskTyped, CountInv, RiskTyped',
         risk' = risk, riskRow' = riskRow \/ riskRow' = risk, today' >= today,
         \A o \in Orders : order'[o].day = order[o].day \/ order'[o].day = 0,
         Recording' \subseteq Recording
  PROVE  CountInv'
<1> USE DEF PlansParameters
<1> DEFINE now(d) == {o \in Orders : order'[o].day = d}
<1>1. ASSUME NEW d \in 1..Days PROVE now(d) \subseteq CountedOn(d)
  <2>1. \A o \in Orders : order'[o].day = order[o].day \/ order'[o].day = 0
    OBVIOUS
  <2>2. d # 0
    OBVIOUS
  <2>3. \A o \in Orders : order'[o].day = d => order[o].day = d
    BY ONLY <2>1, <2>2
  <2> QED
    BY <2>3 DEF CountedOn
<1> HIDE DEF now
<1>2. \A d \in 1..Days : Cardinality(now(d)) <= Cardinality(CountedOn(d)) /\ Cardinality(now(d)) \in Nat
  BY <1>1, CountFacts, Parts
<1>3. Cardinality(Recording') <= Cardinality(Recording) /\ Cardinality(Recording') \in Nat
  <2>1. IsFiniteSet(Recording)
    BY Parts DEF Recording
  <2> QED
    BY <2>1, Parts
<1>4. /\ risk.day \in 1..Days /\ riskRow.day \in 1..Days /\ risk.count \in Nat
      /\ riskRow.count \in Nat /\ today \in Int /\ today' \in Int
      /\ \A o \in Orders : order[o].day \in Nat
  BY DEF RiskTyped, Account, OrderRecord
<1>5. DaysOrdered'
  BY <1>4 DEF CountInv, DaysOrdered
<1>6. CountsCover'
  <2>1. /\ CountedOn(risk.day)' = now(risk'.day)
        /\ CountedOn(riskRow.day)' = now(riskRow'.day)
    BY DEF CountedOn, now
  <2> QED
    BY <1>2, <1>4, <2>1, CountFacts DEF CountInv, DaysOrdered, CountsCover
<1>7. LimitKept'
  <2>1. Most' = Most /\ \A d \in 1..Days : CountedOn(d)' = now(d)
    BY DEF Most, CountedOn, now
  <2>2. \A d \in 1..Days : Cardinality(now(d)) <= Most
    BY <1>2, CountFacts DEF CountInv, LimitKept
  <2>3. risk'.day = today' => risk'.count + Cardinality(Recording') <= Most
    BY <1>3, <1>4, CountFacts DEF CountInv, DaysOrdered, LimitKept
  <2> QED
    BY <2>1, <2>2, <2>3 DEF LimitKept
<1> QED
  BY <1>5, <1>6, <1>7 DEF CountInv

(* A look at the limits, whose thread may have passed them.                 *)
LEMMA LookKeepsCounts ==
  ASSUME PlansParameters, RiskTyped, CountInv, RiskTyped',
         Risk!CheckRisk, today' = today,
         \A o \in Orders : order'[o].day = order[o].day \/ order'[o].day = 0,
         \/ Recording' \subseteq Recording
         \/ risk'.count < DailyLimit
  PROVE  CountInv'
<1> USE DEF PlansParameters
<1>1. risk' = Risk!Synced /\ (riskRow' = risk' \/ riskRow' = riskRow)
  BY DEF Risk!CheckRisk
<1>2. risk' \in Account
  BY DEF RiskTyped
<1>3. /\ risk'.day = today /\ riskRow.day <= today
      /\ risk'.count = IF risk.day = today THEN risk.count ELSE 0
      /\ riskRow.day = today => risk.day = today /\ riskRow.count <= risk'.count
      /\ Cardinality(CountedOn(today)) <= risk'.count
      /\ risk'.count + Cardinality(Recording) <= Most
  BY <1>1, <1>2, ResetFacts
<1> DEFINE now(d) == {o \in Orders : order'[o].day = d}
<1>4. ASSUME NEW d \in 1..Days PROVE now(d) \subseteq CountedOn(d)
  <2> SUFFICES ASSUME NEW o \in Orders, order'[o].day = d PROVE order[o].day = d
    BY DEF CountedOn
  <2> QED
    BY <1>4
<1> HIDE DEF now
<1>5. \A d \in 1..Days : Cardinality(now(d)) <= Cardinality(CountedOn(d)) /\ Cardinality(now(d)) \in Nat
  BY <1>4, CountFacts, Parts
<1>6. /\ riskRow.day \in 1..Days /\ risk'.count \in Nat /\ today \in 1..Days
      /\ riskRow.count \in Nat /\ risk.count \in Nat
      /\ \A o \in Orders : order[o].day \in Nat
  BY DEF RiskTyped, Account, OrderRecord
<1>7. DaysOrdered'
  BY <1>1, <1>3, <1>6 DEF DaysOrdered
<1>8. CountsCover'
  <2>1. \A o \in Orders : order'[o].day <= riskRow.day /\ order'[o].day <= risk'.day
    BY <1>3, <1>6 DEF CountInv, CountsCover
  <2>2. Cardinality(now(risk'.day)) <= risk'.count
    BY <1>3, <1>5, <1>6, CountFacts
  <2>3. Cardinality(now(riskRow.day)) <= riskRow.count
    BY <1>5, <1>6, CountFacts DEF CountInv, CountsCover
  <2>4. /\ CountedOn(risk.day)' = now(risk'.day)
        /\ CountedOn(riskRow.day)' = now(riskRow'.day)
    BY DEF CountedOn, now
  <2> QED
    BY <1>1, <2>1, <2>2, <2>3, <2>4 DEF CountsCover
<1>9. LimitKept'
  <2>1. Most' = Most /\ \A d \in 1..Days : CountedOn(d)' = now(d)
    BY DEF Most, CountedOn, now
  <2>2. \A d \in 1..Days : Cardinality(now(d)) <= Most
    BY <1>5, CountFacts DEF CountInv, LimitKept
  <2>3. Cardinality(Recording') \in Nat /\ Cardinality(Recording') <= Cardinality(Strategies)
    BY Parts DEF Recording
  <2>4. CASE Recording' \subseteq Recording
    <3>1. Cardinality(Recording') <= Cardinality(Recording)
      BY <2>4, Parts DEF Recording
    <3> QED
      BY <1>3, <1>6, <2>1, <2>2, <2>3, <3>1, CountFacts DEF LimitKept
  <2>5. CASE risk'.count < DailyLimit
    BY <1>6, <2>1, <2>2, <2>3, <2>5, CountFacts DEF LimitKept, Most
  <2> QED
    BY <2>4, <2>5
<1> QED
  BY <1>7, <1>8, <1>9 DEF CountInv

(* An order is counted before its instruction is made.                      *)
LEMMA RecordKeepsCounts ==
  ASSUME PlansParameters, RiskTyped, ThreadsHold, CountInv, RiskTyped',
         NEW s \in Strategies, Risk!Record(s)
  PROVE  CountInv'
<1> USE DEF PlansParameters
<1> DEFINE o == thread[s].id
           r == Risk!Reset
<1>1. o \in Orders /\ s \in Recording /\ today' = today
  BY DEF Risk!Record, ThreadsHold, Recording
<1>2. r \in Account
  BY DEF Risk!Reset, Risk!Fresh, RiskTyped, Account
<1>3. /\ r.day = today /\ riskRow.day <= today
      /\ riskRow.day = today => risk.day = today /\ riskRow.count <= r.count
      /\ Cardinality(CountedOn(today)) <= r.count
      /\ r.count + Cardinality(Recording) <= Most
  BY <1>2, ResetFacts
<1>4. Risk!Counted = [r EXCEPT !.count = @ + 1]
  BY DEF Risk!Counted
<1>5. \/ /\ risk' = Risk!Counted /\ riskRow' = Risk!Counted
         /\ order' = [order EXCEPT ![o].day = today] /\ Risk!To(s, "submit")
      \/ /\ risk' = Risk!Counted \/ risk' = risk
         /\ order' = [order EXCEPT ![o].at = "gone"] /\ Risk!To(s, "cool") /\ riskRow' = riskRow
  BY <1>1 DEF Risk!Record, Risk!Drop
<1> HIDE DEF o, r
<1>6. /\ Risk!Counted.day = today /\ Risk!Counted.count = r.count + 1
      /\ r.count \in Nat /\ today \in 1..Days
  BY <1>2, <1>3, <1>4 DEF RiskTyped, Account
<1>7. Recording' = Recording \ {s}
  <2>1. \A t \in Strategies : t # s => thread'[t] = thread[t]
    BY <1>5 DEF Risk!To, RiskTyped
  <2>2. thread'[s].at # "record"
    BY <1>5 DEF Risk!To, RiskTyped, ThreadRecord
  <2> QED
    BY <2>1, <2>2 DEF Recording
<1>8. Cardinality(Recording') = Cardinality(Recording) - 1
  <2>1. IsFiniteSet(Recording)
    BY Parts DEF Recording
  <2> QED
    BY <1>1, <1>7, <2>1, FS_RemoveElement
<1> DEFINE now(d) == {p \in Orders : order'[p].day = d}
<1>9. \A p \in Orders : p # o => order'[p] = order[p]
  BY <1>5 DEF RiskTyped
<1>10. order'[o].day = order[o].day \/ (risk' = Risk!Counted /\ riskRow' = Risk!Counted /\ order'[o].day = today)
  BY <1>1, <1>5 DEF RiskTyped, OrderRecord
<1>11. ASSUME NEW d \in 1..Days, d # today \/ riskRow' = riskRow
       PROVE  now(d) \subseteq CountedOn(d)
  <2>1. CASE riskRow' = riskRow /\ order'[o].day = order[o].day
    BY <2>1, <1>9 DEF CountedOn
  <2>2. CASE ~ (riskRow' = riskRow /\ order'[o].day = order[o].day)
    <3>1. ASSUME NEW p \in Orders, order'[p].day = d PROVE order[p].day = d
      <4>1. CASE p # o
        BY <3>1, <4>1, <1>9
      <4>2. CASE p = o
        <5>1. CASE order'[o].day = order[o].day
          BY <3>1, <4>2, <5>1
        <5>2. CASE order'[o].day # order[o].day
          <6>1. order'[o].day = today /\ riskRow' = Risk!Counted
            BY <5>2, <1>10
          <6>2. d = today
            BY <3>1, <4>2, <6>1
          <6>3. riskRow'.day = today /\ riskRow'.count = r.count + 1 /\ riskRow' = riskRow
            BY <1>6, <1>11, <6>1, <6>2
          <6> QED
            BY <1>3, <1>6, <6>3 DEF RiskTyped, Account
        <5> QED
          BY <5>1, <5>2
      <4> QED
        BY <4>1, <4>2
    <3> QED
      BY <3>1 DEF CountedOn
  <2> QED
    BY <2>1, <2>2
<1>12. now(today) \subseteq CountedOn(today) \union {o}
  BY <1>9 DEF CountedOn
<1> HIDE DEF now
<1>13. \A d \in 1..Days : d # today \/ riskRow' = riskRow =>
          Cardinality(now(d)) <= Cardinality(CountedOn(d)) /\ Cardinality(now(d)) \in Nat
  BY <1>11, CountFacts, Parts
<1>14. Cardinality(now(today)) <= Cardinality(CountedOn(today)) + 1 /\ Cardinality(now(today)) \in Nat
  <2>1. /\ IsFiniteSet(CountedOn(today) \union {o})
        /\ Cardinality(CountedOn(today) \union {o}) <= Cardinality(CountedOn(today)) + 1
    BY CountFacts, Grows
  <2>2. /\ Cardinality(now(today)) <= Cardinality(CountedOn(today) \union {o})
        /\ Cardinality(now(today)) \in Nat /\ Cardinality(CountedOn(today) \union {o}) \in Nat
    BY <1>12, <2>1, Parts
  <2> QED
    BY <2>1, <2>2, CountFacts
<1>15. /\ Most' = Most /\ \A d \in 1..Days : CountedOn(d)' = now(d)
       /\ CountedOn(risk.day)' = now(risk'.day) /\ CountedOn(riskRow.day)' = now(riskRow'.day)
  BY DEF Most, CountedOn, now
<1>16. /\ risk.day \in 1..Days /\ riskRow.day \in 1..Days /\ risk.count \in Nat /\ riskRow.count \in Nat
       /\ Cardinality(Recording) \in Nat /\ Cardinality(Recording) >= 1
       /\ \A p \in Orders : order[p].day \in Nat
  <2>1. Cardinality(Recording) # 0
    BY <1>1, FS_EmptySet, Parts DEF Recording
  <2> QED
    BY <2>1, CountFacts DEF RiskTyped, Account, OrderRecord
<1>17. \A p \in Orders : order'[p].day <= riskRow'.day
  <2>1. \A p \in Orders : order[p].day <= riskRow.day
    BY DEF CountInv, CountsCover
  <2>2. CASE riskRow' = riskRow
    <3>1. order'[o].day = order[o].day
      BY <1>1, <1>3, <1>5, <1>6, <1>10, <2>2
    <3> QED
      BY <1>9, <2>1, <2>2, <3>1
  <2>3. CASE riskRow' = Risk!Counted
    BY <1>3, <1>6, <1>9, <1>10, <1>16, <2>1, <2>3
  <2> QED
    BY <1>5, <2>2, <2>3
<1>18. CASE risk' = Risk!Counted /\ riskRow' = Risk!Counted
  <2>1. DaysOrdered'
    BY <1>1, <1>6, <1>18 DEF DaysOrdered
  <2>2. CountsCover'
    BY <1>3, <1>6, <1>14, <1>15, <1>17, <1>18, CountFacts DEF CountsCover
  <2>3. \A d \in 1..Days : Cardinality(now(d)) <= Most
    BY <1>3, <1>6, <1>13, <1>14, <1>16, CountFacts DEF CountInv, LimitKept
  <2>4. LimitKept'
    BY <1>1, <1>3, <1>6, <1>8, <1>15, <1>16, <1>18, <2>3, CountFacts DEF LimitKept
  <2> QED
    BY <2>1, <2>2, <2>4 DEF CountInv
<1>19. CASE risk' = Risk!Counted /\ riskRow' = riskRow
  <2>1. DaysOrdered'
    BY <1>1, <1>3, <1>6, <1>16, <1>19 DEF DaysOrdered
  <2>2. Cardinality(now(riskRow.day)) <= riskRow.count
    BY <1>13, <1>16, <1>19, CountFacts DEF CountInv, CountsCover
  <2>3. Cardinality(now(today)) <= r.count + 1
    BY <1>3, <1>6, <1>13, <1>19, CountFacts
  <2>4. CountsCover'
    BY <1>6, <1>15, <1>17, <1>19, <2>2, <2>3 DEF CountsCover
  <2>5. \A d \in 1..Days : Cardinality(now(d)) <= Most
    BY <1>13, <1>19, CountFacts DEF CountInv, LimitKept
  <2>6. LimitKept'
    BY <1>1, <1>3, <1>6, <1>8, <1>15, <1>16, <1>19, <2>5, CountFacts DEF LimitKept
  <2> QED
    BY <2>1, <2>4, <2>6 DEF CountInv
<1>20. CASE risk' = risk /\ riskRow' = riskRow
  <2>1. \A p \in Orders : order'[p].day = order[p].day
    BY <1>1, <1>3, <1>5, <1>6, <1>9, <1>10, <1>20
  <2>2. today' >= today
    BY <1>1, <1>6
  <2>3. Recording' \subseteq Recording
    BY <1>7
  <2> QED
    BY <1>20, <2>1, <2>2, <2>3, CountsKept
<1> QED
  BY <1>5, <1>18, <1>19, <1>20

(* A restart loads the row.                                                 *)
LEMMA RestartKeepsCounts ==
  ASSUME PlansParameters, RiskTyped, CountInv, RiskTyped', Risk!Restart
  PROVE  CountInv'
<1> USE DEF PlansParameters
<1>1. /\ today' = today /\ riskRow' = risk'
      /\ risk' = IF riskRow.day = today THEN riskRow ELSE Risk!Fresh(today)
      /\ order' = [o \in Orders |-> IF order[o].at = "made" THEN [order[o] EXCEPT !.at = "gone"]
                                   ELSE order[o]]
      /\ thread' = [t \in Strategies |-> [at |-> "idle", id |-> 0]]
  BY DEF Risk!Restart, Risk!NoOrder
<1>2. \A o \in Orders : order'[o].day = order[o].day
  BY <1>1 DEF RiskTyped, OrderRecord
<1>3. Recording' = {}
  BY <1>1 DEF Recording
<1>4. \A d : CountedOn(d)' = CountedOn(d)
  BY <1>2 DEF CountedOn
<1>5. CountedOn(risk.day)' = CountedOn(risk'.day) /\ CountedOn(riskRow.day)' = CountedOn(riskRow'.day)
  BY <1>2 DEF CountedOn
<1>6. /\ risk'.day = today /\ risk'.count = IF riskRow.day = today THEN riskRow.count ELSE 0
  BY <1>1 DEF Risk!Fresh
<1>7. /\ risk.day \in 1..Days /\ riskRow.day \in 1..Days /\ risk.count \in Nat /\ riskRow.count \in Nat
      /\ today \in 1..Days /\ \A o \in Orders : order[o].day \in Nat
  BY DEF RiskTyped, Account, OrderRecord
<1>8. Cardinality(CountedOn(today)) <= risk'.count
  <2>1. CASE riskRow.day = today
    BY <1>6, <2>1 DEF CountInv, CountsCover
  <2>2. CASE riskRow.day # today
    <3>1. \A o \in Orders : order[o].day # today
      BY <1>7, <2>2 DEF CountInv, CountsCover, DaysOrdered
    <3>2. CountedOn(today) = {}
      BY <3>1 DEF CountedOn
    <3> QED
      BY <1>6, <2>2, <3>2, FS_EmptySet
  <2> QED
    BY <2>1, <2>2
<1>9. \A o \in Orders : order'[o].day <= today
  BY <1>2, <1>7 DEF CountInv, CountsCover, DaysOrdered
<1>10. DaysOrdered'
  BY <1>1, <1>6, <1>7 DEF DaysOrdered
<1>11. CountsCover'
  BY <1>1, <1>5, <1>6, <1>8, <1>9 DEF CountsCover
<1>12. Most' = Most /\ Cardinality(Recording') = 0
  BY <1>3, FS_EmptySet DEF Most
<1>13. risk'.count <= Most
  BY <1>6, <1>7, CountFacts DEF CountInv, DaysOrdered, LimitKept
<1>14. risk'.count + Cardinality(Recording') <= Most
  BY <1>6, <1>7, <1>12, <1>13
<1>15. LimitKept'
  BY <1>4, <1>12, <1>14 DEF CountInv, LimitKept
<1> QED
  BY <1>10, <1>11, <1>15 DEF CountInv

LEMMA Marked ==
  ASSUME RiskTyped, NEW i, NEW a, order' = [order EXCEPT ![i].at = a]
  PROVE  \A o \in Orders : order'[o].day = order[o].day /\ order'[o].by = order[o].by
  BY DEF RiskTyped, OrderRecord

LEMMA CountStep ==
  ASSUME PlansParameters, RiskTyped, ThreadsHold, CountInv, RiskTyped', [Risk!Next]_(Risk!vars)
  PROVE  CountInv'
<1> USE DEF PlansParameters
<1>1. today \in 1..Days /\ today >= today
  BY DEF RiskTyped
<1>2. ASSUME NEW s \in Strategies,
             \/ Risk!Guard(s) \/ Risk!Submit(s) \/ Risk!Cool(s) \/ Risk!Lapse(s)
      PROVE  CountInv'
  <2>1. risk' = risk /\ today' = today /\ (riskRow' = riskRow \/ riskRow' = risk)
    BY <1>2 DEF Risk!Guard, Risk!Submit, Risk!Cool, Risk!Lapse, Risk!world
  <2>2. \A o \in Orders : order'[o].day = order[o].day
    <3>1. \/ order' = order
          \/ order' = [order EXCEPT ![thread[s].id].at = "sent"] /\ thread[s].id \in Orders
          \/ order' = [order EXCEPT ![thread[s].id].at = "gone"] /\ thread[s].id \in Orders
      BY <1>2 DEF Risk!Guard, Risk!Submit, Risk!Cool, Risk!Lapse, Risk!world, Risk!Drop, ThreadsHold
    <3> QED
      BY <3>1, Marked
  <2>3. Recording' \subseteq Recording
    <3>1. \/ thread' = [thread EXCEPT ![s].at = "limits"]
          \/ thread' = [thread EXCEPT ![s].at = "cool"]
          \/ thread' = [thread EXCEPT ![s] = [at |-> "idle", id |-> 0]]
          \/ thread' = thread
      BY <1>2 DEF Risk!Guard, Risk!Submit, Risk!Cool, Risk!Lapse, Risk!To, Risk!Leave, Risk!NoOrder
    <3>2. \A t \in Strategies : thread'[t].at = "record" => thread[t].at = "record"
      BY <3>1 DEF RiskTyped, ThreadRecord
    <3> QED
      BY <3>2 DEF Recording
  <2> QED
    BY <1>1, <2>1, <2>2, <2>3, CountsKept
<1>3. ASSUME NEW s \in Strategies, Risk!Limits(s) PROVE CountInv'
  <2>1. Risk!CheckRisk /\ today' = today
    BY <1>3 DEF Risk!Limits
  <2>2. \/ order' = order
        \/ \E o \in Orders : order' = [order EXCEPT ![o] = [by |-> s, at |-> "made", day |-> 0]]
    BY <1>3 DEF Risk!Limits
  <2>3. \A o \in Orders : order'[o].day = order[o].day \/ order'[o].day = 0
    BY <2>2 DEF RiskTyped, OrderRecord
  <2>4. \/ \E o \in Orders : thread' = [thread EXCEPT ![s] = [at |-> "recheck", id |-> o]]
        \/ thread' = [thread EXCEPT ![s] = [at |-> "idle", id |-> 0]]
    BY <1>3 DEF Risk!Limits, Risk!Leave, Risk!NoOrder
  <2>5. \A t \in Strategies : thread'[t].at = "record" => thread[t].at = "record"
    BY <2>4 DEF RiskTyped, ThreadRecord
  <2>6. Recording' \subseteq Recording
    BY <2>5 DEF Recording
  <2> QED
    BY <2>1, <2>3, <2>6, LookKeepsCounts
<1>4. ASSUME NEW s \in Strategies, Risk!Recheck(s) PROVE CountInv'
  <2>1. Risk!CheckRisk /\ today' = today
    BY <1>4 DEF Risk!Recheck
  <2> DEFINE i == thread[s].id
  <2>2. \/ order' = order /\ Risk!Passes /\ Risk!To(s, "record")
        \/ order' = [order EXCEPT ![i].at = "gone"] /\ i \in Orders /\ Risk!Leave(s)
    BY <1>4 DEF Risk!Recheck, Risk!Drop, ThreadsHold
  <2> HIDE DEF i
  <2>3. \A o \in Orders : order'[o].day = order[o].day
    BY <2>2 DEF RiskTyped, OrderRecord
  <2>4. CASE Risk!Passes
    BY <2>1, <2>3, <2>4, LookKeepsCounts DEF Risk!Passes, Risk!CheckRisk
  <2>5. CASE Risk!Leave(s)
    <3>1. \A t \in Strategies : thread'[t].at = "record" => thread[t].at = "record"
      BY <2>5 DEF Risk!Leave, Risk!NoOrder, RiskTyped, ThreadRecord
    <3>2. Recording' \subseteq Recording
      BY <3>1 DEF Recording
    <3> QED
      BY <2>1, <2>3, <3>2, LookKeepsCounts
  <2> QED
    BY <2>2, <2>4, <2>5
<1>5. ASSUME NEW s \in Strategies, Risk!Record(s) PROVE CountInv'
  BY <1>5, RecordKeepsCounts
<1>6. ASSUME \/ Risk!Snapshot \/ Risk!NewDay \/ UNCHANGED Risk!vars
             \/ \E o \in Orders : Risk!Terminal(o) \/ Risk!Forgive(o)
      PROVE  CountInv'
  <2>1. risk' = risk /\ riskRow' = riskRow /\ thread' = thread
    BY <1>6 DEF Risk!Snapshot, Risk!NewDay, Risk!Terminal, Risk!Deal, Risk!Report, Risk!Close,
                Risk!Forgive, Risk!vars
  <2>2. today' = today \/ today' = today + 1
    BY <1>6 DEF Risk!Snapshot, Risk!NewDay, Risk!Terminal, Risk!Deal, Risk!Report, Risk!Close,
                Risk!Forgive, Risk!vars
  <2>3. \/ order' = order
        \/ \E o \in Orders : \/ order' = [order EXCEPT ![o].at = "open"]
                             \/ order' = [order EXCEPT ![o].at = "closed"]
    BY <1>6 DEF Risk!Snapshot, Risk!NewDay, Risk!Terminal, Risk!Deal, Risk!Report, Risk!Close,
                Risk!Forgive, Risk!vars
  <2>4. \A o \in Orders : order'[o].day = order[o].day
    BY <2>3 DEF RiskTyped, OrderRecord
  <2>5. Recording' \subseteq Recording
    BY <2>1 DEF Recording
  <2>6. today' >= today
    BY <1>1, <2>2
  <2> QED
    BY <2>1, <2>4, <2>5, <2>6, CountsKept
<1>7. ASSUME Risk!Restart PROVE CountInv'
  BY <1>7, RestartKeepsCounts
<1> QED
  BY <1>2, <1>3, <1>4, <1>5, <1>6, <1>7 DEF Risk!Next, Risk!Tick

LEMMA CountsSay ==
  ASSUME PlansParameters, RiskTyped, CountInv
  PROVE  Risk!SentIsCounted /\ Risk!DailyLimitHolds
<1> USE DEF PlansParameters
<1>1. ASSUME NEW d PROVE Risk!SentOn(d) \subseteq CountedOn(d)
  BY DEF Risk!SentOn, CountedOn
<1>2. \A d : Cardinality(Risk!SentOn(d)) <= Cardinality(CountedOn(d)) /\ Cardinality(Risk!SentOn(d)) \in Nat
  BY <1>1, CountFacts, Parts
<1>3. /\ risk.count \in Nat /\ riskRow.count \in Nat /\ risk.day \in 1..Days /\ riskRow.day \in 1..Days
      /\ today \in 1..Days
  BY DEF RiskTyped, Account
<1>4. Risk!SentIsCounted
  <2>1. risk.day = today => risk.count >= Cardinality(Risk!SentOn(today))
    BY <1>2, <1>3, CountFacts DEF CountInv, CountsCover
  <2>2. riskRow.count >= Cardinality(Risk!SentOn(riskRow.day))
    BY <1>2, <1>3, CountFacts DEF CountInv, CountsCover
  <2> QED
    BY <2>1, <2>2 DEF Risk!SentIsCounted, Risk!Cardinality, Cardinality
<1>5. \A d \in 1..Days : Cardinality(Risk!SentOn(d)) <= DailyLimit + Cardinality(Strategies) - 1
  BY <1>2, CountFacts DEF CountInv, LimitKept, Most
<1>6. Risk!DailyLimitHolds
  BY <1>5 DEF Risk!DailyLimitHolds, Risk!Cardinality, Cardinality
<1> QED
  BY <1>4, <1>6

(* The places of the account: an order that was checked while nothing was   *)
(* under way finds every position in the snapshot.                          *)
OnTheWay == {o \in Orders : order[o].at \in {"made", "sent", "open"}}
PlacesKept == Cardinality(OnTheWay \ blind) <= MaxPositions

(* Only an order that is made is put on the way.                            *)
LEMMA PlacesStay ==
  ASSUME PlansParameters, RiskTyped, PlacesKept,
         \A o \in Orders : order'[o].at \in {"made", "sent", "open"}
                             => order[o].at \in {"made", "sent", "open"} \/ o \in blind',
         blind \subseteq blind'
  PROVE  PlacesKept'
<1>1. (OnTheWay \ blind)' \subseteq OnTheWay \ blind
  BY DEF OnTheWay
<1>2. IsFiniteSet(OnTheWay \ blind)
  BY Parts DEF PlansParameters, OnTheWay
<1>3. /\ Cardinality((OnTheWay \ blind)') <= Cardinality(OnTheWay \ blind)
      /\ Cardinality((OnTheWay \ blind)') \in Nat /\ Cardinality(OnTheWay \ blind) \in Nat
  BY <1>1, <1>2, Parts
<1> QED
  BY <1>3 DEF PlacesKept, PlansParameters

LEMMA PlaceTaken ==
  ASSUME PlansParameters, RiskTyped, ThreadsHold, PlacesKept, NEW o \in Orders,
         NEW s \in Strategies, Risk!Room, blind' = blind,
         order' = [order EXCEPT ![o] = [by |-> s, at |-> "made", day |-> 0]],
         Risk!Unseen = {}, Risk!Begun = {}
  PROVE  PlacesKept'
<1> USE DEF PlansParameters
<1>1. OnTheWay \subseteq seen
  <2> SUFFICES ASSUME NEW p \in Orders, order[p].at \in {"made", "sent", "open"} PROVE p \in seen
    BY DEF OnTheWay
  <2>1. order[p].at # "made"
    BY DEF ThreadsHold, Holds, Risk!Begun
  <2> QED
    BY <2>1 DEF Risk!Unseen, Risk!Open
<1>2. \A p \in Orders : p # o => order'[p] = order[p]
  BY DEF RiskTyped
<1>3. (OnTheWay \ blind)' \subseteq seen \union {o}
  BY <1>1, <1>2 DEF OnTheWay
<1>4. IsFiniteSet(seen) /\ Cardinality(seen) \in Nat
  BY Parts DEF RiskTyped
<1>5. Cardinality(seen) < MaxPositions
  BY DEF Risk!Room, Risk!Cardinality, Cardinality
<1>6. IsFiniteSet(seen \union {o}) /\ Cardinality(seen \union {o}) <= Cardinality(seen) + 1
  BY <1>4, Grows
<1>7. /\ Cardinality((OnTheWay \ blind)') <= Cardinality(seen \union {o})
      /\ Cardinality((OnTheWay \ blind)') \in Nat /\ Cardinality(seen \union {o}) \in Nat
  BY <1>3, <1>6, Parts
<1> QED
  BY <1>4, <1>5, <1>6, <1>7 DEF PlacesKept

LEMMA PlacesStep ==
  ASSUME PlansParameters, RiskTyped, ThreadsHold, PlacesKept, [Risk!Next]_(Risk!vars)
  PROVE  PlacesKept'
<1> USE DEF PlansParameters
<1>1. ASSUME NEW s \in Strategies, Risk!Limits(s) PROVE PlacesKept'
  <2>1. CASE order' = order /\ blind' = blind
    BY <2>1, PlacesStay
  <2>2. CASE ~ (order' = order /\ blind' = blind)
    <3>1. PICK o \in Orders :
             /\ order' = [order EXCEPT ![o] = [by |-> s, at |-> "made", day |-> 0]]
             /\ blind' = IF Risk!Unseen # {} \/ Risk!Begun # {} THEN blind \cup {o} ELSE blind
      BY <1>1, <2>2 DEF Risk!Limits
    <3>2. Risk!Room
      BY <1>1, <2>2 DEF Risk!Limits
    <3>3. CASE Risk!Unseen # {} \/ Risk!Begun # {}
      <4>1. \A p \in Orders : p # o => order'[p] = order[p]
        BY <3>1 DEF RiskTyped
      <4>2. blind' = blind \cup {o}
        BY <3>1, <3>3
      <4> QED
        BY <4>1, <4>2, PlacesStay
    <3>4. CASE Risk!Unseen = {} /\ Risk!Begun = {}
      BY <3>1, <3>2, <3>4, PlaceTaken
    <3> QED
      BY <3>3, <3>4
  <2> QED
    BY <2>1, <2>2
<1>2. ASSUME NEW s \in Strategies, NEW a, a \notin {"made", "open"},
             a = "sent" => order[thread[s].id].at = "made",
             order' = [order EXCEPT ![thread[s].id].at = a], blind' = blind
      PROVE  PlacesKept'
  <2> DEFINE i == thread[s].id
  <2>1. order' = [order EXCEPT ![i].at = a] /\ (a = "sent" => order[i].at = "made")
    BY <1>2
  <2> HIDE DEF i
  <2>2. \A o \in Orders : order'[o].at \in {"made", "sent", "open"}
                             => order[o].at \in {"made", "sent", "open"}
    BY <1>2, <2>1 DEF RiskTyped, OrderRecord
  <2> QED
    BY <1>2, <2>2, PlacesStay
<1>3. ASSUME NEW s \in Strategies, Risk!Recheck(s) \/ Risk!Submit(s) PROVE PlacesKept'
  <2>1. blind' = blind /\ order[thread[s].id].at = "made"
    BY <1>3 DEF Risk!Recheck, Risk!Submit, Risk!histories, ThreadsHold
  <2>2. CASE order' = order
    BY <2>1, <2>2, PlacesStay
  <2>3. CASE order' # order
    <3>1. \/ order' = [order EXCEPT ![thread[s].id].at = "gone"]
          \/ order' = [order EXCEPT ![thread[s].id].at = "sent"]
      BY <1>3, <2>3 DEF Risk!Recheck, Risk!Submit, Risk!Drop
    <3> QED
      BY <1>2, <2>1, <3>1
  <2> QED
    BY <2>2, <2>3
<1>4. ASSUME NEW s \in Strategies, Risk!Record(s) PROVE PlacesKept'
  <2>1. blind' = blind
    BY <1>4 DEF Risk!Record, Risk!histories
  <2>2. CASE order' = [order EXCEPT ![thread[s].id].day = today]
    <3> DEFINE i == thread[s].id
    <3>1. order' = [order EXCEPT ![i].day = today]
      BY <2>2
    <3> HIDE DEF i
    <3>2. \A o \in Orders : order'[o].at = order[o].at
      BY <3>1 DEF RiskTyped, OrderRecord
    <3> QED
      BY <2>1, <3>2, PlacesStay
  <2>3. CASE order' = [order EXCEPT ![thread[s].id].at = "gone"]
    <3>1. ASSUME NEW a, a = "gone" PROVE a \notin {"made", "open"} /\ a # "sent"
      BY <3>1
    <3> QED
      BY <1>2, <2>1, <2>3, <3>1
  <2>4. \/ order' = [order EXCEPT ![thread[s].id].day = today]
        \/ order' = [order EXCEPT ![thread[s].id].at = "gone"]
    BY <1>4 DEF Risk!Record, Risk!Drop
  <2> QED
    BY <2>2, <2>3, <2>4
<1>5. ASSUME NEW o \in Orders, Risk!Deal(o) \/ Risk!Close(o) PROVE PlacesKept'
  <2>1. blind' = blind
    BY <1>5 DEF Risk!Deal, Risk!Close, Risk!histories
  <2>2. \/ order[o].at = "sent" /\ order' = [order EXCEPT ![o].at = "open"]
        \/ order' = [order EXCEPT ![o].at = "closed"]
    BY <1>5 DEF Risk!Deal, Risk!Close
  <2>3. \A p \in Orders : order'[p].at \in {"made", "sent", "open"}
                             => order[p].at \in {"made", "sent", "open"}
    BY <2>2 DEF RiskTyped, OrderRecord
  <2> QED
    BY <2>1, <2>3, PlacesStay
<1>6. ASSUME Risk!Restart PROVE PlacesKept'
  <2>1. blind' = blind /\ \A p \in Orders : order'[p].at = order[p].at \/ order'[p].at = "gone"
    BY <1>6 DEF Risk!Restart, RiskTyped, OrderRecord
  <2> QED
    BY <2>1, PlacesStay
<1>7. ASSUME \/ \E s \in Strategies : Risk!Guard(s) \/ Risk!Cool(s) \/ Risk!Lapse(s)
             \/ \E o \in Orders : Risk!Report(o) \/ Risk!Forgive(o)
             \/ Risk!Snapshot \/ Risk!NewDay \/ UNCHANGED Risk!vars
      PROVE  PlacesKept'
  <2>1. order' = order /\ blind' = blind
    BY <1>7 DEF Risk!Guard, Risk!Cool, Risk!Lapse, Risk!Report, Risk!Forgive, Risk!Snapshot,
                Risk!NewDay, Risk!vars, Risk!world, Risk!histories
  <2> QED
    BY <2>1, PlacesStay
<1> QED
  BY <1>1, <1>3, <1>4, <1>5, <1>6, <1>7 DEF Risk!Next, Risk!Tick, Risk!Terminal

LEMMA PlacesSay == ASSUME PlansParameters, RiskTyped, PlacesKept PROVE Risk!PositionsHold
<1> USE DEF PlansParameters
<1>1. Risk!Open \subseteq (OnTheWay \ blind) \union blind
  BY DEF Risk!Open, OnTheWay
<1>2. /\ IsFiniteSet(OnTheWay \ blind) /\ Cardinality(OnTheWay \ blind) \in Nat
      /\ IsFiniteSet(blind) /\ Cardinality(blind) \in Nat
  BY Parts DEF OnTheWay, RiskTyped
<1>3. /\ IsFiniteSet((OnTheWay \ blind) \union blind)
      /\ Cardinality((OnTheWay \ blind) \union blind) =
           Cardinality(OnTheWay \ blind) + Cardinality(blind) - Cardinality((OnTheWay \ blind) \cap blind)
  BY <1>2, FS_Union
<1>4. Cardinality((OnTheWay \ blind) \cap blind) = 0
  <2>1. (OnTheWay \ blind) \cap blind = {}
    OBVIOUS
  <2> QED
    BY <2>1, FS_EmptySet
<1>5. /\ Cardinality(Risk!Open) <= Cardinality((OnTheWay \ blind) \union blind)
      /\ Cardinality(Risk!Open) \in Nat /\ Cardinality((OnTheWay \ blind) \union blind) \in Nat
  BY <1>1, <1>3, Parts
<1>6. Cardinality(Risk!Open) <= MaxPositions + Cardinality(blind)
  BY <1>2, <1>3, <1>4, <1>5 DEF PlacesKept
<1> QED
  BY <1>6 DEF Risk!PositionsHold, Risk!Cardinality, Cardinality

(* The cooldown: who has sent an order waits, and his row is kept.          *)
Waits(s) == thread[s].at = "cool" \/ (thread[s].at = "idle" /\ s \in cool.table)
CoolingKept == quick = {} /\ \A s \in close \ forgot : Waits(s)

LEMMA CoolingStep ==
  ASSUME PlansParameters, RiskTyped, CoolingKept, [Risk!Next]_(Risk!vars)
  PROVE  CoolingKept'
<1> USE DEF RiskTyped, ThreadRecord, CoolingKept, Waits, Risk!NoOrder
<1>1. ASSUME NEW s \in Strategies, Risk!Guard(s) PROVE CoolingKept'
  <2>1. CASE s \in close \ forgot
    <3>1. s \in cool.table
      BY <1>1, <2>1 DEF Risk!Guard
    <3>2. forgot' = forgot \cup {s}
      BY <1>1, <3>1 DEF Risk!Guard, Risk!Cooling
    <3> QED
      BY <1>1, <3>2 DEF Risk!Guard, Risk!To
  <2>2. CASE s \notin close \ forgot
    BY <1>1, <2>2 DEF Risk!Guard, Risk!To
  <2> QED
    BY <2>1, <2>2
<1>2. ASSUME NEW s \in Strategies, Risk!Limits(s) \/ Risk!Recheck(s) \/ Risk!Record(s)
      PROVE  CoolingKept'
  <2>1. UNCHANGED <<quick, close, forgot, cool>>
    BY <1>2 DEF Risk!Limits, Risk!Recheck, Risk!Record, Risk!histories
  <2>2. s \notin close \ forgot
    BY <1>2 DEF Risk!Limits, Risk!Recheck, Risk!Record
  <2>3. \A t \in Strategies : t # s => thread'[t] = thread[t]
    <3>1. \/ \E o \in Orders : thread' = [thread EXCEPT ![s] = [at |-> "recheck", id |-> o]]
          \/ \E a \in {"record", "submit", "cool"} : thread' = [thread EXCEPT ![s].at = a]
          \/ thread' = [thread EXCEPT ![s] = [at |-> "idle", id |-> 0]]
      BY <1>2 DEF Risk!Limits, Risk!Recheck, Risk!Record, Risk!To, Risk!Leave
    <3> QED
      BY <3>1
  <2> QED
    BY <2>1, <2>2, <2>3
<1>3. ASSUME NEW s \in Strategies, Risk!Submit(s) PROVE CoolingKept'
  BY <1>3 DEF Risk!Submit, Risk!To
<1>4. ASSUME NEW s \in Strategies, Risk!Cool(s) PROVE CoolingKept'
  <2>1. /\ thread' = [thread EXCEPT ![s] = [at |-> "idle", id |-> 0]]
        /\ close' = close /\ quick' = quick
    BY <1>4 DEF Risk!Cool, Risk!Leave, Risk!world
  <2>2. \/ cool'.table = cool.table \cup {s} /\ forgot' = forgot
        \/ cool'.table = cool.table /\ forgot' = forgot \cup {s}
    BY <1>4 DEF Risk!Cool
  <2> QED
    BY <2>1, <2>2
<1>5. ASSUME NEW s \in Strategies, Risk!Lapse(s) PROVE CoolingKept'
  BY <1>5 DEF Risk!Lapse
<1>6. ASSUME Risk!Restart PROVE CoolingKept'
  <2>1. /\ thread' = [t \in Strategies |-> [at |-> "idle", id |-> 0]]
        /\ cool'.table = cool.table /\ close' = close /\ quick' = quick
        /\ forgot' = forgot \cup {t \in Strategies : thread[t].at = "cool"}
    BY <1>6 DEF Risk!Restart
  <2> QED
    BY <2>1
<1>7. ASSUME \/ \E o \in Orders : Risk!Terminal(o) \/ Risk!Forgive(o)
             \/ Risk!Snapshot \/ Risk!NewDay \/ UNCHANGED Risk!vars
      PROVE  CoolingKept'
  <2>1. UNCHANGED <<quick, close, forgot, cool, thread>>
    BY <1>7 DEF Risk!Terminal, Risk!Deal, Risk!Report, Risk!Close, Risk!Forgive, Risk!Snapshot,
                Risk!NewDay, Risk!vars, Risk!histories
  <2> QED
    BY <2>1
<1> QED
  BY <1>1, <1>2, <1>3, <1>4, <1>5, <1>6, <1>7 DEF Risk!Next, Risk!Tick

RiskInv == RiskTyped /\ ThreadsHold /\ CountInv /\ PlacesKept /\ CoolingKept

LEMMA RiskInit == ASSUME PlansParameters PROVE Risk!Init => RiskInv
<1> SUFFICES ASSUME Risk!Init PROVE RiskInv
  OBVIOUS
<1>1. RiskTyped /\ ThreadsHold /\ CountInv
  BY RiskTypedInit, CountInit
<1>2. PlacesKept
  <2>1. OnTheWay \ blind = {}
    BY DEF Risk!Init, Risk!Absent, OnTheWay
  <2> QED
    BY <2>1, FS_EmptySet DEF PlacesKept, PlansParameters
<1>3. CoolingKept
  BY DEF Risk!Init, CoolingKept
<1> QED
  BY <1>1, <1>2, <1>3 DEF RiskInv

LEMMA RiskStep ==
  ASSUME PlansParameters, RiskInv, [Risk!Next]_(Risk!vars)
  PROVE  RiskInv'
<1>1. RiskTyped' /\ ThreadsHold'
  BY RiskTypedStep DEF RiskInv
<1>2. CountInv'
  BY <1>1, CountStep DEF RiskInv
<1>3. PlacesKept'
  BY PlacesStep DEF RiskInv
<1>4. CoolingKept'
  BY CoolingStep DEF RiskInv
<1> QED
  BY <1>1, <1>2, <1>3, <1>4 DEF RiskInv

(* What the account has sent stays within its limits for every number of    *)
(* strategies, orders, days, restarts and faults.                           *)
THEOREM EntriesStayBounded == PlansSpec => []EntriesAreBounded
<1> PlansParameters
  BY PlansAssumption DEF PlansParameters
<1>1. Risk!Init => RiskInv
  BY RiskInit
<1>2. RiskInv /\ [Risk!Next]_(Risk!vars) => RiskInv'
  BY RiskStep
<1>3. RiskInv => EntriesAreBounded
  BY CountsSay, PlacesSay DEF RiskInv, EntriesAreBounded, Risk!CooldownHolds, CoolingKept
<1> QED
  BY <1>1, <1>2, <1>3, PTL DEF PlansSpec, Risk!Spec

----------------------------------------------------------------------------
(* Triggers of a plan.  What the row, the cache and the copies of the engines *)
(* say of a touch and of confirming bars was true when it was written, of     *)
(* this life of the plan or an earlier one; only the row is of the present.   *)

PlanRecord == [st : {"none", "active", "ended"}, life : Nat, seen : BOOLEAN,
               touch : {"none", "touched", "reclaimed"},
               boundary : {"none", "unvisited", "touched", "triggered", "left_boundary"},
               outside : Nat, bar : Nat, count : Nat, ok : BOOLEAN]

EngineRecord == [at : {"idle", "fill", "tick"}, copy : PlanRecord, memory : Nat]

TriggerTyped ==
  /\ planRow \in PlanRecord /\ cache \in PlanRecord
  /\ engine \in [Charts -> EngineRecord]
  /\ latest.time \in Nat /\ latest.decisive \in BOOLEAN /\ held \subseteq 1..latest.time
  /\ latest.time > 0 /\ Trigger!Holds(latest.close) => latest.time \in held

(* The closed bars up to one that held the reclaim.                          *)
HeldUpTo(n) == {t \in held : t <= n}

(* Of a plan as somebody has it: its touch was seen by the price, its bars   *)
(* were counted once, and a touch of the present life is in the row.         *)
Warranted(c) ==
  /\ c.seen <=> c.touch # "none"
  /\ c.seen \/ c.boundary \in {"touched", "triggered"} => price # "outside"
  /\ setup = "range_false_breakout" =>
        /\ c.bar <= latest.time
        /\ c.count <= Cardinality(HeldUpTo(c.bar))
        /\ c.ok => Required <= Cardinality(HeldUpTo(c.bar))
  /\ c.life <= planRow.life
  /\ c.seen /\ c.life = planRow.life => planRow.seen

(* Of what an engine remembers.                                              *)
Grounded(m) ==
  /\ m > 0 => price # "outside"
  /\ m <= planRow.life
  /\ m > 0 /\ m = planRow.life => planRow.seen

TriggerInv ==
  /\ TriggerTyped
  /\ Warranted(planRow) /\ Warranted(cache)
  /\ \A e \in Charts : Warranted(engine[e].copy) /\ Grounded(engine[e].memory)
  /\ fired => price # "outside"

LEMMA NoPlan ==
  /\ Trigger!None \in PlanRecord
  /\ Trigger!None.st = "none" /\ Trigger!None.life = 0 /\ Trigger!None.seen = FALSE
  /\ Trigger!None.touch = "none" /\ Trigger!None.boundary = "none" /\ Trigger!None.outside = 0
  /\ Trigger!None.bar = 0 /\ Trigger!None.count = 0 /\ Trigger!None.ok = FALSE
  BY DEF Trigger!None, PlanRecord

LEMMA HeldUpToIsCounted ==
  ASSUME TriggerTyped, NEW n \in Nat
  PROVE  IsFiniteSet(HeldUpTo(n)) /\ Cardinality(HeldUpTo(n)) \in Nat
<1>1. IsFiniteSet(1..latest.time)
  BY FS_Interval DEF TriggerTyped
<1>2. HeldUpTo(n) \subseteq 1..latest.time
  BY DEF TriggerTyped, HeldUpTo
<1> QED
  BY <1>1, <1>2, FS_Subset, FS_CardinalityType

(* Changes replace the fields they name.                                     *)
LEMMA OverSays ==
  ASSUME NEW c \in PlanRecord, NEW d,
         DOMAIN d \subseteq {"st", "seen", "touch", "boundary", "outside", "bar", "count", "ok"}
  PROVE  LET r == Trigger!Over(d, c)
         IN  /\ r.life = c.life
             /\ DOMAIN r = {"st", "life", "seen", "touch", "boundary", "outside", "bar", "count", "ok"}
             /\ r.st = IF "st" \in DOMAIN d THEN d.st ELSE c.st
             /\ r.seen = IF "seen" \in DOMAIN d THEN d.seen ELSE c.seen
             /\ r.touch = IF "touch" \in DOMAIN d THEN d.touch ELSE c.touch
             /\ r.boundary = IF "boundary" \in DOMAIN d THEN d.boundary ELSE c.boundary
             /\ r.outside = IF "outside" \in DOMAIN d THEN d.outside ELSE c.outside
             /\ r.bar = IF "bar" \in DOMAIN d THEN d.bar ELSE c.bar
             /\ r.count = IF "count" \in DOMAIN d THEN d.count ELSE c.count
             /\ r.ok = IF "ok" \in DOMAIN d THEN d.ok ELSE c.ok
<1>1. DOMAIN c = {"st", "life", "seen", "touch", "boundary", "outside", "bar", "count", "ok"}
  BY DEF PlanRecord
<1> DEFINE r == Trigger!Over(d, c)
<1>2. DOMAIN r = {"st", "life", "seen", "touch", "boundary", "outside", "bar", "count", "ok"}
  BY <1>1 DEF Trigger!Over
<1>3. \A f \in DOMAIN r : r[f] = IF f \in DOMAIN d THEN d[f] ELSE c[f]
  BY <1>1 DEF Trigger!Over
<1> HIDE DEF r
<1>4. r.life = c.life
  BY <1>2, <1>3
<1>5. r.st = (IF "st" \in DOMAIN d THEN d.st ELSE c.st) /\ r.seen = IF "seen" \in DOMAIN d THEN d.seen ELSE c.seen
  BY <1>2, <1>3
<1>6. r.touch = (IF "touch" \in DOMAIN d THEN d.touch ELSE c.touch)
      /\ r.boundary = IF "boundary" \in DOMAIN d THEN d.boundary ELSE c.boundary
  BY <1>2, <1>3
<1>7. r.outside = (IF "outside" \in DOMAIN d THEN d.outside ELSE c.outside)
      /\ r.bar = IF "bar" \in DOMAIN d THEN d.bar ELSE c.bar
  BY <1>2, <1>3
<1>8. r.count = (IF "count" \in DOMAIN d THEN d.count ELSE c.count)
      /\ r.ok = IF "ok" \in DOMAIN d THEN d.ok ELSE c.ok
  BY <1>2, <1>3
<1> QED
  BY <1>2, <1>4, <1>5, <1>6, <1>7, <1>8 DEF r

(* What was warranted stays so while bars close, the price moves and the row *)
(* keeps the touch of its life or begins another one.                        *)
OnlyForward ==
  /\ setup' = setup
  /\ price # "outside" => price' # "outside"
  /\ latest.time <= latest'.time /\ held \subseteq held'
  /\ planRow.life <= planRow'.life
  /\ planRow.life = planRow'.life /\ planRow.seen => planRow'.seen

LEMMA StaysWarranted ==
  ASSUME TriggerTyped, TriggerTyped', OnlyForward, NEW c \in PlanRecord, Warranted(c)
  PROVE  Warranted(c)'
<1>1. Cardinality(HeldUpTo(c.bar)) <= Cardinality(HeldUpTo(c.bar)')
  <2>1. HeldUpTo(c.bar) \subseteq HeldUpTo(c.bar)'
    BY DEF HeldUpTo, OnlyForward
  <2>2. IsFiniteSet(HeldUpTo(c.bar)')
    <3>1. IsFiniteSet(1..latest'.time)
      <4>1. latest'.time \in Int
        BY DEF TriggerTyped
      <4> QED
        BY <4>1, FS_Interval
    <3>2. HeldUpTo(c.bar)' \subseteq 1..latest'.time
      BY DEF TriggerTyped, HeldUpTo
    <3> QED
      BY <3>1, <3>2, FS_Subset
  <2> QED
    BY <2>1, <2>2, FS_Subset
<1>2. /\ Cardinality(HeldUpTo(c.bar)) \in Nat /\ Cardinality(HeldUpTo(c.bar)') \in Nat
      /\ c.count \in Nat /\ c.bar \in Nat /\ c.life \in Nat
  <2>1. c.count \in Nat /\ c.bar \in Nat /\ c.life \in Nat
    BY DEF PlanRecord
  <2>2. IsFiniteSet(HeldUpTo(c.bar)')
    <3>1. IsFiniteSet(1..latest'.time)
      <4>1. latest'.time \in Int
        BY DEF TriggerTyped
      <4> QED
        BY <4>1, FS_Interval
    <3>2. HeldUpTo(c.bar)' \subseteq 1..latest'.time
      BY DEF TriggerTyped, HeldUpTo
    <3> QED
      BY <3>1, <3>2, FS_Subset
  <2> QED
    BY <2>1, <2>2, HeldUpToIsCounted, FS_CardinalityType
<1>3. planRow.life \in Nat /\ planRow'.life \in Nat /\ latest.time \in Nat /\ latest'.time \in Nat
  BY DEF TriggerTyped, PlanRecord
<1>4. (setup = "range_false_breakout")' =>
        /\ c.bar <= latest'.time
        /\ c.count <= Cardinality(HeldUpTo(c.bar)')
        /\ c.ok => Required <= Cardinality(HeldUpTo(c.bar)')
  <2> SUFFICES ASSUME (setup = "range_false_breakout")'
               PROVE  /\ c.bar <= latest'.time
                      /\ c.count <= Cardinality(HeldUpTo(c.bar)')
                      /\ c.ok => Required <= Cardinality(HeldUpTo(c.bar)')
    OBVIOUS
  <2>1. /\ c.bar <= latest.time /\ c.count <= Cardinality(HeldUpTo(c.bar))
        /\ c.ok => Required <= Cardinality(HeldUpTo(c.bar))
    BY DEF Warranted, OnlyForward
  <2>2. Required \in Nat
    BY PlansAssumption
  <2>3. latest.time <= latest'.time
    BY DEF OnlyForward
  <2> QED
    BY <1>1, <1>2, <1>3, <2>1, <2>2, <2>3
<1>5. /\ c.seen \/ c.boundary \in {"touched", "triggered"} => price' # "outside"
      /\ c.life <= planRow'.life
      /\ c.seen /\ c.life = planRow'.life => planRow'.seen
      /\ c.seen <=> c.touch # "none"
  <2>1. /\ c.seen \/ c.boundary \in {"touched", "triggered"} => price' # "outside"
        /\ c.seen <=> c.touch # "none"
    BY DEF Warranted, OnlyForward
  <2>4. c.life <= planRow.life /\ planRow.life <= planRow'.life
    BY DEF Warranted, OnlyForward
  <2>2. c.life <= planRow'.life
    BY <1>2, <1>3, <2>4
  <2>3. ASSUME c.seen, c.life = planRow'.life PROVE planRow'.seen
    <3>1. c.life = planRow.life /\ planRow.life = planRow'.life
      BY <1>2, <1>3, <2>3, <2>4
    <3> QED
      BY <2>3, <3>1 DEF Warranted, OnlyForward
  <2> QED
    BY <2>1, <2>2, <2>3
<1> QED
  BY <1>4, <1>5 DEF Warranted

LEMMA StaysGrounded ==
  ASSUME TriggerTyped, TriggerTyped', OnlyForward, NEW m \in Nat, Grounded(m)
  PROVE  Grounded(m)'
<1>1. planRow.life \in Nat /\ planRow'.life \in Nat
  BY DEF TriggerTyped, PlanRecord
<1> QED
  BY <1>1 DEF Grounded, OnlyForward

(* What a tick may write.                                                    *)
TickWrites(c, d) ==
  /\ DOMAIN d \subseteq {"seen", "touch", "boundary", "bar", "count", "ok"}
  /\ "seen" \in DOMAIN d <=> "touch" \in DOMAIN d
  /\ "seen" \in DOMAIN d => d.seen = TRUE /\ d.touch \in {"touched", "reclaimed"}
  /\ "boundary" \in DOMAIN d =>
        /\ d.boundary \in {"touched", "triggered", "left_boundary"}
        /\ d.boundary \in {"touched", "triggered"} => "seen" \in DOMAIN d
  /\ "bar" \in DOMAIN d => d.bar = latest.time /\ latest.time > 0 /\ c.bar # latest.time
  /\ "bar" \in DOMAIN d <=> "ok" \in DOMAIN d
  /\ "ok" \in DOMAIN d => d.ok \in BOOLEAN
  /\ "count" \in DOMAIN d => d.count = Trigger!Counted(c)
  /\ setup = "range_false_breakout" =>
        /\ "bar" \in DOMAIN d <=> "count" \in DOMAIN d
        /\ "ok" \in DOMAIN d => (d.ok <=> Trigger!Counted(c) >= Required)

LEMMA ConfirmationSays ==
  ASSUME TriggerTyped, NEW c \in PlanRecord
  PROVE  TickWrites(c, Trigger!Confirmation(c))
<1>1. latest.time \in Nat /\ latest.decisive \in BOOLEAN
  BY DEF TriggerTyped
<1>2. CASE latest.time \in {0, c.bar} \/ setup = "liquidity_sweep_reclaim"
  BY <1>2 DEF TickWrites, Trigger!Confirmation, Trigger!NoChanges
<1>3. CASE /\ latest.time \notin {0, c.bar} /\ setup # "liquidity_sweep_reclaim"
           /\ setup = "range_false_breakout"
  <2> DEFINE ok == Trigger!Counted(c) >= Required
  <2>1. ok \in BOOLEAN
    OBVIOUS
  <2>2. Trigger!Confirmation(c) = [bar |-> latest.time, count |-> Trigger!Counted(c), ok |-> ok]
    BY <1>3 DEF Trigger!Confirmation
  <2>3. ok <=> Trigger!Counted(c) >= Required
    OBVIOUS
  <2> HIDE DEF ok
  <2> QED
    BY <1>1, <1>3, <2>1, <2>2, <2>3 DEF TickWrites
<1>4. CASE /\ latest.time \notin {0, c.bar} /\ setup # "liquidity_sweep_reclaim"
           /\ setup # "range_false_breakout"
  <2>1. Trigger!Confirmation(c) = [bar |-> latest.time, ok |-> latest.decisive]
    BY <1>4 DEF Trigger!Confirmation
  <2> QED
    BY <1>1, <1>4, <2>1 DEF TickWrites
<1> QED
  BY <1>2, <1>3, <1>4

LEMMA WritesTogether ==
  ASSUME NEW c, NEW d1, NEW d2, TickWrites(c, d1), TickWrites(c, d2)
  PROVE  TickWrites(c, Trigger!Over(d1, d2))
<1> DEFINE d == Trigger!Over(d1, d2)
<1>1. DOMAIN d = DOMAIN d1 \union DOMAIN d2
  BY DEF Trigger!Over
<1>2. \A f \in DOMAIN d : d[f] = IF f \in DOMAIN d1 THEN d1[f] ELSE d2[f]
  BY <1>1 DEF Trigger!Over
<1> HIDE DEF d
<1>3. "seen" \in DOMAIN d => d.seen = IF "seen" \in DOMAIN d1 THEN d1.seen ELSE d2.seen
  BY <1>2
<1>4. "touch" \in DOMAIN d => d.touch = IF "touch" \in DOMAIN d1 THEN d1.touch ELSE d2.touch
  BY <1>2
<1>5. "boundary" \in DOMAIN d => d.boundary = IF "boundary" \in DOMAIN d1 THEN d1.boundary ELSE d2.boundary
  BY <1>2
<1>6. "bar" \in DOMAIN d => d.bar = IF "bar" \in DOMAIN d1 THEN d1.bar ELSE d2.bar
  BY <1>2
<1>7. "count" \in DOMAIN d => d.count = IF "count" \in DOMAIN d1 THEN d1.count ELSE d2.count
  BY <1>2
<1>8. "ok" \in DOMAIN d => d.ok = IF "ok" \in DOMAIN d1 THEN d1.ok ELSE d2.ok
  BY <1>2
<1>9. TickWrites(c, d)
  BY <1>1, <1>3, <1>4, <1>5, <1>6, <1>7, <1>8 DEF TickWrites
<1> QED
  BY <1>9 DEF d

(* A touch is written, remembered or acted upon only of a price that was at  *)
(* the entry; what is remembered of the present life is in the row.          *)
LEMMA InsideSays ==
  ASSUME TriggerInv, NEW c \in PlanRecord, Warranted(c), NEW m \in Nat, Grounded(m), NEW p
  PROVE  LET out == Trigger!Inside(c, m, p)
         IN  /\ TickWrites(c, out.changes)
             /\ out.fires \/ "seen" \in DOMAIN out.changes => Trigger!Touched(c, m, p)
             /\ out.memory \in Nat
             /\ out.memory > 0 => Trigger!Touched(c, m, p)
             /\ \/ out.memory \in {m, 0}
                \/ out.memory = c.life /\ (c.seen \/ "seen" \in DOMAIN out.changes)
<1> DEFINE result == Trigger!Reclaimed(c, m, p)
           fires == result /\ Trigger!Confirmed(c)
           first == IF fires THEN [seen |-> TRUE, touch |-> "reclaimed", boundary |-> "triggered"]
                    ELSE Trigger!NoChanges
           second == IF result THEN Trigger!Confirmation(c) ELSE Trigger!NoChanges
           third == Trigger!FirstTouch(c, m, p)
           memory == IF ~Trigger!Touched(c, m, p) THEN 0 ELSE IF m > 0 THEN m ELSE c.life
           changes == Trigger!Over(first, Trigger!Over(second, third))
<1>1. Trigger!Inside(c, m, p) = [fires |-> fires, memory |-> memory, changes |-> changes]
  BY DEF Trigger!Inside
<1>2. TickWrites(c, first) /\ ("seen" \in DOMAIN first <=> fires)
  <2>1. CASE fires
    <3>1. first = [seen |-> TRUE, touch |-> "reclaimed", boundary |-> "triggered"]
      BY <2>1
    <3> HIDE DEF first
    <3> QED
      BY <2>1, <3>1 DEF TickWrites
  <2>2. CASE ~fires
    <3>1. first = Trigger!NoChanges
      BY <2>2
    <3> HIDE DEF first
    <3> QED
      BY <2>2, <3>1 DEF TickWrites, Trigger!NoChanges
  <2> QED
    BY <2>1, <2>2
<1>3. TickWrites(c, second) /\ "seen" \notin DOMAIN second
  <2>1. TickWrites(c, Trigger!NoChanges) /\ "seen" \notin DOMAIN Trigger!NoChanges
    BY DEF TickWrites, Trigger!NoChanges
  <2>2. TickWrites(c, Trigger!Confirmation(c))
    BY ConfirmationSays DEF TriggerInv
  <2>3. "seen" \notin DOMAIN Trigger!Confirmation(c)
    BY DEF Trigger!Confirmation, Trigger!NoChanges
  <2> QED
    BY <2>1, <2>2, <2>3
<1>4. /\ TickWrites(c, third)
      /\ "seen" \in DOMAIN third <=> Trigger!Touched(c, m, p) /\ ~Trigger!Remembered(c, m)
  BY DEF TickWrites, Trigger!FirstTouch, Trigger!NoChanges
<1>5. TickWrites(c, changes)
  BY <1>2, <1>3, <1>4, WritesTogether
<1>6. "seen" \in DOMAIN changes <=> fires \/ (Trigger!Touched(c, m, p) /\ ~Trigger!Remembered(c, m))
  <2> HIDE DEF fires, first, second, third
  <2> QED
    BY <1>2, <1>3, <1>4 DEF Trigger!Over
<1>7. c.life \in Nat
  BY DEF PlanRecord
<1>8. fires => Trigger!Touched(c, m, p)
  BY DEF Trigger!Reclaimed
<1>9. /\ memory \in Nat
      /\ memory > 0 => Trigger!Touched(c, m, p)
      /\ \/ memory \in {m, 0}
         \/ memory = c.life /\ Trigger!Touched(c, m, p) /\ ~(m > 0)
  <2> HIDE DEF fires, first, second, third, changes
  <2> QED
    BY <1>7
<1>10. ~(m > 0) /\ Trigger!Touched(c, m, p) => c.seen \/ "seen" \in DOMAIN changes
  BY <1>6 DEF Trigger!Remembered, Warranted
<1> HIDE DEF fires, first, second, third, changes, memory
<1> QED
  BY <1>1, <1>5, <1>6, <1>8, <1>9, <1>10

(* The row after the writes of a tick on a plan it has read earlier.         *)
LEMMA RowIsWritten ==
  ASSUME TriggerInv, NEW c \in PlanRecord, Warranted(c), NEW d, TickWrites(c, d),
         setup' = setup, latest' = latest, held' = held,
         price # "outside" => price' # "outside",
         "seen" \in DOMAIN d => price' # "outside",
         DOMAIN d # {} => planRow' = Trigger!Over(d, planRow),
         DOMAIN d = {} => planRow' = planRow
  PROVE  /\ planRow' \in PlanRecord /\ OnlyForward
         /\ "seen" \in DOMAIN d => planRow'.seen
         /\ TriggerTyped' => Warranted(planRow)'
<1>1. /\ planRow \in PlanRecord /\ latest.time \in Nat /\ held \subseteq 1..latest.time
      /\ latest.time > 0 /\ Trigger!Holds(latest.close) => latest.time \in held
  BY DEF TriggerInv, TriggerTyped
<1>2. /\ c.bar \in Nat /\ c.count \in Nat /\ Required \in Nat /\ planRow.life \in Nat
      /\ planRow.seen \in BOOLEAN
  BY <1>1, PlansAssumption DEF PlanRecord
<1>3. CASE DOMAIN d = {}
  <2>1. planRow' = planRow /\ "seen" \notin DOMAIN d
    BY <1>3
  <2>2. OnlyForward
    BY <1>2, <2>1, <1>1 DEF OnlyForward
  <2>3. TriggerTyped' => Warranted(planRow)'
    <3>1. TriggerTyped' => Warranted(planRow)' 
      BY <1>1, <2>1, <2>2, StaysWarranted DEF TriggerInv, Warranted
    <3> QED
      BY <3>1
  <2> QED
    BY <1>1, <2>1, <2>2, <2>3
<1>4. CASE DOMAIN d # {}
  <2> DEFINE r == Trigger!Over(d, planRow)
  <2>1. planRow' = r
    BY <1>4
  <2>2. DOMAIN d \subseteq {"st", "seen", "touch", "boundary", "outside", "bar", "count", "ok"}
    BY DEF TickWrites
  <2>3. /\ r.life = planRow.life
        /\ DOMAIN r = {"st", "life", "seen", "touch", "boundary", "outside", "bar", "count", "ok"}
        /\ r.st = planRow.st /\ r.outside = planRow.outside
        /\ r.seen = IF "seen" \in DOMAIN d THEN d.seen ELSE planRow.seen
        /\ r.touch = IF "touch" \in DOMAIN d THEN d.touch ELSE planRow.touch
        /\ r.boundary = IF "boundary" \in DOMAIN d THEN d.boundary ELSE planRow.boundary
        /\ r.bar = IF "bar" \in DOMAIN d THEN d.bar ELSE planRow.bar
        /\ r.count = IF "count" \in DOMAIN d THEN d.count ELSE planRow.count
        /\ r.ok = IF "ok" \in DOMAIN d THEN d.ok ELSE planRow.ok
    BY <1>1, <2>2, OverSays DEF TickWrites
  <2>4. Trigger!Counted(c) \in Nat
    BY <1>2 DEF Trigger!Counted
  <2> HIDE DEF r
  <2>5. r \in PlanRecord
    <3>1. /\ r.seen \in BOOLEAN /\ r.touch \in {"none", "touched", "reclaimed"}
          /\ r.boundary \in {"none", "unvisited", "touched", "triggered", "left_boundary"}
      BY <1>1, <2>3 DEF TickWrites, PlanRecord
    <3>2. r.bar \in Nat /\ r.count \in Nat /\ r.ok \in BOOLEAN
      BY <1>1, <2>3, <2>4 DEF TickWrites, PlanRecord
    <3>3. r.st \in {"none", "active", "ended"} /\ r.life \in Nat /\ r.outside \in Nat
      BY <1>1, <2>3 DEF PlanRecord
    <3>4. r = [st |-> r.st, life |-> r.life, seen |-> r.seen, touch |-> r.touch, boundary |-> r.boundary,
               outside |-> r.outside, bar |-> r.bar, count |-> r.count, ok |-> r.ok]
      <4>1. \A x \in DOMAIN r : r[x] = r[x]
        OBVIOUS
      <4>2. r = [x \in {"st", "life", "seen", "touch", "boundary", "outside", "bar", "count", "ok"} |-> r[x]]
        BY <2>3 DEF r, Trigger!Over
      <4> QED
        BY <4>2
    <3> QED
      BY <3>1, <3>2, <3>3, <3>4 DEF PlanRecord
  <2>6. "seen" \in DOMAIN d => r.seen
    BY <2>3 DEF TickWrites
  <2>7. OnlyForward
    <3>1. r.life = planRow.life /\ (planRow.seen => r.seen)
      BY <2>3, <2>6
    <3> QED
      BY <1>1, <1>2, <2>1, <3>1 DEF OnlyForward
  <2>8. Warranted(planRow)
    BY DEF TriggerInv
  <2>9. ASSUME TriggerTyped' PROVE Warranted(planRow)'
    <3>1. r.seen <=> r.touch # "none"
      BY <2>3, <2>8 DEF TickWrites, Warranted
    <3>2. r.seen \/ r.boundary \in {"touched", "triggered"} => price' # "outside"
      BY <2>3, <2>8 DEF TickWrites, Warranted
    <3>3. r.life <= planRow'.life /\ (r.seen /\ r.life = planRow'.life => planRow'.seen)
      BY <1>2, <2>1, <2>3
    <3>4. ASSUME setup = "range_false_breakout"
          PROVE  /\ r.bar <= latest.time
                 /\ r.count <= Cardinality(HeldUpTo(r.bar))
                 /\ r.ok => Required <= Cardinality(HeldUpTo(r.bar))
      <4>1. CASE "bar" \notin DOMAIN d
        BY <2>3, <2>8, <3>4, <4>1 DEF TickWrites, Warranted
      <4>2. CASE "bar" \in DOMAIN d
        <5>1. /\ r.bar = latest.time /\ latest.time > 0 /\ c.bar # latest.time
              /\ r.count = Trigger!Counted(c)
              /\ r.ok <=> Trigger!Counted(c) >= Required
          BY <2>3, <3>4, <4>2 DEF TickWrites
        <5>2. c.bar <= latest.time /\ c.count <= Cardinality(HeldUpTo(c.bar))
          BY <3>4 DEF Warranted
        <5>3. Trigger!Counted(c) <= Cardinality(HeldUpTo(latest.time))
          <6> DEFINE before == HeldUpTo(c.bar)  now == HeldUpTo(latest.time)
          <6>1. /\ IsFiniteSet(now) /\ Cardinality(now) \in Nat
                /\ IsFiniteSet(before) /\ Cardinality(before) \in Nat
            BY <1>1, <1>2, HeldUpToIsCounted DEF TriggerInv
          <6>2. CASE ~Trigger!Holds(latest.close)
            <7>1. Trigger!Counted(c) = 0
              BY <6>2 DEF Trigger!Counted
            <7> HIDE DEF now, before
            <7> QED
              BY <6>1, <7>1 DEF now
          <6>3. CASE Trigger!Holds(latest.close)
            <7>1. Trigger!Counted(c) = c.count + 1
              BY <6>3 DEF Trigger!Counted
            <7>2. latest.time \in held
              BY <1>1, <5>1, <6>3
            <7>3. latest.time \notin before /\ before \cup {latest.time} \subseteq now
              <8>1. ~(latest.time <= c.bar)
                BY <1>1, <1>2, <5>1, <5>2
              <8>2. \A t \in held : t <= latest.time
                BY <1>1
              <8> QED
                BY <1>1, <7>2, <8>1, <8>2 DEF HeldUpTo
            <7> HIDE DEF now, before
            <7>4. IsFiniteSet(before \cup {latest.time}) /\ Cardinality(before \cup {latest.time}) = Cardinality(before) + 1
              BY <6>1, <7>3, FS_AddElement
            <7>5. Cardinality(before \cup {latest.time}) <= Cardinality(now)
              BY <6>1, <7>3, <7>4, FS_Subset
            <7>6. c.count <= Cardinality(before)
              BY <5>2 DEF before
            <7> QED
              BY <1>2, <6>1, <7>1, <7>4, <7>5, <7>6 DEF now
          <6> QED
            BY <6>2, <6>3
        <5>4. Cardinality(HeldUpTo(latest.time)) \in Nat
          BY <1>1, HeldUpToIsCounted DEF TriggerInv
        <5> QED
          BY <1>1, <1>2, <2>4, <5>1, <5>3, <5>4
      <4> QED
        BY <4>1, <4>2
    <3>5. HeldUpTo(planRow.bar)' = HeldUpTo(r.bar)
      BY <2>1 DEF HeldUpTo
    <3> QED
      BY <2>1, <3>1, <3>2, <3>3, <3>4, <3>5 DEF Warranted
  <2> QED
    BY <2>1, <2>5, <2>6, <2>7, <2>9
<1> QED
  BY <1>3, <1>4

LEMMA OthersStay ==
  ASSUME TriggerInv, TriggerTyped', OnlyForward
  PROVE  /\ \A c \in PlanRecord : Warranted(c) => Warranted(c)'
         /\ \A m \in Nat : Grounded(m) => Grounded(m)'
         /\ Warranted(Trigger!None)'
         /\ cache' \in {cache, Trigger!None} => Warranted(cache)'
         /\ \A e \in Charts :
               /\ engine'[e].copy \in {engine[e].copy, cache, planRow, Trigger!None} => Warranted(engine[e].copy)'
               /\ engine'[e].memory \in {engine[e].memory, 0} => Grounded(engine[e].memory)'
         /\ price' # "outside" \/ ~fired' \/ (fired' = fired)
               => (fired' => price' # "outside")
<1>1. \A c \in PlanRecord : Warranted(c) => Warranted(c)'
  BY StaysWarranted DEF TriggerInv
<1>2. \A m \in Nat : Grounded(m) => Grounded(m)'
  BY StaysGrounded DEF TriggerInv
<1>3. Warranted(Trigger!None)'
  <2>1. planRow'.life \in Nat /\ latest'.time \in Nat
    BY DEF TriggerTyped, PlanRecord
  <2>2. Cardinality(HeldUpTo(0)') \in Nat
    <3>1. IsFiniteSet(1..latest'.time)
      BY <2>1, FS_Interval
    <3>2. HeldUpTo(0)' \subseteq 1..latest'.time
      BY DEF TriggerTyped, HeldUpTo
    <3> QED
      BY <3>1, <3>2, FS_Subset, FS_CardinalityType
  <2> QED
    BY <2>1, <2>2, NoPlan DEF Warranted, HeldUpTo
<1>4. planRow \in PlanRecord /\ cache \in PlanRecord /\ \A e \in Charts : engine[e].copy \in PlanRecord /\ engine[e].memory \in Nat
  BY DEF TriggerInv, TriggerTyped, EngineRecord
<1>5. Warranted(planRow) /\ Warranted(cache) /\ \A e \in Charts : Warranted(engine[e].copy) /\ Grounded(engine[e].memory)
  BY DEF TriggerInv
<1>6. cache' \in {cache, Trigger!None} => Warranted(cache)'
  BY <1>1, <1>3, <1>4, <1>5 DEF Warranted
<1>7. ASSUME NEW e \in Charts, engine'[e].copy \in {engine[e].copy, cache, planRow, Trigger!None}
      PROVE  Warranted(engine[e].copy)'
  BY <1>1, <1>3, <1>4, <1>5, <1>7 DEF Warranted
<1>8. ASSUME NEW e \in Charts, engine'[e].memory \in {engine[e].memory, 0}
      PROVE  Grounded(engine[e].memory)'
  <2>1. planRow'.life \in Nat
    BY DEF TriggerTyped, PlanRecord
  <2> QED
    BY <1>2, <1>4, <1>5, <1>8, <2>1 DEF Grounded
<1>9. price' # "outside" \/ ~fired' \/ (fired' = fired) => (fired' => price' # "outside")
  BY DEF TriggerInv, OnlyForward
<1> QED
  BY <1>1, <1>2, <1>3, <1>6, <1>7, <1>8, <1>9

LEMMA TriggerInit == Trigger!Init => TriggerInv
<1> SUFFICES ASSUME Trigger!Init PROVE TriggerInv
  OBVIOUS
<1>1. /\ planRow = Trigger!None /\ cache = Trigger!None /\ latest.time = 0 /\ held = {}
      /\ latest.decisive = FALSE /\ fired = FALSE
      /\ engine = [e \in Charts |-> [at |-> "idle", copy |-> Trigger!None, memory |-> 0]]
  BY DEF Trigger!Init
<1>2. TriggerTyped
  <2>1. engine \in [Charts -> EngineRecord]
    BY <1>1, NoPlan DEF EngineRecord
  <2>2. planRow \in PlanRecord /\ cache \in PlanRecord
    BY <1>1, NoPlan
  <2>3. latest.time \in Nat /\ held \subseteq 1..latest.time /\ ~(latest.time > 0)
    <3>1. latest.time = 0 /\ held = {}
      BY <1>1
    <3> QED
      BY ONLY <3>1
  <2>4. latest.decisive \in BOOLEAN
    <3>1. latest.decisive = FALSE
      BY <1>1
    <3> QED
      BY ONLY <3>1
  <2> QED
    BY <2>1, <2>2, <2>3, <2>4 DEF TriggerTyped
<1>3. Warranted(planRow) /\ Warranted(cache)
  <2>1. Cardinality(HeldUpTo(0)) \in Nat
    BY <1>2, HeldUpToIsCounted
  <2>2. planRow = cache /\ planRow.bar = 0 /\ planRow.count = 0 /\ planRow.ok = FALSE /\ planRow.life = 0
        /\ planRow.seen = FALSE /\ planRow.touch = "none" /\ planRow.boundary = "none"
    BY <1>1, NoPlan
  <2>3. Warranted(planRow)
    BY <1>1, <2>1, <2>2 DEF Warranted
  <2> QED
    BY <2>2, <2>3
<1>4. Grounded(0)
  <2>1. planRow.life = 0
    BY <1>1, NoPlan
  <2> QED
    BY <2>1 DEF Grounded
<1>5. \A e \in Charts : engine[e].copy = planRow /\ engine[e].memory = 0
  BY <1>1
<1> QED
  BY <1>1, <1>2, <1>3, <1>4, <1>5 DEF TriggerInv

(* Ending a plan or counting a close outside says nothing of touch and bars. *)
LEMMA StatusIsWritten ==
  ASSUME TriggerInv, NEW d, DOMAIN d \subseteq {"st", "outside"},
         "st" \in DOMAIN d => d.st \in {"none", "active", "ended"},
         "outside" \in DOMAIN d => d.outside \in Nat,
         planRow' = Trigger!Over(d, planRow)
  PROVE  /\ planRow' \in PlanRecord /\ planRow'.life = planRow.life /\ planRow'.seen = planRow.seen
         /\ TriggerTyped' /\ OnlyForward => Warranted(planRow)'
<1>1. planRow \in PlanRecord
  BY DEF TriggerInv, TriggerTyped
<1> DEFINE r == Trigger!Over(d, planRow)
<1>2. /\ r.life = planRow.life /\ r.seen = planRow.seen /\ r.touch = planRow.touch
      /\ r.boundary = planRow.boundary /\ r.bar = planRow.bar /\ r.count = planRow.count /\ r.ok = planRow.ok
      /\ r.st = (IF "st" \in DOMAIN d THEN d.st ELSE planRow.st)
      /\ r.outside = (IF "outside" \in DOMAIN d THEN d.outside ELSE planRow.outside)
      /\ DOMAIN r = {"st", "life", "seen", "touch", "boundary", "outside", "bar", "count", "ok"}
  BY <1>1, OverSays
<1>3. r = [x \in {"st", "life", "seen", "touch", "boundary", "outside", "bar", "count", "ok"} |-> r[x]]
  BY <1>2 DEF Trigger!Over
<1> HIDE DEF r
<1>4. r.st \in {"none", "active", "ended"} /\ r.outside \in Nat
  BY <1>1, <1>2 DEF PlanRecord
<1>5. r \in PlanRecord
  <2>1. r = [st |-> r.st, life |-> r.life, seen |-> r.seen, touch |-> r.touch, boundary |-> r.boundary,
             outside |-> r.outside, bar |-> r.bar, count |-> r.count, ok |-> r.ok]
    BY <1>3
  <2> QED
    BY <1>1, <1>2, <1>4, <2>1 DEF PlanRecord
<1>6. planRow' = r
  BY DEF r
<1>7. TriggerTyped' /\ OnlyForward => Warranted(planRow)'
  <2> SUFFICES ASSUME TriggerTyped', OnlyForward PROVE Warranted(planRow)'
    OBVIOUS
  <2>1. Warranted(planRow) /\ \A c \in PlanRecord : Warranted(c) => Warranted(c)'
    BY OthersStay DEF TriggerInv
  <2>2. planRow'.bar = planRow.bar
    BY <1>2, <1>6
  <2> QED
    BY <1>1, <1>2, <1>6, <2>1, <2>2 DEF Warranted, HeldUpTo
<1> QED
  BY <1>2, <1>5, <1>6, <1>7

LEMMA BarStep ==
  ASSUME TriggerInv, NEW p, NEW decisive \in BOOLEAN, NEW brings \in BOOLEAN, Trigger!Bar(p, decisive, brings)
  PROVE  TriggerInv'
<1> DEFINE t == latest.time + 1
<1>1. /\ planRow \in PlanRecord /\ cache \in PlanRecord /\ latest.time \in Nat /\ held \subseteq 1..latest.time
      /\ engine \in [Charts -> EngineRecord]
  BY DEF TriggerInv, TriggerTyped
<1>2. /\ latest' = [time |-> t, close |-> p, decisive |-> decisive]
      /\ held' = IF Trigger!Holds(p) THEN held \union {t} ELSE held
      /\ setup' = setup /\ engine' = engine /\ fired' = fired /\ price' = price
  BY DEF Trigger!Bar
<1>3. t \in Nat /\ latest'.time = t /\ latest'.close = p /\ latest'.decisive \in BOOLEAN /\ held' \subseteq 1..t
  <2>1. t \in Nat /\ 1..latest.time \subseteq 1..t /\ t \in 1..t
    BY <1>1
  <2> HIDE DEF t
  <2>2. held' \subseteq 1..t
    BY <1>1, <1>2, <2>1
  <2> QED
    BY <1>2, <2>1, <2>2
<1>4. Trigger!Holds(latest.close)' => t \in held'
  BY <1>2, <1>3 DEF Trigger!Holds
<1>5. planRow.life \in Nat /\ planRow.outside \in Nat /\ planRow.seen \in BOOLEAN
  BY <1>1 DEF PlanRecord
<1>6. ASSUME planRow' \in PlanRecord, cache' \in PlanRecord, cache' \in {cache, Trigger!None},
             planRow.life <= planRow'.life,
             planRow.life = planRow'.life /\ planRow.seen => planRow'.seen,
             TriggerTyped' /\ OnlyForward => Warranted(planRow)'
      PROVE  TriggerInv'
  <2>1. TriggerTyped'
    BY <1>1, <1>2, <1>3, <1>4, <1>6 DEF TriggerTyped
  <2>2. OnlyForward
    BY <1>1, <1>2, <1>3, <1>6 DEF OnlyForward
  <2> QED
    BY <1>2, <1>6, <2>1, <2>2, OthersStay DEF TriggerInv
<1>7. ASSUME UNCHANGED <<planRow, cache>> PROVE TriggerInv'
  <2>1. TriggerTyped' /\ OnlyForward => Warranted(planRow)'
    <3> SUFFICES ASSUME TriggerTyped', OnlyForward PROVE Warranted(planRow)'
      OBVIOUS
    <3>1. \A c \in PlanRecord : Warranted(c) => Warranted(c)'
      BY OthersStay
    <3> QED
      BY <1>1, <1>7, <3>1 DEF TriggerInv, Warranted
  <2> QED
    BY <1>1, <1>5, <1>6, <1>7, <2>1
<1>8. ASSUME NEW d, DOMAIN d \subseteq {"st", "outside"},
             "st" \in DOMAIN d => d.st \in {"none", "active", "ended"},
             "outside" \in DOMAIN d => d.outside \in Nat,
             planRow' = Trigger!Over(d, planRow), cache' = Trigger!None
      PROVE  TriggerInv'
  <2>1. /\ planRow' \in PlanRecord /\ planRow'.life = planRow.life /\ planRow'.seen = planRow.seen
        /\ TriggerTyped' /\ OnlyForward => Warranted(planRow)'
    BY <1>8, StatusIsWritten
  <2> QED
    BY <1>5, <1>6, <1>8, <2>1, NoPlan
<1>9. ASSUME NEW b \in {"none", "unvisited"},
             planRow' = Trigger!Over([Trigger!None EXCEPT !.st = "active", !.life = planRow.life + 1, !.boundary = b], planRow),
             cache' = Trigger!None
      PROVE  TriggerInv'
  <2> DEFINE F == {"st", "life", "seen", "touch", "boundary", "outside", "bar", "count", "ok"}
             next == planRow.life + 1
             e == [Trigger!None EXCEPT !.st = "active", !.life = next, !.boundary = b]
             r == Trigger!Over(e, planRow)
  <2>1. DOMAIN Trigger!None = F /\ DOMAIN planRow = F
    BY <1>1 DEF Trigger!None, PlanRecord
  <2>2. next \in Nat /\ planRow.life < next
    BY <1>5
  <2> HIDE DEF next
  <2>3. /\ DOMAIN e = F /\ e.st = "active" /\ e.life = next /\ e.boundary = b
        /\ e.seen = FALSE /\ e.touch = "none" /\ e.outside = 0 /\ e.bar = 0 /\ e.count = 0 /\ e.ok = FALSE
    <3>1. DOMAIN e = F
      BY <2>1
    <3>2. e.st = "active" /\ e.life = next /\ e.boundary = b
      BY <2>1
    <3>3. e.seen = Trigger!None.seen /\ e.touch = Trigger!None.touch /\ e.outside = Trigger!None.outside
      BY <2>1
    <3>4. e.bar = Trigger!None.bar /\ e.count = Trigger!None.count /\ e.ok = Trigger!None.ok
      BY <2>1
    <3> HIDE DEF e
    <3> QED
      BY <3>1, <3>2, <3>3, <3>4, NoPlan
  <2> HIDE DEF e
  <2>4. r = [x \in F |-> e[x]]
    BY <2>1, <2>3 DEF Trigger!Over
  <2> HIDE DEF r
  <2>5. /\ r.st = "active" /\ r.life = next /\ r.boundary = b
        /\ r.seen = FALSE /\ r.touch = "none" /\ r.outside = 0 /\ r.bar = 0 /\ r.count = 0 /\ r.ok = FALSE
    BY <2>3, <2>4
  <2>6. r \in PlanRecord
    <3>1. r = [st |-> r.st, life |-> r.life, seen |-> r.seen, touch |-> r.touch, boundary |-> r.boundary,
               outside |-> r.outside, bar |-> r.bar, count |-> r.count, ok |-> r.ok]
      <4>1. r = [x \in F |-> r[x]]
        BY <2>4
      <4> QED
        BY <4>1
    <3>2. r.boundary \in {"none", "unvisited", "touched", "triggered", "left_boundary"}
      BY <2>5
    <3>3. /\ r.st \in {"none", "active", "ended"} /\ r.life \in Nat /\ r.seen \in BOOLEAN
          /\ r.touch \in {"none", "touched", "reclaimed"}
      BY <2>2, <2>5
    <3>4. r.outside \in Nat /\ r.bar \in Nat /\ r.count \in Nat
      <4>1. r.outside = 0 /\ r.bar = 0 /\ r.count = 0
        BY <2>5
      <4> QED
        BY ONLY <4>1
    <3>5. r.ok \in BOOLEAN
      <4>1. r.ok = FALSE
        BY <2>5
      <4> QED
        BY ONLY <4>1
    <3> QED
      BY <3>1, <3>2, <3>3, <3>4, <3>5 DEF PlanRecord
  <2>7. planRow' = r
    BY <1>9 DEF r, e, next
  <2>8. TriggerTyped' /\ OnlyForward => Warranted(planRow)'
    <3> SUFFICES ASSUME TriggerTyped', OnlyForward PROVE Warranted(planRow)'
      OBVIOUS
    <3>1. Warranted(Trigger!None)'
      BY OthersStay
    <3>2. r.boundary \notin {"touched", "triggered"}
      BY <2>5
    <3> QED
      BY <2>2, <2>5, <2>7, <3>1, <3>2, NoPlan DEF Warranted, HeldUpTo
  <2>9. planRow.life <= planRow'.life /\ planRow.life # planRow'.life
    BY <1>5, <2>2, <2>5, <2>7
  <2>10. planRow' \in PlanRecord /\ cache' \in PlanRecord /\ cache' \in {cache, Trigger!None}
    BY <1>9, <2>6, <2>7, NoPlan
  <2> QED
    BY <1>6, <2>8, <2>9, <2>10
<1>10. \/ UNCHANGED <<planRow, cache>>
       \/ \E d : /\ DOMAIN d \subseteq {"st", "outside"}
                 /\ "st" \in DOMAIN d => d.st \in {"none", "active", "ended"}
                 /\ "outside" \in DOMAIN d => d.outside \in Nat
                 /\ planRow' = Trigger!Over(d, planRow) /\ cache' = Trigger!None
       \/ \E b \in {"none", "unvisited"} :
                 /\ planRow' = Trigger!Over([Trigger!None EXCEPT !.st = "active", !.life = planRow.life + 1, !.boundary = b], planRow)
                 /\ cache' = Trigger!None
  <2>1. CASE planRow.st = "active" /\ Trigger!ClosedOut(p)
    <3> DEFINE d == [st |-> "ended"]
    <3>1. DOMAIN d = {"st"} /\ d.st = "ended" /\ Trigger!Write(d)
      BY <2>1 DEF Trigger!Bar
    <3> HIDE DEF d
    <3> QED
      BY <3>1 DEF Trigger!Write
  <2>2. CASE planRow.st = "active" /\ ~Trigger!ClosedOut(p)
    <3> DEFINE streak == IF Trigger!InZone(p) THEN 0 ELSE planRow.outside + 1
               d == [outside |-> streak]
    <3>1. streak \in Nat
      BY <1>5
    <3>2. Trigger!Write(IF streak = planRow.outside THEN Trigger!NoChanges ELSE d)
      BY <2>2 DEF Trigger!Bar
    <3>3. DOMAIN d = {"outside"} /\ d.outside = streak
      OBVIOUS
    <3>4. DOMAIN Trigger!NoChanges = {}
      BY DEF Trigger!NoChanges
    <3> HIDE DEF d, streak
    <3> QED
      BY <3>1, <3>2, <3>3, <3>4 DEF Trigger!Write
  <2>3. CASE planRow.st # "active"
    <3> DEFINE b == IF setup = "range_false_breakout" THEN "unvisited" ELSE "none"
               d == [Trigger!None EXCEPT !.st = "active", !.life = planRow.life + 1, !.boundary = b]
    <3>1. b \in {"none", "unvisited"}
      OBVIOUS
    <3>2. Trigger!Write(d) \/ UNCHANGED <<planRow, cache>>
      BY <2>3 DEF Trigger!Bar
    <3>3. "st" \in DOMAIN d
      BY DEF Trigger!None
    <3> HIDE DEF b
    <3>4. DOMAIN d # {}
      BY <3>3
    <3> QED
      BY <3>1, <3>2, <3>4 DEF Trigger!Write
  <2> QED
    BY <2>1, <2>2, <2>3
<1> QED
  BY <1>7, <1>8, <1>9, <1>10

(* Reading, caching, forgetting and making an engine anew copy what is there. *)
LEMMA CopyStep ==
  ASSUME TriggerInv, UNCHANGED <<setup, planRow, latest, fired, price, held>>,
         cache' \in PlanRecord, Warranted(cache),
         \/ cache' \in {cache, Trigger!None}
         \/ \E e \in Charts : cache' = engine[e].copy,
         engine' \in [Charts -> EngineRecord],
         \A e \in Charts :
            /\ engine'[e].copy \in {engine[e].copy, cache, planRow, Trigger!None}
            /\ engine'[e].memory \in {engine[e].memory, 0}
  PROVE  TriggerInv'
<1>1. TriggerTyped'
  BY DEF TriggerInv, TriggerTyped, Trigger!Holds
<1>2. OnlyForward
  <2>1. latest.time \in Nat /\ planRow.life \in Nat
    BY DEF TriggerInv, TriggerTyped, PlanRecord
  <2> QED
    BY <2>1 DEF OnlyForward
<1>3. Warranted(planRow)'
  BY <1>1, <1>2, OthersStay DEF TriggerInv, TriggerTyped, Warranted
<1>4. Warranted(cache)'
  <2>1. CASE cache' \in {cache, Trigger!None}
    BY <1>1, <1>2, <2>1, OthersStay
  <2>2. CASE \E e \in Charts : cache' = engine[e].copy
    <3>1. PICK e \in Charts : cache' = engine[e].copy
      BY <2>2
    <3>2. engine[e].copy \in PlanRecord /\ Warranted(engine[e].copy)
      BY DEF TriggerInv, TriggerTyped, EngineRecord
    <3>3. \A c \in PlanRecord : Warranted(c) => Warranted(c)'
      BY <1>1, <1>2, OthersStay
    <3> QED
      BY <3>1, <3>2, <3>3 DEF Warranted
  <2> QED
    BY <2>1, <2>2
<1>5. \A e \in Charts : Warranted(engine[e].copy)' /\ Grounded(engine[e].memory)'
  BY <1>1, <1>2, OthersStay
<1> QED
  BY <1>1, <1>3, <1>4, <1>5 DEF TriggerInv

(* A tick of one engine.                                                     *)
LEMMA TickStep ==
  ASSUME TriggerInv, NEW e \in Charts, NEW p, Trigger!Tick(e, p)
  PROVE  TriggerInv'
<1> DEFINE c == engine[e].copy
           m == engine[e].memory
           inside == Trigger!Inside(c, m, p)
           beyond == Trigger!Beyond(c, m, p)
<1>1. /\ planRow \in PlanRecord /\ cache \in PlanRecord /\ latest.time \in Nat
      /\ engine \in [Charts -> EngineRecord]
      /\ c \in PlanRecord /\ m \in Nat /\ planRow.life \in Nat /\ planRow.seen \in BOOLEAN
  BY DEF TriggerInv, TriggerTyped, EngineRecord, PlanRecord
<1>2. Warranted(c) /\ Grounded(m)
  BY DEF TriggerInv
<1>3. setup' = setup /\ latest' = latest /\ held' = held
  BY DEF Trigger!Tick
(* What is left to show when the row and the memory are known.               *)
<1>4. ASSUME NEW n \in Nat,
             engine' \in [Charts -> EngineRecord], engine'[e].copy = Trigger!None, engine'[e].memory = n,
             \A f \in Charts : f # e => engine'[f] = engine[f],
             planRow' \in PlanRecord, cache' \in {cache, Trigger!None}, OnlyForward,
             TriggerTyped' => Warranted(planRow)',
             n \in {m, 0} \/ (TriggerTyped' => Grounded(n)'),
             fired' => price' # "outside"
      PROVE  TriggerInv'
  <2>2. cache' \in PlanRecord
    BY <1>1, <1>4, NoPlan
  <2>3. TriggerTyped'
    BY <1>3, <1>4, <2>2 DEF TriggerInv, TriggerTyped, Trigger!Holds
  <2>4. /\ engine'[e].copy = Trigger!None /\ engine'[e].memory = n
        /\ \A f \in Charts : f # e => engine'[f] = engine[f]
    BY <1>4
  <2>5. \A f \in Charts : Warranted(engine[f].copy)'
    BY <1>4, <2>3, <2>4, OthersStay
  <2>6. \A f \in Charts : Grounded(engine[f].memory)'
    <3>1. ASSUME NEW f \in Charts, f # e PROVE Grounded(engine[f].memory)'
      BY <1>4, <2>3, <2>4, <3>1, OthersStay
    <3>2. Grounded(engine[e].memory)'
      <4>1. CASE n \in {m, 0}
        BY <1>4, <2>3, <2>4, <4>1, OthersStay
      <4>2. CASE n \notin {m, 0}
        <5>1. Grounded(n)'
          BY <1>4, <2>3, <4>2
        <5> QED
          BY <2>4, <5>1 DEF Grounded
      <4> QED
        BY <4>1, <4>2
    <3> QED
      BY <3>1, <3>2
  <2>7. Warranted(cache)'
    BY <1>4, <2>3, OthersStay
  <2> QED
    BY <1>4, <2>3, <2>5, <2>6, <2>7 DEF TriggerInv
<1> HIDE DEF c, m, inside, beyond
<1>5. CASE Trigger!Broken(p)
  <2>1. /\ engine' = [engine EXCEPT ![e].at = "idle", ![e].copy = Trigger!None]
        /\ fired' = FALSE /\ price' \in {"drifted", price}
        /\ Trigger!Write(IF planRow.st = "active" THEN [st |-> "ended"] ELSE Trigger!NoChanges)
    BY <1>5 DEF Trigger!Tick
  <2>2. /\ engine' \in [Charts -> EngineRecord] /\ engine'[e].copy = Trigger!None /\ engine'[e].memory = m
        /\ \A f \in Charts : f # e => engine'[f] = engine[f]
    BY <1>1, <2>1, NoPlan DEF EngineRecord, m
  <2>3. \/ UNCHANGED <<planRow, cache>>
        \/ \E d : /\ DOMAIN d = {"st"} /\ d.st = "ended"
                  /\ planRow' = Trigger!Over(d, planRow) /\ cache' = Trigger!None
    <3> DEFINE d == [st |-> "ended"]
    <3>1. DOMAIN d = {"st"} /\ d.st = "ended"
      OBVIOUS
    <3>2. DOMAIN Trigger!NoChanges = {}
      BY DEF Trigger!NoChanges
    <3>3. Trigger!Write(d) \/ Trigger!Write(Trigger!NoChanges)
      BY <2>1
    <3> HIDE DEF d
    <3> QED
      BY <3>1, <3>2, <3>3 DEF Trigger!Write
  <2>4. /\ planRow' \in PlanRecord /\ planRow'.life = planRow.life /\ planRow'.seen = planRow.seen
        /\ cache' \in {cache, Trigger!None}
        /\ TriggerTyped' /\ OnlyForward => Warranted(planRow)'
    <3>1. CASE UNCHANGED <<planRow, cache>>
      <4>1. TriggerTyped' /\ OnlyForward => Warranted(planRow)'
        BY <1>1, <3>1, OthersStay DEF TriggerInv, Warranted
      <4> QED
        BY <1>1, <3>1, <4>1
    <3>2. CASE \E d : /\ DOMAIN d = {"st"} /\ d.st = "ended"
                     /\ planRow' = Trigger!Over(d, planRow) /\ cache' = Trigger!None
      BY <3>2, StatusIsWritten
    <3> QED
      BY <2>3, <3>1, <3>2
  <2>5. OnlyForward
    BY <1>1, <1>3, <2>1, <2>4 DEF OnlyForward
  <2> QED
    BY <1>1, <1>4, <2>1, <2>2, <2>4, <2>5
<1>6. CASE ~Trigger!Broken(p) /\ setup = "liquidity_sweep_reclaim" /\ ~Trigger!FillAllowed(p)
  <2>1. /\ engine' = [engine EXCEPT ![e].at = "idle", ![e].copy = Trigger!None]
        /\ fired' = FALSE /\ UNCHANGED <<planRow, cache, price>>
    BY <1>6 DEF Trigger!Tick
  <2>2. /\ engine' \in [Charts -> EngineRecord] /\ engine'[e].copy = Trigger!None /\ engine'[e].memory = m
        /\ \A f \in Charts : f # e => engine'[f] = engine[f]
    BY <1>1, <2>1, NoPlan DEF EngineRecord, m
  <2>3. OnlyForward
    BY <1>1, <1>3, <2>1 DEF OnlyForward
  <2>4. TriggerTyped' => Warranted(planRow)'
    BY <1>1, <2>1, <2>3, OthersStay DEF TriggerInv, Warranted
  <2> QED
    BY <1>1, <1>4, <2>1, <2>2, <2>3, <2>4
<1>7. CASE /\ ~Trigger!Broken(p) /\ ~(setup = "liquidity_sweep_reclaim" /\ ~Trigger!FillAllowed(p))
           /\ Trigger!InZone(p)
  <2>1. /\ Trigger!Write(inside.changes) /\ fired' = inside.fires
        /\ engine' = [engine EXCEPT ![e] = [at |-> "idle", copy |-> Trigger!None, memory |-> inside.memory]]
        /\ price' = IF p <= Entry THEN "touched" ELSE price
    BY <1>7 DEF Trigger!Tick, inside, c, m
  <2>2. /\ TickWrites(c, inside.changes)
        /\ inside.fires \/ "seen" \in DOMAIN inside.changes => Trigger!Touched(c, m, p)
        /\ inside.memory \in Nat
        /\ inside.memory > 0 => Trigger!Touched(c, m, p)
        /\ \/ inside.memory \in {m, 0}
           \/ inside.memory = c.life /\ (c.seen \/ "seen" \in DOMAIN inside.changes)
    BY <1>1, <1>2, InsideSays DEF inside
  <2> HIDE DEF inside
  <2> PICK n \in Nat : n = inside.memory
    BY <2>2
  <2>10. /\ engine' \in [Charts -> EngineRecord] /\ engine'[e].copy = Trigger!None /\ engine'[e].memory = n
         /\ \A f \in Charts : f # e => engine'[f] = engine[f]
    BY <1>1, <2>1, NoPlan DEF EngineRecord
  <2>3. Trigger!Touched(c, m, p) => price' # "outside"
    BY <1>2, <2>1 DEF Trigger!Touched, Trigger!Remembered, Warranted, Grounded
  <2>4. price # "outside" => price' # "outside"
    BY <2>1
  <2> DEFINE d == inside.changes
  <2>5. /\ DOMAIN d # {} => planRow' = Trigger!Over(d, planRow) /\ cache' = Trigger!None
        /\ DOMAIN d = {} => planRow' = planRow /\ cache' = cache
    BY <2>1 DEF Trigger!Write
  <2> HIDE DEF d
  <2>6. /\ planRow' \in PlanRecord /\ OnlyForward
        /\ "seen" \in DOMAIN d => planRow'.seen
        /\ TriggerTyped' => Warranted(planRow)'
    BY <1>1, <1>2, <1>3, <2>2, <2>3, <2>4, <2>5, RowIsWritten DEF d
  <2>7. n \in {m, 0} \/ (TriggerTyped' => Grounded(n)')
    <3> SUFFICES ASSUME n \notin {m, 0} PROVE Grounded(n)'
      OBVIOUS
    <3>1. n = c.life /\ (c.seen \/ "seen" \in DOMAIN d) /\ n > 0
      BY <2>2 DEF d
    <3>2. price' # "outside"
      BY <2>2, <2>3, <3>1
    <3>3. c.life <= planRow.life /\ planRow.life <= planRow'.life /\ planRow'.life \in Nat /\ c.life \in Nat
      BY <1>1, <1>2, <2>6 DEF Warranted, OnlyForward, PlanRecord
    <3>4. ASSUME c.life = planRow'.life PROVE planRow'.seen
      <4>1. c.life = planRow.life /\ planRow.life = planRow'.life
        BY <1>1, <3>3, <3>4
      <4>2. CASE "seen" \in DOMAIN d
        BY <2>6, <4>2
      <4>3. CASE c.seen
        BY <1>2, <2>6, <4>1, <4>3 DEF Warranted, OnlyForward
      <4> QED
        BY <3>1, <4>2, <4>3
    <3>5. c.life <= planRow'.life
      BY <1>1, <3>3
    <3> QED
      BY <3>1, <3>2, <3>4, <3>5 DEF Grounded
  <2>8. fired' => price' # "outside"
    BY <2>1, <2>2, <2>3
  <2>9. cache' \in {cache, Trigger!None}
    BY <2>5
  <2> QED
    BY <1>4, <2>6, <2>7, <2>8, <2>9, <2>10
<1>8. CASE /\ ~Trigger!Broken(p) /\ ~(setup = "liquidity_sweep_reclaim" /\ ~Trigger!FillAllowed(p))
           /\ ~Trigger!InZone(p)
  <2>1. /\ Trigger!Write(beyond.changes) /\ fired' = beyond.fires
        /\ engine' = [engine EXCEPT ![e] = [at |-> "idle", copy |-> Trigger!None, memory |-> beyond.memory]]
        /\ price' = price
    BY <1>8 DEF Trigger!Tick, beyond, c, m
  <2>2. /\ beyond.memory = m
        /\ beyond.fires => c.seen \/ c.touch # "none"
        /\ beyond.changes \in {Trigger!NoChanges, [boundary |-> "left_boundary"]}
    BY DEF beyond, Trigger!Beyond
  <2>3. TickWrites(c, Trigger!NoChanges) /\ "seen" \notin DOMAIN Trigger!NoChanges
    BY DEF TickWrites, Trigger!NoChanges
  <2>4. TickWrites(c, [boundary |-> "left_boundary"]) /\ "seen" \notin DOMAIN [boundary |-> "left_boundary"]
    BY DEF TickWrites
  <2> HIDE DEF beyond
  <2> DEFINE d == beyond.changes
  <2>5. TickWrites(c, d) /\ "seen" \notin DOMAIN d
    BY <2>2, <2>3, <2>4
  <2>6. /\ DOMAIN d # {} => planRow' = Trigger!Over(d, planRow) /\ cache' = Trigger!None
        /\ DOMAIN d = {} => planRow' = planRow /\ cache' = cache
    BY <2>1 DEF Trigger!Write
  <2> HIDE DEF d
  <2>7. /\ planRow' \in PlanRecord /\ OnlyForward
        /\ TriggerTyped' => Warranted(planRow)'
    BY <1>1, <1>2, <1>3, <2>1, <2>5, <2>6, RowIsWritten
  <2>8. fired' => price' # "outside"
    BY <1>2, <2>1, <2>2 DEF Warranted
  <2>9. cache' \in {cache, Trigger!None}
    BY <2>6
  <2>10. /\ engine' \in [Charts -> EngineRecord] /\ engine'[e].copy = Trigger!None /\ engine'[e].memory = m
         /\ \A f \in Charts : f # e => engine'[f] = engine[f]
    BY <1>1, <2>1, <2>2, NoPlan DEF EngineRecord
  <2> QED
    BY <1>1, <1>4, <2>7, <2>8, <2>9, <2>10
<1> QED
  BY <1>5, <1>6, <1>7, <1>8

LEMMA TriggerStep == ASSUME TriggerInv, [Trigger!Next]_(Trigger!vars) PROVE TriggerInv'
<1>1. /\ planRow \in PlanRecord /\ cache \in PlanRecord /\ engine \in [Charts -> EngineRecord]
      /\ Warranted(planRow) /\ Warranted(cache)
      /\ \A e \in Charts : engine[e].copy \in PlanRecord /\ Warranted(engine[e].copy)
  BY DEF TriggerInv, TriggerTyped, EngineRecord
<1>2. ASSUME NEW p \in ClosePrices, NEW decisive \in BOOLEAN, NEW brings \in BOOLEAN,
             Trigger!Bar(p, decisive, brings)
      PROVE  TriggerInv'
  BY <1>2, BarStep
<1>3. ASSUME NEW e \in Charts, Trigger!Read(e) PROVE TriggerInv'
  <2>1. /\ UNCHANGED <<setup, planRow, cache, latest, fired, price, held>>
        /\ \E at \in {"tick", "fill"}, c \in {cache, planRow} :
              engine' = [engine EXCEPT ![e].at = at, ![e].copy = c]
    BY <1>3 DEF Trigger!Read
  <2>2. PICK at \in {"tick", "fill"}, c \in {cache, planRow} :
           engine' = [engine EXCEPT ![e].at = at, ![e].copy = c]
    BY <2>1
  <2>3. engine' \in [Charts -> EngineRecord]
    BY <1>1, <2>2 DEF EngineRecord
  <2>4. \A f \in Charts : /\ engine'[f].copy \in {engine[f].copy, c}
                         /\ engine'[f].memory = engine[f].memory
    BY <1>1, <2>2 DEF EngineRecord
  <2> QED
    BY <1>1, <2>1, <2>2, <2>3, <2>4, CopyStep
<1>4. ASSUME NEW e \in Charts, Trigger!Fill(e) PROVE TriggerInv'
  <2>1. /\ UNCHANGED <<setup, planRow, latest, fired, price, held>>
        /\ cache' = engine[e].copy /\ engine' = [engine EXCEPT ![e].at = "tick"]
    BY <1>4 DEF Trigger!Fill
  <2>2. engine' \in [Charts -> EngineRecord]
    BY <1>1, <2>1 DEF EngineRecord
  <2>3. \A f \in Charts : engine'[f].copy = engine[f].copy /\ engine'[f].memory = engine[f].memory
    BY <1>1, <2>1 DEF EngineRecord
  <2> QED
    BY <1>1, <2>1, <2>2, <2>3, CopyStep
<1>5. ASSUME Trigger!Forget PROVE TriggerInv'
  <2>1. cache' = Trigger!None /\ UNCHANGED <<setup, planRow, engine, latest, fired, price, held>>
    BY <1>5 DEF Trigger!Forget
  <2> QED
    BY <1>1, <2>1, CopyStep, NoPlan
<1>6. ASSUME NEW e \in Charts, Trigger!Renew(e) PROVE TriggerInv'
  <2>1. /\ UNCHANGED <<setup, planRow, cache, latest, fired, price, held>>
        /\ engine' = [engine EXCEPT ![e] = [at |-> "idle", copy |-> Trigger!None, memory |-> 0]]
    BY <1>6 DEF Trigger!Renew
  <2>2. engine' \in [Charts -> EngineRecord]
    BY <1>1, <2>1, NoPlan DEF EngineRecord
  <2>3. \A f \in Charts : /\ engine'[f].copy \in {engine[f].copy, Trigger!None}
                         /\ engine'[f].memory \in {engine[f].memory, 0}
    BY <1>1, <2>1
  <2> QED
    BY <1>1, <2>1, <2>2, <2>3, CopyStep
<1>7. ASSUME NEW e \in Charts, NEW p \in Ticks, Trigger!Tick(e, p) PROVE TriggerInv'
  BY <1>7, TickStep
<1>8. ASSUME UNCHANGED Trigger!vars PROVE TriggerInv'
  <2>1. UNCHANGED <<setup, planRow, cache, engine, latest, fired, price, held>>
    BY <1>8 DEF Trigger!vars
  <2> QED
    BY <1>1, <2>1, CopyStep
<1> QED
  BY <1>2, <1>3, <1>4, <1>5, <1>6, <1>7, <1>8 DEF Trigger!Next

(* A plan triggers only on a price that has been at its entry, keeps the     *)
(* touches its engines remember and counts a closed bar once, for any number *)
(* of engines, bars and restarts, whatever the caches hold                   *)
(* (structure_plan_signal.py, _triggered and _reclaim_confirmed).            *)
THEOREM TriggersStayEarned == PlansSpec => []TriggersAreEarned
<1>1. TriggerInv => TriggersAreEarned
  <2> SUFFICES ASSUME TriggerInv PROVE TriggersAreEarned
    OBVIOUS
  <2>1. Trigger!TouchIsKept
    BY DEF TriggerInv, Grounded, Warranted, Trigger!TouchIsKept
  <2>2. Trigger!TriggerWasTouched
    BY DEF TriggerInv, Trigger!TriggerWasTouched
  <2>3. Trigger!BarsConfirm
    <3>1. /\ planRow.bar \in Nat /\ planRow.count \in Nat /\ Required \in Nat
          /\ latest.time \in Nat /\ held \subseteq 1..latest.time
      BY PlansAssumption DEF TriggerInv, TriggerTyped, PlanRecord
    <3>2. IsFiniteSet(held)
      <4>1. IsFiniteSet(1..latest.time)
        BY <3>1, FS_Interval
      <4> QED
        BY <3>1, <4>1, FS_Subset
    <3>3. Cardinality(HeldUpTo(planRow.bar)) <= Cardinality(held) /\ Cardinality(held) \in Nat
          /\ Cardinality(HeldUpTo(planRow.bar)) \in Nat
      <4>1. HeldUpTo(planRow.bar) \subseteq held
        BY DEF HeldUpTo
      <4> QED
        BY <3>2, <4>1, FS_Subset, FS_CardinalityType
    <3>4. Trigger!Cardinality(held) = Cardinality(held)
      BY DEF Trigger!Cardinality, Cardinality
    <3> QED
      BY <3>1, <3>3, <3>4 DEF TriggerInv, Warranted, Trigger!BarsConfirm
  <2> QED
    BY <2>1, <2>2, <2>3 DEF TriggersAreEarned
<1>2. TriggerInv /\ [Trigger!Next]_(Trigger!vars) => TriggerInv'
  BY TriggerStep
<1> QED
  BY <1>1, <1>2, TriggerInit, PTL DEF PlansSpec, Trigger!Spec

----------------------------------------------------------------------------
(* Of numbers one is the least.                                             *)
LEMMA NumbersHaveLeast ==
  ASSUME NEW S \in SUBSET Nat, S # {}
  PROVE  \E x \in S : \A y \in S : x <= y
<1> DEFINE T == {0..s : s \in S}
<1>1. T \in SUBSET FiniteSubsetsOf(Nat) /\ T # {}
  <2>1. ASSUME NEW s \in S PROVE 0..s \in FiniteSubsetsOf(Nat)
    <3>1. 0..s \subseteq Nat /\ s \in Int
      OBVIOUS
    <3> QED
      BY <3>1, FS_Interval DEF FiniteSubsetsOf
  <2> QED
    BY <2>1
<1>2. PICK x \in T : \A y \in T : <<y, x>> \notin StrictSubsetOrdering(Nat)
  <2> HIDE DEF T
  <2> QED
    BY <1>1, FS_StrictSubsetOrderingWellFounded, WFMin
<1>3. PICK least \in S : x = 0..least
  BY <1>2
<1>4. ASSUME NEW y \in S, y < least PROVE FALSE
  <2>1. 0..y \in SUBSET Nat /\ 0..least \in SUBSET Nat /\ 0..y \subseteq 0..least
    BY <1>4
  <2>2. least \in 0..least /\ least \notin 0..y
    BY <1>4
  <2>3. <<0..y, 0..least>> \in StrictSubsetOrdering(Nat)
    BY <2>1, <2>2 DEF StrictSubsetOrdering
  <2> QED
    BY <1>2, <1>3, <2>3
<1>5. \A y \in S : y \in Int
  OBVIOUS
<1> QED
  BY <1>4, <1>5

----------------------------------------------------------------------------
(* Sums over a finite set, taken off one element after the other.           *)

AddsUp(s, f, S) ==
  s = [T \in SUBSET S |-> IF T = {} THEN 0
                          ELSE f[CHOOSE x \in T : TRUE] + s[T \ {CHOOSE x \in T : TRUE}]]

LEMMA SumIsDefined ==
  ASSUME NEW S, IsFiniteSet(S), NEW f
  PROVE  \E s : AddsUp(s, f, S)
<1> DEFINE first(T) == CHOOSE x \in T : TRUE
<1> DEFINE Level(n) == {T \in SUBSET S : Cardinality(T) <= n}
<1> DEFINE Adds(s, T) == IF T = {} THEN 0 ELSE f[first(T)] + s[T \ {first(T)}]
<1> DEFINE Missing == {n \in Nat : ~ \E s : s = [T \in Level(n) |-> Adds(s, T)]}
<1>1. \A T \in SUBSET S : /\ IsFiniteSet(T) /\ Cardinality(T) \in Nat
                          /\ Cardinality(T) = 0 <=> T = {}
                          /\ T # {} => /\ first(T) \in T /\ T \ {first(T)} \in SUBSET S
                                       /\ Cardinality(T \ {first(T)}) = Cardinality(T) - 1
  <2> SUFFICES ASSUME NEW T \in SUBSET S
               PROVE  /\ IsFiniteSet(T) /\ Cardinality(T) \in Nat
                      /\ Cardinality(T) = 0 <=> T = {}
                      /\ T # {} => /\ first(T) \in T /\ T \ {first(T)} \in SUBSET S
                                   /\ Cardinality(T \ {first(T)}) = Cardinality(T) - 1
    OBVIOUS
  <2>1. IsFiniteSet(T) /\ Cardinality(T) \in Nat
    BY FS_Subset, FS_CardinalityType
  <2>2. Cardinality(T) = 0 <=> T = {}
    BY <2>1, FS_EmptySet
  <2>3. T # {} => first(T) \in T
    OBVIOUS
  <2> HIDE DEF first
  <2>4. T # {} => Cardinality(T \ {first(T)}) = Cardinality(T) - 1
    BY <2>1, <2>3, FS_RemoveElement
  <2> QED
    BY <2>1, <2>2, <2>3, <2>4
<1> HIDE DEF first
<1>2. Missing = {}
  <2> SUFFICES ASSUME Missing # {} PROVE FALSE
    OBVIOUS
  <2>1. PICK n \in Missing : \A m \in Missing : n <= m
    <3>1. Missing \in SUBSET Nat
      OBVIOUS
    <3> HIDE DEF Missing
    <3> QED
      BY <3>1, NumbersHaveLeast
  <2>2. n \in Nat
    OBVIOUS
  <2>3. CASE n = 0
    <3> DEFINE g == [T \in Level(n) |-> 0]
    <3>1. \A T \in Level(n) : T = {}
      <4> SUFFICES ASSUME NEW T \in Level(n) PROVE T = {}
        OBVIOUS
      <4>1. T \in SUBSET S /\ Cardinality(T) <= 0
        BY <2>3
      <4>2. Cardinality(T) \in Nat /\ (Cardinality(T) = 0 => T = {})
        BY <1>1, <4>1
      <4> QED
        BY <4>1, <4>2
    <3>2. g = [T \in Level(n) |-> Adds(g, T)]
      BY <3>1
    <3> QED
      BY <3>2
  <2>4. CASE n # 0
    <3>1. n - 1 \in Nat /\ n - 1 \notin Missing
      <4> HIDE DEF Missing
      <4> QED
        BY <2>1, <2>2, <2>4
    <3>2. PICK s : s = [T \in Level(n - 1) |-> Adds(s, T)]
      BY <3>1
    <3> DEFINE g == [T \in Level(n) |-> Adds(s, T)]
    <3>3. ASSUME NEW T \in Level(n), T # {}
          PROVE  g[T \ {first(T)}] = s[T \ {first(T)}]
      <4> DEFINE rest == T \ {first(T)}
      <4>1. rest \in Level(n - 1) /\ rest \in Level(n)
        BY <1>1, <2>2, <3>3
      <4>2. s[rest] = Adds(s, rest) /\ g[rest] = Adds(s, rest)
        <5> HIDE DEF rest, Adds, Level
        <5> QED
          BY <3>2, <4>1
      <4> QED
        BY <4>2
    <3>4. \A T \in Level(n) : Adds(s, T) = Adds(g, T)
      <4> HIDE DEF g, Level
      <4> QED
        BY <3>3
    <3>5. g = [T \in Level(n) |-> Adds(g, T)]
      <4> DEFINE h == [T \in Level(n) |-> Adds(g, T)]
      <4>1. \A T \in Level(n) : g[T] = h[T]
        BY <3>4
      <4> QED
        BY <4>1
    <3> QED
      BY <3>5
  <2> QED
    BY <2>3, <2>4
<1>3. Cardinality(S) \in Nat
  BY <1>1
<1>4. \E s : s = [T \in Level(Cardinality(S)) |-> Adds(s, T)]
  BY <1>2, <1>3
<1>5. Level(Cardinality(S)) = SUBSET S
  BY FS_Subset
<1> QED
  BY <1>4, <1>5 DEF first, AddsUp

LEMMA SumTakesOff ==
  ASSUME NEW f, IsFiniteSet(DOMAIN f)
  PROVE  \E s : AddsUp(s, f, DOMAIN f) /\ Signal!SumFunction(f) = s[DOMAIN f]
<1> DEFINE s == CHOOSE s : AddsUp(s, f, DOMAIN f)
<1>1. Signal!SumFunction(f) = s[DOMAIN f]
  BY DEF Signal!SumFunction, Signal!SumFunctionOnSet, Signal!FoldFunctionOnSet, Signal!MapThenFoldSet, AddsUp
<1>2. \E t : AddsUp(t, f, DOMAIN f)
  BY SumIsDefined
<1>3. AddsUp(s, f, DOMAIN f)
  BY <1>2
<1> QED
  BY <1>1, <1>3

(* What holds of the empty set, and of a set when it holds without the       *)
(* element that is taken off, holds of every subset.                        *)
LEMMA EverySubset ==
  ASSUME NEW S, IsFiniteSet(S), NEW Good, {} \in Good,
         \A T \in SUBSET S : T # {} /\ T \ {CHOOSE x \in T : TRUE} \in Good => T \in Good
  PROVE  \A T \in SUBSET S : T \in Good
<1> DEFINE Bad == {T \in SUBSET S : T \notin Good}
<1> SUFFICES ASSUME Bad # {} PROVE FALSE
  OBVIOUS
<1>1. Bad \in SUBSET FiniteSubsetsOf(S)
  BY FS_Subset DEF FiniteSubsetsOf
<1>2. PICK T \in Bad : \A U \in Bad : <<U, T>> \notin StrictSubsetOrdering(S)
  <2> HIDE DEF Bad
  <2> QED
    BY <1>1, FS_StrictSubsetOrderingWellFounded, WFMin
<1> DEFINE x == CHOOSE x \in T : TRUE
<1>3. T \in SUBSET S /\ T \notin Good /\ T # {}
  OBVIOUS
<1>4. x \in T
  BY <1>3
<1>5. T \ {x} \notin Good
  BY <1>3
<1> HIDE DEF x
<1>6. T \ {x} \in Bad /\ <<T \ {x}, T>> \in StrictSubsetOrdering(S)
  BY <1>3, <1>4, <1>5 DEF StrictSubsetOrdering
<1> QED
  BY <1>2, <1>6

LEMMA SumIsNumber ==
  ASSUME NEW S, IsFiniteSet(S), NEW f \in [S -> Int]
  PROVE  Signal!SumFunction(f) \in Int
<1>1. PICK s : AddsUp(s, f, S) /\ Signal!SumFunction(f) = s[S]
  BY SumTakesOff
<1> DEFINE Good == {T \in SUBSET S : s[T] \in Int}
<1>2. {} \in Good
  BY <1>1 DEF AddsUp
<1>3. ASSUME NEW T \in SUBSET S, T # {}, T \ {CHOOSE x \in T : TRUE} \in Good PROVE T \in Good
  <2> DEFINE x == CHOOSE x \in T : TRUE
  <2>1. x \in S /\ s[T] = f[x] + s[T \ {x}]
    BY <1>1, <1>3 DEF AddsUp
  <2>2. s[T \ {x}] \in Int
    BY <1>3
  <2> HIDE DEF x
  <2> QED
    BY <2>1, <2>2
<1> HIDE DEF Good
<1>4. S \in Good
  BY <1>2, <1>3, EverySubset
<1> QED
  BY <1>1, <1>4 DEF Good

----------------------------------------------------------------------------
(* The vote of the signals.                                                 *)

Turned(w) == [w EXCEPT !.dir = Signal!Opposite(w.dir)]
Turn(words) == [s \in DOMAIN words |-> Turned(words[s])]

(* What was heard last of each source.                                      *)
Heard(words) == /\ words = [s \in DOMAIN words |-> words[s]]
                 /\ DOMAIN words \subseteq Sources
                 /\ \A s \in DOMAIN words : words[s] \in Signal!Signals

LEMMA LastIsThere ==
  ASSUME NEW list \in Seq(Signal!Signals), NEW i \in DOMAIN list
  PROVE  \E j \in DOMAIN list : list[j].source = list[i].source /\ ~Signal!Superseded(list, j)
<1> DEFINE Back == {Len(list) - j : j \in {k \in DOMAIN list : list[k].source = list[i].source}}
<1>1. Back \in SUBSET Nat /\ Back # {}
  OBVIOUS
<1>2. PICK b \in Back : \A c \in Back : b <= c
  <2> HIDE DEF Back
  <2> QED
    BY <1>1, NumbersHaveLeast
<1>3. PICK j \in DOMAIN list : list[j].source = list[i].source /\ b = Len(list) - j
  BY <1>2
<1>4. ~Signal!Superseded(list, j)
  <2> SUFFICES ASSUME NEW k \in DOMAIN list, k > j, list[k].source = list[j].source PROVE FALSE
    BY DEF Signal!Superseded
  <2>1. Len(list) - k \in Back
    BY <1>3
  <2>2. b <= Len(list) - k
    BY <1>2, <2>1
  <2> QED
    BY <1>3, <2>2
<1> QED
  BY <1>3, <1>4

LEMMA LastIs ==
  ASSUME NEW list \in Seq(Signal!Signals), NEW j \in DOMAIN list, ~Signal!Superseded(list, j)
  PROVE  /\ list[j].source \in DOMAIN Signal!LastWords(list)
         /\ Signal!LastWords(list)[list[j].source] = list[j]
<1> DEFINE s == list[j].source
<1> DEFINE Last(i) == list[i].source = s /\ ~Signal!Superseded(list, i)
<1>1. s \in {list[i].source : i \in DOMAIN list}
  OBVIOUS
<1>2. ASSUME NEW i \in DOMAIN list, Last(i) PROVE i = j
  <2>1. i \in Int /\ j \in Int
    OBVIOUS
  <2>2. ~(i > j) /\ ~(j > i)
    BY <1>2 DEF Signal!Superseded
  <2> QED
    BY <2>1, <2>2
<1>3. (CHOOSE i \in DOMAIN list : Last(i)) = j
  <2>1. Last(j)
    OBVIOUS
  <2> HIDE DEF Last
  <2> QED
    BY <1>2, <2>1
<1>4. Signal!LastWords(list)[s] = list[CHOOSE i \in DOMAIN list : Last(i)]
  BY <1>1 DEF Signal!LastWords
<1> QED
  BY <1>1, <1>3, <1>4 DEF Signal!LastWords

(* A source is heard when something of it is in the list, and what is heard
   is its last word. *)
LEMMA LatestIs ==
  ASSUME NEW list \in Seq(Signal!Signals)
  PROVE  /\ Heard(Signal!LastWords(list))
         /\ \A s : s \in DOMAIN Signal!LastWords(list) <=>
                   \E j \in DOMAIN list : list[j].source = s /\ ~Signal!Superseded(list, j)
<1> DEFINE words == Signal!LastWords(list)
<1>1. words = [s \in DOMAIN words |-> words[s]]
  BY DEF Signal!LastWords
<1>2. ASSUME NEW s \in DOMAIN words
      PROVE  \E j \in DOMAIN list : list[j].source = s /\ ~Signal!Superseded(list, j)
  <2>1. PICK i \in DOMAIN list : list[i].source = s
    BY <1>2 DEF Signal!LastWords
  <2> QED
    BY <2>1, LastIsThere
<1>3. \A s : (\E j \in DOMAIN list : list[j].source = s /\ ~Signal!Superseded(list, j)) => s \in DOMAIN words
  BY LastIs
<1>4. ASSUME NEW s \in DOMAIN words PROVE s \in Sources /\ words[s] \in Signal!Signals
  <2>1. PICK j \in DOMAIN list : list[j].source = s /\ ~Signal!Superseded(list, j)
    BY <1>2
  <2>2. words[s] = list[j]
    BY <2>1, LastIs
  <2>3. list[j] \in Signal!Signals
    OBVIOUS
  <2> QED
    BY <2>1, <2>2, <2>3 DEF Signal!Signals
<1> HIDE DEF words
<1> QED
  BY <1>1, <1>2, <1>3, <1>4 DEF words, Heard

LEMMA TurnedIs ==
  ASSUME NEW w \in Signal!Signals
  PROVE  /\ Turned(w) \in Signal!Signals
         /\ Turned(w).source = w.source /\ Turned(w).trigger = w.trigger
         /\ Turned(w).dir = "up" <=> w.dir = "down"
         /\ Turned(w).dir = "down" <=> w.dir = "up"
  BY DEF Turned, Signal!Signals, Signal!Opposite

LEMMA MirrorIs ==
  ASSUME NEW list \in Seq(Signal!Signals)
  PROVE  /\ Signal!Mirror(list) \in Seq(Signal!Signals)
         /\ DOMAIN Signal!Mirror(list) = DOMAIN list
         /\ \A i \in DOMAIN list : /\ Signal!Mirror(list)[i] = Turned(list[i])
                                   /\ Signal!Mirror(list)[i].source = list[i].source
                                   /\ Signal!Superseded(Signal!Mirror(list), i) <=> Signal!Superseded(list, i)
<1> DEFINE mirror == Signal!Mirror(list)
<1>1. DOMAIN mirror = DOMAIN list /\ \A i \in DOMAIN list : mirror[i] = Turned(list[i])
  BY DEF Signal!Mirror, Turned
<1>2. \A i \in DOMAIN list : list[i] \in Signal!Signals
  OBVIOUS
<1>3. \A i \in DOMAIN list : mirror[i] \in Signal!Signals /\ mirror[i].source = list[i].source
  BY <1>1, <1>2, TurnedIs
<1>4. mirror \in Seq(Signal!Signals)
  <2>1. mirror = [i \in 1..Len(list) |-> mirror[i]]
    BY DEF Signal!Mirror
  <2>2. \A i \in 1..Len(list) : mirror[i] \in Signal!Signals
    BY <1>3
  <2>3. Len(list) \in Nat
    OBVIOUS
  <2> HIDE DEF mirror
  <2> QED
    BY <2>1, <2>2, <2>3, IsASeq
<1> HIDE DEF mirror
<1>5. \A i \in DOMAIN list : Signal!Superseded(mirror, i) <=> Signal!Superseded(list, i)
  BY <1>1, <1>3 DEF Signal!Superseded
<1> QED
  BY <1>1, <1>3, <1>4, <1>5 DEF mirror

LEMMA LatestTurned ==
  ASSUME NEW list \in Seq(Signal!Signals)
  PROVE  Signal!LastWords(Signal!Mirror(list)) = Turn(Signal!LastWords(list))
<1> DEFINE mirror == Signal!Mirror(list)
<1> DEFINE words == Signal!LastWords(list)
<1> DEFINE other == Signal!LastWords(mirror)
<1>1. /\ mirror \in Seq(Signal!Signals) /\ DOMAIN mirror = DOMAIN list
      /\ \A i \in DOMAIN list : /\ mirror[i] = Turned(list[i]) /\ mirror[i].source = list[i].source
                                /\ Signal!Superseded(mirror, i) <=> Signal!Superseded(list, i)
  BY MirrorIs
<1> HIDE DEF mirror
<1>2. /\ other = [s \in DOMAIN other |-> other[s]]
      /\ \A s : s \in DOMAIN other <=>
                \E j \in DOMAIN mirror : mirror[j].source = s /\ ~Signal!Superseded(mirror, j)
  BY <1>1, LatestIs DEF Heard
<1>3. \A s : s \in DOMAIN words <=>
             \E j \in DOMAIN list : list[j].source = s /\ ~Signal!Superseded(list, j)
  BY LatestIs
<1>4. \A s : s \in DOMAIN other <=> s \in DOMAIN words
  <2> HIDE DEF other, words
  <2> QED
    BY <1>1, <1>2, <1>3
<1>5. ASSUME NEW s \in DOMAIN words PROVE other[s] = Turned(words[s])
  <2>1. PICK j \in DOMAIN list : list[j].source = s /\ ~Signal!Superseded(list, j)
    BY <1>3, <1>5
  <2>2. words[s] = list[j]
    BY <2>1, LastIs
  <2>3. other[s] = mirror[j]
    BY <1>1, <2>1, LastIs
  <2> QED
    BY <1>1, <2>2, <2>3
<1>6. DOMAIN other = DOMAIN words
  BY <1>4
<1> HIDE DEF other, words
<1> QED
  BY <1>2, <1>5, <1>6 DEF Turn, other, words, mirror

LEMMA SaysTurned ==
  ASSUME NEW words, Heard(words)
  PROVE  /\ Signal!Says(Turn(words), "up") = Signal!Says(words, "down")
         /\ Signal!Says(Turn(words), "down") = Signal!Says(words, "up")
         /\ \A s \in DOMAIN words : Turn(words)[s].trigger = words[s].trigger
<1>1. \A s \in DOMAIN words : /\ Turn(words)[s].dir = "up" <=> words[s].dir = "down"
                              /\ Turn(words)[s].dir = "down" <=> words[s].dir = "up"
                              /\ Turn(words)[s].trigger = words[s].trigger
  BY TurnedIs DEF Turn, Heard
<1>2. DOMAIN Turn(words) = DOMAIN words
  BY DEF Turn
<1> QED
  BY <1>1, <1>2 DEF Signal!Says

LEMMA VoicesAreCounted ==
  ASSUME NEW voices \in SUBSET Sources
  PROVE  Cardinality(voices) \in Nat /\ Signal!Weighted(voices) \in Int
<1>1. IsFiniteSet(voices)
  BY PlansAssumption, FS_Subset
<1>2. Cardinality(voices) \in Nat
  BY <1>1, FS_CardinalityType
<1> DEFINE weigh == [s \in voices |-> Confidence[s] * Weight[s]]
<1>3. weigh \in [voices -> Int]
  <2>1. \A s \in voices : Confidence[s] \in Int /\ Weight[s] \in Int
    BY PlansAssumption
  <2> QED
    BY <2>1
<1>4. Signal!Weighted(voices) = Signal!SumFunction(weigh)
  BY DEF Signal!Weighted
<1> HIDE DEF weigh
<1> QED
  BY <1>1, <1>2, <1>3, <1>4, SumIsNumber

LEMMA SignalCount == \A S : Signal!Cardinality(S) = Cardinality(S)
  BY DEF Signal!Cardinality, Cardinality

LEMMA DirectionTurned ==
  ASSUME NEW words, Heard(words), NEW requirement
  PROVE  /\ Signal!Direction(words, requirement) \in {"up", "down", "none"}
         /\ Signal!Direction(Turn(words), requirement)
              = Signal!Opposite(Signal!Direction(words, requirement))
<1> DEFINE up == Signal!Says(words, "up")
<1> DEFINE down == Signal!Says(words, "down")
<1> DEFINE n == Cardinality(up) - Cardinality(down)
<1> DEFINE weight == Signal!Weighted(up) - Signal!Weighted(down)
<1> DEFINE m == Cardinality(down) - Cardinality(up)
<1> DEFINE back == Signal!Weighted(down) - Signal!Weighted(up)
<1> DEFINE Way(k, w) == IF k > 0 \/ (k = 0 /\ requirement = "any" /\ w > 0) THEN "up"
                        ELSE IF k < 0 \/ (k = 0 /\ requirement = "any" /\ w < 0) THEN "down"
                        ELSE "none"
<1>1. up \in SUBSET Sources /\ down \in SUBSET Sources
  BY DEF Heard, Signal!Says
<1>2. Signal!Direction(words, requirement) = Way(n, weight)
  BY SignalCount DEF Signal!Direction
<1>3. Signal!Direction(Turn(words), requirement) = Way(m, back)
  BY SaysTurned, SignalCount DEF Signal!Direction
<1> HIDE DEF up, down
<1>4. n \in Int /\ weight \in Int /\ m = 0 - n /\ back = 0 - weight
  BY <1>1, VoicesAreCounted
<1> HIDE DEF n, weight, m, back
<1>5. Way(n, weight) \in {"up", "down", "none"} /\ Way(m, back) = Signal!Opposite(Way(n, weight))
  BY <1>4 DEF Signal!Opposite
<1> HIDE DEF Way
<1> QED
  BY <1>2, <1>3, <1>5

LEMMA DecidedTurned ==
  ASSUME NEW words, Heard(words), NEW requirement, NEW conflict
  PROVE  /\ Signal!Decided(words, requirement, conflict) \in {"up", "down", "none"}
         /\ Signal!Decided(Turn(words), requirement, conflict)
              = Signal!Opposite(Signal!Decided(words, requirement, conflict))
<1> DEFINE turn == Turn(words)
<1> DEFINE dir == Signal!Direction(words, requirement)
<1> DEFINE voices == Signal!Says(words, dir)
<1>1. /\ Signal!Says(turn, "up") = Signal!Says(words, "down")
      /\ Signal!Says(turn, "down") = Signal!Says(words, "up")
      /\ \A s \in DOMAIN words : turn[s].trigger = words[s].trigger
  BY SaysTurned
<1>2. dir \in {"up", "down", "none"} /\ Signal!Direction(turn, requirement) = Signal!Opposite(dir)
  BY DirectionTurned
<1>3. Signal!Conflict(turn, conflict) <=> Signal!Conflict(words, conflict)
  BY <1>1 DEF Signal!Conflict
<1> HIDE DEF turn, dir
<1>4. ASSUME dir # "none"
      PROVE  /\ Signal!Agreed(turn, Signal!Opposite(dir), requirement) = Signal!Agreed(words, dir, requirement)
             /\ Signal!Confident(turn, Signal!Says(turn, Signal!Opposite(dir))) <=> Signal!Confident(words, voices)
  <2>1. Signal!Says(turn, Signal!Opposite(dir)) = voices
    BY <1>1, <1>2, <1>4 DEF Signal!Opposite
  <2>2. Signal!Agreed(turn, Signal!Opposite(dir), requirement) = Signal!Agreed(words, dir, requirement)
    BY <2>1 DEF Signal!Agreed
  <2>3. voices \subseteq DOMAIN words
    BY DEF Signal!Says
  <2>4. (\E s \in voices : turn[s].trigger) <=> (\E s \in voices : words[s].trigger)
    BY <1>1, <2>3
  <2> HIDE DEF voices
  <2>5. Signal!Confident(turn, voices) <=> Signal!Confident(words, voices)
    BY <2>4 DEF Signal!Confident
  <2> QED
    BY <2>1, <2>2, <2>5
<1>5. (Signal!Opposite(dir) # "none") <=> (dir # "none")
  BY <1>2 DEF Signal!Opposite
<1>6. Signal!Decided(words, requirement, conflict)
        = IF /\ dir # "none" /\ ~Signal!Conflict(words, conflict)
             /\ Signal!Agreed(words, dir, requirement) /\ Signal!Confident(words, voices)
          THEN dir ELSE "none"
  BY DEF Signal!Decided, dir
<1>7. Signal!Decided(turn, requirement, conflict)
        = IF /\ Signal!Opposite(dir) # "none" /\ ~Signal!Conflict(turn, conflict)
             /\ Signal!Agreed(turn, Signal!Opposite(dir), requirement)
             /\ Signal!Confident(turn, Signal!Says(turn, Signal!Opposite(dir)))
          THEN Signal!Opposite(dir) ELSE "none"
  BY <1>2 DEF Signal!Decided
<1>8. Signal!Opposite("none") = "none"
  BY DEF Signal!Opposite
<1> HIDE DEF voices
<1>9. CASE dir = "none"
  BY <1>2, <1>5, <1>6, <1>7, <1>8, <1>9 DEF turn
<1>10. CASE dir # "none"
  BY <1>2, <1>3, <1>4, <1>5, <1>6, <1>7, <1>8, <1>10 DEF turn
<1> QED
  BY <1>9, <1>10

(* Finitely many signals have a best one, and no two are.                   *)
LEMMA HighestIs ==
  ASSUME NEW S, IsFiniteSet(S), S # {}, NEW rank \in [S -> Int]
  PROVE  \E i \in S : \A j \in S : rank[j] <= rank[i]
<1> DEFINE Good == {T \in SUBSET S : T # {} => \E i \in T : \A j \in T : rank[j] <= rank[i]}
<1>1. {} \in Good
  OBVIOUS
<1>2. ASSUME NEW T \in SUBSET S, T # {}, T \ {CHOOSE x \in T : TRUE} \in Good PROVE T \in Good
  <2> DEFINE x == CHOOSE x \in T : TRUE
  <2> DEFINE rest == T \ {x}
  <2>1. x \in T /\ (\A i \in T : i = x \/ i \in rest) /\ rest \subseteq T /\ \A i \in T : rank[i] \in Int
    BY <1>2
  <2>2. rest # {} => \E i \in rest : \A j \in rest : rank[j] <= rank[i]
    BY <1>2
  <2> HIDE DEF rest, x
  <2>3. \E i \in T : \A j \in T : rank[j] <= rank[i]
    <3>1. CASE rest = {}
      BY <2>1, <3>1
    <3>2. CASE rest # {}
      <4>1. PICK i \in rest : \A j \in rest : rank[j] <= rank[i]
        BY <2>2, <3>2
      <4>2. CASE rank[x] <= rank[i]
        BY <2>1, <4>1, <4>2
      <4>3. CASE ~(rank[x] <= rank[i])
        BY <2>1, <4>1, <4>3
      <4> QED
        BY <4>2, <4>3
    <3> QED
      BY <3>1, <3>2
  <2> QED
    BY <2>3
<1> HIDE DEF Good
<1>3. S \in Good
  BY <1>1, <1>2, EverySubset
<1> QED
  BY <1>3 DEF Good

Before(rank, i, j) == rank[i] > rank[j] \/ (rank[i] = rank[j] /\ i <= j)

LEMMA BestIs ==
  ASSUME NEW n \in Nat, NEW S \in SUBSET (1..n), S # {}, NEW rank \in [S -> Int]
  PROVE  \E i \in S : \A j \in S : Before(rank, i, j)
<1>1. IsFiniteSet(S)
  <2>1. IsFiniteSet(1..n)
    BY FS_Interval
  <2> QED
    BY <2>1, FS_Subset
<1>2. PICK h \in S : \A j \in S : rank[j] <= rank[h]
  BY <1>1, HighestIs
<1> DEFINE High == {i \in S : rank[i] = rank[h]}
<1>3. High \in SUBSET Nat /\ High # {}
  <2>1. \A i \in S : i \in Nat
    OBVIOUS
  <2> QED
    BY <1>2, <2>1
<1>4. PICK i \in High : \A j \in High : i <= j
  <2> HIDE DEF High
  <2> QED
    BY <1>3, NumbersHaveLeast
<1>5. ASSUME NEW j \in S PROVE Before(rank, i, j)
  <2>1. rank[j] \in Int /\ rank[h] \in Int /\ rank[j] <= rank[h] /\ rank[i] = rank[h]
    BY <1>2, <1>4
  <2>2. CASE rank[j] = rank[h]
    BY <1>4, <2>1, <2>2 DEF Before
  <2>3. CASE rank[j] # rank[h]
    BY <2>1, <2>3 DEF Before
  <2> QED
    BY <2>2, <2>3
<1> QED
  BY <1>4, <1>5

LEMMA RankIsNumber ==
  ASSUME NEW s \in Sources, NEW conflict \in {"skip", "confidence", "weight"}
  PROVE  Signal!Rank(s, conflict) \in Int
<1>1. Confidence[s] \in Int /\ Weight[s] \in Int
  BY PlansAssumption
<1>2. Confidence[s] * Weight[s] \in Int
  BY <1>1
<1> QED
  BY <1>1, <1>2 DEF Signal!Rank

LEMMA CandidatesAre ==
  ASSUME NEW list \in Seq(Signal!Signals), NEW dir
  PROVE  /\ Signal!Candidates(list, dir) \in SUBSET (1..Len(list))
         /\ \A i \in Signal!Candidates(list, dir) : i \in DOMAIN list /\ list[i].dir = dir
         /\ (\E i \in DOMAIN list : list[i].dir = dir /\ list[i].trigger) =>
              /\ Signal!Candidates(list, dir) # {}
              /\ \A i \in Signal!Candidates(list, dir) : list[i].trigger
         /\ dir \notin {"up", "down", "sideways", "wait"} => Signal!Candidates(list, dir) = {}
<1> DEFINE there == {i \in DOMAIN list : list[i].dir = dir}
<1> DEFINE ready == {i \in there : list[i].trigger}
<1> DEFINE c == Signal!Candidates(list, dir)
<1>1. c = IF ready # {} THEN ready ELSE there
  BY DEF Signal!Candidates
<1>2. \A i \in DOMAIN list : list[i].dir \in {"up", "down", "sideways", "wait"}
  <2> SUFFICES ASSUME NEW i \in DOMAIN list PROVE list[i].dir \in {"up", "down", "sideways", "wait"}
    OBVIOUS
  <2>1. list[i] \in Signal!Signals
    OBVIOUS
  <2> QED
    BY <2>1 DEF Signal!Signals
<1>3. there \subseteq DOMAIN list /\ ready \subseteq there /\ DOMAIN list = 1..Len(list)
  OBVIOUS
<1>4. c \subseteq there
  BY <1>1
<1>5. c \in SUBSET (1..Len(list)) /\ \A i \in c : i \in DOMAIN list /\ list[i].dir = dir
  <2> HIDE DEF c
  <2> QED
    BY <1>3, <1>4
<1>6. ASSUME NEW i \in DOMAIN list, list[i].dir = dir, list[i].trigger
      PROVE  c # {} /\ \A j \in c : list[j].trigger
  <2>1. i \in ready
    BY <1>6
  <2>2. c = ready /\ c # {}
    BY <1>1, <2>1
  <2> QED
    BY <2>2
<1>7. dir \notin {"up", "down", "sideways", "wait"} => there = {}
  BY <1>2
<1> HIDE DEF there, ready, c
<1> QED
  BY <1>4, <1>5, <1>6, <1>7 DEF c

LEMMA CandidatesTurned ==
  ASSUME NEW list \in Seq(Signal!Signals), NEW dir \in {"up", "down", "none"}
  PROVE  Signal!Candidates(Signal!Mirror(list), Signal!Opposite(dir)) = Signal!Candidates(list, dir)
<1> DEFINE mirror == Signal!Mirror(list)
<1>1. DOMAIN mirror = DOMAIN list /\ \A i \in DOMAIN list : mirror[i] = Turned(list[i])
  BY MirrorIs
<1>2. \A i \in DOMAIN list : list[i] \in Signal!Signals
  OBVIOUS
<1> HIDE DEF mirror
<1>3. ASSUME NEW i \in DOMAIN list
      PROVE  /\ mirror[i].trigger = list[i].trigger
             /\ mirror[i].dir = Signal!Opposite(dir) <=> list[i].dir = dir
  <2>1. list[i].dir \in {"up", "down", "sideways", "wait"}
    BY <1>2 DEF Signal!Signals
  <2>2. mirror[i].dir = Signal!Opposite(list[i].dir) /\ mirror[i].trigger = list[i].trigger
    BY <1>1, <1>2 DEF Turned, Signal!Signals
  <2>3. Signal!Opposite(list[i].dir) = Signal!Opposite(dir) <=> list[i].dir = dir
    BY <2>1 DEF Signal!Opposite
  <2> QED
    BY <2>2, <2>3
<1>4. /\ {i \in DOMAIN mirror : mirror[i].dir = Signal!Opposite(dir)} = {i \in DOMAIN list : list[i].dir = dir}
      /\ \A i \in DOMAIN list : mirror[i].trigger = list[i].trigger
  BY <1>1, <1>3
<1>5. {i \in {k \in DOMAIN list : list[k].dir = dir} : mirror[i].trigger}
        = {i \in {k \in DOMAIN list : list[k].dir = dir} : list[i].trigger}
  BY <1>4
<1> QED
  BY <1>4, <1>5 DEF Signal!Candidates, mirror

LEMMA BestSignalIs ==
  ASSUME NEW list \in Seq(Signal!Signals), NEW dir, NEW conflict \in {"skip", "confidence", "weight"},
         Signal!Candidates(list, dir) # {}
  PROVE  Signal!BestSignal(list, dir, conflict) \in Signal!Candidates(list, dir)
<1> DEFINE c == Signal!Candidates(list, dir)
<1> DEFINE rank == [i \in c |-> Signal!Rank(list[i].source, conflict)]
<1>1. Len(list) \in Nat /\ c \in SUBSET (1..Len(list)) /\ c # {} /\ \A i \in c : i \in DOMAIN list
  BY CandidatesAre
<1> HIDE DEF c
<1>2. rank \in [c -> Int]
  <2>1. ASSUME NEW i \in c PROVE Signal!Rank(list[i].source, conflict) \in Int
    <3>1. list[i] \in Signal!Signals
      BY <1>1
    <3>2. list[i].source \in Sources
      BY <3>1 DEF Signal!Signals
    <3> QED
      BY <3>2, RankIsNumber
  <2> QED
    BY <2>1
<1>3. Signal!BestSignal(list, dir, conflict) = CHOOSE i \in c : \A j \in c : Before(rank, i, j)
  BY <1>1 DEF Signal!BestSignal, Before, c
<1> HIDE DEF rank
<1>4. \E i \in c : \A j \in c : Before(rank, i, j)
  BY <1>1, <1>2, BestIs
<1>5. (CHOOSE i \in c : \A j \in c : Before(rank, i, j)) \in c
  BY <1>4
<1> QED
  BY <1>3, <1>5 DEF c

LEMMA BestTurned ==
  ASSUME NEW list \in Seq(Signal!Signals), NEW dir \in {"up", "down", "none"}, NEW conflict
  PROVE  Signal!BestSignal(Signal!Mirror(list), Signal!Opposite(dir), conflict)
           = Signal!BestSignal(list, dir, conflict)
<1> DEFINE mirror == Signal!Mirror(list)
<1> DEFINE c == Signal!Candidates(list, dir)
<1>1. Signal!Candidates(mirror, Signal!Opposite(dir)) = c
  BY CandidatesTurned
<1>2. \A i \in c : i \in DOMAIN list
  BY CandidatesAre
<1>3. \A i \in DOMAIN list : mirror[i].source = list[i].source
  BY MirrorIs
<1> HIDE DEF c, mirror
<1>4. [i \in c |-> Signal!Rank(mirror[i].source, conflict)] = [i \in c |-> Signal!Rank(list[i].source, conflict)]
  BY <1>2, <1>3
<1> DEFINE rank == [i \in c |-> Signal!Rank(list[i].source, conflict)]
<1> DEFINE Best(r) == IF c = {} THEN Signal!None
                      ELSE CHOOSE i \in c : \A j \in c : r[i] > r[j] \/ (r[i] = r[j] /\ i <= j)
<1>5. Signal!BestSignal(list, dir, conflict) = Best(rank)
  BY DEF Signal!BestSignal, c
<1>6. Signal!BestSignal(mirror, Signal!Opposite(dir), conflict)
        = Best([i \in c |-> Signal!Rank(mirror[i].source, conflict)])
  BY <1>1 DEF Signal!BestSignal
<1> HIDE DEF Best, rank
<1> QED
  BY <1>4, <1>5, <1>6 DEF mirror, rank

(* What is left when a superseded signal is taken out.                      *)
LEMMA WithoutIs ==
  ASSUME NEW list \in Seq(Signal!Signals), NEW i \in DOMAIN list
  PROVE  /\ Signal!Without(list, i) \in Seq(Signal!Signals)
         /\ DOMAIN Signal!Without(list, i) = 1..(Len(list) - 1)
         /\ \A k \in 1..(Len(list) - 1) : Signal!Without(list, i)[k] = list[IF k < i THEN k ELSE k + 1]
<1> DEFINE left == Signal!Without(list, i)
<1> DEFINE n == Len(list) - 1
<1>1. left = [k \in 1..n |-> list[IF k < i THEN k ELSE k + 1]]
  BY DEF Signal!Without
<1>2. n \in Nat /\ DOMAIN list = 1..(n + 1) /\ i \in 1..(n + 1)
  OBVIOUS
<1> HIDE DEF left, n
<1>3. \A k \in 1..n : left[k] \in Signal!Signals
  <2> SUFFICES ASSUME NEW k \in 1..n PROVE list[IF k < i THEN k ELSE k + 1] \in Signal!Signals
    BY <1>1
  <2>1. (IF k < i THEN k ELSE k + 1) \in DOMAIN list
    BY <1>2
  <2> QED
    BY <2>1
<1>4. left \in Seq(Signal!Signals)
  <2>1. left = [k \in 1..n |-> left[k]]
    BY <1>1
  <2> QED
    BY <1>2, <1>3, <2>1, IsASeq
<1>5. DOMAIN left = 1..n
  BY <1>1
<1> QED
  BY <1>1, <1>4, <1>5 DEF left, n

LEMMA LatestWithout ==
  ASSUME NEW list \in Seq(Signal!Signals), NEW i \in DOMAIN list, Signal!Superseded(list, i)
  PROVE  Signal!LastWords(Signal!Without(list, i)) = Signal!LastWords(list)
<1> DEFINE left == Signal!Without(list, i)
<1> DEFINE n == Len(list) - 1
<1> DEFINE Old(k) == IF k < i THEN k ELSE k + 1
<1> DEFINE New(j) == IF j < i THEN j ELSE j - 1
<1>1. /\ n \in Nat /\ DOMAIN list = 1..(n + 1) /\ i \in 1..(n + 1)
      /\ left \in Seq(Signal!Signals) /\ DOMAIN left = 1..n
      /\ \A k \in 1..n : left[k] = list[Old(k)]
  BY WithoutIs
<1> HIDE DEF left, n
<1>2. \A k \in 1..n : Old(k) \in 1..(n + 1) /\ Old(k) # i /\ New(Old(k)) = k
  BY <1>1
<1>3. \A j \in 1..(n + 1) : j # i => New(j) \in 1..n /\ Old(New(j)) = j
  BY <1>1
<1>4. \A k, m \in 1..n : k > m <=> Old(k) > Old(m)
  BY <1>1
<1> HIDE DEF Old, New
(* A signal that stays is superseded where it was.                          *)
<1>5. ASSUME NEW k \in 1..n PROVE Signal!Superseded(left, k) <=> Signal!Superseded(list, Old(k))
  <2>1. ASSUME NEW m \in 1..n, m > k, left[m].source = left[k].source
        PROVE  Old(m) \in DOMAIN list /\ Old(m) > Old(k) /\ list[Old(m)].source = list[Old(k)].source
    BY <1>1, <1>2, <1>4, <2>1
  <2>2. ASSUME NEW j \in DOMAIN list, j > Old(k), list[j].source = list[Old(k)].source
        PROVE  \E m \in 1..n : m > k /\ left[m].source = left[k].source
    <3>1. PICK h \in DOMAIN list : list[h].source = list[i].source /\ h > i
      BY DEF Signal!Superseded
    <3>2. CASE j # i
      <4>1. New(j) \in 1..n /\ Old(New(j)) = j
        BY <1>1, <1>3, <3>2
      <4> QED
        BY <1>1, <1>4, <2>2, <4>1
    <3>3. CASE j = i
      <4>1. h \in 1..(n + 1) /\ h # i /\ h > Old(k) /\ list[h].source = list[Old(k)].source
        BY <1>1, <1>2, <2>2, <3>1, <3>3
      <4>2. New(h) \in 1..n /\ Old(New(h)) = h
        BY <1>3, <4>1
      <4> QED
        BY <1>1, <1>4, <4>1, <4>2
    <3> QED
      BY <3>2, <3>3
  <2> QED
    BY <1>1, <2>1, <2>2 DEF Signal!Superseded
<1> DEFINE words == Signal!LastWords(list)
<1> DEFINE rest == Signal!LastWords(left)
<1>6. /\ rest = [s \in DOMAIN rest |-> rest[s]]
      /\ \A s : s \in DOMAIN rest <=>
                \E k \in DOMAIN left : left[k].source = s /\ ~Signal!Superseded(left, k)
  BY <1>1, LatestIs DEF Heard
<1>7. /\ words = [s \in DOMAIN words |-> words[s]]
      /\ \A s : s \in DOMAIN words <=>
                \E j \in DOMAIN list : list[j].source = s /\ ~Signal!Superseded(list, j)
  BY LatestIs DEF Heard
<1>8. ASSUME NEW s \in DOMAIN rest PROVE s \in DOMAIN words /\ rest[s] = words[s]
  <2>1. PICK k \in 1..n : left[k].source = s /\ ~Signal!Superseded(left, k)
    BY <1>1, <1>6, <1>8
  <2>2. rest[s] = left[k]
    BY <1>1, <2>1, LastIs
  <2>3. Old(k) \in DOMAIN list /\ list[Old(k)].source = s /\ ~Signal!Superseded(list, Old(k))
    BY <1>1, <1>2, <1>5, <2>1
  <2>4. s \in DOMAIN words /\ words[s] = list[Old(k)]
    BY <2>3, LastIs
  <2> QED
    BY <1>1, <2>2, <2>4
<1>9. ASSUME NEW s \in DOMAIN words PROVE s \in DOMAIN rest
  <2>1. PICK j \in DOMAIN list : list[j].source = s /\ ~Signal!Superseded(list, j)
    BY <1>7, <1>9
  <2>2. New(j) \in 1..n /\ Old(New(j)) = j
    BY <1>1, <1>3, <2>1
  <2>3. left[New(j)].source = s /\ ~Signal!Superseded(left, New(j))
    BY <1>1, <1>5, <2>1, <2>2
  <2> QED
    BY <1>1, <1>6, <2>2, <2>3
<1>10. DOMAIN rest = DOMAIN words /\ \A s \in DOMAIN words : rest[s] = words[s]
  BY <1>8, <1>9
<1> HIDE DEF words, rest
<1> QED
  BY <1>6, <1>7, <1>10 DEF words, rest, left

----------------------------------------------------------------------------
(* Every vote is fair.                                                      *)

LEMMA VoteIsMirrored ==
  ASSUME NEW list \in Seq(Signal!Signals), NEW requirement, NEW conflict
  PROVE  Signal!MirrorVote(list, requirement, conflict)
<1> DEFINE act == Signal!Action(list, requirement, conflict)
<1>1. Heard(Signal!LastWords(list))
  BY LatestIs
<1>2. act \in {"up", "down", "none"}
  BY <1>1, DecidedTurned DEF Signal!Action
<1>3. Signal!Action(Signal!Mirror(list), requirement, conflict) = Signal!Opposite(act)
  BY <1>1, DecidedTurned, LatestTurned DEF Signal!Action
<1> HIDE DEF act
<1>4. Signal!BestSignal(Signal!Mirror(list), Signal!Opposite(act), conflict)
        = Signal!BestSignal(list, act, conflict)
  BY <1>2, BestTurned
<1> QED
  BY <1>3, <1>4 DEF Signal!MirrorVote, act

LEMMA EntryIsTriggered ==
  ASSUME NEW list \in Seq(Signal!Signals), NEW requirement,
         NEW conflict \in {"skip", "confidence", "weight"}
  PROVE  Signal!EntryTriggered(list, requirement, conflict)
<1> DEFINE act == Signal!Action(list, requirement, conflict)
<1> DEFINE best == Signal!BestSignal(list, act, conflict)
<1> SUFFICES ASSUME Signal!Triggered(list, act)
             PROVE  best # Signal!None /\ list[best].trigger /\ list[best].dir = act
  BY DEF Signal!EntryTriggered
<1> HIDE DEF act
<1>1. PICK s \in DOMAIN Signal!LastWords(list) :
          Signal!LastWords(list)[s].dir = act /\ Signal!LastWords(list)[s].trigger
  BY DEF Signal!Triggered, Signal!Says
<1>2. PICK j \in DOMAIN list : list[j].source = s /\ ~Signal!Superseded(list, j)
  BY LatestIs
<1>3. Signal!LastWords(list)[s] = list[j]
  BY <1>2, LastIs
<1>4. \E i \in DOMAIN list : list[i].dir = act /\ list[i].trigger
  BY <1>1, <1>3
<1>5. /\ Signal!Candidates(list, act) # {} /\ Signal!Candidates(list, act) \subseteq 1..Len(list)
      /\ \A i \in Signal!Candidates(list, act) : list[i].dir = act /\ list[i].trigger
  BY <1>4, CandidatesAre
<1>6. best \in Signal!Candidates(list, act)
  BY <1>5, BestSignalIs
<1> HIDE DEF best
<1> QED
  BY <1>5, <1>6 DEF Signal!None

LEMMA FairVote == ASSUME ballot \in Ballots PROVE VoteIsFair
<1> DEFINE list == ballot.list
<1>1. /\ list \in Seq(Signal!Signals)
      /\ ballot.conflict \in {"skip", "confidence", "weight"}
  BY DEF Ballots
<1> HIDE DEF list
<1>2. Signal!MirrorVote(list, ballot.requirement, ballot.conflict)
  BY <1>1, VoteIsMirrored
<1>3. Signal!LastWordCounts(list, ballot.requirement, ballot.conflict)
  BY <1>1, LatestWithout DEF Signal!LastWordCounts, Signal!Action
<1>4. Signal!EntryTriggered(list, ballot.requirement, ballot.conflict)
  BY <1>1, EntryIsTriggered
<1> QED
  BY <1>2, <1>3, <1>4 DEF VoteIsFair, list

(* Whatever the signals of a tick are, signals that say the opposite give the
   opposite action and the same entry, an earlier word of a source changes
   nothing, and a triggered entry is made on a signal that triggered
   (StrategyService.analyze_signals and _select_best_signal). *)
THEOREM VotesStayFair == PlansSpec => []VoteIsFair
<1>1. ballot \in Ballots /\ [ballot' \in Ballots]_ballot => (ballot \in Ballots)'
  OBVIOUS
<1>2. ballot \in Ballots => VoteIsFair
  BY FairVote
<1> QED
  BY <1>1, <1>2, PTL DEF PlansSpec, Votes

============================================================================
