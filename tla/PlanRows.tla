------------------------------ MODULE PlanRows ------------------------------
(***************************************************************************)
(* The public plans of one market scope (structure_plan_store.py): a row   *)
(* per plan id with a status column and a JSON payload.  A closed bar      *)
(* replaces the scope under the scope's lock: it reads the rows, in one    *)
(* step here, and writes them a statement at a time.  Tick threads pause   *)
(* plans for an event window, resume and invalidate them and write         *)
(* progress into the payload, each by reading the row and writing it back  *)
(* without the lock; a sweep ends what is due, which is any plan here.     *)
(*                                                                         *)
(* A plan is one round (cycle) of an opportunity family.  The families of  *)
(* the scope differ by setup, direction or entry mode: plans of an older   *)
(* structure segment are invalidated before the scope is replaced.         *)
(***************************************************************************)
EXTENDS Integers, FiniteSets

CONSTANTS
    Families,
    Writers,        \* tick threads
    MaxEvents,      \* bound: refreshes, sweeps, orders and changes of the window
    MaxCycles       \* bound: rounds of one family; the order by updated_at is kept for two

VARIABLES
    plan,       \* the rows, by the id their family and round hash to
    newest,     \* the id of each family with the latest updated_at
    round,      \* what the executions say of an id's round
    event,      \* a market event window is open
    publisher,  \* where replace_scope is and what it holds
    writer,     \* what a tick thread has read and will write
    events      \* of those in MaxEvents so far

vars == <<plan, newest, round, event, publisher, writer, events>>

Ids == Families \X (1..MaxCycles)
Live == {"active", "watching", "event_suppressed"}
Ended == {"superseded", "invalidated"}
NoRow == [status |-> "none", before |-> "none", family |-> "none", cycle |-> 0]
Asleep == [at |-> "asleep", plans |-> {}, current |-> {}, left |-> {}]
Free == [op |-> "none", id |-> <<>>, row |-> NoRow]

Init ==
    /\ plan = [i \in Ids |-> NoRow]
    /\ newest = [f \in Families |-> 0]
    /\ round = [i \in Ids |-> "idle"]
    /\ event = FALSE
    /\ events = 0
    /\ publisher = Asleep
    /\ writer = [w \in Writers |-> Free]

Happens == events < MaxEvents /\ events' = events + 1

(* updated_at = now; ids written in one second are in either order.          *)
Touched(ids) ==
    newest' \in [Families -> 0..MaxCycles]
    /\ \A f \in Families :
          LET mine == {i[2] : i \in {j \in ids : j[1] = f}}
          IN  newest'[f] \in IF mine = {} THEN {newest[f]} ELSE mine

Write(rows) ==
    /\ plan' = [i \in Ids |-> IF i \in DOMAIN rows THEN rows[i] ELSE plan[i]]
    /\ Touched(DOMAIN rows)

LiveIds == {i \in Ids : plan[i].status \in Live}

(* The plans a closed bar brings: families with a status, and inside an event *)
(* window a pause that remembers it (_apply_event_risk).                      *)
Brought == [family : Families, status : {"active", "watching"}]

Incoming(b) ==
    [id |-> <<b.family, 1>>, family |-> b.family, cycle |-> 1,
     status |-> IF event THEN "event_suppressed" ELSE b.status,
     before |-> IF event THEN b.status ELSE "none"]

(* _bind_opportunity_cycles: the newest row whose payload names the family;   *)
(* its round is reused until it is completed, then the next one begins.       *)
Rounds(f) == {i \in Ids : plan[i].family = f}
Latest(f) == <<f, newest[f]>>

\* Mutant: the next round begins as soon as the latest row has ended.
BoundToLive(p) ==
    IF Rounds(p.family) = {} THEN p
    ELSE LET i == Latest(p.family)
             next == plan[i].cycle + 1
         IN  IF round[i] = "completed" \/ plan[i].status \in Ended
             THEN [p EXCEPT !.cycle = next, !.id = <<p.family, next>>]
             ELSE [p EXCEPT !.cycle = plan[i].cycle, !.id = i]

Bound(p) ==
    IF Rounds(p.family) = {} THEN p
    ELSE LET i == Latest(p.family)
             next == plan[i].cycle + 1
         IN  IF round[i] = "completed"
             THEN [p EXCEPT !.cycle = next, !.id = <<p.family, next>>]
             ELSE [p EXCEPT !.cycle = plan[i].cycle, !.id = i]

(* expire_due_plans reads and then invalidates with the status in the WHERE.  *)
Expired(ids) == [i \in ids |-> [plan[i] EXCEPT !.status = "invalidated"]]

Sweep ==
    /\ Happens
    /\ \E i \in LiveIds : Write(Expired({i}))
    /\ UNCHANGED <<round, event, publisher, writer>>

(* The live rows are read, and should_supersede_live_plan is asked of each.   *)
Opportunity(p) == <<p.family, p.cycle>>
BringsActive(plans) == {Opportunity(p) : p \in {q \in plans : q.status = "active"}}
Observed(plans) == {p.family : p \in {q \in plans : q.status # "active"}}

Replaced(i, plans) ==
    /\ i \notin {p.id : p \in plans}
    /\ Opportunity(plan[i]) \notin BringsActive(plans)
    /\ IF plan[i].status \in {"active", "event_suppressed"}
       THEN BringsActive(plans) # {}
       ELSE plan[i].family \notin Observed(plans)

Refresh ==
    /\ Happens
    /\ publisher.at = "asleep"
    /\ \E brought \in {B \in SUBSET Brought : \A b, c \in B : b.family = c.family => b = c} :
       \E plans \in {{Bound(Incoming(b)) : b \in brought}} :
          /\ \A p \in plans : p.cycle <= MaxCycles
          /\ publisher' = [at |-> "supersede", plans |-> plans,
                current |-> {[id |-> i, opportunity |-> Opportunity(plan[i])] : i \in LiveIds},
                left |-> {i \in LiveIds : Replaced(i, plans)}]
    /\ UNCHANGED <<plan, newest, round, event, writer>>

(* supersede_plan: a row that is neither active nor watching is left; the     *)
(* others of its opportunity follow.                                          *)
Closes(i) == plan[i].status \in {"active", "watching"}
Siblings(i) == {j \in LiveIds \ {i} : Opportunity(plan[j]) = Opportunity(plan[i])}

Supersede ==
    /\ publisher.at = "supersede" /\ publisher.left # {}
    /\ \E i \in publisher.left :
          /\ IF Closes(i)
             THEN Write([j \in {i} \union Siblings(i) |-> [plan[j] EXCEPT !.status = "superseded"]])
             ELSE UNCHANGED <<plan, newest>>
          /\ publisher' = [publisher EXCEPT !.left = @ \ {i}]
    /\ UNCHANGED <<round, event, writer, events>>

(* Identity of what is written: an active plan takes the id of a live row of  *)
(* its opportunity, any other the id of a live row of its kind; the select    *)
(* has no order, so whichever comes first.                                    *)
Kept(p) ==
    LET same == {c \in publisher.current :
                    IF p.status = "active" THEN c.opportunity = Opportunity(p)
                                           ELSE c.opportunity[1] = p.family}
    IN  IF same = {} THEN {p.id} ELSE {c.id : c \in same}

Frozen(i, p) == p.status = "active" /\ plan[i].status = "active"

Upsert ==
    /\ publisher.at = "supersede" /\ publisher.left = {}
    /\ IF publisher.plans = {}
       THEN publisher' = Asleep /\ UNCHANGED <<plan, newest>>
       ELSE \E p \in publisher.plans, i \in Ids :
               /\ i \in Kept(p)
               /\ IF Frozen(i, p)
                  THEN UNCHANGED <<plan, newest>>
                  ELSE Write([k \in {i} |-> [status |-> p.status, before |-> p.before,
                                             family |-> p.family, cycle |-> p.cycle]])
               /\ publisher' = [publisher EXCEPT !.plans = @ \ {p}]
    /\ UNCHANGED <<round, event, writer, events>>

(* A tick thread, for a plan it has listed as live: the row is fetched ...    *)
Fetch(w, op, i) ==
    /\ writer[w] = Free /\ i \in LiveIds
    /\ CASE op = "suppress" -> event
         [] op = "resume" -> ~event /\ plan[i].status = "event_suppressed"
         [] op = "invalidate" -> TRUE
         [] op = "progress" -> plan[i].status = "active"
    /\ writer' = [writer EXCEPT ![w] = [op |-> op, id |-> i, row |-> plan[i]]]
    /\ UNCHANGED <<plan, newest, round, event, publisher, events>>

(* ... and written, whatever it has become: suppress_plan, resume_plan,       *)
(* invalidate_plan; update_payload writes the payload and not the status.     *)
Suppressed(row) ==
    [row EXCEPT !.before = IF row.status = "event_suppressed"
                           THEN IF row.before = "none" THEN "active" ELSE row.before
                           ELSE row.status,
                !.status = "event_suppressed"]

\* Mutant: without a remembered status the plan stays as it is.
ResumedAsBefore(row) == [row EXCEPT !.status = IF row.before = "none" THEN row.status ELSE row.before]

Resumed(row) == [row EXCEPT !.status = IF row.before = "none" THEN "active" ELSE row.before]

Outcome(op, row, now) ==
    CASE op = "suppress" -> Suppressed(row)
      [] op = "resume" -> Resumed(row)
      [] op = "invalidate" -> [row EXCEPT !.status = "invalidated"]
      [] op = "progress" -> [row EXCEPT !.status = now]

Store(w) ==
    LET h == writer[w]
    IN  /\ h # Free
        /\ Write([i \in {h.id} |-> Outcome(h.op, h.row, plan[i].status)])
        /\ writer' = [writer EXCEPT ![w] = Free]
        /\ UNCHANGED <<round, event, publisher, events>>

(* An account claims an active plan; its orders are closed in the end.  Each  *)
(* receipt is mirrored into the plan's payload, which makes its row newest.   *)
Trade(i) ==
    /\ Happens
    /\ plan[i].status = "active" /\ round[i] # "in_flight"
    /\ round' = [round EXCEPT ![i] = "in_flight"]
    /\ Touched({i})
    /\ UNCHANGED <<plan, event, publisher, writer>>

Settle(i) ==
    /\ Happens
    /\ round[i] = "in_flight"
    /\ round' = [round EXCEPT ![i] = "completed"]
    /\ Touched({i})
    /\ UNCHANGED <<plan, event, publisher, writer>>

Window ==
    /\ Happens
    /\ event' = ~event
    /\ UNCHANGED <<plan, newest, round, publisher, writer>>

Ops == {"suppress", "resume", "invalidate", "progress"}

Publish == Refresh \/ Supersede \/ Upsert

Next ==
    \/ Publish
    \/ Sweep
    \/ \E w \in Writers : \/ \E op \in Ops, i \in Ids : Fetch(w, op, i)
                          \/ Store(w)
    \/ \E i \in Ids : Trade(i) \/ Settle(i)
    \/ Window

Spec == Init /\ [][Next]_vars

(* Prices keep coming, so that a paused plan is looked at again and again     *)
(* outside event windows, and threads finish what they began.                 *)
Fairness ==
    /\ \A w \in Writers : WF_vars(Store(w))
    /\ \A i \in Ids : SF_vars(\E w \in Writers : Fetch(w, "resume", i))

FairSpec == Spec /\ Fairness

----------------------------------------------------------------------------

TypeOK ==
    /\ plan \in [Ids -> [status : Live \union Ended \union {"none"},
                         before : {"none", "active", "watching"},
                         family : Families \union {"none"}, cycle : 0..MaxCycles]]
    /\ round \in [Ids -> {"idle", "in_flight", "completed"}]
    /\ newest \in [Families -> 0..MaxCycles]
    /\ event \in BOOLEAN
    /\ publisher.at \in {"asleep", "supersede"}
    /\ \A w \in Writers : writer[w].op \in Ops \union {"none"}

(* A family gets its next round only when an account has traded the round    *)
(* before it, whatever else ended that round's plan: _bind_opportunity_cycles *)
(* takes the newest row while ticks and late receipts keep making rows newer. *)
CyclesInOrder ==
    \A f \in Families, c \in 2..MaxCycles :
        plan[<<f, c>>].status # "none" => round[<<f, c - 1>>] # "idle"

(* A pause ends with the event window: the plan is resumed, whichever of the *)
(* closed bar and the ticks has paused it, or ends.                          *)
PauseEnds ==
    \A i \in Ids : plan[i].status = "event_suppressed" ~>
                      plan[i].status # "event_suppressed" \/ event

============================================================================
