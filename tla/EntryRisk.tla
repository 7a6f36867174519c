------------------------------ MODULE EntryRisk ------------------------------
(***************************************************************************)
(* Entries of one live account on one risk day after another: each strategy *)
(* decides in the thread of its own symbol's ticks (process_strategy_tick,  *)
(* make_decision), all of them against one RiskManager.  The checks read    *)
(* what is known then; the order is counted when it is confirmed, sent      *)
(* after that, and the cooldown of the strategy begins last.                *)
(*                                                                         *)
(* The signals have fired; the claim of a plan (PlanClaim) and the delivery *)
(* of an instruction (InstructionDelivery) are not repeated here: a claim   *)
(* may refuse, and an instruction is dealt or comes to nothing.             *)
(***************************************************************************)
EXTENDS Integers, FiniteSets

CONSTANTS
    Strategies,   \* each trades one symbol, and one plan, whose id keys its cooldown
    DailyLimit,   \* daily_order_limit
    MaxPositions, \* max_total_positions
    LossLimit,    \* losses that trip the breaker of the day
    Orders,       \* order ids
    Days,         \* bound: the last risk day
    MaxFaults,    \* bound: statements that fail
    MaxRestarts   \* bound: restarts of the server

VARIABLES
    today,
    risk,     \* RiskManager: day, orders counted, breaker
    row,      \* its row of runtime_entities, by day; the newest is loaded
    thread,   \* the tick of each strategy: next step and its order
    order,    \* each order: its strategy, where it is, the day it was counted on
    seen,     \* the positions of the last snapshot
    told,     \* executions reported within the window and price of the repeat guard
    lost,     \* losing deals of the day
    cool,     \* strategies cooling, in memory and in the table
    blind,    \* history: orders checked while another was not in the snapshot
    close,    \* history: strategies whose last order is less than a cooldown ago
    quick,    \* history: orders sent in spite of that, the cooldown not being forgotten
    forgot,   \* history: strategies whose cooldown a restart has lost, or that was not written or read
    faults, restarts
vars == <<today, risk, row, thread, order, seen, told, lost, cool,
          blind, close, quick, forgot, faults, restarts>>

NoOrder == 0
Absent == [by |-> "nobody", at |-> "none", day |-> 0]
Open == {o \in Orders : order[o].at = "open"}
Unseen == {o \in Orders : order[o].at = "sent"} \cup (Open \ seen)
Fresh(day) == [day |-> day, count |-> 0, breaker |-> FALSE]

Init ==
    /\ today = 1
    /\ risk = Fresh(1) /\ row = Fresh(1)
    /\ thread = [s \in Strategies |-> [at |-> "idle", id |-> NoOrder]]
    /\ order = [o \in Orders |-> Absent]
    /\ seen = {} /\ told = {} /\ lost = 0
    /\ cool = [mem |-> {}, table |-> {}]
    /\ blind = {} /\ close = {} /\ quick = {} /\ forgot = {}
    /\ faults = 0 /\ restarts = 0

TypeOK ==
    /\ today \in 1..Days
    /\ risk \in [day : 1..Days, count : 0..Cardinality(Orders), breaker : BOOLEAN]
    /\ row \in [day : 1..Days, count : 0..Cardinality(Orders), breaker : BOOLEAN]
    /\ thread \in [Strategies -> [at : {"idle", "limits", "recheck", "record", "submit", "cool"},
                                  id : Orders \cup {NoOrder}]]
    /\ \A o \in Orders : order[o].at \in {"none", "made", "sent", "open", "closed", "gone"}
    /\ seen \subseteq Orders /\ told \subseteq Orders
    /\ cool \in [mem : SUBSET Strategies, table : SUBSET Strategies]

Fault == faults < MaxFaults /\ faults' = faults + 1
To(s, at) == thread' = [thread EXCEPT ![s].at = at]
Leave(s) == thread' = [thread EXCEPT ![s] = [at |-> "idle", id |-> NoOrder]]
histories == <<blind, close, quick, forgot>>
world == <<today, order, seen, told, lost>>

----------------------------------------------------------------------------

(* The tick begins with set_account_limits, which writes the row; then
   _is_in_cooldown, of which a table that cannot be read leaves the memory,
   and the entry guard, which allows the entry when it fails. *)
\* Mutant: only the memory is asked.
CoolingInMemory(s) == s \in cool.mem
Cooling(s) == s \in cool.mem \cup cool.table
Repeats(s) == \E o \in told : order[o].by = s
Guard(s) ==
    /\ thread[s].at = "idle"
    /\ \E o \in Orders : order[o].at = "none"
    /\ \/ ~Cooling(s) /\ ~Repeats(s) /\ UNCHANGED <<forgot, faults>>
       \/ ~Cooling(s) /\ Fault /\ UNCHANGED forgot
       \/ s \notin cool.mem /\ ~Repeats(s) /\ Fault /\ forgot' = forgot \cup {s}
    /\ row' = risk
    /\ To(s, "limits")
    /\ UNCHANGED <<world, risk, cool, blind, close, quick, restarts>>

(* check_risk: the reset of a new day, the deals of the day against the loss
   limit, which trips the breaker and releases it, and what is counted. *)
Reset == IF risk.day = today THEN risk ELSE Fresh(today)
Synced == [Reset EXCEPT !.breaker = lost >= LossLimit]
\* Mutant: the order that reaches the limit passes.
PassesOneMore == Synced.count <= DailyLimit /\ ~Synced.breaker
Passes == Synced.count < DailyLimit /\ ~Synced.breaker
(* The row is written when the day, the breaker or the result has changed.  *)
CheckRisk ==
    /\ risk' = Synced
    /\ row' \in IF Synced # risk THEN {Synced} ELSE {row, Synced}

(* _check_position_limits on the snapshot, then check_risk.                 *)
\* Mutant: the position that reaches the limit passes.
RoomForOneMore == Cardinality(seen) <= MaxPositions
Room == Cardinality(seen) < MaxPositions
Begun == {s \in Strategies : thread[s].at \in {"recheck", "record", "submit"}}
Limits(s) ==
    /\ thread[s].at = "limits"
    /\ CheckRisk
    /\ \/ /\ Room /\ Passes
          /\ \E o \in Orders :
               /\ order[o].at = "none" /\ \A p \in Orders : p < o => order[p].at # "none"
               /\ order' = [order EXCEPT ![o] = [by |-> s, at |-> "made", day |-> 0]]
               /\ thread' = [thread EXCEPT ![s] = [at |-> "recheck", id |-> o]]
               /\ blind' = IF Unseen # {} \/ Begun # {} THEN blind \cup {o} ELSE blind
       \/ /\ ~(Room /\ Passes)
          /\ Leave(s) /\ UNCHANGED <<order, blind>>
    /\ UNCHANGED <<today, seen, told, lost, cool, close, quick, forgot, faults, restarts>>

Drop(o) == order' = [order EXCEPT ![o].at = "gone"]

(* check_risk again before the order is made; the stage, the risk of all
   positions together and the claim of the plan may refuse as well. *)
Recheck(s) ==
    /\ thread[s].at = "recheck"
    /\ CheckRisk
    /\ \/ Passes /\ To(s, "record") /\ UNCHANGED order
       \/ Leave(s) /\ Drop(thread[s].id)
    /\ UNCHANGED <<today, seen, told, lost, cool, histories, faults, restarts>>

(* on_order_confirmed: nothing if live entries are off; record_confirmed_order,
   whose row may not be written: the order is counted and given up. *)
Counted == [Reset EXCEPT !.count = @ + 1]
\* Mutant: the count is kept in memory.
RecordInMemory(s) ==
    /\ thread[s].at = "record"
    /\ risk' = Counted
    /\ order' = [order EXCEPT ![thread[s].id].day = today]
    /\ To(s, "submit")
    /\ UNCHANGED <<today, row, seen, told, lost, cool, histories, faults, restarts>>
Record(s) ==
    /\ thread[s].at = "record"
    /\ \/ /\ risk' = Counted /\ row' = Counted
          /\ order' = [order EXCEPT ![thread[s].id].day = today]
          /\ To(s, "submit") /\ UNCHANGED faults
       \/ /\ Fault /\ risk' = Counted
          /\ Drop(thread[s].id) /\ To(s, "cool") /\ UNCHANGED row
       \/ Drop(thread[s].id) /\ To(s, "cool") /\ UNCHANGED <<risk, row, faults>>
    /\ UNCHANGED <<today, seen, told, lost, cool, histories, restarts>>

Submit(s) ==
    /\ thread[s].at = "submit"
    /\ To(s, "cool")
    /\ \/ /\ order' = [order EXCEPT ![thread[s].id].at = "sent"]
          /\ close' = close \cup {s}
          /\ quick' = IF s \in close \ forgot THEN quick \cup {thread[s].id} ELSE quick
          /\ UNCHANGED faults
       \/ Fault /\ Drop(thread[s].id) /\ UNCHANGED <<close, quick>>
    /\ UNCHANGED <<today, risk, row, seen, told, lost, cool, blind, forgot, restarts>>

(* activate_decision_cooldown, memory first; a row that cannot be written is
   passed over. *)
Cool(s) ==
    /\ thread[s].at = "cool"
    /\ Leave(s)
    /\ \/ /\ cool' = [mem |-> cool.mem \cup {s}, table |-> cool.table \cup {s}]
          /\ UNCHANGED <<forgot, faults>>
       \/ Fault /\ cool' = [cool EXCEPT !.mem = @ \cup {s}] /\ forgot' = forgot \cup {s}
    /\ UNCHANGED <<world, risk, row, blind, close, quick, restarts>>

----------------------------------------------------------------------------

(* The terminal deals or drops it, reports the execution, lists its positions
   and books the deal that closed one. *)
Deal(o) ==
    /\ order[o].at = "sent"
    /\ order' = [order EXCEPT ![o].at = "open"]
    /\ UNCHANGED <<today, risk, row, thread, seen, told, lost, cool, histories, faults, restarts>>
Report(o) ==
    /\ order[o].at \in {"open", "closed"} /\ o \notin told
    /\ told' = told \cup {o}
    /\ UNCHANGED <<today, risk, row, thread, order, seen, lost, cool, histories, faults, restarts>>
Snapshot ==
    /\ seen # Open /\ seen' = Open
    /\ UNCHANGED <<today, risk, row, thread, order, told, lost, cool, histories, faults, restarts>>
Close(o) ==
    /\ order[o].at = "open"
    /\ order' = [order EXCEPT ![o].at = "closed"]
    /\ lost' \in IF lost < LossLimit THEN {lost, lost + 1} ELSE {lost}
    /\ UNCHANGED <<today, risk, row, thread, seen, told, cool, histories, faults, restarts>>

(* A minute has passed since the order; half an hour, or the price has moved. *)
Lapse(s) ==
    /\ s \in close /\ thread[s].at \in {"idle", "limits"}
    /\ close' = close \ {s} /\ forgot' = forgot \ {s}
    /\ cool' = [mem |-> cool.mem \ {s}, table |-> cool.table \ {s}]
    /\ UNCHANGED <<world, risk, row, thread, blind, quick, faults, restarts>>
Forgive(o) ==
    /\ o \in told /\ order[o].by \notin close
    /\ told' = told \ {o}
    /\ UNCHANGED <<today, risk, row, thread, order, seen, lost, cool, histories, faults, restarts>>

NewDay ==
    /\ today < Days /\ today' = today + 1
    /\ lost' = 0
    /\ UNCHANGED <<risk, row, thread, order, seen, told, cool, histories, faults, restarts>>

(* The engine is made again: _load_state and the cooldowns of the table.    *)
Restart ==
    /\ restarts < MaxRestarts /\ restarts' = restarts + 1
    /\ risk' = IF row.day = today THEN row ELSE Fresh(today)
    /\ row' = risk'
    /\ thread' = [s \in Strategies |-> [at |-> "idle", id |-> NoOrder]]
    /\ order' = [o \in Orders |-> IF order[o].at = "made" THEN [order[o] EXCEPT !.at = "gone"] ELSE order[o]]
    /\ cool' = [cool EXCEPT !.mem = {}]
    /\ forgot' = forgot \cup {s \in Strategies : thread[s].at = "cool"}
    /\ UNCHANGED <<today, seen, told, lost, blind, close, quick, faults>>

Tick(s) == Guard(s) \/ Limits(s) \/ Recheck(s) \/ Record(s) \/ Submit(s) \/ Cool(s)
Terminal(o) == Deal(o) \/ Report(o) \/ Close(o)
Next ==
    \/ \E s \in Strategies : Tick(s) \/ Lapse(s)
    \/ \E o \in Orders : Terminal(o) \/ Forgive(o)
    \/ Snapshot \/ NewDay \/ Restart
Spec == Init /\ [][Next]_vars

----------------------------------------------------------------------------

SentOn(d) == {o \in Orders : order[o].day = d /\ order[o].at \in {"sent", "open", "closed"}}

(* What was sent today is counted, over restarts and failing statements: an
   order is written to the row before its instruction is made. *)
SentIsCounted ==
    /\ risk.day = today => risk.count >= Cardinality(SentOn(today))
    /\ SentOn(row.day) # {} => row.count >= Cardinality(SentOn(row.day))

(* The day's limit is passed by no more than the threads that were past their
   check when it was reached. *)
DailyLimitHolds == \A d \in 1..Days :
    Cardinality(SentOn(d)) <= DailyLimit + Cardinality(Strategies) - 1

(* More positions than the account's limit come only of orders that were
   checked while another was on its way. *)
PositionsHold == Cardinality(Open) <= MaxPositions + Cardinality(blind)

(* A strategy sends no second order within its cooldown, restarts included,
   unless the server stopped before the cooldown began, or the table could not be
   written, or not be read with the memory gone. *)
CooldownHolds == quick = {}
=============================================================================
