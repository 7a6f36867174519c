---------------------------- MODULE PaperAccount ----------------------------
(* One paper account with one deployment: order creators that look at the    *)
(* account before they insert, the tick thread that fills, manages and       *)
(* sweeps under the service lock, and the operations of the user that run    *)
(* beside them: pausing, ending, redeploying, switching trading off,         *)
(* flattening, closing and archiving.                                        *)
(*                                                                           *)
(* A transaction of the storage is one action; a statement outside of one is *)
(* an action of its own.  Time is the age of each order, in units of which   *)
(* Timeout is the pending limit, so nothing bounds it.                       *)
EXTENDS PositionRules

CONSTANTS
    Order,        \* order ids, a set of numbers: ids break ties of the queue
    Direction,    \* direction of each order's decision
    Bids,         \* prices a tick may bring
    Exits,        \* stop and target of an order, by direction
    Volume,       \* volume of every order
    Cfg,          \* policy, lossLimit, perLot, slip, minimum of PositionRules
    Spread, Leverage, InitialBalance,
    MaxTotal,     \* max_total_positions of the account
    MaxSide,      \* max_same_direction of the strategy
    Timeout,      \* PENDING_ORDER_TIMEOUT_SECONDS, in units of age
    MaxUser       \* bound: operations of the user

ASSUME PaperAssumption ==
    /\ Order \subseteq Nat /\ IsFiniteSet(Order) /\ Direction \in [Order -> {"buy", "sell"}]
    /\ MaxTotal \in Nat /\ MaxSide \in Nat /\ Timeout \in Nat
    /\ Bids \subseteq Int /\ Volume \in Int /\ Spread \in Int /\ InitialBalance \in Int

(* Money is counted: costs are numbers, and so are the shares of a volume    *)
(* that the policy takes.                                                    *)
ASSUME PolicyAssumption ==
    /\ Cfg.perLot \in Int /\ Cfg.slip \in Int /\ Cfg.minimum \in Int
    /\ Cfg.policy.signalShare \in Int /\ DOMAIN Cfg.policy.rules \subseteq Nat
    /\ \A k \in DOMAIN Cfg.policy.rules :
          Cfg.policy.rules[k].kind = "partial_take_profit" =>
              /\ DOMAIN Cfg.policy.rules[k].levels \subseteq Nat
              /\ \A j \in DOMAIN Cfg.policy.rules[k].levels :
                    Cfg.policy.rules[k].levels[j].percent \in Int

VARIABLES
    account,   \* row of trading_accounts: status, switches, balance, free margin
    dep,       \* row of strategy_deployments: status, and whether its term is over
    order,     \* rows of paper_orders; age runs from the creator's own clock
    pos,       \* rows of paper_positions, by order
    creator,   \* each creator's place in create() and the count it has read
    ticker,    \* the process_tick under way; it holds the service lock
    settler,   \* a close and a flatten under way, with the balance each has read
    archiver,  \* set_archived between its look and its update
    quote,     \* last quote of the service, 0 for none
    user,      \* operations of the user so far
    booked,    \* net profit of all trade rows
    overwritten  \* a settlement wrote back a balance others had moved on
vars == <<account, dep, order, pos, creator, ticker, settler, archiver, quote, user,
          booked, overwritten>>

NoPos == [st |-> "none"]
Unread == [pc |-> "idle", open |-> 0]
Settlement == {"account_closed", "scheduled_flatten"}
NotSettling == [on |-> FALSE, balance |-> 0]
Status == {"none", "pending", "filled", "rejected", "canceled"}
Pending == {o \in Order : order[o].st = "pending"}
OpenIn(rows) == {o \in Order : rows[o].st = "open"}
Opens == OpenIn(pos)
LockFree == ticker.pc = "idle"
Idle == [pc |-> "idle", bid |-> 0, serves |-> FALSE, stale |-> {}]

Init ==
    /\ account = [st |-> "active", enabled |-> TRUE, trading |-> TRUE,
                  balance |-> InitialBalance, free |-> InitialBalance]
    /\ dep = [st |-> "active", over |-> FALSE]
    /\ order = [o \in Order |-> [st |-> "none", age |-> 0]]
    /\ pos = [o \in Order |-> NoPos]
    /\ creator = [o \in Order |-> Unread]
    /\ ticker = Idle
    /\ settler = [k \in Settlement |-> NotSettling]
    /\ archiver = "idle"
    /\ quote = 0
    /\ user = 0
    /\ booked = 0
    /\ overwritten = FALSE

\* Mutant: the cancellation of the pending orders asks for no status.
CancelAll == order' = [o \in Order |-> IF order[o].st # "none"
                                       THEN [order[o] EXCEPT !.st = "canceled"] ELSE order[o]]
(* Pending orders of the deployment are cancelled with it.                   *)
CancelPending == order' = [o \in Order |-> IF order[o].st = "pending"
                                           THEN [order[o] EXCEPT !.st = "canceled"] ELSE order[o]]
ExpireDeployments ==
    IF dep.st = "active" /\ dep.over
    THEN dep' = [dep EXCEPT !.st = "completed"] /\ CancelPending
    ELSE UNCHANGED <<dep, order>>

-----------------------------------------------------------------------------
(* Creating an order: deployments and account are read once, positions a     *)
(* reversed signal contradicts are marked, then positions and pending orders *)
(* are counted by statements of their own and the row is inserted.           *)
At(o, pc) == creator[o].pc = pc
Moves(o, c) == creator' = [creator EXCEPT ![o] = c]
Goes(o, pc) == Moves(o, [creator[o] EXCEPT !.pc = pc])

ReadEligible(o) ==
    /\ At(o, "idle")
    /\ ExpireDeployments
    /\ IF /\ dep.st = "active" /\ ~dep.over
          /\ account.st = "active" /\ account.enabled /\ account.trading
       THEN Goes(o, "eligible") ELSE Goes(o, "done")
    /\ UNCHANGED <<account, pos, ticker, settler, archiver, quote, user, booked, overwritten>>

Contradicts(o, p) == pos[p].st = "open" /\ Direction[p] # Direction[o]
MarkReversed(o) ==
    /\ At(o, "eligible")
    /\ pos' = [p \in Order |-> IF Contradicts(o, p)
                               THEN [pos[p] EXCEPT !.why = "reverse_signal"] ELSE pos[p]]
    /\ Goes(o, "marked")
    /\ UNCHANGED <<account, dep, order, ticker, settler, archiver, quote, user, booked, overwritten>>

SameSide(o, S) == {p \in S : Direction[p] = Direction[o]}
CountOpen(o) ==
    /\ At(o, "marked")
    /\ Moves(o, [pc |-> "counted", open |-> Cardinality(Opens)])
    /\ UNCHANGED <<account, dep, order, pos, ticker, settler, archiver, quote, user, booked,
                   overwritten>>

CountPending(o) ==
    /\ At(o, "counted")
    /\ LET refused == \/ creator[o].open + Cardinality(Pending) >= MaxTotal
                      \/ Cardinality(SameSide(o, Opens \cup Pending)) >= MaxSide
       IN  Moves(o, [Unread EXCEPT !.pc = IF refused THEN "refused" ELSE "allowed"])
    /\ UNCHANGED <<account, dep, order, pos, ticker, settler, archiver, quote, user, booked,
                   overwritten>>

(* The insert looks at nothing: what was read may no longer hold.            *)
InsertOrder(o) ==
    /\ At(o, "refused") \/ At(o, "allowed")
    /\ order' = [order EXCEPT ![o].st = IF At(o, "refused") THEN "rejected" ELSE "pending"]
    /\ Goes(o, "done")
    /\ UNCHANGED <<account, dep, pos, ticker, settler, archiver, quote, user, booked, overwritten>>

(* process_strategy_signals ends with a sweep of its own, outside the lock.  *)
Stale(o) == order[o].st = "pending" /\ order[o].age > Timeout
LateSweep(o) ==
    /\ \E c \in Order : At(c, "done")
    /\ Stale(o)
    /\ order' = [order EXCEPT ![o].st = "canceled"]
    /\ UNCHANGED <<account, dep, pos, creator, ticker, settler, archiver, quote, user, booked,
                   overwritten>>

-----------------------------------------------------------------------------
(* A tick, under the service lock.                                           *)
TickBegin(bid) ==
    /\ LockFree
    /\ ExpireDeployments
    /\ ticker' = [Idle EXCEPT !.pc = "expired", !.bid = bid]
    /\ UNCHANGED <<account, pos, creator, settler, archiver, quote, user, booked, overwritten>>

(* The accounts a tick serves are listed outside of their transactions.      *)
TickList ==
    /\ ticker.pc = "expired"
    /\ quote' = ticker.bid
    /\ ticker' = [ticker EXCEPT !.pc = "listed", !.serves =
                    account.st = "active" /\ account.enabled
                    /\ (Pending # {} \/ Opens # {} \/ dep.st = "active")]
    /\ UNCHANGED <<account, dep, order, pos, creator, settler, archiver, user, booked, overwritten>>

Entry(o, bid) == IF Direction[o] = "buy" THEN bid + Spread + Cfg.slip ELSE bid - Cfg.slip
Margin(price, volume) == (price * volume) \div Leverage

Fresh(o, fill) ==
    [st |-> "open", dir |-> Direction[o], vol |-> Volume, rem |-> Volume,
     entry |-> fill, sl |-> Exits[Direction[o]].stop, tp |-> Exits[Direction[o]].target,
     fav |-> fill, risk |-> Away(fill, Exits[Direction[o]].stop), done |-> {}, why |-> "",
     fee |-> Volume * Cfg.perLot, opened |-> 0, levels |-> {}]

\* Mutant: the limits were checked when the order was created.
RefusedByMargin(state, o, fill) == Margin(fill, Volume) > state.free
(* The second look, at the fill.                                             *)
Refused(state, o, fill) ==
    LET held == OpenIn(state.rows)
        exits == Exits[Direction[o]]
    IN  \/ dep.st # "active"
        \/ Cardinality(held) >= MaxTotal
        \/ Cardinality(SameSide(o, held)) >= MaxSide
        \/ ~ValidExits(Direction[o], fill, exits.stop, exits.target)
        \/ Margin(fill, Volume) > state.free

(* The pending orders, oldest first; one that is past its limit is left to   *)
(* the sweep.                                                                *)
Due == {o \in Pending : order[o].age < Timeout}
Before(a, b) == order[a].age > order[b].age \/ (order[a].age = order[b].age /\ a < b)
FirstDue(S) == CHOOSE o \in S : \A p \in S \ {o} : Before(o, p)

(* One fill or refusal: [orders, rows, balance, free] and what is left.      *)
Fill(state) ==
    LET o == FirstDue(state.left)
        rest == state.left \ {o}
        fill == Entry(o, ticker.bid)
        fee == Volume * Cfg.perLot
    IN  IF Refused(state, o, fill)
        THEN [state EXCEPT !.orders = [@ EXCEPT ![o].st = "rejected"], !.left = rest]
        ELSE [orders |-> [state.orders EXCEPT ![o].st = "filled"],
              rows |-> [state.rows EXCEPT ![o] = Fresh(o, fill)],
              balance |-> state.balance - fee,
              free |-> state.free - Margin(fill, Volume) - fee,
              left |-> rest]

Fills[n \in 0..Cardinality(Due)] ==
    IF n = 0 THEN [orders |-> order, rows |-> pos, balance |-> account.balance,
                   free |-> account.free, left |-> Due]
    ELSE Fill(Fills[n - 1])
Filled == Fills[Cardinality(Due)]

(* manage() over every open position; the market context is left to          *)
(* PositionLife.                                                             *)
Calm == [now |-> 0, atr |-> 0, pivots |-> {}, low |-> 0, high |-> 0]
Managed(rows, bid) ==
    [o \in Order |-> IF rows[o].st = "open"
                     THEN Manage(rows[o], [bid |-> bid, ask |-> bid + Spread], Cfg, Calm)
                     ELSE [pos |-> rows[o], gain |-> 0, row |-> {}]]
NetOf(row) == IF row = {} THEN 0 ELSE (CHOOSE r \in row : TRUE).net
Gains(outcome) == SumFunction([o \in Order |-> outcome[o].gain])
Nets(outcome) == SumFunction([o \in Order |-> NetOf(outcome[o].row)])

(* mark_positions: what the account is worth, and what is free of it.        *)
FreeMargin(rows, balance, bid) ==
    balance + SumFunction([o \in Order |->
        IF rows[o].st = "open"
        THEN Gross(rows[o], MarkOf(rows[o], [bid |-> bid, ask |-> bid + Spread]), Active(rows[o]))
             - Margin(rows[o].entry, Active(rows[o]))
        ELSE 0])

(* Of a closed row only its status is looked at again.                       *)
Kept(row) == IF row.st = "closed" THEN [st |-> "closed"] ELSE row

(* Positions, balance and free margin are written together.                  *)
Book(rows, balance, bid) ==
    \E outcome \in {Managed(rows, bid)} :
    \E after \in {[o \in Order |-> Kept(outcome[o].pos)]}, cash \in {balance + Gains(outcome)} :
        /\ pos' = after
        /\ account' = [account EXCEPT !.balance = cash, !.free = FreeMargin(after, cash, bid)]
        /\ booked' = booked + Nets(outcome)

TickMatch ==
    /\ ticker.pc = "listed"
    /\ IF ticker.serves
       THEN \E state \in {Filled} :
              order' = state.orders /\ Book(state.rows, state.balance, ticker.bid)
       ELSE UNCHANGED <<account, order, pos, booked>>
    /\ ticker' = [ticker EXCEPT !.pc = "matched"]
    /\ UNCHANGED <<dep, creator, settler, archiver, quote, user, overwritten>>

\* Mutant: only an account the tick serves is swept.
SweepServed ==
    /\ ticker.pc = "matched"
    /\ ticker' = [ticker EXCEPT !.pc = "sweeping",
                                !.stale = {o \in Order : ticker.serves /\ Stale(o)}]
    /\ UNCHANGED <<account, dep, order, pos, creator, settler, archiver, quote, user, booked,
                   overwritten>>

(* Stale orders are listed, then cancelled one statement at a time.          *)
SweepList ==
    /\ ticker.pc = "matched"
    /\ ticker' = [ticker EXCEPT !.pc = "sweeping", !.stale = {o \in Order : Stale(o)}]
    /\ UNCHANGED <<account, dep, order, pos, creator, settler, archiver, quote, user, booked,
                   overwritten>>

SweepOne(o) ==
    /\ ticker.pc = "sweeping" /\ o \in ticker.stale
    /\ order' = [order EXCEPT ![o].st = IF @ = "pending" THEN "canceled" ELSE @]
    /\ ticker' = [ticker EXCEPT !.stale = @ \ {o}]
    /\ UNCHANGED <<account, dep, pos, creator, settler, archiver, quote, user, booked, overwritten>>

TickEnd ==
    /\ ticker.pc = "sweeping" /\ ticker.stale = {}
    /\ ticker' = Idle
    /\ UNCHANGED <<account, dep, order, pos, creator, settler, archiver, quote, user, booked,
                   overwritten>>

-----------------------------------------------------------------------------
(* What the user does.  The routes run on one event loop, so these never     *)
(* interleave with each other; ticks, creators and the scheduled flatten run *)
(* on other threads and do.                                                  *)
UserTurn == /\ user < MaxUser
            /\ archiver = "idle" /\ ~settler["account_closed"].on
            /\ user' = user + 1
AsBefore == UNCHANGED <<pos, creator, ticker, quote, booked, overwritten>>

SetDeploymentStatus(active) ==
    /\ UserTurn
    /\ ~(active /\ dep.over)
    /\ dep' = [dep EXCEPT !.st = IF active THEN "active" ELSE "paused"]
    /\ CancelPending
    /\ AsBefore /\ UNCHANGED <<account, settler, archiver>>

EndDeployment ==
    /\ UserTurn
    /\ dep' = [dep EXCEPT !.st = "completed"]
    /\ CancelPending
    /\ AsBefore /\ UNCHANGED <<account, settler, archiver>>

(* Deploying again revives the row; what is pending on it stays.             *)
Deploy ==
    /\ UserTurn
    /\ dep' = [st |-> "active", over |-> FALSE]
    /\ AsBefore /\ UNCHANGED <<account, order, settler, archiver>>

SetTrading(on) ==
    /\ UserTurn
    /\ account' = [account EXCEPT !.trading = on]
    /\ IF on THEN UNCHANGED order ELSE CancelPending
    /\ AsBefore /\ UNCHANGED <<dep, settler, archiver>>

(* Archiving looks for positions and pending orders, then writes.            *)
ArchiveLook ==
    /\ UserTurn
    /\ Opens = {} /\ Pending = {}
    /\ archiver' = "looked"
    /\ AsBefore /\ UNCHANGED <<account, dep, order, settler>>

ArchiveWrite ==
    /\ archiver = "looked"
    /\ account' = [account EXCEPT !.st = "archived", !.trading = FALSE]
    /\ dep' = [dep EXCEPT !.st = IF @ = "active" THEN "paused" ELSE @]
    /\ archiver' = "idle"
    /\ AsBefore /\ UNCHANGED <<order, settler, user>>

(* Restoring asks for nothing, so it also takes a closed account; enabled    *)
(* stays off there.                                                          *)
Restore ==
    /\ UserTurn
    /\ account' = [account EXCEPT !.st = "active", !.trading = TRUE]
    /\ AsBefore /\ UNCHANGED <<dep, order, settler, archiver>>

(* The account is read before the lock is asked for.                         *)
SettleRead(k) ==
    /\ ~settler[k].on
    /\ account.st # "closed" \/ k = "scheduled_flatten"
    /\ IF k = "account_closed" THEN UserTurn ELSE user < MaxUser /\ user' = user + 1
    /\ settler' = [settler EXCEPT ![k] = [on |-> TRUE, balance |-> account.balance]]
    /\ AsBefore /\ UNCHANGED <<account, dep, order, archiver>>

(* Every open position is asked to close and managed once at the last quote. *)
Asked(k) == [o \in Order |-> IF pos[o].st = "open" THEN [pos[o] EXCEPT !.why = k] ELSE pos[o]]
SettleDone(k) == settler' = [settler EXCEPT ![k] = NotSettling]
WritesBack(k) == overwritten' = (overwritten \/ settler[k].balance # account.balance)

FlattenCommit ==
    LET k == "scheduled_flatten" IN
    /\ settler[k].on /\ LockFree
    /\ Book(Asked(k), settler[k].balance, quote)
    /\ WritesBack(k) /\ SettleDone(k)
    /\ UNCHANGED <<dep, order, creator, ticker, archiver, quote, user>>

EverythingSettled(rows) == OpenIn(rows) = {}

(* A close that cannot settle everything is rolled back as a whole.          *)
CloseCommit ==
    LET k == "account_closed" IN
    /\ settler[k].on /\ LockFree
    /\ \E outcome \in {Managed(Asked(k), quote)} :
       \E after \in {[o \in Order |-> Kept(outcome[o].pos)]}, cash \in {settler[k].balance + Gains(outcome)} :
        IF ~EverythingSettled(after)
        THEN UNCHANGED <<account, dep, order, pos, booked, overwritten>>
        ELSE /\ account' = [st |-> "closed", enabled |-> FALSE, trading |-> FALSE,
                            balance |-> cash, free |-> cash]
             /\ dep' = [dep EXCEPT !.st = IF @ \in {"active", "paused"}
                                          THEN "account_closed" ELSE @]
             /\ CancelPending
             /\ pos' = after
             /\ booked' = booked + Nets(outcome)
             /\ WritesBack(k)
    /\ SettleDone(k)
    /\ UNCHANGED <<creator, ticker, archiver, quote, user>>

-----------------------------------------------------------------------------
(* Time: orders, and decisions on their way to one, grow older; the term of  *)
(* the deployment runs out.                                                  *)
Waiting(o) == order[o].st = "pending"
              \/ creator[o].pc \in {"eligible", "marked", "counted", "refused", "allowed"}
Advance ==
    /\ \E o \in Order : Waiting(o) /\ order[o].age <= Timeout
    /\ order' = [o \in Order |-> IF Waiting(o) /\ order[o].age <= Timeout
                                 THEN [order[o] EXCEPT !.age = @ + 1] ELSE order[o]]
    /\ UNCHANGED <<account, dep, pos, creator, ticker, settler, archiver, quote, user, booked,
                   overwritten>>

TermEnds ==
    /\ user < MaxUser /\ ~dep.over
    /\ user' = user + 1
    /\ dep' = [dep EXCEPT !.over = TRUE]
    /\ AsBefore /\ UNCHANGED <<account, order, settler, archiver>>

CreatorStep(o) == \/ ReadEligible(o) \/ MarkReversed(o) \/ CountOpen(o) \/ CountPending(o)
                  \/ InsertOrder(o)
TickStep == \/ TickList \/ TickMatch \/ SweepList \/ (\E o \in Order : SweepOne(o)) \/ TickEnd
Tick == (\E bid \in Bids : TickBegin(bid)) \/ TickStep
UserStep == \/ \E active \in BOOLEAN : SetDeploymentStatus(active) \/ SetTrading(active)
            \/ EndDeployment \/ Deploy \/ ArchiveLook \/ ArchiveWrite \/ Restore
            \/ \E k \in Settlement : SettleRead(k)
            \/ FlattenCommit \/ CloseCommit

Next == \/ \E o \in Order : CreatorStep(o) \/ LateSweep(o)
        \/ Tick \/ UserStep \/ Advance \/ TermEnds

Spec == Init /\ [][Next]_vars

(* The scheduler keeps ticking on the last quote, a creator that has begun   *)
(* runs to its end, and time passes.                                         *)
Fairness == WF_vars(Tick) /\ WF_vars(Advance)
FairSpec == Spec /\ Fairness

-----------------------------------------------------------------------------
TypeOK ==
    /\ account.st \in {"active", "archived", "closed"}
    /\ account.enabled \in BOOLEAN /\ account.trading \in BOOLEAN
    /\ account.balance \in Int /\ account.free \in Int
    /\ dep.st \in {"active", "paused", "completed", "account_closed"} /\ dep.over \in BOOLEAN
    /\ order \in [Order -> [st : Status, age : 0..(Timeout + 1)]]
    /\ \A o \in Order : /\ pos[o].st \in {"none", "open", "closed"}
                         /\ pos[o].st = "open" => pos[o].rem \in 0..pos[o].vol
    /\ creator \in [Order -> [pc : {"idle", "eligible", "marked", "counted", "refused",
                                    "allowed", "done"},
                              open : 0..Cardinality(Order)]]
    /\ ticker.pc \in {"idle", "expired", "listed", "matched", "sweeping"}
    /\ ticker.stale \subseteq Order
    /\ quote \in Bids \cup {0} /\ user \in 0..MaxUser

(* Opening commissions that were paid and are in no trade row yet.           *)
Fees(rows) == SumFunction([o \in Order |-> IF rows[o].st = "open" THEN rows[o].fee ELSE 0])

(* The cash of the account is what it started with, plus every trade row,    *)
(* minus the opening commissions of positions whose final row is still to    *)
(* come: through partial closes, ticks, flattens and a close, unless a       *)
(* settlement wrote back a balance it had read before another change.        *)
LedgerBalances ==
    overwritten \/ account.balance = InitialBalance + booked - Fees(pos)

(* However creators and ticks interleave, the account never holds more       *)
(* positions than its limit, nor the deployment more on one side.            *)
LimitsHold ==
    /\ Cardinality(Opens) <= MaxTotal
    /\ \A o \in Opens : Cardinality(SameSide(o, Opens)) <= MaxSide

(* Positions, orders and the account agree at every step, whatever is        *)
(* inserted behind a closing account's back: there is a position exactly for *)
(* the orders that were filled, and a closed account holds none that is open.*)
PositionsAgree ==
    /\ \A o \in Order : order[o].st = "filled" <=> pos[o].st # "none"
    /\ ~account.enabled => Opens = {}

(* A flatten leaves a position open only where the quote stood at a target   *)
(* that is to be taken in part first; the request itself is not forgotten.   *)
FlattenSettles ==
    [][settler["scheduled_flatten"].on /\ ~settler'["scheduled_flatten"].on =>
        \A o \in Order : pos'[o].st = "open" =>
            /\ HardExit(pos[o], MarkOf(pos[o], [bid |-> quote, ask |-> quote + Spread])) = "take_profit"
            /\ SignalTarget \notin pos[o].done
            /\ pos'[o].why = "scheduled_flatten"]_vars

(* No order stays pending: not on a paused deployment, not on an account     *)
(* that was closed or archived before the row was inserted.                  *)
PendingEnds == \A o \in Order : order[o].st = "pending" ~> order[o].st # "pending"
=============================================================================
