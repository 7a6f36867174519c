--------------------------- MODULE AccountFlatten ---------------------------
(***************************************************************************)
(* The daily flattening of one live account.                               *)
(*                                                                         *)
(* Every five seconds a worker looks whether the account is in its         *)
(* five-minute window, claims the day's run, writes an item for every      *)
(* position it knows and queues a close command for it, in memory and as a *)
(* durable row.  The EA polls the commands, closes the positions and posts *)
(* receipts, which settle the items and the run.  After the window the     *)
(* worker times out the items without a receipt.  Worker, polls and        *)
(* receipt handler run in threads of their own; every statement commits on *)
(* its own.  Another guard of the account (the loss limit of a position)   *)
(* uses the same queue under ids of its own.                               *)
(*                                                                         *)
(* One account, one symbol, one day; the clock is abstracted to before, in *)
(* and after the window.                                                   *)
(***************************************************************************)
EXTENDS Naturals, FiniteSets

CONSTANTS
    Ticket,         \* positions of the account, open at the start
    Guarded,        \* those another guard may ask to close
    HandlerCrash,   \* may the server stop between two writes of the handler?
    MaxFaults       \* bound: failed statements, failed ticks and restarts

ASSUME GuardedAssumption == Guarded \subseteq Ticket
ASSUME FaultsAssumption == MaxFaults \in Nat /\ HandlerCrash \in BOOLEAN

VARIABLES
    clock,      \* before, in or after the five minutes
    run,        \* status of the day's account_flatten_runs row
    item,       \* status of the account_flatten_items row, by ticket
    wk,         \* the worker: its next step and what it holds
    mem,        \* close commands in the engine's memory
    crow,       \* status of the close_instruction row, by command
    listed,     \* the server's copy of the positions
    report,     \* the receipt kept, by command
    srv,        \* the receipt handler: its next step and what it holds
    posts,      \* receipts on their way
    inbox,      \* commands of the response the EA works through
    sent,       \* the receipt the EA waits to be answered, if any
    open,       \* positions open at the broker
    faults      \* faults so far

queueVars == <<mem, crow>>
handlerVars == <<report, srv>>
eaVars == <<inbox, sent, open>>
vars == <<clock, run, item, wk, queueVars, listed, handlerVars, posts, eaVars, faults>>

Kind == {"flatten", "guard"}
Command == [ticket : Ticket, kind : Kind]
Flatten(t) == [ticket |-> t, kind |-> "flatten"]
Receipt == [cmds : {{c} : c \in Command}, ok : BOOLEAN]
NoReceipt == [cmds |-> {}, ok |-> FALSE]

Waiting == {"pending", "delivered"}
WorkerIdle == [at |-> "idle", todo |-> {}, now |-> {}, result |-> "empty"]
HandlerIdle == [at |-> "idle", cmds |-> {}, verdict |-> "none"]

Init ==
    /\ clock = "before"
    /\ run = "none" /\ item = [t \in Ticket |-> "none"] /\ wk = WorkerIdle
    /\ mem = {} /\ crow = [c \in Command |-> "none"]
    /\ listed = Ticket
    /\ report = [c \in Command |-> "none"]
    /\ srv = HandlerIdle /\ posts = {}
    /\ inbox = {} /\ sent = NoReceipt /\ open = Ticket
    /\ faults = 0

ClockTicks ==
    /\ clock # "after"
    /\ clock' = IF clock = "before" THEN "window" ELSE "after"
    /\ UNCHANGED <<run, item, wk, queueVars, listed, handlerVars, posts, eaVars, faults>>

Fault == faults < MaxFaults /\ faults' = faults + 1

----------------------------------------------------------------------------
(* The queue of close commands, under the engine's lock.                   *)

(* add_close_position_instruction: memory holds one command per ticket,    *)
(* while every id gets its row.                                            *)
Remembered(C) == {c \in C : \A m \in mem : m.ticket # c.ticket}

AddClose(C) ==
    /\ mem' = mem \cup Remembered(C)
    /\ crow' = [c \in Command |-> IF c \in C THEN "pending" ELSE crow[c]]

(* get_close_position_instruction_details: the memory is emptied; commands *)
(* for positions the server still lists are sent, the others canceled.     *)
Sendable == {c \in mem : c.ticket \in listed}

Hand(status) == IF status \in Waiting THEN "delivered" ELSE status

FetchCloses ==
    /\ mem' = {}
    /\ crow' = [c \in Command |-> IF c \in Sendable THEN "sent"
                                  ELSE IF c \in mem THEN "canceled" ELSE crow[c]]
    /\ item' = [t \in Ticket |-> IF Flatten(t) \in Sendable THEN Hand(item[t]) ELSE item[t]]
    /\ UNCHANGED <<clock, run, wk, listed, handlerVars, posts, faults>>

GetCloses ==
    /\ inbox = {} /\ sent = NoReceipt
    /\ FetchCloses
    /\ inbox' = Sendable
    /\ UNCHANGED <<sent, open>>

GetClosesLost ==
    /\ mem # {}
    /\ FetchCloses
    /\ UNCHANGED eaVars

(* POST /ea/positions: the server's copy becomes the broker's state, and   *)
(* the guards ask to close the listed positions that broke their limit.    *)
PositionsReported(broken) ==
    /\ inbox = {} /\ sent = NoReceipt
    /\ broken \subseteq Guarded \cap open
    /\ listed' = open
    /\ AddClose({[ticket |-> t, kind |-> "guard"] : t \in broken})
    /\ UNCHANGED <<clock, run, item, wk, handlerVars, posts, eaVars, faults>>

----------------------------------------------------------------------------
(* run_due_accounts, one task at a time.                                   *)

StepTo(at) == wk' = [wk EXCEPT !.at = at]

(* The clock is read once.  Before the window a tick finds nothing to do.  *)
StartTick ==
    /\ wk = WorkerIdle
    /\ clock # "before"
    /\ StepTo(IF clock = "window" THEN "claim" ELSE "expire")
    /\ UNCHANGED <<clock, run, item, queueVars, listed, handlerVars, posts, eaVars, faults>>

(* _claim: a run of its own for the day, or the one that failed while its  *)
(* window is still open.                                                   *)
Claim ==
    /\ wk.at = "claim"
    /\ IF run = "none" \/ (run = "failed" /\ clock = "window")
       THEN run' = "running" /\ StepTo("gate")
       ELSE wk' = WorkerIdle /\ UNCHANGED run
    /\ UNCHANGED <<clock, item, queueVars, listed, handlerVars, posts, eaVars, faults>>

(* _check_recent_kline lets the run go on with the listed positions ...    *)
GateOpens ==
    /\ wk.at = "gate"
    /\ wk' = [wk EXCEPT !.at = "item", !.todo = listed]
    /\ UNCHANGED <<clock, run, item, queueVars, listed, handlerVars, posts, eaVars, faults>>

(* ... or ends it for the day, for want of a recent M1 line of one of them.*)
GateShut ==
    /\ wk.at = "gate"
    /\ run' = "skipped_no_recent_kline" /\ wk' = WorkerIdle
    /\ UNCHANGED <<clock, item, queueVars, listed, handlerVars, posts, eaVars, faults>>

(* INSERT IGNORE of the item, then its command.                            *)
InsertItem(t) ==
    /\ wk.at = "item" /\ t \in wk.todo
    /\ item' = [item EXCEPT ![t] = IF @ = "none" THEN "pending" ELSE @]
    /\ wk' = [wk EXCEPT !.at = "queue", !.todo = @ \ {t}, !.now = {t}]
    /\ UNCHANGED <<clock, run, queueVars, listed, handlerVars, posts, eaVars, faults>>

Tried(result) == wk' = [wk EXCEPT !.at = "item", !.now = {}, !.result = result]

QueueClose ==
    /\ wk.at = "queue"
    /\ AddClose({Flatten(t) : t \in wk.now})
    /\ Tried(IF wk.result = "error" THEN "error" ELSE "asked")
    /\ UNCHANGED <<clock, run, item, listed, handlerVars, posts, eaVars, faults>>

\* Mutant: an item that could not be inserted is queued all the same.
InsertFailsAndQueues(t) ==
    /\ Fault
    /\ wk.at = "item" /\ t \in wk.todo
    /\ wk' = [wk EXCEPT !.at = "queue", !.todo = @ \ {t}, !.now = {t}]
    /\ UNCHANGED <<clock, run, item, queueVars, listed, handlerVars, posts, eaVars>>

(* A statement fails for one position; the others are still tried.         *)
InsertFails(t) ==
    /\ Fault
    /\ wk.at = "item" /\ t \in wk.todo
    /\ wk' = [wk EXCEPT !.todo = @ \ {t}, !.result = "error"]
    /\ UNCHANGED <<clock, run, item, queueVars, listed, handlerVars, posts, eaVars>>

QueueFails ==
    /\ Fault
    /\ wk.at = "queue"
    /\ mem' = mem \cup Remembered({Flatten(t) : t \in wk.now})
    /\ Tried("error")
    /\ UNCHANGED <<clock, run, item, crow, listed, handlerVars, posts, eaVars>>

(* _finish, whatever receipts have made of the run in the meantime.        *)
Finish ==
    /\ wk.at = "item" /\ wk.todo = {}
    /\ run' = CASE wk.result = "error" -> "failed"
                [] wk.result = "asked" -> "waiting_execution"
                [] OTHER -> "skipped_no_positions"
    /\ wk' = WorkerIdle
    /\ UNCHANGED <<clock, item, queueVars, listed, handlerVars, posts, eaVars, faults>>

\* Mutant: delivered items are not looked for.
OverduePending == {t \in Ticket : item[t] = "pending"}

(* _fail_expired: the items to time out are read first ...                 *)
Overdue == {t \in Ticket : item[t] \in Waiting}

ReadOverdue ==
    /\ wk.at = "expire"
    /\ wk' = [wk EXCEPT !.at = "timeout", !.todo = Overdue]
    /\ UNCHANGED <<clock, run, item, queueVars, listed, handlerVars, posts, eaVars, faults>>

\* Mutant: the status read is not tested again by the update.
TimeOutRead(t) ==
    /\ wk.at = "timeout" /\ t \in wk.todo
    /\ item' = [item EXCEPT ![t] = "timeout"]
    /\ wk' = [wk EXCEPT !.todo = @ \ {t}]
    /\ UNCHANGED <<clock, run, queueVars, listed, handlerVars, posts, eaVars, faults>>

(* ... and timed out one by one, unless a receipt came first.              *)
TimeOutItem(t) ==
    /\ wk.at = "timeout" /\ t \in wk.todo
    /\ item' = [item EXCEPT ![t] = IF @ \in Waiting THEN "timeout" ELSE @]
    /\ wk' = [wk EXCEPT !.todo = @ \ {t}]
    /\ UNCHANGED <<clock, run, queueVars, listed, handlerVars, posts, eaVars, faults>>

(* A run nobody finished has failed, one nobody started was missed.        *)
CloseDay ==
    /\ wk.at = "timeout" /\ wk.todo = {}
    /\ run' = CASE run = "running" -> "failed"
                [] run = "none" -> "missed_window"
                [] OTHER -> run
    /\ wk' = WorkerIdle
    /\ UNCHANGED <<clock, item, queueVars, listed, handlerVars, posts, eaVars, faults>>

(* Any other statement fails: the task ends, and the next tick starts anew.*)
TickFails ==
    /\ Fault
    /\ wk # WorkerIdle
    /\ wk' = WorkerIdle
    /\ UNCHANGED <<clock, run, item, queueVars, listed, handlerVars, posts, eaVars>>

----------------------------------------------------------------------------
(* POST /ea/trade_execution for a close command.                           *)

(* The first receipt of a command is kept, a failed one may become filled, *)
(* and a duplicate is answered without touching item or run.               *)
RecordReceipt(p) ==
    /\ srv = HandlerIdle
    /\ p \in posts
    /\ posts' = posts \ {p}
    /\ \E c \in p.cmds :
         LET news == report[c] = "none" \/ (report[c] = "failed" /\ p.ok) IN
           /\ report' = IF news THEN [report EXCEPT ![c] = IF p.ok THEN "filled" ELSE "failed"]
                                ELSE report
           /\ srv' = [at |-> IF news /\ c.kind = "flatten" THEN "item" ELSE "answer",
                      cmds |-> {c}, verdict |-> "none"]
    /\ UNCHANGED <<clock, run, item, wk, queueVars, listed, eaVars, faults>>

\* Mutant: any kept receipt settles the item as filled.
SettleAny(c) == IF report[c] = "none" THEN "rejected" ELSE "filled"

Settle(c) == IF report[c] = "filled" THEN "filled" ELSE "rejected"

WriteItem ==
    /\ srv.at = "item"
    /\ item' = [t \in Ticket |-> IF Flatten(t) \in srv.cmds THEN Settle(Flatten(t)) ELSE item[t]]
    /\ srv' = [srv EXCEPT !.at = "count"]
    /\ UNCHANGED <<clock, run, wk, queueVars, listed, report, posts, eaVars, faults>>

(* The run's items are counted in one statement and its status written in  *)
(* the next.                                                               *)
Counted ==
    IF \A t \in Ticket : item[t] \in {"none", "filled"} THEN "completed"
    ELSE IF \E t \in Ticket : item[t] \in {"rejected", "timeout"} THEN "partial_failed"
    ELSE "waiting_execution"

CountItems ==
    /\ srv.at = "count"
    /\ srv' = [srv EXCEPT !.at = "run", !.verdict = Counted]
    /\ UNCHANGED <<clock, run, item, wk, queueVars, listed, report, posts, eaVars, faults>>

WriteRun ==
    /\ srv.at = "run"
    /\ run' = srv.verdict
    /\ srv' = [srv EXCEPT !.at = "answer"]
    /\ UNCHANGED <<clock, item, wk, queueVars, listed, report, posts, eaVars, faults>>

Answer(heard) ==
    /\ srv.at = "answer"
    /\ heard => sent.cmds = srv.cmds
    /\ sent' = IF heard THEN NoReceipt ELSE sent
    /\ srv' = HandlerIdle
    /\ UNCHANGED <<clock, run, item, wk, queueVars, listed, report, posts, inbox, open, faults>>

LosePost(p) ==
    /\ p \in posts
    /\ posts' = posts \ {p}
    /\ UNCHANGED <<clock, run, item, wk, queueVars, listed, handlerVars, eaVars, faults>>

(* The process stops; rows that are pending or sent are queued again.      *)
ServerRestart ==
    /\ Fault
    /\ srv.at \notin {"idle", "answer"} => HandlerCrash
    /\ mem' = {c \in Command : crow[c] \in {"pending", "sent"}}
    /\ wk' = WorkerIdle
    /\ srv' = HandlerIdle /\ posts' = {}
    /\ UNCHANGED <<clock, run, item, crow, listed, report, eaVars>>

----------------------------------------------------------------------------
(* The EA.                                                                 *)

Post(c, ok) ==
    /\ sent' = [cmds |-> {c}, ok |-> ok]
    /\ posts' = posts \cup {sent'}

Take(c) ==
    /\ sent = NoReceipt
    /\ c \in inbox
    /\ inbox' = inbox \ {c}
    /\ UNCHANGED <<clock, run, item, wk, queueVars, listed, handlerVars, faults>>

CloseDone(c) ==
    /\ Take(c)
    /\ c.ticket \in open
    /\ open' = open \ {c.ticket}
    /\ Post(c, TRUE)

CloseRefused(c) ==
    /\ Take(c)
    /\ c.ticket \in open
    /\ Post(c, FALSE)
    /\ UNCHANGED open

(* A position that cannot be selected: nothing is posted.                  *)
SkipMissing(c) ==
    /\ Take(c)
    /\ c.ticket \notin open
    /\ UNCHANGED <<sent, posts, open>>

PositionCloses(t) ==
    /\ t \in open
    /\ open' = open \ {t}
    /\ UNCHANGED <<clock, run, item, wk, queueVars, listed, handlerVars, posts, inbox, sent, faults>>

(* No answer in time: the receipt is posted again, or given up.            *)
PostAgain ==
    /\ sent # NoReceipt /\ sent \notin posts
    /\ posts' = posts \cup {sent}
    /\ UNCHANGED <<clock, run, item, wk, queueVars, listed, handlerVars, eaVars, faults>>

GiveUpPosting ==
    /\ sent # NoReceipt
    /\ sent' = NoReceipt
    /\ UNCHANGED <<clock, run, item, wk, queueVars, listed, handlerVars, posts, inbox, open, faults>>

----------------------------------------------------------------------------
WorkerStep ==
    \/ StartTick \/ Claim \/ GateOpens \/ GateShut
    \/ \E t \in Ticket : InsertItem(t) \/ TimeOutItem(t)
    \/ QueueClose \/ Finish \/ ReadOverdue \/ CloseDay

HandlerStep ==
    \/ \E p \in posts : RecordReceipt(p)
    \/ WriteItem \/ CountItems \/ WriteRun
    \/ \E heard \in BOOLEAN : Answer(heard)

EaStep ==
    \/ \E c \in inbox : CloseDone(c) \/ CloseRefused(c) \/ SkipMissing(c)
    \/ PostAgain \/ GiveUpPosting

Next ==
    \/ ClockTicks
    \/ WorkerStep
    \/ \E t \in Ticket : InsertFails(t)
    \/ QueueFails \/ TickFails
    \/ GetCloses \/ GetClosesLost
    \/ \E broken \in SUBSET Guarded : PositionsReported(broken)
    \/ HandlerStep
    \/ \E p \in posts : LosePost(p)
    \/ ServerRestart
    \/ EaStep
    \/ \E t \in Ticket : PositionCloses(t)

Spec == Init /\ [][Next]_vars

(* The scheduler starts a tick every five seconds and lets it run; time    *)
(* goes on; nothing is assumed of the EA or of its receipts.               *)
Fairness == WF_vars(WorkerStep) /\ WF_vars(ClockTicks)

FairSpec == Spec /\ Fairness

----------------------------------------------------------------------------
(* Types. *)
TypeOK ==
    /\ clock \in {"before", "window", "after"}
    /\ run \in {"none", "running", "failed", "waiting_execution", "skipped_no_positions",
                "skipped_no_recent_kline", "missed_window", "completed", "partial_failed"}
    /\ item \in [Ticket -> Waiting \cup {"none", "filled", "rejected", "timeout"}]
    /\ wk \in [at : {"idle", "claim", "gate", "item", "queue", "expire", "timeout"},
               todo : SUBSET Ticket, now : SUBSET Ticket, result : {"empty", "asked", "error"}]
    /\ mem \subseteq Command
    /\ crow \in [Command -> {"none", "pending", "sent", "canceled"}]
    /\ listed \subseteq Ticket
    /\ report \in [Command -> {"none", "failed", "filled"}]
    /\ srv \in [at : {"idle", "item", "count", "run", "answer"}, cmds : SUBSET Command,
                verdict : {"none", "completed", "partial_failed", "waiting_execution"}]
    /\ posts \subseteq Receipt
    /\ inbox \subseteq Command
    /\ sent \in Receipt \cup {NoReceipt}
    /\ open \subseteq Ticket
    /\ faults \in 0..MaxFaults

(* An item that says filled belongs to a position that is closed, through  *)
(* retries, upgrades of a failed receipt and a run that is started again.  *)
FilledMeansClosed == \A t \in Ticket : item[t] = "filled" => t \notin open

(* A receipt that was kept is what the item says when its handler is done: *)
(* no timeout, delivery or second run hides it (while the server does not  *)
(* stop inside the handler, whose retries are answered as duplicates).     *)
ReceiptReachesItem ==
    srv.at \in {"idle", "answer"} =>
        \A t \in Ticket : report[Flatten(t)] # "none" => item[t] = Settle(Flatten(t))

(* Every close command of the flattening has its item, also when one of   *)
(* the two statements fails or the server stops in between: no receipt of  *)
(* a flattening is without a place to be written to.                       *)
CommandHasItem ==
    \A t \in Ticket : Flatten(t) \in mem \cup inbox \/ crow[Flatten(t)] # "none"
                        => item[t] # "none"

(* "Executed within five minutes of that time" (the hint of the account    *)
(* form): once the window is over and the item of a position has been      *)
(* timed out, no poll hands out its close command any more.                *)
TimedOutIsNotSent ==
    [][\A t \in Ticket : Flatten(t) \in inbox' \ inbox => item[t] # "timeout"]_vars

(* An item does not wait for ever, and neither does a started run: a       *)
(* receipt or the end of the window settles them.                          *)
FlattenEnds ==
    /\ run = "running" ~> run # "running"
    /\ \A t \in Ticket : item[t] \in Waiting ~> item[t] \notin Waiting
=============================================================================
