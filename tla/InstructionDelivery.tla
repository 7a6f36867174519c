------------------------ MODULE InstructionDelivery ------------------------
(***************************************************************************)
(* How one opening order travels from the server to the broker and back.   *)
(*                                                                         *)
(* The server keeps every instruction twice: in the memory of the account  *)
(* engine (TradingInstructionStore) and as a row of runtime_entities.  The *)
(* EA polls GET /get_trades, places the order with the broker, remembers   *)
(* the deal in a terminal global variable and posts an execution receipt   *)
(* to POST /ea/trade_execution, which is kept in trade_execution_reports.  *)
(* Responses and receipts can be lost or late, the server and the EA can   *)
(* restart, and /get_trades runs in a worker thread while the receipt      *)
(* handler runs on the event loop, so it can fall between two of the       *)
(* handler's statements.                                                   *)
(*                                                                         *)
(* One symbol and one chart.  Time is abstracted to the one fact the store *)
(* tests: whether DELIVERY_RETRY_DELAY has passed since the last delivery. *)
(***************************************************************************)
EXTENDS Naturals, FiniteSets

CONSTANTS
    Instr,          \* instruction ids, each used for one instruction
    Droppable,      \* those the EA may drop without a receipt: the volume reads
                    \* as zero, or the symbol is not written as the chart writes it
    MaxAttempts,    \* MAX_DELIVERY_ATTEMPTS of the store
    PostTries,      \* attempts of SendTradeExecutionReport
    DealCrash,      \* may the terminal die between the deal and its record?
    HandlerCrash,   \* may the server die between two writes of a handler?
    NoJob           \* no receipt in hand

Job == [instr : Instr, ok : BOOLEAN, try : 1..PostTries]

ASSUME DroppableAssumption == Droppable \subseteq Instr
ASSUME AttemptsAssumption == MaxAttempts \in Nat \ {0}
ASSUME TriesAssumption == PostTries \in Nat \ {0}
ASSUME CrashAssumption == DealCrash \in BOOLEAN /\ HandlerCrash \in BOOLEAN
ASSUME NoJobAssumption == NoJob \notin Job

VARIABLES
    used,       \* ids add_instruction has been called with
    mem,        \* the engine's copy
    row,        \* the runtime_entities row
    cooling,    \* delivered less than DELIVERY_RETRY_DELAY ago
    report,     \* the trade_execution_reports row
    posts,      \* receipts on their way to the server
    srvPc,      \* next statement of the receipt handler
    srvJob,     \* the receipt it handles
    settled,    \* history: a receipt handler has completed for the id
    handed,     \* history: how often the id was put in a response
    inbox,      \* what is left of the response the EA is working through
    eaPc,       \* next step of the EA
    eaJob,      \* the receipt the EA is about to record or post
    gv,         \* ids with an AITRADE.exec global variable
    deals       \* deals the broker made for the id

serverVars == <<used, mem, row, cooling, report, srvPc, srvJob, settled, handed>>
eaVars == <<inbox, eaPc, eaJob, gv, deals>>
vars == <<serverVars, posts, eaVars>>

Active == {"pending", "delivered"}
Verdict == {"none", "failed", "filled"}
Entry(statuses) == [status : statuses, attempts : 0..MaxAttempts]
MemStatus == {"absent", "timeout"} \cup Active
RowStatus == MemStatus \cup {"filled", "rejected"}
Absent == [status |-> "absent", attempts |-> 0]

Init ==
    /\ used = {}
    /\ mem = [i \in Instr |-> Absent]
    /\ row = [i \in Instr |-> Absent]
    /\ cooling = {}
    /\ report = [i \in Instr |-> "none"]
    /\ posts = {}
    /\ srvPc = "idle" /\ srvJob = NoJob
    /\ settled = {}
    /\ handed = [i \in Instr |-> 0]
    /\ inbox = {}
    /\ eaPc = "idle" /\ eaJob = NoJob
    /\ gv = {}
    /\ deals = [i \in Instr |-> 0]

----------------------------------------------------------------------------
(* The store, under its lock.                                              *)

InMemory(i) == mem[i].status # "absent"

AddInstruction(i) ==
    /\ i \notin used
    /\ used' = used \cup {i}
    /\ mem' = [mem EXCEPT ![i] = [status |-> "pending", attempts |-> 0]]
    /\ row' = [row EXCEPT ![i] = [status |-> "pending", attempts |-> 0]]
    /\ UNCHANGED <<cooling, report, posts, srvPc, srvJob, settled, handed, eaVars>>

\* Mutant: a delivered instruction is never due again.
DueNever == {}

(* Delivered instructions whose retry delay has passed: sent again, or     *)
(* given up once they have used their attempts.                            *)
Due == {i \in Instr : mem[i].status = "delivered" /\ i \notin cooling}

Exhausted == {i \in Due : mem[i].attempts >= MaxAttempts}

(* What fetch_and_remove_by_symbol makes of an entry when the pending      *)
(* instructions in priced pass the price filter.                           *)
Sent(priced) == {i \in priced : mem[i].status = "pending"} \cup (Due \ Exhausted)

AfterFetch(i, priced) ==
    IF i \in Sent(priced) THEN [status |-> "delivered", attempts |-> mem[i].attempts + 1]
    ELSE IF i \in Exhausted THEN [mem[i] EXCEPT !.status = "timeout"]
    ELSE mem[i]

(* The status sent/delivered/timeout is persisted entry by entry.          *)
Fetch(priced) ==
    /\ mem' = [i \in Instr |-> AfterFetch(i, priced)]
    /\ row' = [i \in Instr |-> IF i \in Sent(priced) \cup Exhausted
                               THEN AfterFetch(i, priced) ELSE row[i]]
    /\ cooling' = cooling \cup Sent(priced)
    /\ handed' = [i \in Instr |-> IF i \in Sent(priced) THEN handed[i] + 1 ELSE handed[i]]
    /\ UNCHANGED <<used, report, posts, srvPc, srvJob, settled>>

(* GET /get_trades: the response reaches the EA, which asks only when it   *)
(* has finished with the previous one ...                                  *)
GetTrades(priced) ==
    /\ eaPc = "idle" /\ inbox = {}
    /\ Fetch(priced)
    /\ inbox' = Sent(priced)
    /\ UNCHANGED <<eaPc, eaJob, gv, deals>>

(* ... or it does not, because of a lost response or a request the EA has  *)
(* already given up on.                                                    *)
GetTradesLost(priced) ==
    /\ Fetch(priced)
    /\ UNCHANGED eaVars

(* Entries are not allowed, the market source is blocked, or an operator   *)
(* clears the queue: every entry and row of the symbol goes.               *)
ClearBySymbol ==
    /\ \E i \in Instr : InMemory(i)
    /\ mem' = [i \in Instr |-> Absent]
    /\ row' = [i \in Instr |-> Absent]
    /\ UNCHANGED <<used, cooling, report, posts, srvPc, srvJob, settled, handed, eaVars>>

RetryDelayElapses(i) ==
    /\ i \in cooling
    /\ cooling' = cooling \ {i}
    /\ UNCHANGED <<used, mem, row, report, posts, srvPc, srvJob, settled, handed, eaVars>>

\* Mutant: any recorded receipt counts as a fill.
FinalStatusOfAny(i) == IF report[i] # "none" THEN "filled" ELSE "rejected"

(* The final status a recorded receipt stands for.                         *)
FinalStatus(i) == IF report[i] = "filled" THEN "filled" ELSE "rejected"

(* _reconcile_execution_reports, run by every dashboard read: entries with *)
(* a recorded receipt leave the memory with that receipt's status.         *)
Reported == {i \in Instr : mem[i].status \in Active /\ report[i] # "none"}

Reconcile ==
    /\ Reported # {}
    /\ row' = [i \in Instr |-> IF i \in Reported
                               THEN [mem[i] EXCEPT !.status = FinalStatus(i)] ELSE row[i]]
    /\ mem' = [i \in Instr |-> IF i \in Reported THEN Absent ELSE mem[i]]
    /\ UNCHANGED <<used, cooling, report, posts, srvPc, srvJob, settled, handed, eaVars>>

----------------------------------------------------------------------------
(* POST /ea/trade_execution: three committed writes, one handler at a time.*)

(* TradeExecutionRepository.record up to the receipt row: the first        *)
(* receipt is stored, a failed one may still become filled, and anything   *)
(* else is a duplicate that changes nothing.                               *)
RecordReceipt(p) ==
    /\ srvPc = "idle"
    /\ p \in posts
    /\ report' = [report EXCEPT ![p.instr] =
                    IF p.ok THEN "filled" ELSE IF @ = "none" THEN "failed" ELSE @]
    /\ posts' = posts \ {p}
    /\ srvPc' = "sync" /\ srvJob' = p
    /\ UNCHANGED <<used, mem, row, cooling, settled, handed, eaVars>>

\* Mutant: the durable row is left to the memory store.
SyncNothing ==
    /\ srvPc = "sync"
    /\ srvPc' = "mark"
    /\ UNCHANGED <<used, mem, row, cooling, report, posts, srvJob, settled, handed, eaVars>>

(* _sync_instruction_state: the durable row takes the receipt's status.    *)
SyncInstructionRow ==
    /\ srvPc = "sync"
    /\ row' = [row EXCEPT ![srvJob.instr].status =
                 IF @ = "absent" THEN @ ELSE FinalStatus(srvJob.instr)]
    /\ srvPc' = "mark"
    /\ UNCHANGED <<used, mem, cooling, report, posts, srvJob, settled, handed, eaVars>>

\* Mutant: the entry leaves the memory and its row is not persisted.
MarkInMemoryOnly(heard) ==
    /\ srvPc = "mark"
    /\ mem' = [mem EXCEPT ![srvJob.instr] = Absent]
    /\ settled' = settled \cup {srvJob.instr}
    /\ srvPc' = "idle" /\ srvJob' = NoJob
    /\ IF heard
       THEN /\ eaPc = "wait" /\ eaJob = srvJob
            /\ eaPc' = "idle" /\ eaJob' = NoJob
       ELSE UNCHANGED <<eaPc, eaJob>>
    /\ UNCHANGED <<used, row, cooling, report, posts, handed, inbox, gv, deals>>

(* mark_execution_report stops the delivery of an entry still in memory;   *)
(* the handler then answers, and the EA stops retrying if it hears it.     *)
MarkExecutionReport(heard) ==
    /\ srvPc = "mark"
    /\ LET i == srvJob.instr IN
         /\ row' = IF InMemory(i)
                   THEN [row EXCEPT ![i] = [mem[i] EXCEPT !.status = FinalStatus(i)]]
                   ELSE row
         /\ mem' = [mem EXCEPT ![i] = Absent]
         /\ settled' = settled \cup {i}
    /\ srvPc' = "idle" /\ srvJob' = NoJob
    /\ IF heard
       THEN /\ eaPc = "wait" /\ eaJob = srvJob
            /\ eaPc' = "idle" /\ eaJob' = NoJob
       ELSE UNCHANGED <<eaPc, eaJob>>
    /\ UNCHANGED <<used, cooling, report, posts, handed, inbox, gv, deals>>

LosePost(p) ==
    /\ p \in posts
    /\ posts' = posts \ {p}
    /\ UNCHANGED <<serverVars, eaVars>>

(* The server process stops, with the handler it was running and the       *)
(* requests it had accepted, and reloads the active rows.                  *)
ServerRestart ==
    /\ srvPc # "idle" => HandlerCrash
    /\ mem' = [i \in Instr |-> IF row[i].status \in Active THEN row[i] ELSE Absent]
    /\ posts' = {}
    /\ srvPc' = "idle" /\ srvJob' = NoJob
    /\ UNCHANGED <<used, row, cooling, report, settled, handed, eaVars>>

----------------------------------------------------------------------------
(* The EA: OnTick and OnTimer of one chart never overlap, so it works      *)
(* through one response, one instruction and one receipt at a time.        *)

Post(i, ok) == eaPc' = "post" /\ eaJob' = [instr |-> i, ok |-> ok, try |-> 1]

Take(i) ==
    /\ eaPc = "idle"
    /\ i \in inbox
    /\ inbox' = inbox \ {i}

(* A delivered instruction with a recorded deal is not ordered again; its  *)
(* receipt is sent again.                                                  *)
ResendReceipt(i) ==
    /\ Take(i)
    /\ i \in gv
    /\ Post(i, TRUE)
    /\ UNCHANGED <<serverVars, posts, gv, deals>>

DropUnfit(i) ==
    /\ Take(i)
    /\ i \in Droppable \ gv
    /\ UNCHANGED <<serverVars, posts, eaPc, eaJob, gv, deals>>

(* The stop is invalid, or the broker refuses the order: nothing is        *)
(* recorded on the terminal.                                               *)
OrderRefused(i) ==
    /\ Take(i)
    /\ i \notin gv
    /\ Post(i, FALSE)
    /\ UNCHANGED <<serverVars, posts, gv, deals>>

\* Mutant: the order is placed without a look at the idempotency record.
OrderDealtUnchecked(i) ==
    /\ Take(i)
    /\ deals' = [deals EXCEPT ![i] = @ + 1]
    /\ eaPc' = "mark" /\ eaJob' = [instr |-> i, ok |-> TRUE, try |-> 1]
    /\ UNCHANGED <<serverVars, posts, gv>>

OrderDealt(i) ==
    /\ Take(i)
    /\ i \notin gv
    /\ deals' = [deals EXCEPT ![i] = @ + 1]
    /\ eaPc' = "mark" /\ eaJob' = [instr |-> i, ok |-> TRUE, try |-> 1]
    /\ UNCHANGED <<serverVars, posts, gv>>

MarkInstructionExecuted ==
    /\ eaPc = "mark"
    /\ gv' = gv \cup {eaJob.instr}
    /\ eaPc' = "post"
    /\ UNCHANGED <<serverVars, posts, inbox, eaJob, deals>>

SendReceipt ==
    /\ eaPc = "post"
    /\ posts' = posts \cup {eaJob}
    /\ eaPc' = "wait"
    /\ UNCHANGED <<serverVars, inbox, eaJob, gv, deals>>

(* No 200 within the timeout of WebRequest: the next attempt, or none.     *)
ReceiptTimesOut ==
    /\ eaPc = "wait"
    /\ IF eaJob.try < PostTries
       THEN eaPc' = "post" /\ eaJob' = [eaJob EXCEPT !.try = @ + 1]
       ELSE eaPc' = "idle" /\ eaJob' = NoJob
    /\ UNCHANGED <<serverVars, posts, inbox, gv, deals>>

(* Global variables survive; everything else of the EA is lost.            *)
EaRestart ==
    /\ eaPc = "mark" => DealCrash
    /\ inbox' = {}
    /\ eaPc' = "idle" /\ eaJob' = NoJob
    /\ UNCHANGED <<serverVars, posts, gv, deals>>

----------------------------------------------------------------------------
Next ==
    \/ \E i \in Instr : AddInstruction(i)
    \/ \E priced \in SUBSET Instr : GetTrades(priced)
    \/ \E priced \in SUBSET Instr : GetTradesLost(priced)
    \/ ClearBySymbol
    \/ \E i \in Instr : RetryDelayElapses(i)
    \/ Reconcile
    \/ \E p \in posts : RecordReceipt(p)
    \/ SyncInstructionRow
    \/ \E heard \in BOOLEAN : MarkExecutionReport(heard)
    \/ \E p \in posts : LosePost(p)
    \/ ServerRestart
    \/ \E i \in inbox : ResendReceipt(i)
    \/ \E i \in inbox : DropUnfit(i)
    \/ \E i \in inbox : OrderRefused(i)
    \/ \E i \in inbox : OrderDealt(i)
    \/ MarkInstructionExecuted
    \/ SendReceipt
    \/ ReceiptTimesOut
    \/ EaRestart

Spec == Init /\ [][Next]_vars

(* A chart's timer keeps polling and its handlers run to their end; nobody *)
(* promises that a response arrives, that the price is right, or that the  *)
(* server stays up.                                                        *)
Poll == /\ eaPc = "idle" /\ inbox = {}
        /\ \E priced \in SUBSET Instr : GetTrades(priced) \/ GetTradesLost(priced)

EaStep ==
    \/ \E i \in inbox : ResendReceipt(i) \/ DropUnfit(i) \/ OrderRefused(i) \/ OrderDealt(i)
    \/ MarkInstructionExecuted
    \/ SendReceipt
    \/ ReceiptTimesOut

Fairness ==
    /\ WF_vars(Poll)
    /\ WF_vars(EaStep)
    /\ \A i \in Instr : WF_vars(RetryDelayElapses(i))

FairSpec == Spec /\ Fairness

----------------------------------------------------------------------------
(* Types. *)
TypeOK ==
    /\ used \subseteq Instr
    /\ mem \in [Instr -> Entry(MemStatus)]
    /\ row \in [Instr -> Entry(RowStatus)]
    /\ cooling \subseteq Instr
    /\ report \in [Instr -> Verdict]
    /\ posts \subseteq Job
    /\ srvPc \in {"idle", "sync", "mark"}
    /\ srvJob \in Job \cup {NoJob}
    /\ srvPc # "idle" => srvJob \in Job
    /\ settled \subseteq Instr
    /\ handed \in [Instr -> Nat]
    /\ inbox \subseteq Instr
    /\ eaPc \in {"idle", "mark", "post", "wait"}
    /\ eaJob \in Job \cup {NoJob}
    /\ eaPc # "idle" => eaJob \in Job
    /\ gv \subseteq Instr
    /\ deals \in [Instr -> Nat]

(* Redelivery never becomes a second market order: however often responses *)
(* and receipts are lost and whoever restarts, the broker makes at most    *)
(* one deal for an instruction (the claim of the EA's idempotency record). *)
AtMostOneDeal == \A i \in Instr : deals[i] <= 1

(* The server never believes in a deal that was not made: a filled receipt *)
(* row or instruction row is backed by a deal at the broker, through the   *)
(* duplicate, upgrade and reconcile paths.                                 *)
FilledMeansDealt ==
    \A i \in Instr : report[i] = "filled" \/ row[i].status = "filled" => deals[i] >= 1

(* Once a receipt handler has completed for an instruction it is out of    *)
(* delivery for good: neither a poll that ran between the handler's writes *)
(* nor a restart brings it back.                                           *)
SettledIsFinal ==
    \A i \in settled : ~InMemory(i) /\ row[i].status \notin Active

(* The EA is handed an instruction at most MaxAttempts times, counted over *)
(* all restarts of the server.                                             *)
HandoverBounded == \A i \in Instr : handed[i] <= MaxAttempts

(* A filled receipt is never demoted by a late or repeated failed one.     *)
FilledReceiptIsFinal ==
    [][\A i \in Instr : report[i] = "filled" => report'[i] = "filled"]_vars

(* While the server does not stop between two writes of the handler, the   *)
(* row of a settled instruction says what its receipt says.                *)
SettledRowAgrees ==
    srvPc = "idle" =>
        \A i \in settled : row[i].status \in {"absent", FinalStatus(i)}

(* An instruction that was delivered does not stay in delivery for ever:   *)
(* a receipt ends it, or its attempts run out.                             *)
DeliveryEnds ==
    \A i \in Instr : mem[i].status = "delivered" ~> mem[i].status # "delivered"
============================================================================
