----------------------------- MODULE StopUpdate -----------------------------
(***************************************************************************)
(* How the stop loss of one managed position is moved.                     *)
(*                                                                         *)
(* On a tick the server may decide on a tighter stop.  The command gets an *)
(* id made of the account, the ticket and the exact stop, so there is one  *)
(* durable row per stop; a copy of the newest command waits in memory and  *)
(* is handed to the polling EA until a receipt ends it.  The EA modifies   *)
(* the position and posts a receipt with the stop the broker then shows.   *)
(* Ticks and polls run in worker threads, the receipt handler runs on the  *)
(* event loop: they interleave between the handler's writes.               *)
(*                                                                         *)
(* Stops of a buy position, ordered: a greater number is a tighter stop.   *)
(* A sell position is the mirror image.                                    *)
(***************************************************************************)
EXTENDS Naturals, FiniteSets

CONSTANTS
    Top,            \* the tightest stop the strategy asks for
    Transient,      \* may the broker refuse a stop for the moment?
    Lossy,          \* may responses and receipts get lost, the server stop?
    Ratchet         \* does the strategy never ask for less than it has asked?

Stop == 1..Top      \* the position was opened with stop 1
None == 0           \* no stop pending, no command in memory

ASSUME TopAssumption == Top \in Nat \ {0}
ASSUME ModeAssumption == {Transient, Lossy, Ratchet} \subseteq BOOLEAN

VARIABLES
    row,        \* status of the command's row, by stop
    queued,     \* the command in memory
    cooling,    \* commands delivered less than three seconds ago
    managed,    \* the position's state in the engine
    view,       \* the stop in the server's copy of the position
    listed,     \* the server's copy still lists the position
    report,     \* the receipt kept for the command, by stop
    posts,      \* receipts on their way
    srvPc,      \* next statement of the receipt handler
    srvStop,    \* the command its receipt is about
    inbox,      \* commands of the response the EA works through
    sent,       \* the receipt the EA waits to be answered, if any
    broker,     \* the stop at the broker
    open,       \* the position is open at the broker
    reached,    \* history: stops the broker has accepted
    asked       \* history: the tightest stop asked for

copy == <<view, listed>>
serverVars == <<row, queued, cooling, managed, copy, report, srvPc, srvStop, asked>>
eaVars == <<inbox, sent, broker, open, reached>>
vars == <<serverVars, posts, eaVars>>

Live == {"pending", "delivered"}
Status == {"absent", "executed", "canceled", "failed", "superseded"} \cup Live
Verdict == {"done", "transient", "refused"}
Receipt == [stop : Stop, verdict : Verdict, actual : Stop]
NoReceipt == [stop |-> None, verdict |-> "none", actual |-> None]

Empty == [stop |-> None, status |-> "absent"]
Unmanaged == [on |-> FALSE, stop |-> None, pending |-> None]

Init ==
    /\ row = [s \in Stop |-> "absent"]
    /\ queued = Empty
    /\ cooling = {}
    /\ managed = Unmanaged
    /\ view = 1 /\ listed = TRUE
    /\ report = [s \in Stop |-> NoReceipt]
    /\ posts = {}
    /\ srvPc = "idle" /\ srvStop = None
    /\ inbox = {}
    /\ sent = NoReceipt
    /\ broker = 1 /\ open = TRUE /\ reached = {1}
    /\ asked = 1

----------------------------------------------------------------------------
(* A tick: _manage_strategy_positions and _queue_position_update_...       *)

MaxStop(a, b) == IF a > b THEN a ELSE b

(* The engine's state after the broker's stop and the pending stop have    *)
(* been merged into it.                                                    *)
Merged ==
    LET old == IF managed.on THEN managed ELSE [on |-> TRUE, stop |-> view, pending |-> None]
        pending == IF view >= old.pending THEN None ELSE old.pending
    IN  [on |-> TRUE, pending |-> pending,
         stop |-> IF pending # None THEN pending ELSE MaxStop(old.stop, view)]

\* Mutant: the new command leaves the rows of older ones alone.
QueueUpdateBeside(s) ==
    LET status == IF row[s] = "absent" THEN "pending" ELSE row[s] IN
    /\ row' = [row EXCEPT ![s] = status]
    /\ queued' = [stop |-> s, status |-> status]

(* An older command of the position that is still live is superseded; the  *)
(* new one takes over what its row already says, its status included.      *)
QueueUpdate(s) ==
    LET status == IF row[s] = "absent" THEN "pending" ELSE row[s] IN
    /\ row' = [o \in Stop |-> IF o = s THEN status
                              ELSE IF row[o] \in Live THEN "superseded" ELSE row[o]]
    /\ queued' = [stop |-> s, status |-> status]

ManageTick ==
    /\ listed
    /\ managed' = Merged
    /\ UNCHANGED <<row, queued, cooling, copy, report, srvPc, srvStop, posts, eaVars, asked>>

Tighten(s) ==
    /\ listed
    /\ s > Merged.stop
    /\ Ratchet => s >= asked
    /\ managed' = [on |-> TRUE, stop |-> s, pending |-> s]
    /\ QueueUpdate(s)
    /\ asked' = MaxStop(asked, s)
    /\ UNCHANGED <<cooling, copy, report, srvPc, srvStop, posts, eaVars>>

----------------------------------------------------------------------------
(* GET /get_trades: _deliver_position_update_instructions.                 *)

(* The commands a poll returns, at most one per position.                  *)
DueUpdates == IF queued.status \in Live /\ listed /\ queued.stop \notin cooling
              THEN {queued.stop} ELSE {}

\* Mutant: a command leaves the memory with the first response it is put in.
DeliverOnce ==
    IF queued.status \in Live /\ ~listed
    THEN /\ row' = [row EXCEPT ![queued.stop] = "canceled"]
         /\ queued' = Empty
         /\ managed' = Unmanaged
         /\ UNCHANGED cooling
    ELSE /\ row' = [s \in Stop |-> IF s \in DueUpdates THEN "delivered" ELSE row[s]]
         /\ queued' = IF DueUpdates = {} THEN queued ELSE Empty
         /\ cooling' = cooling \cup DueUpdates
         /\ UNCHANGED managed

Deliver ==
    IF queued.status \in Live /\ ~listed
    THEN /\ row' = [row EXCEPT ![queued.stop] = "canceled"]
         /\ queued' = Empty
         /\ managed' = Unmanaged
         /\ UNCHANGED cooling
    ELSE /\ row' = [s \in Stop |-> IF s \in DueUpdates THEN "delivered" ELSE row[s]]
         /\ queued' = IF DueUpdates = {} THEN queued ELSE [queued EXCEPT !.status = "delivered"]
         /\ cooling' = cooling \cup DueUpdates
         /\ UNCHANGED managed

GetUpdates ==
    /\ inbox = {} /\ sent = NoReceipt
    /\ Deliver
    /\ inbox' = DueUpdates
    /\ UNCHANGED <<copy, report, srvPc, srvStop, posts, sent, broker, open, reached, asked>>

GetUpdatesLost ==
    /\ Lossy
    /\ Deliver
    /\ UNCHANGED <<copy, report, srvPc, srvStop, posts, eaVars, asked>>

RetryDelayElapses(s) ==
    /\ s \in cooling
    /\ cooling' = cooling \ {s}
    /\ UNCHANGED <<row, queued, managed, copy, report, srvPc, srvStop, posts, eaVars, asked>>

(* POST /ea/positions: the server's copy becomes the broker's state.       *)
PositionsReported ==
    /\ inbox = {} /\ sent = NoReceipt
    /\ view' = broker /\ listed' = open
    /\ UNCHANGED <<row, queued, cooling, managed, report, srvPc, srvStop, posts, eaVars, asked>>

----------------------------------------------------------------------------
(* POST /ea/trade_execution for an action position_modify_sl.              *)

(* The first receipt of a command is kept; only a success replaces a       *)
(* failure, and any other receipt is answered from the kept one.           *)
RecordReceipt(p) ==
    /\ srvPc = "idle"
    /\ p \in posts
    /\ posts' = posts \ {p}
    /\ report' = [report EXCEPT ![p.stop] =
                    IF @ = NoReceipt \/ (@.verdict # "done" /\ p.verdict = "done") THEN p ELSE @]
    /\ srvPc' = "row" /\ srvStop' = p.stop
    /\ UNCHANGED <<row, queued, cooling, managed, copy, eaVars, asked>>

\* Mutant: a final refusal passes for a success.
StatusOfLenient(r) == IF r.verdict = "transient" THEN "pending" ELSE "executed"

(* The status a receipt gives its command.  (The code also cancels on a    *)
(* message that says the position is missing; the EA posts none such.)     *)
StatusOf(r) ==
    IF r.verdict = "done" THEN "executed"
    ELSE IF r.verdict = "transient" THEN "pending"
    ELSE "failed"

(* A success for a row that is executed already ends the handler.          *)
RepeatsSuccess == report[srvStop].verdict = "done" /\ row[srvStop] = "executed"

WriteUpdateRow ==
    /\ srvPc = "row"
    /\ row' = [row EXCEPT ![srvStop] = StatusOf(report[srvStop])]
    /\ cooling' = IF StatusOf(report[srvStop]) = "pending" THEN cooling \ {srvStop} ELSE cooling
    /\ srvPc' = IF RepeatsSuccess THEN "answer" ELSE "memory"
    /\ UNCHANGED <<queued, managed, copy, report, srvStop, posts, eaVars, asked>>

\* Mutant: the engine takes the stop it asked for instead of the broker's.
SettledAsAsked(actual) ==
    IF managed.on THEN [on |-> TRUE, stop |-> srvStop, pending |-> None] ELSE managed

(* The receipt's actual stop becomes the engine's, with nothing pending.   *)
Settled(actual) == IF managed.on THEN [on |-> TRUE, stop |-> actual, pending |-> None] ELSE managed

(* The engine's state and its queue take the result.  A failure empties    *)
(* the queue of the position, whichever command waits there, and a         *)
(* transient one puts its own command back in its place.                   *)
ApplyUpdateReceipt ==
    /\ srvPc = "memory"
    /\ LET status == StatusOf(report[srvStop])
           actual == report[srvStop].actual
       IN  /\ managed' = IF status = "pending" THEN managed
                         ELSE Settled(actual)
           /\ queued' = IF status = "pending" THEN [stop |-> srvStop, status |-> "pending"]
                        ELSE IF status = "failed" \/ queued.stop = srvStop THEN Empty
                        ELSE queued
    /\ srvPc' = "answer"
    /\ UNCHANGED <<row, cooling, copy, report, srvStop, posts, eaVars, asked>>

(* The response; the EA goes on if it is still waiting for it.             *)
Answer(heard) ==
    /\ srvPc = "answer"
    /\ heard \/ Lossy
    /\ heard => sent.stop = srvStop
    /\ sent' = IF heard THEN NoReceipt ELSE sent
    /\ srvPc' = "idle" /\ srvStop' = None
    /\ UNCHANGED <<row, queued, cooling, managed, copy, report, posts, inbox, broker, open, reached, asked>>

LosePost(p) ==
    /\ Lossy
    /\ p \in posts
    /\ posts' = posts \ {p}
    /\ UNCHANGED <<serverVars, eaVars>>

(* The live rows are reloaded in the order of their creation, one command  *)
(* per position: any of them may be the last.                              *)
ServerRestart(s) ==
    /\ Lossy
    /\ IF \A o \in Stop : row[o] \notin Live THEN s = None ELSE s \in Stop /\ row[s] \in Live
    /\ queued' = IF s = None THEN Empty ELSE [stop |-> s, status |-> row[s]]
    /\ managed' = Unmanaged
    /\ posts' = {}
    /\ srvPc' = "idle" /\ srvStop' = None
    /\ UNCHANGED <<row, cooling, copy, report, eaVars, asked>>

----------------------------------------------------------------------------
(* The EA.                                                                 *)

Modify(s, verdict, actual) ==
    /\ s \in inbox
    /\ inbox' = inbox \ {s}
    /\ sent' = [stop |-> s, verdict |-> verdict, actual |-> actual]
    /\ posts' = posts \cup {sent'}
    /\ UNCHANGED serverVars

ModifyDone(s) ==
    /\ open
    /\ Modify(s, "done", s)
    /\ broker' = s /\ reached' = reached \cup {s}
    /\ UNCHANGED open

(* The price is too close for the moment, or the broker refuses.           *)
ModifyRefused(s, verdict) ==
    /\ open
    /\ s # broker
    /\ verdict = "refused" \/ Transient
    /\ Modify(s, verdict, broker)
    /\ UNCHANGED <<broker, open, reached>>

(* A position that is closed cannot be selected: nothing is posted.        *)
SkipClosed(s) ==
    /\ ~open
    /\ s \in inbox
    /\ inbox' = inbox \ {s}
    /\ UNCHANGED <<serverVars, posts, sent, broker, open, reached>>

PositionCloses ==
    /\ open
    /\ open' = FALSE
    /\ UNCHANGED <<serverVars, posts, inbox, sent, broker, reached>>

(* No answer within three seconds: the receipt is posted again, or, after  *)
(* three attempts, given up.                                               *)
PostAgain ==
    /\ Lossy
    /\ sent # NoReceipt /\ sent \notin posts
    /\ posts' = posts \cup {sent}
    /\ UNCHANGED <<serverVars, eaVars>>

GiveUpPosting ==
    /\ Lossy
    /\ sent # NoReceipt
    /\ sent' = NoReceipt
    /\ UNCHANGED <<serverVars, posts, inbox, broker, open, reached>>

----------------------------------------------------------------------------
Next ==
    \/ ManageTick
    \/ \E s \in Stop : Tighten(s)
    \/ GetUpdates
    \/ GetUpdatesLost
    \/ \E s \in Stop : RetryDelayElapses(s)
    \/ PositionsReported
    \/ \E p \in posts : RecordReceipt(p)
    \/ WriteUpdateRow
    \/ ApplyUpdateReceipt
    \/ \E heard \in BOOLEAN : Answer(heard)
    \/ \E p \in posts : LosePost(p)
    \/ \E s \in Stop \cup {None} : ServerRestart(s)
    \/ \E s \in inbox : ModifyDone(s)
    \/ \E s \in inbox, verdict \in {"transient", "refused"} : ModifyRefused(s, verdict)
    \/ \E s \in inbox : SkipClosed(s)
    \/ PositionCloses
    \/ PostAgain
    \/ GiveUpPosting

Spec == Init /\ [][Next]_vars

(* Ticks of the strategy are left to chance.  The rest assumes that what   *)
(* is tried again and again gets through in the end: responses, receipts,  *)
(* a handler between two restarts, and a stop the broker refused at first. *)
Fairness ==
    /\ SF_vars(GetUpdates)
    /\ WF_vars(PositionsReported)
    /\ \A s \in Stop :
        /\ WF_vars(RetryDelayElapses(s))
        /\ SF_vars(ModifyDone(s))
        /\ WF_vars(SkipClosed(s))
    /\ SF_vars(\E p \in posts : RecordReceipt(p))
    /\ SF_vars(WriteUpdateRow)
    /\ SF_vars(ApplyUpdateReceipt)
    /\ WF_vars(\E heard \in BOOLEAN : Answer(heard))
    /\ WF_vars(GiveUpPosting)

FairSpec == Spec /\ Fairness

----------------------------------------------------------------------------
(* Types. *)
TypeOK ==
    /\ row \in [Stop -> Status]
    /\ queued \in [stop : Stop, status : Status \ {"absent"}] \cup {Empty}
    /\ cooling \subseteq Stop
    /\ managed \in [on : {TRUE}, stop : Stop, pending : Stop \cup {None}] \cup {Unmanaged}
    /\ view \in Stop /\ listed \in BOOLEAN
    /\ report \in [Stop -> Receipt \cup {NoReceipt}]
    /\ posts \subseteq Receipt
    /\ srvPc \in {"idle", "row", "memory", "answer"}
    /\ srvStop \in Stop \cup {None}
    /\ inbox \subseteq Stop
    /\ sent \in Receipt \cup {NoReceipt}
    /\ broker \in Stop /\ open \in BOOLEAN
    /\ reached \subseteq Stop /\ asked \in Stop

(* A command is reported as executed only when the broker has really had   *)
(* that stop, whichever of its receipts was kept and whatever a poll wrote *)
(* in between.                                                             *)
ExecutedIsTrue == \A s \in Stop : row[s] = "executed" => s \in reached

(* With no stop pending, the stop the engine reasons from is one the       *)
(* broker has really had: refusals, superseded commands, stale position    *)
(* reports and restarts never leave it believing in an unconfirmed stop.   *)
BeliefIsBacked == managed.on /\ managed.pending = None => managed.stop \in reached

(* Two commands of the position that nobody has answered are never both    *)
(* live in the durable rows, of which a restart reloads any: superseding,  *)
(* restarts and repeated stops leave one; only a receipt revives another.  *)
OneLiveRow ==
    \A s, o \in Stop : row[s] \in Live /\ row[o] \in Live /\ s # o =>
        report[s] # NoReceipt \/ report[o] # NoReceipt

(* "Never let a delayed retry loosen protection again": the stop at the    *)
(* broker only moves towards the price.                                    *)
NeverLoosen == [][broker' >= broker]_vars

(* A command in delivery is answered by a receipt the server keeps, or the *)
(* position is closed, or another command has come in between, however     *)
(* often responses and receipts are lost, the broker refuses for the       *)
(* moment and the server restarts.                                         *)
UpdateIsAnswered ==
    \A s \in Stop :
        queued = [stop |-> s, status |-> "delivered"]
            ~> report[s] # NoReceipt \/ ~open \/ \E o \in Stop \ {s} : row[o] # "absent"
=============================================================================
