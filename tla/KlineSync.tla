----------------------------- MODULE KlineSync -----------------------------
(***************************************************************************)
(* The closed bars of one symbol and period on their way from the          *)
(* terminals (mt5TerminalEA.mq5) over the cursor and upload routes into the *)
(* memory of the engine and the table historical_klines.  A bar is its      *)
(* number; the broker has closed 1..clock.  The routes are coroutines that  *)
(* wait only for the body of the request: one request is handled as a       *)
(* whole, up to the statement that fails.                                   *)
(*                                                                         *)
(* `source` is the terminal the market-source policy has made the primary   *)
(* (MarketSource); any other is answered 200 and ignored.                   *)
(***************************************************************************)
EXTENDS Integers, FiniteSetsExt

CONSTANTS
    Terminals,
    FullCount,   \* bars of a full upload
    Batch,       \* KLINE_GAP_BATCH_SIZE
    Keep,        \* MAX_KLINES of the period, and the limit of a restore
    Horizon,     \* bars the retention leaves
    MaxBars,     \* bound: bars that close
    MaxFaults,   \* bound: requests, statements and answers lost
    MaxRestarts, \* bound: restarts of the server or of a terminal
    MaxMoves     \* bound: changes of the source, and deletions of the retention

VARIABLES
    clock,
    table,   \* historical_klines
    memory,  \* KlineStore._klines
    ready,   \* KlineStore._initialized
    source,
    ea,      \* each terminal: is the bootstrap done, the bar it has checked last, and its request
    faults, restarts, moves
vars == <<clock, table, memory, ready, source, ea, faults, restarts, moves>>
counts == <<faults, restarts, moves>>

Bars == 1..MaxBars
Newest(S) == IF S = {} THEN 0 ELSE Max(S)
Latest(S, n) == {b \in S : Cardinality({c \in S : c >= b}) <= n}

NoPost == [bars |-> {}, full |-> FALSE, upTo |-> 0]
Fresh == [boot |-> FALSE, done |-> 0, at |-> "idle", cursor |-> 0, post |-> NoPost]

Init ==
    /\ clock = 0 /\ table = {} /\ memory = {} /\ ready = FALSE
    /\ source \in Terminals
    /\ ea = [t \in Terminals |-> Fresh]
    /\ faults = 0 /\ restarts = 0 /\ moves = 0

TypeOK ==
    /\ clock \in 0..MaxBars /\ table \subseteq Bars /\ memory \subseteq Bars
    /\ ready \in BOOLEAN /\ source \in Terminals
    /\ ea \in [Terminals -> [boot : BOOLEAN, done : 0..MaxBars, at : {"idle", "cursor", "sent"},
                             cursor : 0..MaxBars,
                             post : [bars : SUBSET Bars, full : BOOLEAN, upTo : 0..MaxBars]]]

BarCloses ==
    /\ clock < MaxBars
    /\ clock' = clock + 1
    /\ UNCHANGED <<table, memory, ready, source, ea, counts>>

----------------------------------------------------------------------------

(* _restore_kline_memory: only what has not been filled since the start.    *)
Restores == ~ready /\ table # {}
Restored == IF Restores THEN Latest(table, Keep) ELSE memory

(* CheckAndPushIncrementalKlines: before the bootstrap is done, and after it
   for a bar that was not checked.  get_ea_kline_cursor fills the memory and
   answers the newest stored bar. *)
Due(t) == ea[t].at = "idle" /\ clock > 0 /\ (~ea[t].boot \/ ea[t].done # clock)
AskCursor(t) ==
    /\ Due(t)
    /\ memory' = Restored /\ ready' = (ready \/ Restores)
    /\ \/ /\ ea' = [ea EXCEPT ![t].at = "cursor", ![t].cursor = Newest(table)]
          /\ UNCHANGED faults
       \/ /\ faults < MaxFaults /\ faults' = faults + 1
          /\ UNCHANGED ea
    /\ UNCHANGED <<clock, table, source, restarts, moves>>

(* SyncKlineGap said yes: a period of the bootstrap, or the bar, is done.   *)
Checked(e, bar) == [e EXCEPT !.boot = TRUE, !.done = IF e.boot THEN bar ELSE @,
                             !.at = "idle", !.cursor = 0, !.post = NoPost]

(* SyncKlineGap: everything when the server has nothing or a later bar,
   nothing when it has the newest, else the oldest bars it misses. *)
\* Mutant: the newest bars that are missing go first.
GapNewestFirst(from, to) == {b \in (from + 1)..to : b > to - Batch}
Gap(from, to) == {b \in (from + 1)..to : b <= from + Batch}
Send(t) ==
    /\ ea[t].at = "cursor"
    /\ LET from == ea[t].cursor IN
         ea' = [ea EXCEPT ![t] =
             IF from = clock THEN Checked(@, clock)
             ELSE [@ EXCEPT !.at = "sent", !.post =
                 IF from = 0 \/ from > clock
                 THEN [bars |-> Latest(1..clock, FullCount), full |-> ~ea[t].boot, upTo |-> clock]
                 ELSE [bars |-> Gap(from, clock), full |-> FALSE, upTo |-> clock]]]
    /\ UNCHANGED <<clock, table, memory, ready, source, counts>>

(* save_klines: a full upload empties the list; the newest are kept.        *)
\* Mutant: every upload empties the list.
SavedAlone(old, p) == Latest(p.bars, Keep)
Saved(old, p) == Latest(IF p.full THEN p.bars ELSE old \cup p.bars, Keep)

Again(e) == [e EXCEPT !.at = "idle", !.cursor = 0, !.post = NoPost]
Answered(t) ==
    LET p == ea[t].post IN
    ea' = [ea EXCEPT ![t] = IF p.full \/ Newest(p.bars) >= p.upTo THEN Checked(@, p.upTo) ELSE Again(@)]
\* Mutant: a request that failed counts as checked.
UnansweredChecked(t) == ea' = [ea EXCEPT ![t] = Checked(@, ea[t].post.upTo)]
Unanswered(t) == ea' = [ea EXCEPT ![t] = Again(@)]

(* receive_kline of another account's terminal: ignored, but 200.           *)
Ignore(t) ==
    /\ ea[t].at = "sent" /\ t # source
    /\ Answered(t)
    /\ UNCHANGED <<clock, table, memory, ready, source, counts>>

(* An incremental upload into a memory that could not be restored: 8888.    *)
Filled == ready \/ table # {}
NeedFull(t) ==
    /\ ea[t].at = "sent" /\ t = source /\ ~ea[t].post.full /\ ~Filled
    /\ ea' = [ea EXCEPT ![t] = [Again(@) EXCEPT !.boot = FALSE]]
    /\ UNCHANGED <<clock, table, memory, ready, source, counts>>

(* process_batch: memory first, then the table.                             *)
\* Mutant: what the table holds is not restored before an upload.
AcceptedUnrestored(p) == Saved(memory, p)
Accepted(p) == Saved(Restored, p)
Receive(t) ==
    /\ ea[t].at = "sent" /\ t = source /\ (ea[t].post.full \/ Filled)
    /\ memory' = Accepted(ea[t].post) /\ ready' = TRUE
    /\ table' = table \cup ea[t].post.bars
    /\ Answered(t)
    /\ UNCHANGED <<clock, source, counts>>

(* The request is lost; the statement on the table fails, with the bars in
   memory; what follows fails, or the answer is lost. *)
Spoil(t) ==
    /\ ea[t].at = "sent" /\ faults < MaxFaults
    /\ faults' = faults + 1
    /\ \/ UNCHANGED <<table, memory, ready>>
       \/ /\ t = source /\ (ea[t].post.full \/ Filled)
          /\ memory' = Accepted(ea[t].post) /\ ready' = TRUE
          /\ table' \in {table, table \cup ea[t].post.bars}
    /\ Unanswered(t)
    /\ UNCHANGED <<clock, source, restarts, moves>>

----------------------------------------------------------------------------

ServerRestarts ==
    /\ restarts < MaxRestarts /\ restarts' = restarts + 1
    /\ memory' = {} /\ ready' = FALSE
    /\ ea' = [t \in Terminals |-> IF ea[t].at = "sent" THEN Again(ea[t]) ELSE ea[t]]
    /\ UNCHANGED <<clock, table, source, faults, moves>>

TerminalRestarts(t) ==
    /\ restarts < MaxRestarts /\ restarts' = restarts + 1
    /\ ea' = [ea EXCEPT ![t] = Fresh]
    /\ UNCHANGED <<clock, table, memory, ready, source, faults, moves>>

(* The source was quiet for minutes: no request of it is on the way, and one
   of the new source was begun after the last of the old. *)
SourceMoves(t) ==
    /\ moves < MaxMoves /\ moves' = moves + 1
    /\ t # source /\ ea[source].at = "idle"
    /\ ea[t].at # "idle" => ea[t].cursor = Newest(table)
    /\ source' = t
    /\ UNCHANGED <<clock, table, memory, ready, ea, faults, restarts>>

(* DataRetentionService.cleanup: days old, so no request is on the way.     *)
Cleanup ==
    /\ moves < MaxMoves /\ moves' = moves + 1
    /\ \A t \in Terminals : ea[t].at = "idle"
    /\ table' = {b \in table : b > clock - Horizon}
    /\ UNCHANGED <<clock, memory, ready, source, ea, faults, restarts>>

Upload(t) == AskCursor(t) \/ Send(t) \/ Ignore(t) \/ NeedFull(t) \/ Receive(t)
Next == \/ BarCloses \/ ServerRestarts \/ Cleanup
        \/ \E t \in Terminals : Upload(t) \/ Spoil(t) \/ TerminalRestarts(t) \/ SourceMoves(t)
Spec == Init /\ [][Next]_vars
Fairness == \A t \in Terminals : WF_vars(Upload(t))

----------------------------------------------------------------------------

(* No bar between the oldest and the newest stored one is missing, whatever
   was lost, restarted or taken over: the cursor is the newest bar alone. *)
TableIsWhole == table # {} => table = Min(table)..Max(table)

(* A memory that is in use is not behind the table, has what the table has in
   its span, and no fewer bars than a full upload brings, if the table has them. *)
MemoryKeepsUp == ready =>
    /\ Newest(memory) >= Newest(table)
    /\ {b \in table : b >= Min(memory)} \subseteq memory
    /\ Cardinality(memory) >= Min({FullCount, Cardinality(table)})

(* A bar that the source has not checked is stored, unless the source changes
   or a later bar closes: a bar that was lost or refused is sent again. *)
BarsArrive == \A t \in Terminals, b \in Bars :
    source = t /\ clock = b /\ ~(ea[t].boot /\ ea[t].done = b) /\ b \notin table
        ~> b \in table \/ source # t \/ clock > b
=============================================================================
