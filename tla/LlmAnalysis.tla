----------------------------- MODULE LlmAnalysis -----------------------------
(***************************************************************************)
(* The AI analysis of one user and one symbol (LLMService.run_analysis).   *)
(* Every signal source has an interval and is asked in a request of its    *)
(* own; a round asks the sources that are due one after the other, and     *)
(* saves what it got when it is through, beside the last answers of the    *)
(* sources it did not ask.  A failed format is asked for again at once, an *)
(* exhausted provider is left alone for a while, and a refusal of the      *)
(* governance ends the round.  When a source was asked last is remembered  *)
(* in memory, and after a restart read from the rows of its calls.         *)
(*                                                                         *)
(* An answer is the number of the round that got it.                       *)
(***************************************************************************)
EXTENDS Integers, FiniteSets, Functions

CONSTANTS Sources,      \* numbers: the order in which a round asks
          PeriodOf,     \* the period of each source
          Interval,     \* time between two scheduled questions to a source
          MaxAttempts,  \* MAX_RESPONSE_ATTEMPTS
          Pause,        \* how long an exhausted provider is left alone
          MaxClock, MaxRounds, MaxRestarts

Never == 0 - Interval

VARIABLES clock,
          lastRun,    \* _source_last_analysis_at; a source that is not in it is looked up
          logged,     \* llm_call_logs: the last time of a call of each source
          blocked,    \* _provider_blocked_until
          result,     \* the stored analysis, in memory and in its row
          market,     \* what kline_service says of the symbol
          known,      \* the M1 bars have been received in this process
          round,      \* the round in progress
          rounds, restarts,
          given,      \* the last answer of each source that a round has saved
          broken      \* sources asked by a round that was broken off

vars == <<clock, lastRun, logged, blocked, result, market, known, round, rounds, restarts,
          given, broken>>

First(S) == CHOOSE s \in S : \A t \in S : s <= t
Nobody == 0

NoRound == [pc |-> "idle", todo |-> {}, now |-> Nobody, attempt |-> 0, scheduled |-> FALSE,
            failed |-> {}, answered |-> {}]

(* The answers of a symbol: the suggestions and the snapshot of each source, *)
(* and the trend of each period.                                             *)
NoResult == [sources |-> [s \in {} |-> 0], trends |-> [p \in {} |-> 0], status |-> "none"]

Init ==
    /\ clock = 0
    /\ lastRun = [s \in {} |-> 0] /\ logged = [s \in Sources |-> Never] /\ blocked = 0
    /\ result = NoResult
    /\ market = "active" /\ known = TRUE
    /\ round = NoRound /\ rounds = 0 /\ restarts = 0
    /\ given = NoResult.sources /\ broken = {}

(* Mutant: nothing is looked up after a restart.                            *)
LastRunInMemory(s) == IF s \in DOMAIN lastRun THEN lastRun[s] ELSE Never

(* The time of the last run: what is remembered, else the newest call row.  *)
LastRun(s) == IF s \in DOMAIN lastRun THEN lastRun[s] ELSE logged[s]

IsDue(s) == clock - LastRun(s) >= Interval

Remembered(f, S, t) == [s \in DOMAIN f \cup S |-> IF s \in S THEN t ELSE f[s]]

----------------------------------------------------------------------------
(* The plan of a round: the enabled sources that are not paused, and in a   *)
(* scheduled round only those that are due; a lookup is remembered.         *)
Start ==
    /\ round.pc = "idle" /\ rounds < MaxRounds
    /\ rounds' = rounds + 1
    /\ \E scheduled \in BOOLEAN, running \in (SUBSET Sources) \ {{}} :
          LET plan == IF scheduled THEN {s \in running : IsDue(s)} ELSE running
          IN /\ lastRun' = IF scheduled
                           THEN [s \in DOMAIN lastRun \cup running |-> LastRun(s)] ELSE lastRun
             /\ round' = IF plan = {} THEN NoRound
                         ELSE [NoRound EXCEPT !.pc = "look", !.todo = plan, !.scheduled = scheduled]
    /\ UNCHANGED <<clock, logged, blocked, result, market, known, restarts, given, broken>>

(* A symbol whose bars are old or missing is not analysed; that is noted on *)
(* the stored analysis only by a process that has received its bars.        *)
Look ==
    /\ round.pc = "look"
    /\ result' = IF market # "active" /\ known /\ result.status # "none"
                 THEN [result EXCEPT !.status = market] ELSE result
    /\ round' = IF market = "active" THEN [round EXCEPT !.pc = "next"] ELSE NoRound
    /\ UNCHANGED <<clock, lastRun, logged, blocked, market, known, rounds, restarts, given, broken>>

(* The next source; one whose own bars do not reach is noted as failed, one *)
(* without any is passed over.                                              *)
NextSource ==
    /\ round.pc = "next" /\ round.todo # {}
    /\ LET s == First(round.todo)
           op == [round EXCEPT !.todo = @ \ {s}]
       IN \/ round' = [op EXCEPT !.pc = "ask", !.now = s, !.attempt = 1]
          \/ round' = [op EXCEPT !.failed = @ \cup {s}]
          \/ round' = op
    /\ UNCHANGED <<clock, lastRun, logged, blocked, result, market, known, rounds, restarts,
                   given, broken>>

Failed(r) == [r EXCEPT !.pc = "next", !.failed = @ \cup {r.now}]

(* reserve_call writes the row of the call.  A refusal of the governance is *)
(* not caught by the round and ends it.                                     *)
Refused ==
    /\ round.pc = "ask"
    /\ round' = NoRound
    /\ broken' = broken \cup {s \in Sources : s \in round.answered \cup round.failed \cup {round.now}}
    /\ UNCHANGED <<clock, lastRun, logged, blocked, result, market, known, rounds, restarts, given>>

(* After the row is written, an exhausted provider is not called.           *)
Reserve ==
    /\ round.pc = "ask"
    /\ logged' = [logged EXCEPT ![round.now] = clock]
    /\ round' = IF clock < blocked THEN Failed(round) ELSE [round EXCEPT !.pc = "called"]
    /\ UNCHANGED <<clock, lastRun, blocked, result, market, known, rounds, restarts, given, broken>>

(* The end of a call stamps its row again.                                  *)
Stamp == logged' = [logged EXCEPT ![round.now] = clock]

Answered ==
    /\ round.pc = "called" /\ Stamp
    /\ round' = [round EXCEPT !.pc = "next", !.answered = @ \cup {round.now}]
    /\ UNCHANGED <<clock, lastRun, blocked, result, market, known, rounds, restarts, given, broken>>

(* An answer that is no JSON, or lacks the trend of a period.               *)
Malformed ==
    /\ round.pc = "called" /\ Stamp
    /\ round' = IF round.attempt < MaxAttempts
                THEN [round EXCEPT !.pc = "ask", !.attempt = @ + 1] ELSE Failed(round)
    /\ UNCHANGED <<clock, lastRun, blocked, result, market, known, rounds, restarts, given, broken>>

(* The provider fails, or says that its quota is used up.                   *)
ProviderFails ==
    /\ round.pc = "called" /\ Stamp
    /\ round' = Failed(round)
    /\ blocked' \in {blocked, IF clock + Pause > blocked THEN clock + Pause ELSE blocked}
    /\ UNCHANGED <<clock, lastRun, result, market, known, rounds, restarts, given, broken>>

(* Mutant: a round writes only its own answers.                             *)
MergedAlone(before, answered, n) ==
    [sources |-> [s \in answered |-> n], trends |-> [p \in {PeriodOf[s] : s \in answered} |-> n],
     status |-> "active"]

(* The answers of a round, and what it keeps of the analysis before it: the *)
(* sources it has no answer of, and the trends of the periods it has none of. *)
Merged(before, answered, n) ==
    LET periods == {PeriodOf[s] : s \in answered}
    IN [sources |-> [s \in DOMAIN before.sources \cup answered |->
                        IF s \in answered THEN n ELSE before.sources[s]],
        trends |-> [p \in DOMAIN before.trends \cup periods |->
                        IF p \in periods THEN n ELSE before.trends[p]],
        status |-> "active"]

(* Mutant: the failed sources are not noted.                                *)
FinishWithoutFailures ==
    /\ round.pc = "next" /\ round.todo = {}
    /\ lastRun' = Remembered(lastRun, round.answered, clock)
    /\ result' = IF round.answered = {} THEN result ELSE Merged(result, round.answered, rounds)
    /\ given' = Remembered(given, round.answered, rounds)
    /\ broken' = broken \ (round.answered \cup round.failed)
    /\ round' = NoRound
    /\ UNCHANGED <<clock, logged, blocked, market, known, rounds, restarts>>

(* The round is through: its failed sources count as run, and its answers   *)
(* are saved.                                                               *)
Finish ==
    /\ round.pc = "next" /\ round.todo = {}
    /\ lastRun' = Remembered(lastRun, round.failed \cup round.answered, clock)
    /\ result' = IF round.answered = {} THEN result ELSE Merged(result, round.answered, rounds)
    /\ given' = Remembered(given, round.answered, rounds)
    /\ broken' = broken \ (round.answered \cup round.failed)
    /\ round' = NoRound
    /\ UNCHANGED <<clock, logged, blocked, market, known, rounds, restarts>>

(* configure: a new provider begins without the pause of the old one.       *)
Configure ==
    /\ blocked > clock
    /\ blocked' = 0
    /\ UNCHANGED <<clock, lastRun, logged, result, market, known, round, rounds, restarts,
                   given, broken>>

(* ---- around it -------------------------------------------------------- *)

Tick ==
    /\ clock < MaxClock
    /\ clock' = clock + 1
    /\ UNCHANGED <<lastRun, logged, blocked, result, market, known, round, rounds, restarts,
                   given, broken>>

Market ==
    /\ \E now \in {"active", "stale", "closed"} \ {market} : market' = now
    /\ round.pc = "look"
    /\ known' = (known \/ market' = "active")
    /\ UNCHANGED <<clock, lastRun, logged, blocked, result, round, rounds, restarts, given, broken>>

(* The analysis is loaded again from its row; no bars have been received.   *)
Restart ==
    /\ restarts < MaxRestarts
    /\ restarts' = restarts + 1
    /\ round' = NoRound /\ lastRun' = [s \in {} |-> 0] /\ blocked' = 0
    /\ market' = "closed" /\ known' = FALSE
    /\ UNCHANGED <<clock, logged, result, rounds, given, broken>>

Next ==
    \/ Start \/ Look \/ NextSource \/ Refused \/ Reserve \/ Answered \/ Malformed
    \/ ProviderFails \/ Finish \/ Configure \/ Tick \/ Market \/ Restart

Spec == Init /\ [][Next]_vars

----------------------------------------------------------------------------

(* The stored analysis holds the last answer of every source that ever gave *)
(* one to a round that was finished, and the newest of each period's trends, *)
(* whatever was asked beside it, failed, or was broken off or restarted.    *)
AnswersAreKept ==
    /\ result.sources = given
    /\ \A p \in DOMAIN result.trends :
          \E s \in DOMAIN given :
             /\ PeriodOf[s] = p /\ result.trends[p] = given[s]
             /\ \A t \in DOMAIN given : PeriodOf[t] = p => given[t] <= given[s]

(* The schedule asks a source again only when its interval has passed since *)
(* the last call, restarts included, unless the round of that call was      *)
(* broken off.                                                              *)
AskedInInterval ==
    round.pc = "ask" /\ round.scheduled /\ round.attempt = 1
        => clock - logged[round.now] >= Interval \/ round.now \in broken

(* Does not hold: the round of a refused source forgets the answers it has   *)
(* ("一个信号源失败不能阻断同一轮的其他周期和品种", llm_service.py:2690, is    *)
(* true of failed requests only).                                            *)
OthersAreKept == [][Refused => round.answered = {}]_vars

=============================================================================
