------------------------------- MODULE Feeds -------------------------------
(***************************************************************************)
(* What the server's analysis is fed with: the account that supplies a     *)
(* symbol (MarketSource), the bars it supplies (KlineSync), the models an  *)
(* answer may be asked of (ModelCatalog) and the rounds that ask           *)
(* (LlmAnalysis).                                                          *)
(*                                                                         *)
(* The parts share no state here: each keeps to its own specification, and *)
(* all of them do.                                                         *)
(***************************************************************************)
EXTENDS Integers

CONSTANTS Accounts, BrokerOf, Caches, MaxAsking, NoAccount
VARIABLES supplier, policy, quiet, cached, ask, met
sourceVars == <<supplier, policy, quiet, cached, ask, met>>
Source == INSTANCE MarketSource WITH None <- NoAccount, source <- supplier

CONSTANTS Terminals, FullCount, BatchSize, MemoryBars, Horizon,
          MaxBars, BarFaults, BarRestarts, MaxMoves
VARIABLES clock, table, memory, ready, source, ea, faults, restarts, moves
barVars == <<clock, table, memory, ready, source, ea, faults, restarts, moves>>
Bars == INSTANCE KlineSync WITH
    Batch <- BatchSize, Keep <- MemoryBars, MaxFaults <- BarFaults, MaxRestarts <- BarRestarts

CONSTANTS Models, Admins, Requests, UserOf, DailyLimit, MaxOps, MaxCalls, MaxDays, MaxStops
VARIABLES rows, config, scenes, binding, admin, caller, calls, day, ops, stops, repair
catalogVars == <<rows, config, scenes, binding, admin, caller, calls, day, ops, stops, repair>>
Catalog == INSTANCE ModelCatalog WITH MaxCrashes <- MaxStops, crashes <- stops

CONSTANTS Sources, PeriodOf, Interval, AnswerAttempts, ProviderPause,
          MaxTime, MaxRounds, MaxRenewals
VARIABLES time, lastRun, logged, blocked, result, state, known, round, rounds, renewals,
          given, broken
analysisVars == <<time, lastRun, logged, blocked, result, state, known, round, rounds, renewals,
                  given, broken>>
Analysis == INSTANCE LlmAnalysis WITH
    MaxAttempts <- AnswerAttempts, Pause <- ProviderPause, MaxClock <- MaxTime,
    MaxRestarts <- MaxRenewals,
    clock <- time, market <- state, restarts <- renewals

(* No account is called as the lack of one or as a mode.  The memory holds a
   full upload (mt5TerminalEA.mq5: 1100, 720, 288 and 1200 bars against
   MAX_KLINES of 1500, 1000 and 1200), and uploads bring bars.  Models and
   sources are numbers, the first model is known, and limits are none that
   could not be counted. *)
ASSUME FeedsAssumption ==
    /\ NoAccount \notin Accounts \cup {"primary", "reuse", "blocked"}
    /\ FullCount \in Nat \ {0} /\ BatchSize \in Nat \ {0} /\ Horizon \in Nat /\ MaxBars \in Nat
    /\ MemoryBars \in Nat /\ FullCount <= MemoryBars
    /\ Models \subseteq Nat \ {0} /\ 1 \in Models /\ DailyLimit \in Nat
    /\ Sources \subseteq Nat \ {0} /\ Interval \in Nat \ {0} /\ ProviderPause \in Nat

FeedsSpec == Source!Spec /\ Bars!Spec /\ Catalog!Spec /\ Analysis!Spec

----------------------------------------------------------------------------

(* One account of a broker drives the strategies with its ticks, and the
   stored policies follow the row of the source, unless an account came back
   in the middle of its replacement or two replaced it.  The stored bars have
   no hole and the memory is not behind them, over lost requests, failing
   statements, restarts, a new source and the retention. *)
MarketData == /\ Source!OneSource /\ Source!PolicyFollows
              /\ Bars!TableIsWhole /\ Bars!MemoryKeepsUp

(* No user makes more calls a day than the membership allows; an undisturbed
   synchronisation leaves no reference to a model that may not be used; the
   last answer of every AI source is kept, and none is asked again before its
   interval has passed, unless its round was broken off. *)
ModelsGoverned == /\ Catalog!QuotaKept /\ Catalog!ReferencesRepaired
                  /\ Analysis!AnswersAreKept /\ Analysis!AskedInInterval

============================================================================
