------------------------------- MODULE Plans -------------------------------
(***************************************************************************)
(* The life of structure plans: the claims of accounts on a plan and the   *)
(* orders that consume it (PlanClaim), the rows that the market layer      *)
(* publishes (PlanRows), the ticks that trigger a plan (PlanTrigger), the  *)
(* vote of a tick's signals (SignalVote) and the account's limits on the   *)
(* entries that follow (EntryRisk).                                        *)
(*                                                                         *)
(* Each part keeps of the plan's row what it needs, so they share no       *)
(* state: each keeps to its own specification, and all of them do.         *)
(***************************************************************************)
EXTENDS PlanClaim, Integers

CONSTANTS Families, Writers, MaxEvents, MaxCycles
VARIABLES published, newest, round, event, publisher, writer, events
rowVars == <<published, newest, round, event, publisher, writer, events>>
Rows == INSTANCE PlanRows WITH plan <- published

CONSTANTS Charts, Setups, Lower, Entry, Upper, Atr, Invalid, Widths, ClosePrices, Ticks,
          Required, Limit, MaxBars, MaxRenewals
VARIABLES setup, planRow, cache, engine, latest, fired, price, held, renewed
triggerVars == <<setup, planRow, cache, engine, latest, fired, price, held, renewed>>
Trigger == INSTANCE PlanTrigger WITH
    Engines <- Charts, Closes <- ClosePrices, MaxRestarts <- MaxRenewals, row <- planRow, restarted <- renewed

CONSTANTS Strategies, DailyLimit, MaxPositions, LossLimit, Orders, Days, MaxFaults, MaxReloads
VARIABLES today, risk, riskRow, thread, order, seen, told, lost, cool,
          blind, close, quick, forgot, faults, reloads
riskVars == <<today, risk, riskRow, thread, order, seen, told, lost, cool,
              blind, close, quick, forgot, faults, reloads>>
Risk == INSTANCE EntryRisk WITH
    MaxRestarts <- MaxReloads, row <- riskRow, restarts <- reloads

CONSTANTS Sources, Weight, Confidence, AiSources, MinConfidence
VARIABLE ballot    \* the signals of a tick and the rules of the strategy
Signal == INSTANCE SignalVote
Ballots == [list : Seq(Signal!Signals), requirement : {"any", "majority", "all"},
            conflict : {"skip", "confidence", "weight"}]

(* The account's limits are at least one order a day and one position, the ids
   of orders are not 0, both strategies and orders are finitely many, the
   bars that confirm a reclaim are counted, and so are the weights and the
   confidence of the finitely many sources of signals. *)
ASSUME PlansAssumption ==
    /\ IsFiniteSet(Strategies) /\ IsFiniteSet(Orders)
    /\ Orders \subseteq Nat \ {0}
    /\ DailyLimit \in Nat \ {0} /\ MaxPositions \in Nat \ {0} /\ LossLimit \in Nat
    /\ Days \in Nat \ {0} /\ Required \in Nat
    /\ IsFiniteSet(Sources) /\ MinConfidence \in Nat
    /\ Weight \in [Sources -> Nat] /\ Confidence \in [Sources -> Nat]

(* Every tick has signals of its own, whatever they say.                    *)
Votes == ballot \in Ballots /\ [][ballot' \in Ballots]_ballot

PlansSpec == Spec /\ Rows!Spec /\ Trigger!Spec /\ Risk!Spec /\ Votes

----------------------------------------------------------------------------

(* A family of plans gets its next round only when an account has traded the
   round before it, whatever else ended that round's plan.  It is about the
   first two rounds: a third can begin untraded (a plan left watching in the
   second is stored under the first one's id). *)
CyclesInOrder == Rows!CyclesInOrder

(* A touch an engine remembers of the present life is in the row, where the
   other engines and a restarted one find it, without a touch since the plan's
   id first appeared nothing triggers, and a closed bar counts once towards the
   confirmation, whichever engines look at it how often. *)
TriggersAreEarned == Trigger!TouchIsKept /\ Trigger!TriggerWasTouched /\ Trigger!BarsConfirm

(* What an account has sent on a day is counted and stays within its limits
   but for what was under way when they were reached, over restarts, failing
   statements and midnight, and a strategy waits for its cooldown. *)
EntriesAreBounded == /\ Risk!SentIsCounted /\ Risk!DailyLimitHolds
                     /\ Risk!PositionsHold /\ Risk!CooldownHolds

(* The vote of the signals treats buying and selling alike, hears the last word
   of a source, and a triggered entry is made on a signal that triggered. *)
VoteIsFair ==
    LET list == ballot.list IN
    /\ Signal!MirrorVote(list, ballot.requirement, ballot.conflict)
    /\ Signal!LastWordCounts(list, ballot.requirement, ballot.conflict)
    /\ Signal!EntryTriggered(list, ballot.requirement, ballot.conflict)

============================================================================
