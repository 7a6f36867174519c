----------------------------- MODULE SignalVote -----------------------------
(***************************************************************************)
(* How the signals of one tick become a direction and an entry             *)
(* (StrategyService.analyze_signals and _select_best_signal), as operators  *)
(* on the list of signals in the order they were created.  A signal is      *)
(* [source, dir, trigger]: dir is "wait" while its state is not ready.      *)
(* The signals are those of enabled sources.                               *)
(***************************************************************************)
EXTENDS Integers, Sequences, FiniteSets, Functions

CONSTANTS
    Sources,
    Weight,        \* of each source
    Confidence,    \* of the signals of each source, 0..100
    AiSources,     \* the sources of AI price plans
    MinConfidence  \* of the strategy

None == 0      \* a signal is known by its place in the list

Opposite(dir) == CASE dir = "up" -> "down" [] dir = "down" -> "up" [] OTHER -> dir

(* latest: the last word of each source that has spoken.                    *)
Superseded(list, i) == \E k \in DOMAIN list : k > i /\ list[k].source = list[i].source
\* Mutant: a source keeps its first word.
FirstWords(list) ==
    [s \in {list[i].source : i \in DOMAIN list} |->
        list[CHOOSE i \in DOMAIN list :
                 list[i].source = s /\ \A k \in 1..(i - 1) : list[k].source # s]]
LastWords(list) ==
    [s \in {list[i].source : i \in DOMAIN list} |->
        list[CHOOSE i \in DOMAIN list : list[i].source = s /\ ~Superseded(list, i)]]
Says(latest, dir) == {s \in DOMAIN latest : latest[s].dir = dir}
Weighted(voices) == SumFunction([s \in voices |-> Confidence[s] * Weight[s]])
Weights(voices) == SumFunction([s \in voices |-> Weight[s]])

(* More votes, or under ANY the weight of equal votes.                      *)
\* Mutant: equal votes go up.
DirectionUp(latest, requirement) ==
    IF Cardinality(Says(latest, "up")) >= Cardinality(Says(latest, "down")) THEN "up" ELSE "down"
Direction(latest, requirement) ==
    LET up == Says(latest, "up")  down == Says(latest, "down")
        n == Cardinality(up) - Cardinality(down)
        weight == Weighted(up) - Weighted(down) IN
    IF n > 0 \/ (n = 0 /\ requirement = "any" /\ weight > 0) THEN "up"
    ELSE IF n < 0 \/ (n = 0 /\ requirement = "any" /\ weight < 0) THEN "down"
    ELSE "none"

(* confidence_gate: AI price plans by their trigger, all others by the mean,
   which is 0 when nothing weighs (and is not rounded here). *)
Confident(latest, voices) ==
    IF voices # {} /\ voices \subseteq AiSources
    THEN \E s \in voices : latest[s].trigger
    ELSE IF Weights(voices) > 0
         THEN Weighted(voices) >= MinConfidence * Weights(voices)
         ELSE MinConfidence <= 0

(* MAJORITY_THRESHOLD is 0.60, of the configured sources.                    *)
Agreed(latest, dir, requirement) ==
    LET n == Cardinality(Says(latest, dir))  all == Cardinality(Sources) IN
    CASE requirement = "any" -> TRUE
      [] requirement = "majority" -> 5 * n >= 3 * all
      [] requirement = "all" -> n = all
Conflict(latest, conflict) == conflict = "skip" /\ Says(latest, "up") # {} /\ Says(latest, "down") # {}

Decided(latest, requirement, conflict) ==
    LET dir == Direction(latest, requirement) IN
    IF /\ dir # "none" /\ ~Conflict(latest, conflict)
       /\ Agreed(latest, dir, requirement) /\ Confident(latest, Says(latest, dir))
    THEN dir ELSE "none"
Action(list, requirement, conflict) == Decided(LastWords(list), requirement, conflict)

Triggered(list, dir) ==
    LET latest == LastWords(list) IN dir # "none" /\ \E s \in Says(latest, dir) : latest[s].trigger

(* _select_best_signal looks at the whole list: one that triggered, by
   confidence, by weight, or the first. *)
\* Mutant: whether it triggered makes no difference.
CandidatesOfAll(list, dir) == {i \in DOMAIN list : list[i].dir = dir}
Candidates(list, dir) ==
    LET there == {i \in DOMAIN list : list[i].dir = dir}
        fired == {i \in there : list[i].trigger} IN
    IF fired # {} THEN fired ELSE there
Rank(source, conflict) == CASE conflict = "confidence" -> Confidence[source]
                            [] conflict = "weight" -> Confidence[source] * Weight[source]
                            [] OTHER -> 0
(* max() keeps the first of those that rank alike.                          *)
BestSignal(list, dir, conflict) ==
    LET c == Candidates(list, dir)
        rank == [i \in c |-> Rank(list[i].source, conflict)] IN
    IF c = {} THEN None
    ELSE CHOOSE i \in c : \A j \in c : rank[i] > rank[j] \/ (rank[i] = rank[j] /\ i <= j)

----------------------------------------------------------------------------

Signals == [source : Sources, dir : {"up", "down", "sideways", "wait"}, trigger : BOOLEAN]
Mirror(list) == [i \in DOMAIN list |-> [list[i] EXCEPT !.dir = Opposite(@)]]
Without(list, i) == [k \in 1..(Len(list) - 1) |-> list[IF k < i THEN k ELSE k + 1]]

(* Buying and selling are treated alike: signals that say the opposite give the
   opposite action and the mirrored entry. *)
MirrorVote(list, requirement, conflict) ==
    LET act == Action(list, requirement, conflict) IN
    /\ Action(Mirror(list), requirement, conflict) = Opposite(act)
    /\ BestSignal(Mirror(list), Opposite(act), conflict) = BestSignal(list, act, conflict)

(* What a source has said before its last word changes no direction.        *)
LastWordCounts(list, requirement, conflict) ==
    \A i \in DOMAIN list : Superseded(list, i) =>
        Action(Without(list, i), requirement, conflict) = Action(list, requirement, conflict)

(* An entry that was triggered is made on a signal of its direction that
   triggered. *)
EntryTriggered(list, requirement, conflict) ==
    LET act == Action(list, requirement, conflict)
        best == BestSignal(list, act, conflict) IN
    Triggered(list, act) => best # None /\ list[best].trigger /\ list[best].dir = act

(* Does not hold: several plans of one structure source trigger in one tick,
   the last one votes and the first one is entered. *)
EntryHasVoted(list, requirement, conflict) ==
    LET act == Action(list, requirement, conflict) IN
    Triggered(list, act) => ~Superseded(list, BestSignal(list, act, conflict))
=============================================================================
