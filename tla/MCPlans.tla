------------------------------ MODULE MCPlans ------------------------------
(***************************************************************************)
(* The instance of Plans that TLC checks.                                  *)
(*                                                                         *)
(* The parts share no state, so a behaviour lets one of them move, the one *)
(* in `focus`, and the others stay as they begin: the instances lie side by *)
(* side and are not multiplied.                                            *)
(***************************************************************************)
EXTENDS Plans, TLC

VARIABLE focus

(* What the configuration gives beside the claims: two families of plans of
   two rounds; the engines of two accounts, which nothing tells apart, and
   prices in, beside and far from the zone; two strategies with a limit of one
   order and one position, a failing statement and a restart.              *)

(* Three sources, the last one of AI price plans; up to three signals.      *)
EachWeight == <<50, 30, 20>>
EachConfidence == <<90, 70, 40>>
Told == {w \in Signal!Signals : w.dir \in {"sideways", "wait"} => ~w.trigger}
UpTo(n) == [list : UNION {[1..k -> Told] : k \in 0..n}, requirement : {"any", "majority", "all"},
            conflict : {"skip", "confidence", "weight"}]
NoBallot == [list |-> <<>>, requirement |-> "any", conflict |-> "skip"]

Alike == Permutations(Plan) \union Permutations(Worker) \union Permutations(Charts)

Parts == {"claims", "rows", "trigger", "risk", "votes"}

AllInit ==
    /\ focus \in Parts
    /\ Init /\ Rows!Init
    /\ Trigger!Init /\ (focus # "trigger" => setup = "liquidity_sweep_reclaim")
    /\ Risk!Init
    /\ ballot \in IF focus = "votes" THEN UpTo(3) ELSE {NoBallot}

ClaimsStep == focus = "claims" /\ Next /\ UNCHANGED <<focus, rowVars, triggerVars, riskVars, ballot>>
RowsStep == focus = "rows" /\ Rows!Next /\ UNCHANGED <<focus, vars, triggerVars, riskVars, ballot>>
TriggerStep == focus = "trigger" /\ Trigger!Next /\ UNCHANGED <<focus, vars, rowVars, riskVars, ballot>>
(* Three orders on the first day, or two that cross midnight, with a failing
   statement or a restart; two orders on the first day with both.           *)
RiskStep == /\ focus = "risk" /\ Risk!Next
            /\ today' = 1 \/ order'[3].at = "none"
            /\ faults' + reloads' <= 1 \/ (today' = 1 /\ order'[3].at = "none")
            /\ UNCHANGED <<focus, vars, rowVars, triggerVars, ballot>>

AllNext == ClaimsStep \/ RowsStep \/ TriggerStep \/ RiskStep

AllSpec == AllInit /\ [][AllNext]_<<focus, vars, rowVars, triggerVars, riskVars, ballot>>

============================================================================
