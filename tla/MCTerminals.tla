---------------------------- MODULE MCTerminals ----------------------------
(***************************************************************************)
(* What passes between the server and what lies outside it: opening        *)
(* instructions (InstructionDelivery), and what feeds the analysis (Feeds). *)
(* The parts share no state here; a behaviour lets the one in `focus` move, *)
(* so the instances lie side by side and are not multiplied.               *)
(***************************************************************************)
EXTENDS MCInstructionDelivery, Feeds, TLC

VARIABLE focus

(* What the configuration gives: two accounts of one broker and one of      *)
(* another, two of them asking; two terminals and four bars, of which a     *)
(* full upload holds two, an upload that closes a gap one, the memory three *)
(* and the retention leaves two; two administrators and three operations,   *)
(* two requests of one user, whose quota is one call a day; two sources of  *)
(* one period.                                                              *)
TwoBrokers == [a \in Accounts |-> IF a = "a3" THEN 2 ELSE 1]
OneUser == [r \in Requests |-> "u"]
OnePeriod == [s \in Sources |-> "M5"]

AllInit ==
    /\ focus \in {"delivery", "source", "bars", "catalog", "analysis"}
    /\ Init /\ Source!Init /\ Bars!Init /\ Catalog!Init /\ Analysis!Init
    /\ focus # "bars" => source = "t1"

DeliveryStep == /\ focus = "delivery" /\ Next
                /\ UNCHANGED <<focus, sourceVars, barVars, catalogVars, analysisVars>>
SourceStep == /\ focus = "source" /\ Source!Next
              /\ UNCHANGED <<focus, vars, barVars, catalogVars, analysisVars>>
BarStep == /\ focus = "bars" /\ Bars!Next
           /\ UNCHANGED <<focus, vars, sourceVars, catalogVars, analysisVars>>

(* Requests and administrators are not multiplied: once an administrator    *)
(* has begun, one call may be reserved beside a first operation.            *)
CatalogStep ==
    /\ focus = "catalog" /\ Catalog!Next
    /\ \/ ops' = 0 /\ (day' = 1 \/ stops' = 0)
       \/ ops' = 1 /\ day' = 1 /\ stops' = 0 /\ caller'["r2"].pc = "idle"
       \/ calls' = {} /\ day' = 1 /\ \A r \in {"r1", "r2"} : caller'[r].pc = "idle"
    /\ UNCHANGED <<focus, vars, sourceVars, barVars, analysisVars>>

AnalysisStep == /\ focus = "analysis" /\ Analysis!Next
                /\ UNCHANGED <<focus, vars, sourceVars, barVars, catalogVars>>

(* The last bar of the bound has closed, or nothing is in progress.        *)
Rest == /\ \/ focus = "bars" /\ clock = 4
           \/ focus = "catalog" /\ \A a \in {"m1", "m2"} : admin[a].pc = "idle"
           \/ focus = "analysis" /\ round.pc = "idle"
        /\ UNCHANGED <<focus, vars, sourceVars, barVars, catalogVars, analysisVars>>

AllNext == DeliveryStep \/ SourceStep \/ BarStep \/ Rest \/ CatalogStep \/ AnalysisStep
AllSpec == AllInit /\ [][AllNext]_<<focus, vars, sourceVars, barVars, catalogVars, analysisVars>>

============================================================================
