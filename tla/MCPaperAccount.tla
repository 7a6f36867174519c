--------------------------- MODULE MCPaperAccount ---------------------------
(* A small paper account: one buy and one sell, prices that reach stop and   *)
(* target of either, and a policy that takes half of a target first.         *)
EXTENDS PaperAccount

MCOrder == {1, 2}
BothWays == [o \in MCOrder |-> IF o = 1 THEN "buy" ELSE "sell"]
MCExits == [buy |-> [stop |-> 8, target |-> 14], sell |-> [stop |-> 14, target |-> 7]]
MCBids == {10, 14}
MCVolume == 2 * Step
MCPolicy == [multi |-> FALSE, signalShare |-> 50, rules |->
                <<[kind |-> "break_even", start |-> 100, offset |-> 0]>>,
             runnerOn |-> FALSE, runnerStart |-> 0, runnerDistance |-> 0]
MCCfg == [policy |-> MCPolicy, lossLimit |-> 0, perLot |-> 1, slip |-> 0, minimum |-> Step]
=============================================================================
