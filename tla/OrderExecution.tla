--------------------------- MODULE OrderExecution ---------------------------
(***************************************************************************)
(* What the delivery of an opening order promises, whatever transport      *)
(* carries it: an order is dealt at most once, and the recorded verdict is *)
(* a refusal that may still be corrected, or a fill that is true and final.*)
(***************************************************************************)
EXTENDS Naturals

CONSTANT Instr

VARIABLES report, deals

Init == /\ report = [i \in Instr |-> "none"]
        /\ deals = [i \in Instr |-> 0]

Deal(i) == /\ deals[i] = 0
           /\ deals' = [deals EXCEPT ![i] = 1]
           /\ UNCHANGED report

Refuse(i) == /\ report[i] = "none"
             /\ report' = [report EXCEPT ![i] = "failed"]
             /\ UNCHANGED deals

Confirm(i) == /\ report[i] # "filled" /\ deals[i] = 1
              /\ report' = [report EXCEPT ![i] = "filled"]
              /\ UNCHANGED deals

Next == \E i \in Instr : Deal(i) \/ Refuse(i) \/ Confirm(i)

Spec == Init /\ [][Next]_<<report, deals>>
=============================================================================
