----------------------- MODULE MCInstructionDelivery -----------------------
(* Instances of InstructionDelivery for TLC. *)
EXTENDS InstructionDelivery

\* The promise that delivery implements, with its own view of the variables.
Promise == INSTANCE OrderExecution WITH report <- report, deals <- deals

(* Every step of delivery, restarts and losses included, is a step of the  *)
(* abstract at-most-once order or changes nothing it can see.              *)
ImplementsPromise == Promise!Spec
=============================================================================
