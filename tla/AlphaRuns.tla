----------------------------- MODULE AlphaRuns -----------------------------
(***************************************************************************)
(* The queue of factor searches (alpha_research.py): the same shape as the   *)
(* backtests', with no heartbeat.  A request to cancel is a read and a write *)
(* with the worker thread between them, and is only a flag: the verdicts are *)
(* written without looking at it.                                            *)
(***************************************************************************)
EXTENDS Integers, FiniteSets

CONSTANTS
    Runs,         \* 1..n in order of creation
    MaxRestarts,  \* bound: stops of the server
    MaxFaults     \* bound: statements that fail

VARIABLES
    runs,     \* alpha_research_runs
    user,     \* the run a request to cancel has seen running, 0 if there is none
    searcher, \* the worker thread: where it is, and its run
    halts, slips
vars == <<runs, user, searcher, halts, slips>>

Ended == {"completed", "failed", "canceled"}
Live == {"queued", "running"}
Bounded == UNCHANGED <<halts, slips>>

Init ==
    /\ runs = [r \in Runs |-> [st |-> "none", cancel |-> FALSE]]
    /\ user = 0
    /\ searcher = [at |-> "idle", run |-> 0]
    /\ halts = 0 /\ slips = 0

CreateRun(r) ==
    /\ runs[r].st = "none" /\ \A s \in Runs : s < r => runs[s].st # "none"
    /\ runs' = [runs EXCEPT ![r].st = "queued"]
    /\ UNCHANGED <<user, searcher>> /\ Bounded

(* request_cancel: the status is read, then the flag is set whatever it is. *)
LookCancel(r) ==
    /\ user = 0 /\ runs[r].st \in Live
    /\ user' = r
    /\ UNCHANGED <<runs, searcher>> /\ Bounded
SetCancel ==
    /\ user # 0
    /\ runs' = [runs EXCEPT ![user].cancel = TRUE]
    /\ user' = 0
    /\ UNCHANGED searcher /\ Bounded

(* The oldest queued run; one that is to be canceled is begun all the same. *)
Claim ==
    /\ searcher.at = "idle"
    /\ \E r \in Runs :
          /\ runs[r].st = "queued" /\ \A s \in Runs : s < r => runs[s].st # "queued"
          /\ runs' = [runs EXCEPT ![r].st = "running"]
          /\ searcher' = [at |-> "working", run |-> r]
    /\ UNCHANGED user /\ Bounded

(* cancel_callback between trials and iterations; the result after the last. *)
To(at) == searcher' = [searcher EXCEPT !.at = at] /\ UNCHANGED <<runs, user>> /\ Bounded
Notices == searcher.at = "working" /\ runs[searcher.run].cancel /\ To("canceled")
Through == searcher.at = "working" /\ To("completed")
Raises == searcher.at = "working" /\ To("failed")

Record ==
    /\ searcher.at \in Ended
    /\ runs' = [runs EXCEPT ![searcher.run].st = searcher.at]
    /\ searcher' = [at |-> "idle", run |-> 0]
    /\ UNCHANGED user /\ Bounded

(* Only complete() is inside the try: another statement that fails ends the
   thread. *)
StatementFails ==
    /\ slips < MaxFaults
    /\ slips' = slips + 1
    /\ \/ searcher.at = "completed" /\ searcher' = [searcher EXCEPT !.at = "failed"]
       \/ searcher.at \in {"idle", "canceled", "failed"} /\ searcher' = [searcher EXCEPT !.at = "dead"]
    /\ UNCHANGED <<runs, user, halts>>

Stop ==
    /\ halts < MaxRestarts /\ searcher.at # "off"
    /\ halts' = halts + 1
    /\ searcher' = [at |-> "off", run |-> 0] /\ user' = 0
    /\ UNCHANGED <<runs, slips>>

(* recover_stale: whatever was running is queued again. *)
\* Mutant: what was running is left as it is.
RecoveredNothing(st) == st
Recovered(st) == IF st = "running" THEN "queued" ELSE st
Start ==
    /\ searcher.at = "off"
    /\ runs' = [r \in Runs |-> [runs[r] EXCEPT !.st = Recovered(runs[r].st)]]
    /\ searcher' = [at |-> "idle", run |-> 0]
    /\ UNCHANGED user /\ Bounded

User == (\E r \in Runs : CreateRun(r) \/ LookCancel(r)) \/ SetCancel
Works == Notices \/ Through \/ Record
Next == User \/ Claim \/ Works \/ Raises \/ StatementFails \/ Stop \/ Start
Spec == Init /\ [][Next]_vars
Fairness == WF_vars(Claim) /\ WF_vars(Works) /\ WF_vars(Start)
----------------------------------------------------------------------------
(* A run is canceled only when someone asked for it; and one that has ended is
   not begun again, though the server may have stopped between its last trial
   and its verdict. *)
CanceledOnRequest == \A r \in Runs : runs[r].st = "canceled" => runs[r].cancel
EndedStays == [][\A r \in Runs : runs[r].st \in Ended => runs'[r].st = runs[r].st]_vars

(* Every run ends, over any restarts, unless a failing statement has ended the
   thread. *)
RunsEnd == \A r \in Runs : runs[r].st = "queued" ~> runs[r].st \in Ended \/ searcher.at = "dead"
=============================================================================
