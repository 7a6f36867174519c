------------------------------- MODULE Outbox -------------------------------
(***************************************************************************)
(* Delivery of domain events from the outbox table to their handlers.      *)
(*                                                                         *)
(* dispatch_once first returns stale reservations to pending, then reads   *)
(* the due rows, reserves them one UPDATE at a time, and calls the handler *)
(* of each reserved event.  Every statement commits on its own.  Clock     *)
(* values are abstracted to what the WHERE clauses test: whether a lease   *)
(* has run out and whether a retry is due.                                 *)
(***************************************************************************)
EXTENDS Naturals, FiniteSets

CONSTANTS
    Event,          \* event ids
    Dispatcher,     \* dispatcher instances working on the table
    MaxCrashes,     \* bound: abandoned batches that are explored
    MaxHandled      \* bound: completed handler calls per event

ASSUME BoundsAssumption == MaxCrashes \in Nat /\ MaxHandled \in Nat
ASSUME EventAssumption == Event \cap {"idle", "read", "claim"} = {}

VARIABLES
    status,     \* the row's status; "new" before it is inserted, "purged" when deleted
    stale,      \* lease_until is NULL or in the past
    due,        \* next_retry_at has come
    pc,         \* where the dispatcher is in dispatch_once
    rows,       \* rows it has read and not yet tried to reserve
    batch,      \* events it has reserved and not yet finished
    handled,    \* history: how often a handler has completed for the event
    crashes     \* history: batches abandoned half way

vars == <<status, stale, due, pc, rows, batch, handled, crashes>>

Init ==
    /\ status = [e \in Event |-> "new"]
    /\ stale = Event
    /\ due = {}
    /\ pc = [d \in Dispatcher |-> "idle"]
    /\ rows = [d \in Dispatcher |-> {}]
    /\ batch = [d \in Dispatcher |-> {}]
    /\ handled = [e \in Event |-> 0]
    /\ crashes = 0

Enqueue(e) ==
    /\ status[e] = "new"
    /\ status' = [status EXCEPT ![e] = "pending"]
    /\ due' = due \cup {e}
    /\ UNCHANGED <<stale, pc, rows, batch, handled, crashes>>

(* Time: a retry comes due, a lease runs out, a row gets old enough for    *)
(* the retention job, which deletes pending rows only.                     *)
RetryComesDue(e) ==
    /\ status[e] = "pending" /\ e \notin due
    /\ due' = due \cup {e}
    /\ UNCHANGED <<status, stale, pc, rows, batch, handled, crashes>>

LeaseRunsOut(e) ==
    /\ status[e] = "publishing" /\ e \notin stale
    /\ stale' = stale \cup {e}
    /\ UNCHANGED <<status, due, pc, rows, batch, handled, crashes>>

PurgeOld(e) ==
    /\ status[e] = "pending"
    /\ status' = [status EXCEPT ![e] = "purged"]
    /\ UNCHANGED <<stale, due, pc, rows, batch, handled, crashes>>

----------------------------------------------------------------------------
(* dispatch_once *)

Abandoned == {e \in stale : status[e] = "publishing"}

\* Mutant: nothing is recovered.
RecoverNothing(d) ==
    /\ pc[d] = "idle"
    /\ pc' = [pc EXCEPT ![d] = "read"]
    /\ UNCHANGED <<status, stale, due, rows, batch, handled, crashes>>

RecoverStale(d) ==
    /\ pc[d] = "idle"
    /\ status' = [e \in Event |-> IF e \in Abandoned THEN "pending" ELSE status[e]]
    /\ due' = due \cup Abandoned
    /\ pc' = [pc EXCEPT ![d] = "read"]
    /\ UNCHANGED <<stale, rows, batch, handled, crashes>>

ReadPending(d) ==
    /\ pc[d] = "read"
    /\ rows' = [rows EXCEPT ![d] = {e \in due : status[e] = "pending"}]
    /\ pc' = [pc EXCEPT ![d] = "claim"]
    /\ UNCHANGED <<status, stale, due, batch, handled, crashes>>

(* UPDATE ... WHERE status='pending', then SELECT status: the event counts *)
(* as reserved if the row now says publishing.                             *)
Claim(d, e) ==
    /\ pc[d] = "claim"
    /\ e \in rows[d]
    /\ rows' = [rows EXCEPT ![d] = @ \ {e}]
    /\ status' = [status EXCEPT ![e] = IF @ = "pending" THEN "publishing" ELSE @]
    /\ stale' = IF status[e] = "pending" THEN stale \ {e} ELSE stale
    /\ batch' = IF status'[e] = "publishing" THEN [batch EXCEPT ![d] = @ \cup {e}] ELSE batch
    /\ UNCHANGED <<due, pc, handled, crashes>>

(* The handler of an event completes ...                                   *)
Handle(d, e) ==
    /\ pc[d] = "claim" /\ rows[d] = {}
    /\ e \in batch[d]
    /\ handled[e] < MaxHandled
    /\ handled' = [handled EXCEPT ![e] = @ + 1]
    /\ batch' = [batch EXCEPT ![d] = @ \ {e}]
    /\ pc' = [pc EXCEPT ![d] = e]
    /\ UNCHANGED <<status, stale, due, rows, crashes>>

\* Mutant: a handled event keeps its reservation.
MarkNothing(d) ==
    /\ pc[d] \in Event
    /\ pc' = [pc EXCEPT ![d] = "claim"]
    /\ UNCHANGED <<status, stale, due, rows, batch, handled, crashes>>

(* ... and its row is marked, in a statement of its own.                   *)
MarkPublished(d) ==
    /\ pc[d] \in Event
    /\ status' = [status EXCEPT ![pc[d]] = IF @ = "purged" THEN @ ELSE "published"]
    /\ stale' = stale \cup {pc[d]}
    /\ pc' = [pc EXCEPT ![d] = "claim"]
    /\ UNCHANGED <<due, rows, batch, handled, crashes>>

(* The handler raises, or none is registered: the event is retried later.  *)
MarkFailed(d, e) ==
    /\ pc[d] = "claim" /\ rows[d] = {}
    /\ e \in batch[d]
    /\ batch' = [batch EXCEPT ![d] = @ \ {e}]
    /\ status' = [status EXCEPT ![e] = IF @ = "purged" THEN @ ELSE "pending"]
    /\ stale' = stale \cup {e}
    /\ due' = due \ {e}
    /\ UNCHANGED <<pc, rows, handled, crashes>>

FinishBatch(d) ==
    /\ pc[d] = "claim" /\ rows[d] = {} /\ batch[d] = {}
    /\ pc' = [pc EXCEPT ![d] = "idle"]
    /\ UNCHANGED <<status, stale, due, rows, batch, handled, crashes>>

(* The process dies, or a statement of the batch raises and the scheduler  *)
(* starts dispatch_once again.                                             *)
Abandon(d) ==
    /\ crashes < MaxCrashes
    /\ pc[d] # "idle"
    /\ crashes' = crashes + 1
    /\ pc' = [pc EXCEPT ![d] = "idle"]
    /\ rows' = [rows EXCEPT ![d] = {}]
    /\ batch' = [batch EXCEPT ![d] = {}]
    /\ UNCHANGED <<status, stale, due, handled>>

----------------------------------------------------------------------------
Next ==
    \/ \E e \in Event : Enqueue(e) \/ RetryComesDue(e) \/ LeaseRunsOut(e) \/ PurgeOld(e)
    \/ \E d \in Dispatcher :
        \/ RecoverStale(d)
        \/ ReadPending(d)
        \/ \E e \in Event : Claim(d, e) \/ Handle(d, e) \/ MarkFailed(d, e)
        \/ MarkPublished(d)
        \/ FinishBatch(d)
        \/ Abandon(d)

Spec == Init /\ [][Next]_vars

(* The scheduler starts dispatch_once again and again and lets it run to   *)
(* its end; a handler that is tried for ever succeeds in the end.          *)
Fairness ==
    \A d \in Dispatcher :
        /\ WF_vars(RecoverStale(d))
        /\ WF_vars(ReadPending(d))
        /\ WF_vars(MarkPublished(d))
        /\ WF_vars(FinishBatch(d))
        /\ \A e \in Event :
            /\ WF_vars(Claim(d, e))
            /\ SF_vars(Handle(d, e))
            /\ WF_vars(RetryComesDue(e))
            /\ WF_vars(LeaseRunsOut(e))

FairSpec == Spec /\ Fairness

----------------------------------------------------------------------------
(* Types. *)
TypeOK ==
    /\ status \in [Event -> {"new", "pending", "publishing", "published", "purged"}]
    /\ stale \subseteq Event /\ due \subseteq Event
    /\ pc \in [Dispatcher -> {"idle", "read", "claim"} \cup Event]
    /\ rows \in [Dispatcher -> SUBSET Event]
    /\ batch \in [Dispatcher -> SUBSET Event]
    /\ handled \in [Event -> Nat]
    /\ crashes \in 0..MaxCrashes

(* No event is lost: a published one has been through its handler, for any *)
(* number of dispatchers and any batch abandoned half way.                 *)
PublishedWasHandled == \A e \in Event : status[e] = "published" => handled[e] > 0

OneDispatcher == Cardinality(Dispatcher) = 1

(* One dispatcher repeats an event only when a batch was abandoned between *)
(* the handler and the mark: the case its handlers must be idempotent for. *)
RepeatNeedsAbandon == OneDispatcher => \A e \in Event : handled[e] <= 1 + crashes

(* With one dispatcher a published event is never taken up again.          *)
PublishedIsFinal ==
    [][OneDispatcher => \A e \in Event : status[e] = "published" => status'[e] = "published"]_vars

(* Every event is published, or purged by the retention job, whatever      *)
(* fails or is abandoned on the way.                                       *)
EventsArrive == \A e \in Event : status[e] = "pending" ~> status[e] \in {"published", "purged"}
=============================================================================
