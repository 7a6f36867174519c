---------------------------- MODULE PendingOrders ----------------------------
(***************************************************************************)
(* Orders that wait for a confirmation (pending_order_store.py and its     *)
(* service): one account's table in memory with a row of runtime_entities  *)
(* per order, and the callback that makes an opening instruction of a      *)
(* confirmed order.                                                        *)
(*                                                                         *)
(* Confirming takes place in a tick thread, which creates the order of a   *)
(* decision and confirms it at once, and in the event loop, for the user.  *)
(* The store's lock covers one operation with its rows; everything between *)
(* two operations can interleave with the other thread, with the cleanup   *)
(* task of the scheduler and with the loss of the live permission.         *)
(***************************************************************************)
EXTENDS Integers, FiniteSets

CONSTANTS
    Orders,
    MaxFaults,      \* bound: rows that fail to be written; the exception goes to the caller
    MaxRestarts     \* bound: restarts of the server

VARIABLES
    book,       \* _orders_by_id (and _orders_by_symbol, always changed with it)
    object,     \* status of the order object
    row,        \* status of its row
    past,       \* orders past their expires_at
    issued,     \* instructions created of an order
    decision,   \* status of its decision in the history
    told,       \* what the user was answered
    asked,      \* confirm requests waiting for their body
    thread,     \* the tick thread and the event loop, with the order at hand
    cleaner,    \* the cleanup task: where it is and its snapshot
    live,       \* live entries are allowed
    faults,     \* rows that may still fail to be written
    restarts

vars == <<book, object, row, past, issued, decision, told, asked, thread,
          cleaner, live, faults, restarts>>

Threads == {"tick", "loop"}
Free == [at |-> "free", order |-> "none"]
Asleep == [at |-> "asleep", seen |-> {}]

Init ==
    /\ book = {}
    /\ object = [o \in Orders |-> "unborn"]
    /\ row = [o \in Orders |-> "none"]
    /\ past = {}
    /\ issued = [o \in Orders |-> 0]
    /\ decision = [o \in Orders |-> "none"]
    /\ told = [o \in Orders |-> "nothing"]
    /\ asked = {}
    /\ thread = [t \in Threads |-> Free]
    /\ cleaner = Asleep
    /\ live = TRUE
    /\ faults = MaxFaults
    /\ restarts = 0

Goto(t, at, o) == thread' = [thread EXCEPT ![t] = [at |-> at, order |-> o]]
End(t) == thread' = [thread EXCEPT ![t] = Free]

(* A statement fails. *)
Fault == faults > 0 /\ faults' = faults - 1

\* Mutant: the row is inserted once and not updated.
PersistOnce(t, o, status, next) ==
    /\ row' = IF row[o] = "none" THEN [row EXCEPT ![o] = status] ELSE row
    /\ Goto(t, next, o) /\ UNCHANGED faults

(* _persist, after the object in memory has changed: the thread goes on at  *)
(* `next`, or its operation ends with the exception.                        *)
Persist(t, o, status, next) ==
    \/ row' = [row EXCEPT ![o] = status] /\ Goto(t, next, o) /\ UNCHANGED faults
    \/ Fault /\ End(t) /\ UNCHANGED row

(* add_order: the tick thread creates the order of a decision, the event    *)
(* loop that of a suggestion the user has asked for, without a decision.    *)
Create(t, o) ==
    /\ thread[t].at = "free" /\ object[o] = "unborn"
    /\ book' = book \union {o}
    /\ object' = [object EXCEPT ![o] = "pending"]
    /\ Persist(t, o, "pending", IF t = "tick" THEN "confirm" ELSE "free")
    /\ UNCHANGED <<past, issued, decision, told, asked, cleaner, live, restarts>>

(* POST .../confirm: the permission is read, then the body is awaited.      *)
Ask(o) ==
    /\ object[o] # "unborn" /\ o \notin asked
    /\ thread["loop"].at = "free" /\ live
    /\ asked' = asked \union {o}
    /\ UNCHANGED <<book, object, row, past, issued, decision, told, thread, cleaner, live, faults, restarts>>

(* The service looks the order up; the store takes it out a step later.     *)
Resume(o) ==
    /\ o \in asked /\ thread["loop"].at = "free"
    /\ asked' = asked \ {o}
    /\ IF o \in book THEN Goto("loop", "confirm", o) ELSE UNCHANGED thread
    /\ UNCHANGED <<book, object, row, past, issued, decision, told, cleaner, live, faults,
                   restarts>>

(* confirm_order of the store.  An expired order is confirmed like another. *)
Removed(o) == book' = book \ {o}

Confirm(t) ==
    LET o == thread[t].order
    IN  /\ thread[t].at = "confirm"
        /\ IF o \in book
           THEN /\ Removed(o)
                /\ object' = [object EXCEPT ![o] = "confirmed"]
                /\ Persist(t, o, "confirmed", "callback")
           ELSE /\ IF t = "tick" THEN Goto(t, "unconfirmed", o) ELSE End(t)
                /\ UNCHANGED <<book, object, row, faults>>
        /\ UNCHANGED <<past, issued, decision, told, asked, cleaner, live, restarts>>

(* on_order_confirmed: permission first, then the instruction.  Whatever    *)
(* goes wrong is printed, and the order stays confirmed.                    *)
Permitted(t) ==
    /\ thread[t].at = "callback"
    /\ Goto(t, IF live THEN "submit" ELSE "mark", thread[t].order)
    /\ UNCHANGED <<book, object, row, past, issued, decision, told, asked, cleaner, live, faults, restarts>>

Submit(t) ==
    /\ thread[t].at = "submit"
    /\ \/ issued' = [issued EXCEPT ![thread[t].order] = @ + 1] /\ UNCHANGED faults
       \/ Fault /\ UNCHANGED issued
    /\ Goto(t, "mark", thread[t].order)
    /\ UNCHANGED <<book, object, row, past, decision, told, asked, cleaner, live, restarts>>

(* The tick thread records the decision with the status the pipeline gave    *)
(* it; the event loop updates a decision that is in the history.             *)
Updated(o, status) ==
    decision' = IF decision[o] = "none" THEN decision ELSE [decision EXCEPT ![o] = status]

MarkDecided ==
    LET o == thread["tick"].order
    IN  /\ thread["tick"].at \in {"mark", "unconfirmed"}
        /\ decision' = [decision EXCEPT ![o] = IF thread["tick"].at = "mark" THEN "confirmed"
                                               ELSE "pending"]
        /\ End("tick")
        /\ UNCHANGED <<book, object, row, past, issued, told, asked, cleaner, live, faults,
                   restarts>>

MarkConfirmed ==
    /\ thread["loop"].at = "mark"
    /\ Updated(thread["loop"].order, "confirmed")
    /\ told' = [told EXCEPT ![thread["loop"].order] = "confirmed"]
    /\ End("loop")
    /\ UNCHANGED <<book, object, row, past, issued, asked, cleaner, live, faults, restarts>>

(* POST .../reject *)
Reject(o) ==
    /\ thread["loop"].at = "free" /\ o \in book
    /\ Removed(o)
    /\ object' = [object EXCEPT ![o] = "rejected"]
    /\ Persist("loop", o, "rejected", "refused")
    /\ UNCHANGED <<past, issued, decision, told, asked, cleaner, live, restarts>>

MarkRejected ==
    /\ thread["loop"].at = "refused"
    /\ Updated(thread["loop"].order, "rejected")
    /\ told' = [told EXCEPT ![thread["loop"].order] = "rejected"]
    /\ End("loop")
    /\ UNCHANGED <<book, object, row, past, issued, asked, cleaner, live, faults, restarts>>

(* 180 seconds pass. *)
Expire(o) ==
    /\ object[o] # "unborn" /\ o \notin past
    /\ past' = past \union {o}
    /\ UNCHANGED <<book, object, row, issued, decision, told, asked, thread, cleaner, live, faults, restarts>>

(* cleanup_pending_orders of the server: a snapshot, the store's cleanup, a  *)
(* second snapshot; the decisions of what is missing are set to expired.     *)
CleanupBegin ==
    /\ cleaner.at = "asleep" /\ book # {}
    /\ cleaner' = [at |-> "clean", seen |-> book]
    /\ UNCHANGED <<book, object, row, past, issued, decision, told, asked, thread, live, faults, restarts>>

Overdue == {o \in book : o \in past /\ object[o] = "pending"}

(* Under the lock; a write that fails leaves every order in the table, the   *)
(* ones before it and its own with status expired in memory.                 *)
Cleanup ==
    /\ cleaner.at = "clean"
    /\ \/ /\ book' = book \ Overdue
          /\ object' = [o \in Orders |-> IF o \in Overdue THEN "expired" ELSE object[o]]
          /\ row' = [o \in Orders |-> IF o \in Overdue THEN "expired" ELSE row[o]]
          /\ UNCHANGED faults
          /\ cleaner' = IF Overdue = {} THEN Asleep ELSE [cleaner EXCEPT !.at = "compare"]
       \/ /\ Fault
          /\ \E written \in SUBSET Overdue, failed \in Overdue :
                /\ failed \notin written
                /\ object' = [o \in Orders |-> IF o \in written \union {failed} THEN "expired"
                                               ELSE object[o]]
                /\ row' = [o \in Orders |-> IF o \in written THEN "expired" ELSE row[o]]
          /\ cleaner' = Asleep
          /\ UNCHANGED book
    /\ UNCHANGED <<past, issued, decision, told, asked, thread, live, restarts>>

Compare ==
    /\ cleaner.at = "compare"
    /\ cleaner' = [at |-> "mark", seen |-> cleaner.seen \ book]
    /\ UNCHANGED <<book, object, row, past, issued, decision, told, asked, thread, live, faults, restarts>>

MarkExpired ==
    /\ cleaner.at = "mark"
    /\ IF cleaner.seen = {}
       THEN cleaner' = Asleep /\ UNCHANGED decision
       ELSE \E o \in cleaner.seen :
               /\ Updated(o, "expired")
               /\ cleaner' = [cleaner EXCEPT !.seen = @ \ {o}]
    /\ UNCHANGED <<book, object, row, past, issued, told, asked, thread, live, faults,
                   restarts>>

(* clear_all: memory and rows, under the lock. *)
Cleared == book' = {} /\ row' = [o \in Orders |-> "none"]

(* update_user, in the event loop: the permission and the rows in one         *)
(* transaction, then the engines' memory; it may be permitted again later.    *)
Suspend ==
    /\ live /\ thread["loop"].at = "free"
    /\ live' = FALSE
    /\ row' = [o \in Orders |-> "none"]
    /\ Goto("loop", "clear", "none")
    /\ UNCHANGED <<book, object, past, issued, decision, told, asked, cleaner, faults, restarts>>

SuspendClear ==
    /\ thread["loop"].at = "clear"
    /\ Cleared
    /\ End("loop")
    /\ UNCHANGED <<object, past, issued, decision, told, asked, cleaner, live, faults, restarts>>

Permit ==
    /\ ~live /\ thread["loop"].at = "free"
    /\ live' = TRUE
    /\ UNCHANGED <<book, object, row, past, issued, decision, told, asked, thread, cleaner, faults, restarts>>

(* A poll of the EA without permission, or for a symbol whose source is blocked. *)
Poll ==
    /\ book # {}
    /\ Cleared
    /\ UNCHANGED <<object, past, issued, decision, told, asked, thread, cleaner, live, faults, restarts>>

(* A restart: pending rows are loaded, and the overdue ones are cleaned up.   *)
Loaded == {o \in Orders : row[o] = "pending"}

Restart ==
    /\ restarts < MaxRestarts
    /\ restarts' = restarts + 1
    /\ book' = Loaded \ past
    /\ object' = [o \in Orders |-> IF o \in Loaded
                                   THEN IF o \in past THEN "expired" ELSE "pending"
                                   ELSE IF object[o] = "unborn" THEN "unborn" ELSE "gone"]
    /\ row' = [o \in Orders |-> IF o \in Loaded /\ o \in past THEN "expired" ELSE row[o]]
    /\ asked' = {}
    /\ thread' = [t \in Threads |-> Free]
    /\ cleaner' = Asleep
    /\ UNCHANGED <<past, issued, decision, told, live, faults>>

ThreadStep ==
    \/ \E t \in Threads : Confirm(t) \/ Permitted(t) \/ Submit(t)
    \/ MarkDecided \/ MarkConfirmed \/ MarkRejected

CleanerStep == CleanupBegin \/ Cleanup \/ Compare \/ MarkExpired

Next ==
    \/ \E o \in Orders : \/ \E t \in Threads : Create(t, o)
                         \/ Ask(o) \/ Resume(o) \/ Reject(o) \/ Expire(o)
    \/ ThreadStep
    \/ CleanerStep
    \/ Suspend \/ SuspendClear \/ Permit \/ Poll
    \/ Restart

Spec == Init /\ [][Next]_vars

(* Time passes and the scheduler runs the cleanup of the engine; what users  *)
(* and administrators do is up to them.                                      *)
Fairness ==
    /\ \A o \in Orders : WF_vars(Expire(o))
    /\ WF_vars(CleanerStep)

FairSpec == Spec /\ Fairness

----------------------------------------------------------------------------

Statuses == {"pending", "confirmed", "rejected", "expired"}

TypeOK ==
    /\ book \subseteq Orders /\ past \subseteq Orders /\ asked \subseteq Orders
    /\ object \in [Orders -> Statuses \union {"unborn", "gone"}]
    /\ row \in [Orders -> Statuses \union {"none"}]
    /\ issued \in [Orders -> Nat]
    /\ decision \in [Orders -> Statuses \union {"none"}]
    /\ told \in [Orders -> {"nothing", "confirmed", "rejected"}]
    /\ thread \in [Threads -> [at : {"free", "confirm", "callback", "submit", "mark",
                                     "unconfirmed", "refused", "clear"},
                               order : Orders \union {"none"}]]
    /\ cleaner \in [at : {"asleep", "clean", "compare", "mark"}, seen : SUBSET Orders]
    /\ live \in BOOLEAN
    /\ faults \in 0..MaxFaults /\ restarts \in 0..MaxRestarts

(* An order becomes at most one instruction, whoever confirms it and however  *)
(* often the server restarts.                                                 *)
OneInstruction == \A o \in Orders : issued[o] <= 1

(* An order that was traded is never offered again: it is neither in the      *)
(* table nor is its row one that a restart would load.                        *)
TradedLeaves ==
    \A o \in Orders : issued[o] > 0 => o \notin book /\ row[o] # "pending"

(* What the user was told was rejected is never traded, and never told to be  *)
(* confirmed.                                                                 *)
RejectedStays ==
    [][\A o \in Orders : told[o] = "rejected" => issued'[o] = 0 /\ told'[o] = "rejected"]_vars

(* An order leaves the table, by a verdict or when its time is up, unless a   *)
(* row could not be written.                                                  *)
OrdersLeave == \A o \in Orders : o \in book ~> o \notin book \/ faults < MaxFaults

============================================================================
