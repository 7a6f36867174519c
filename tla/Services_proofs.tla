--------------------------- MODULE Services_proofs ---------------------------
(***************************************************************************)
(* Theorems about the services of one process (Services), for any keys,    *)
(* workers, orders, instructions, data sets, tasks and runs and any bounds *)
(* on faults and restarts.                                                 *)
(*                                                                         *)
(* An order is decided once because of three facts that only hold together: *)
(* whoever decides takes it out of the table under the lock, writes its row *)
(* before going on, and a restart loads pending rows alone.  So an order    *)
(* that somebody is deciding, that was traded or that the user was told is *)
(* rejected has left for good, in the table and in its row (Gone).         *)
(*                                                                         *)
(* On the backtesting side each verdict is written by someone who looked   *)
(* earlier: the worker thread holds what it began while users cancel and   *)
(* the server stops, and the upload holds a chunk over several statements. *)
(* The invariants say what has become of the row meanwhile.                *)
(*                                                                         *)
(* The engine manager has one evictor, which is also the one thread that    *)
(* submits tasks under an engine's keys: so while it is about to evict an   *)
(* engine no task of that engine is in any of the scheduler's places, and   *)
(* the table keeps every engine in the evictor's hand (ManagerInv).  The    *)
(* lock of an analyzer has one owner because it goes with the trigger, then *)
(* with the task, then with the worker.                                     *)
(*                                                                         *)
(* A position is protected because its staged levels stand apart: every stop *)
(* in front of the entry, every target behind it, each with an id of its     *)
(* own.  So a quote reaches levels of one kind, each is executed by its id   *)
(* or closes the rest, and what was sold and what remains always make up     *)
(* what was bought (LifeInv).  How the levels come to stand so is the plan's *)
(* part (CreatePlanIs), what one quote does to them that of the rules        *)
(* (EvaluateIs, ManageIs).                                                   *)
(*                                                                         *)
(* A replay adds up because each exit of a position moves the account and    *)
(* the trades apart by exactly the opening commission of what it closes      *)
(* (Settles), and because the orders of one open are looked at one after the  *)
(* other, each against the positions there are by then (Counted).  Its pivots *)
(* are final because bars beyond the last that counts change neither side of  *)
(* the one in the middle (LaterBars), and none is missed because a minute    *)
(* closes at most one bar (ClosedMore, FoundBefore).                         *)
(*                                                                         *)
(* What is said of the scheduler and of the delivery is proved in modules  *)
(* of their own, which are instantiated here.                              *)
(***************************************************************************)
EXTENDS Services, Sequences, SequenceTheorems, FiniteSetTheorems, WellFoundedInduction, TLAPS

(* What is proved of the engine manager's scheduler, and of sums. *)
E == INSTANCE TaskScheduler_proofs WITH
    Keys <- Manager!Keys, Workers <- Callers, Retries <- Manager!Retries, HasStorage <- FALSE,
    MaxTasks <- MaxEngineTasks, MaxCrashes <- 0,
    tasks <- engineTasks, queue <- engineQueue, busy <- engineBusy, worker <- engineWorker,
    submitter <- engineSubmitter, stop <- engineStop, janitor <- engineJanitor,
    crashes <- engineCrashes

----------------------------------------
(* Orders that wait for a confirmation. *)

(* The order the thread has taken out of the table: to trade it, ... *)
Trades(t, o) == thread[t].order = o /\ thread[t].at \in {"callback", "submit"}

(* ... or to record what became of it. *)
Decides(t, o) ==
    thread[t].order = o /\ thread[t].at \in {"callback", "submit", "mark", "refused"}

(* No thread can take it out again, nor will a restart load it. *)
Gone(o) == o \notin book /\ orderRow[o] # "pending" /\ object[o] # "unborn"

UnbornHasNothing == \A o \in Orders : object[o] = "unborn" => o \notin book /\ orderRow[o] = "none"

DecidedIsGone == \A t \in Pending!Threads, o \in Orders : Decides(t, o) => Gone(o)

OneDecides ==
    \A t, u \in Pending!Threads, o \in Orders : Decides(t, o) /\ Decides(u, o) => t = u

TradedOnce ==
    \A o \in Orders :
        /\ issued[o] <= 1
        /\ issued[o] > 0 => Gone(o)
        /\ \A t \in Pending!Threads : Trades(t, o) => issued[o] = 0

(* Refused: the loop is about to tell the user. *)
Refused(o) == thread["loop"].order = o /\ thread["loop"].at = "refused"

RejectedIsUntraded ==
    /\ \A o \in Orders :
          /\ told[o] = "rejected" => /\ Gone(o) /\ issued[o] = 0
                                     /\ \A t \in Pending!Threads : ~Decides(t, o)
          /\ Refused(o) => issued[o] = 0
    /\ thread["tick"].at # "refused"

DecisionInv ==
    UnbornHasNothing /\ DecidedIsGone /\ OneDecides /\ TradedOnce /\ RejectedIsUntraded

----------------------------------------
LEMMA OrdersTypedInit ==
    ASSUME OrderFaults \in Nat, OrderRestarts \in Nat
    PROVE  Pending!Init => Pending!TypeOK
  BY DEF Pending!Init, Pending!TypeOK, Pending!Statuses, Pending!Threads, Pending!Free, Pending!Asleep

LEMMA GotoType ==
    ASSUME Pending!TypeOK, NEW t \in Pending!Threads, NEW o \in Orders \union {"none"},
           NEW at \in {"free", "confirm", "callback", "submit", "mark", "unconfirmed",
                       "refused", "clear"},
           Pending!Goto(t, at, o) \/ Pending!End(t)
    PROVE  thread' \in [Pending!Threads -> [at : {"free", "confirm", "callback", "submit", "mark",
                                          "unconfirmed", "refused", "clear"},
                                    order : Orders \union {"none"}]]
  BY DEF Pending!TypeOK, Pending!Goto, Pending!End, Pending!Free

LEMMA PersistType ==
    ASSUME Pending!TypeOK, NEW t \in Pending!Threads, NEW o \in Orders, NEW status \in Pending!Statuses,
           NEW next \in {"free", "confirm", "callback", "refused"},
           Pending!Persist(t, o, status, next), OrderFaults \in Nat
    PROVE  /\ orderRow' \in [Orders -> Pending!Statuses \union {"none"}]
           /\ thread' \in [Pending!Threads -> [at : {"free", "confirm", "callback", "submit", "mark",
                                             "unconfirmed", "refused", "clear"},
                                       order : Orders \union {"none"}]]
           /\ faults' \in 0..OrderFaults BY GotoType DEF Pending!Persist, Pending!TypeOK, Pending!Fault

LEMMA UpdatedType ==
    ASSUME Pending!TypeOK, NEW o, NEW status \in Pending!Statuses, Pending!Updated(o, status)
    PROVE  decision' \in [Orders -> Pending!Statuses \union {"none"}] BY DEF Pending!TypeOK, Pending!Updated

LEMMA OrdersTypedStep ==
    ASSUME OrderFaults \in Nat, OrderRestarts \in Nat
    PROVE  Pending!TypeOK /\ [Pending!Next]_(Pending!vars) => Pending!TypeOK'
<1> SUFFICES ASSUME Pending!TypeOK, [Pending!Next]_(Pending!vars) PROVE Pending!TypeOK' OBVIOUS
<1>a. \A t \in Pending!Threads : thread[t].order \in Orders \union {"none"} BY DEF Pending!TypeOK
<1>1. CASE UNCHANGED Pending!vars BY <1>1 DEF Pending!vars, Pending!TypeOK
<1>2. ASSUME NEW o \in Orders, NEW t \in Pending!Threads, Pending!Create(t, o) PROVE Pending!TypeOK'
  BY <1>2, PersistType DEF Pending!Create, Pending!TypeOK, Pending!Statuses
<1>3. ASSUME NEW o \in Orders, Pending!Ask(o) \/ Pending!Resume(o) \/ Pending!Expire(o) PROVE Pending!TypeOK'
  BY <1>3, GotoType DEF Pending!Ask, Pending!Resume, Pending!Expire, Pending!TypeOK, Pending!Threads
<1>4. ASSUME NEW o \in Orders, Pending!Reject(o) PROVE Pending!TypeOK'
  BY <1>4, PersistType DEF Pending!Reject, Pending!Removed, Pending!TypeOK, Pending!Statuses, Pending!Threads
<1>5. ASSUME NEW t \in Pending!Threads, Pending!Confirm(t) PROVE Pending!TypeOK'
  <2>1. CASE thread[t].order \in book
    BY <1>5, <2>1, PersistType DEF Pending!Confirm, Pending!Removed, Pending!TypeOK, Pending!Statuses
  <2>2. CASE thread[t].order \notin book BY <1>5, <2>2, <1>a, GotoType DEF Pending!Confirm, Pending!TypeOK
  <2> QED BY <2>1, <2>2
<1>6. ASSUME NEW t \in Pending!Threads, Pending!Permitted(t) PROVE Pending!TypeOK'
  BY <1>6, <1>a, GotoType DEF Pending!Permitted, Pending!TypeOK
<1>7. ASSUME NEW t \in Pending!Threads, Pending!Submit(t) PROVE Pending!TypeOK'
  BY <1>7, <1>a, GotoType DEF Pending!Submit, Pending!TypeOK, Pending!Fault
<1>8. CASE Pending!MarkDecided
  BY <1>8, GotoType DEF Pending!MarkDecided, Pending!TypeOK, Pending!Statuses, Pending!Threads
<1>9. CASE Pending!MarkConfirmed
  BY <1>9, GotoType, UpdatedType DEF Pending!MarkConfirmed, Pending!TypeOK, Pending!Statuses, Pending!Threads
<1>10. CASE Pending!MarkRejected
  BY <1>10, GotoType, UpdatedType DEF Pending!MarkRejected, Pending!TypeOK, Pending!Statuses, Pending!Threads
<1>11. CASE Pending!CleanupBegin \/ Pending!Compare
  BY <1>11 DEF Pending!CleanupBegin, Pending!Compare, Pending!TypeOK
<1>12. CASE Pending!Cleanup
  BY <1>12 DEF Pending!Cleanup, Pending!Overdue, Pending!Fault, Pending!Asleep, Pending!TypeOK, Pending!Statuses
<1>13. CASE Pending!MarkExpired
  BY <1>13, UpdatedType DEF Pending!MarkExpired, Pending!Asleep, Pending!TypeOK, Pending!Statuses
<1>14. CASE Pending!Suspend \/ Pending!SuspendClear \/ Pending!Permit \/ Pending!Poll
  BY <1>14, GotoType, ZenonT(30) DEF Pending!Suspend, Pending!SuspendClear, Pending!Permit, Pending!Poll, Pending!Cleared, Pending!TypeOK, Pending!Threads
<1>15. CASE Pending!Restart
  BY <1>15 DEF Pending!Restart, Pending!Loaded, Pending!Free, Pending!Asleep, Pending!TypeOK, Pending!Statuses
<1> QED BY <1>1, <1>2, <1>3, <1>4, <1>5, <1>6, <1>7, <1>8, <1>9, <1>10, <1>11, <1>12, <1>13,
     <1>14, <1>15 DEF Pending!Next, Pending!ThreadStep, Pending!CleanerStep

(* Every variable keeps its type. *)
THEOREM TypeCorrect ==
    ASSUME OrderFaults \in Nat, OrderRestarts \in Nat
    PROVE  Pending!Spec => []Pending!TypeOK BY OrdersTypedInit, OrdersTypedStep, PTL DEF Pending!Spec

----------------------------------------
(* A step that takes no order out of the table and records no verdict only has
   to bring nothing back. *)
LEMMA CalmStep ==
    ASSUME DecisionInv, UNCHANGED <<issued, told>>, UnbornHasNothing',
           \A o \in Orders : Gone(o) => Gone(o)',
           \A t \in Pending!Threads, o \in Orders :
               /\ Decides(t, o)' => Decides(t, o)
               /\ Trades(t, o)' => Trades(t, o),
           \A o \in Orders : Refused(o)' => Refused(o),
           thread'["tick"].at # "refused"
    PROVE  DecisionInv'
<1> USE DEF DecisionInv
<1>1. DecidedIsGone' BY DEF DecidedIsGone
<1>2. OneDecides' BY DEF OneDecides
<1>3. TradedOnce' BY DEF TradedOnce
<1>4. RejectedIsUntraded' BY DEF RejectedIsUntraded
<1> QED BY <1>1, <1>2, <1>3, <1>4

(* A thread that moves on without deciding anything. *)
LEMMA IdleThread ==
    ASSUME Pending!TypeOK, DecisionInv, NEW t \in Pending!Threads, NEW o,
           NEW at \in {"free", "confirm", "unconfirmed", "clear"},
           Pending!Goto(t, at, o) \/ Pending!End(t)
    PROVE  /\ \A u \in Pending!Threads, p \in Orders : /\ Decides(u, p)' => Decides(u, p)
                                                       /\ Trades(u, p)' => Trades(u, p)
           /\ \A p \in Orders : Refused(p)' => Refused(p)
           /\ thread'["tick"].at # "refused"
  BY DEF Pending!TypeOK, Pending!Goto, Pending!End, Pending!Free, Decides, Trades, Refused, Pending!Threads, DecisionInv,
         RejectedIsUntraded

LEMMA StillThread ==
    ASSUME DecisionInv, UNCHANGED thread
    PROVE  /\ \A u \in Pending!Threads, p \in Orders : /\ Decides(u, p)' => Decides(u, p)
                                                       /\ Trades(u, p)' => Trades(u, p)
           /\ \A p \in Orders : Refused(p)' => Refused(p)
           /\ thread'["tick"].at # "refused" BY DEF Decides, Trades, Refused, DecisionInv, RejectedIsUntraded

(* An order in the table is nobody's yet. *)
LEMMA BookedIsOpen ==
    ASSUME Pending!TypeOK, DecisionInv, NEW o \in Orders, o \in book
    PROVE  /\ issued[o] = 0
           /\ told[o] # "rejected"
           /\ object[o] # "unborn"
           /\ \A t \in Pending!Threads : ~Decides(t, o)
  BY DEF Pending!TypeOK, DecisionInv, UnbornHasNothing, DecidedIsGone, TradedOnce,
         RejectedIsUntraded, Gone

(* Taking an order out of the table: the row may fail to be written, and then
   nobody decides it. *)
LEMMA TakeOut ==
    ASSUME Pending!TypeOK, DecisionInv, NEW t \in Pending!Threads, NEW o \in Orders, o \in book,
           NEW status \in {"confirmed", "rejected"}, NEW next,
           \/ status = "confirmed" /\ next = "callback"
           \/ status = "rejected" /\ next = "refused" /\ t = "loop",
           Pending!Removed(o), object' = [object EXCEPT ![o] = status],
           Pending!Persist(t, o, status, next), UNCHANGED <<issued, told>>
    PROVE  DecisionInv'
<1>1. /\ issued[o] = 0 /\ told[o] # "rejected" /\ object[o] # "unborn"
      /\ \A u \in Pending!Threads : ~Decides(u, o) BY BookedIsOpen
<1>2. UnbornHasNothing'
  BY <1>1 DEF DecisionInv, UnbornHasNothing, Pending!TypeOK, Pending!Removed, Pending!Persist
<1>3. /\ \A p \in Orders : Gone(p) => Gone(p)'
      /\ o \notin book' /\ object'[o] # "unborn"
  BY <1>1 DEF Pending!TypeOK, Gone, Pending!Removed, Pending!Persist
<1>4. CASE Pending!Fault /\ Pending!End(t) BY <1>2, <1>3, <1>4, CalmStep, IdleThread
<1>5. CASE orderRow' = [orderRow EXCEPT ![o] = status] /\ Pending!Goto(t, next, o)
  <2>1. Gone(o)' BY <1>3, <1>5 DEF Gone, Pending!TypeOK
  <2>2. \A u \in Pending!Threads, p \in Orders :
            /\ Decides(u, p)' => Decides(u, p) \/ (u = t /\ p = o)
            /\ Trades(u, p)' => Trades(u, p) \/ (u = t /\ p = o)
            /\ Refused(p)' => Refused(p) \/ p = o
            /\ thread'["tick"].at # "refused"
    BY <1>5 DEF DecisionInv, RejectedIsUntraded, Pending!TypeOK, Pending!Goto, Decides, Trades, Refused,
                Pending!Threads
  <2>3. DecidedIsGone' /\ OneDecides' BY <1>1, <1>3, <2>1, <2>2 DEF DecisionInv, DecidedIsGone, OneDecides
  <2>4. TradedOnce' BY <1>1, <1>3, <2>1, <2>2 DEF DecisionInv, TradedOnce
  <2>5. RejectedIsUntraded' BY <1>1, <1>3, <2>2, "loop" \in Pending!Threads
       DEF DecisionInv, RejectedIsUntraded, Pending!Threads
  <2> QED BY <1>2, <2>3, <2>4, <2>5 DEF DecisionInv
<1> QED BY <1>4, <1>5 DEF Pending!Persist

LEMMA DecisionInit == Pending!Init => DecisionInv
  BY DEF Pending!Init, DecisionInv, UnbornHasNothing, DecidedIsGone, OneDecides, TradedOnce,
         RejectedIsUntraded, Gone, Decides, Trades, Refused, Pending!Free, Pending!Threads

LEMMA DecisionStep == Pending!TypeOK /\ DecisionInv /\ [Pending!Next]_(Pending!vars) => DecisionInv'
<1> SUFFICES ASSUME Pending!TypeOK, DecisionInv, [Pending!Next]_(Pending!vars) PROVE DecisionInv' OBVIOUS
<1>u. UnbornHasNothing BY DEF DecisionInv
<1>1. CASE UNCHANGED <<book, object, orderRow, issued, told, thread>>
  BY <1>1, <1>u, CalmStep, StillThread DEF Gone, UnbornHasNothing
<1>2. ASSUME NEW o \in Orders, NEW t \in Pending!Threads, Pending!Create(t, o) PROVE DecisionInv'
  <2>1. UnbornHasNothing' /\ \A p \in Orders : Gone(p) => Gone(p)'
    BY <1>2, <1>u DEF Pending!Create, Pending!Persist, UnbornHasNothing, Gone, Pending!TypeOK
  <2>2. PICK at \in {"free", "confirm"} : Pending!Goto(t, at, o) \/ Pending!End(t)
    BY <1>2 DEF Pending!Create, Pending!Persist
  <2> QED BY <1>2, <2>1, <2>2, CalmStep, IdleThread DEF Pending!Create
<1>3. ASSUME NEW o \in Orders, Pending!Resume(o) PROVE DecisionInv'
  <2>1. UnbornHasNothing' /\ \A p \in Orders : Gone(p) => Gone(p)'
    BY <1>3, <1>u DEF Pending!Resume, UnbornHasNothing, Gone
  <2> QED BY <1>3, <2>1, CalmStep, IdleThread, StillThread DEF Pending!Resume, Pending!Threads
<1>4. ASSUME NEW o \in Orders, Pending!Reject(o) PROVE DecisionInv'
  BY <1>4, TakeOut DEF Pending!Reject, Pending!Threads
<1>5. ASSUME NEW t \in Pending!Threads, Pending!Confirm(t) PROVE DecisionInv'
  <2>1. CASE thread[t].order \in book BY <1>5, <2>1, TakeOut DEF Pending!Confirm, Pending!TypeOK
  <2>2. CASE thread[t].order \notin book
    <3>1. UnbornHasNothing' /\ \A p \in Orders : Gone(p) => Gone(p)'
      BY <1>5, <2>2, <1>u DEF Pending!Confirm, UnbornHasNothing, Gone
    <3> QED BY <1>5, <2>2, <3>1, CalmStep, IdleThread DEF Pending!Confirm
  <2> QED BY <2>1, <2>2
<1>6. ASSUME NEW t \in Pending!Threads, Pending!Permitted(t) PROVE DecisionInv'
  <2>1. UnbornHasNothing' /\ \A p \in Orders : Gone(p) => Gone(p)'
    BY <1>6, <1>u DEF Pending!Permitted, UnbornHasNothing, Gone
  <2>2. /\ \A u \in Pending!Threads, p \in Orders : /\ Decides(u, p)' => Decides(u, p)
                                                    /\ Trades(u, p)' => Trades(u, p)
        /\ \A p \in Orders : Refused(p)' => Refused(p)
        /\ thread'["tick"].at # "refused"
    BY <1>6 DEF Pending!Permitted, Pending!Goto, Pending!TypeOK, Decides, Trades, Refused, DecisionInv,
                RejectedIsUntraded, Pending!Threads
  <2> QED BY <1>6, <2>1, <2>2, CalmStep DEF Pending!Permitted
<1>7. ASSUME NEW t \in Pending!Threads, Pending!Submit(t) PROVE DecisionInv'
  <2> PICK o : o = thread[t].order OBVIOUS
  <2>1. /\ UnbornHasNothing' /\ \A p \in Orders : Gone(p) <=> Gone(p)'
        /\ UNCHANGED told BY <1>7, <1>u DEF Pending!Submit, UnbornHasNothing, Gone
  <2>2. o \in Orders => Trades(t, o) /\ Decides(t, o) /\ ~Refused(o) /\ Gone(o) /\ issued[o] = 0
    <3>1. o \in Orders => Trades(t, o) /\ Decides(t, o) BY <1>7 DEF Pending!Submit, Trades, Decides
    <3>2. o \in Orders => ~Refused(o)
      BY <1>7, <3>1 DEF Pending!Submit, Refused, DecisionInv, OneDecides, Decides, Pending!Threads
    <3> QED BY <3>1, <3>2 DEF DecisionInv, DecidedIsGone, TradedOnce
  <2>3. /\ \A u \in Pending!Threads, p \in Orders :
               /\ Decides(u, p)' => Decides(u, p)
               /\ Trades(u, p)' => Trades(u, p) /\ u # t
        /\ \A p \in Orders : Refused(p)' => Refused(p)
        /\ thread'["tick"].at # "refused"
    BY <1>7 DEF Pending!Submit, Pending!Goto, Pending!TypeOK, Decides, Trades, Refused, DecisionInv,
                RejectedIsUntraded, Pending!Threads
  <2>4. \A p \in Orders : issued'[p] = issued[p] \/ (p = o /\ issued'[p] = issued[p] + 1)
    BY <1>7 DEF Pending!Submit, Pending!TypeOK
  <2>5. DecidedIsGone' /\ OneDecides' BY <2>1, <2>3 DEF DecisionInv, DecidedIsGone, OneDecides
  <2>6. TradedOnce'
    <3> SUFFICES ASSUME NEW p \in Orders
                 PROVE  /\ issued'[p] <= 1
                        /\ issued'[p] > 0 => Gone(p)'
                        /\ \A u \in Pending!Threads : Trades(u, p)' => issued'[p] = 0 BY DEF TradedOnce
    <3>1. CASE p = o
      <4>1. \A u \in Pending!Threads : ~Trades(u, p)'
        BY <2>2, <2>3, <3>1 DEF DecisionInv, OneDecides, Trades, Decides
      <4> QED BY <2>1, <2>2, <2>4, <3>1, <4>1
    <3>2. CASE p # o BY <2>1, <2>3, <2>4, <3>2 DEF DecisionInv, TradedOnce
    <3> QED BY <3>1, <3>2
  <2>7. RejectedIsUntraded' BY <2>1, <2>2, <2>3, <2>4 DEF DecisionInv, RejectedIsUntraded
  <2> QED BY <2>1, <2>5, <2>6, <2>7 DEF DecisionInv
<1>8. CASE Pending!MarkDecided
  <2>1. UnbornHasNothing' /\ \A p \in Orders : Gone(p) => Gone(p)'
    BY <1>8, <1>u DEF Pending!MarkDecided, UnbornHasNothing, Gone
  <2> QED BY <1>8, <2>1, CalmStep, IdleThread DEF Pending!MarkDecided, Pending!Threads
<1>9. CASE Pending!MarkConfirmed \/ Pending!MarkRejected
  <2> PICK o : o = thread["loop"].order OBVIOUS
  <2>1. /\ UnbornHasNothing' /\ \A p \in Orders : Gone(p) <=> Gone(p)'
        /\ UNCHANGED issued /\ Pending!End("loop")
    BY <1>9, <1>u DEF Pending!MarkConfirmed, Pending!MarkRejected, UnbornHasNothing, Gone
  <2>2. /\ \A u \in Pending!Threads, p \in Orders :
               /\ Decides(u, p)' => Decides(u, p) /\ u = "tick"
               /\ Trades(u, p)' => Trades(u, p)
        /\ \A p \in Orders : ~Refused(p)'
        /\ thread'["tick"].at # "refused"
    BY <2>1 DEF Pending!End, Pending!Free, Pending!TypeOK, Decides, Trades, Refused, DecisionInv,
                RejectedIsUntraded, Pending!Threads
  <2>3. \A p \in Orders : told'[p] = "rejected" => told[p] = "rejected" \/ (p = o /\ Refused(o))
    BY <1>9 DEF Pending!MarkConfirmed, Pending!MarkRejected, Refused, Pending!TypeOK
  <2>4. DecidedIsGone' /\ OneDecides' /\ TradedOnce'
    BY <2>1, <2>2 DEF DecisionInv, DecidedIsGone, OneDecides, TradedOnce
  <2>5. ASSUME NEW p \in Orders, told'[p] = "rejected"
        PROVE  Gone(p)' /\ issued'[p] = 0 /\ \A t \in Pending!Threads : ~Decides(t, p)'
    <3>1. CASE told[p] = "rejected" BY <2>1, <2>2, <3>1 DEF DecisionInv, RejectedIsUntraded
    <3>2. CASE p = o /\ Refused(o)
      <4>1. Decides("loop", p) BY <3>2 DEF Refused, Decides
      <4>2. Gone(p) /\ ~Decides("tick", p) /\ issued[p] = 0
        BY <3>2, <4>1 DEF DecisionInv, DecidedIsGone, OneDecides, RejectedIsUntraded, Pending!Threads
      <4> QED BY <2>1, <2>2, <4>2
    <3> QED BY <2>3, <2>5, <3>1, <3>2
  <2>6. RejectedIsUntraded' BY <2>2, <2>5 DEF RejectedIsUntraded
  <2> QED BY <2>1, <2>4, <2>6 DEF DecisionInv
<1>10. CASE Pending!Cleanup
  <2>1. UnbornHasNothing' /\ \A p \in Orders : Gone(p) => Gone(p)'
    BY <1>10, <1>u DEF Pending!Cleanup, Pending!Overdue, UnbornHasNothing, Gone, Pending!TypeOK
  <2> QED BY <1>10, <2>1, CalmStep, StillThread DEF Pending!Cleanup
<1>11. CASE Pending!Suspend \/ Pending!SuspendClear
  <2>1. UnbornHasNothing' /\ \A p \in Orders : Gone(p) => Gone(p)'
    BY <1>11, <1>u DEF Pending!Suspend, Pending!SuspendClear, Pending!Cleared, UnbornHasNothing, Gone
  <2> QED BY <1>11, <2>1, CalmStep, IdleThread DEF Pending!Suspend, Pending!SuspendClear, Pending!Threads
<1>12. CASE Pending!Poll
  <2>1. UnbornHasNothing' /\ \A p \in Orders : Gone(p) => Gone(p)'
    BY <1>12, <1>u DEF Pending!Poll, Pending!Cleared, UnbornHasNothing, Gone
  <2> QED BY <1>12, <2>1, CalmStep, StillThread DEF Pending!Poll
<1>13. CASE Pending!Restart
  <2>1. UnbornHasNothing' /\ \A p \in Orders : Gone(p) => Gone(p)'
    BY <1>13, <1>u DEF Pending!Restart, Pending!Loaded, UnbornHasNothing, Gone, Pending!TypeOK
  <2>2. \A t \in Pending!Threads, p \in Orders : ~Decides(t, p)' /\ ~Trades(t, p)' /\ ~Refused(p)'
    BY <1>13 DEF Pending!Restart, Pending!Free, Decides, Trades, Refused, Pending!Threads
  <2>3. thread'["tick"].at # "refused" BY <1>13 DEF Pending!Restart, Pending!Free, Pending!Threads
  <2> QED
    BY <1>13, <2>1, <2>2, <2>3, "loop" \in Pending!Threads, CalmStep DEF Pending!Restart, Pending!Threads
<1> QED BY <1>1, <1>2, <1>3, <1>4, <1>5, <1>6, <1>7, <1>8, <1>9, <1>10, <1>11, <1>12, <1>13
     DEF Pending!Next, Pending!ThreadStep, Pending!CleanerStep, Pending!vars, Pending!Ask, Pending!Expire, Pending!CleanupBegin, Pending!Compare,
         Pending!MarkExpired, Pending!Permit


----------------------------------------
(* The worker threads: where one that has a row in hand may be. *)
Ended == {"completed", "failed", "canceled"}
Statuses == {"none", "queued", "running"} \union Ended

----------------------------------------
(* Factor searches. *)

RunsTyped ==
    /\ runs \in [Runs -> [st : Statuses, cancel : BOOLEAN]]
    /\ user \in Runs \union {0}
    /\ searcher \in [at : {"idle", "working", "dead", "off"} \union Ended, run : Runs \union {0}]

(* What the thread has begun is running, and it gives up only a run whose
   flag it has seen; the flag is never taken back. *)
SearcherHolds ==
    searcher.at \in {"working"} \union Ended =>
        searcher.run \in Runs /\ runs[searcher.run].st = "running"
SearcherWasAsked == searcher.at = "canceled" => runs[searcher.run].cancel

RunsInv == RunsTyped /\ SearcherHolds /\ SearcherWasAsked /\ Alphas!CanceledOnRequest

LEMMA RunsInitially == Alphas!Init => RunsInv
  BY DEF Alphas!Init, RunsInv, RunsTyped, SearcherHolds, SearcherWasAsked,
         Alphas!CanceledOnRequest, Statuses, Ended

(* One step: the invariant, and that no verdict changes. *)
VerdictsOfRuns == \A r \in Runs : runs[r].st \in Ended => runs'[r].st = runs[r].st

LEMMA RunsStep ==
    ASSUME RunsInv, [Alphas!Next]_(Alphas!vars)
    PROVE  RunsInv' /\ VerdictsOfRuns
<1> USE DEF RunsInv, RunsTyped, SearcherHolds, SearcherWasAsked, Alphas!CanceledOnRequest,
           VerdictsOfRuns, Statuses, Ended, Alphas!Bounded
<1>1. ASSUME NEW r \in Runs, Alphas!CreateRun(r) PROVE RunsInv' /\ VerdictsOfRuns BY <1>1 DEF Alphas!CreateRun
<1>2. ASSUME NEW r \in Runs, Alphas!LookCancel(r) PROVE RunsInv' /\ VerdictsOfRuns BY <1>2 DEF Alphas!LookCancel
<1>3. CASE Alphas!SetCancel BY <1>3, ZenonT(30) DEF Alphas!SetCancel
<1>4. CASE Alphas!Claim BY <1>4 DEF Alphas!Claim
<1>5. CASE Alphas!Works
  BY <1>5 DEF Alphas!Works, Alphas!Notices, Alphas!Through, Alphas!Record, Alphas!To, Alphas!Ended
<1>6. CASE Alphas!Raises BY <1>6 DEF Alphas!Raises, Alphas!To
<1>7. CASE Alphas!StatementFails BY <1>7 DEF Alphas!StatementFails
<1>8. CASE Alphas!Stop BY <1>8 DEF Alphas!Stop
<1>9. CASE Alphas!Start BY <1>9 DEF Alphas!Start, Alphas!Recovered
<1>10. CASE UNCHANGED Alphas!vars BY <1>10 DEF Alphas!vars
<1> QED BY <1>1, <1>2, <1>3, <1>4, <1>5, <1>6, <1>7, <1>8, <1>9, <1>10 DEF Alphas!Next, Alphas!User

----------------------------------------
(* Backtests. *)

TestsAssumption == IsFiniteSet(Tasks) /\ BatchOf \in [Tasks -> Batches]

RowSet == [st : Statuses, cancel : BOOLEAN, fresh : BOOLEAN,
           ledger : {"none", "running", "completed", "canceled"}]
BatchSet == [st : Statuses, completed : Nat, failed : Nat, canceled : Nat]

TasksTyped ==
    /\ testRows \in [Tasks -> RowSet]
    /\ batch \in [Batches -> BatchSet]
    /\ tester \in [at : {"idle", "working", "through", "canceled", "failed", "dead", "off"},
                   task : Tasks \union {"none"}]

(* The task in the worker's hands runs, whatever the user has asked
   meanwhile, and it is given up only when the user has. *)
WorkerHolds ==
    tester.at \in {"working", "through", "canceled", "failed"} =>
        tester.task \in Tasks /\ testRows[tester.task].st = "running"
WorkerWasAsked == tester.at = "canceled" => testRows[tester.task].cancel

(* A batch and its tasks come into being together. *)
BornTogether == \A t \in Tasks : testRows[t].st = "none" <=> batch[BatchOf[t]].st = "none"

(* A batch agrees with the rows of its tasks: BatchAgrees, batch by batch. *)
Counts(rs, b, entry) ==
    /\ entry.completed = Tests!Count(rs, b, "completed")
    /\ entry.failed = Tests!Count(rs, b, "failed")
    /\ entry.canceled = Tests!Count(rs, b, "canceled")
    /\ entry.st = "queued" \/ entry.st = Tests!Verdict(rs, b)
    /\ entry.st = "queued" => \A t \in Tests!TasksOf(b) : rs[t].st = "queued"
AccountAgrees(row) == row.st = "completed" <=> row.ledger = "completed"

ByBatch == /\ \A b \in Batches : batch[b].st # "none" => Counts(testRows, b, batch[b])
           /\ \A t \in Tasks : AccountAgrees(testRows[t])

LEMMA AgreesByBatch == (Tests!BatchAgrees <=> ByBatch) /\ (Tests!BatchAgrees' <=> ByBatch')
  BY DEF Tests!BatchAgrees, ByBatch, Counts, AccountAgrees, Tests!None

TasksInv == TasksTyped /\ WorkerHolds /\ WorkerWasAsked /\ BornTogether /\ Tests!BatchAgrees

(* Counting: a count is a number, positive when a task is counted, and does
   not change when no task enters or leaves the set that is counted. *)
LEMMA CountIsNat ==
    ASSUME IsFiniteSet(Tasks), NEW rs, NEW b, NEW st
    PROVE  /\ Tests!Count(rs, b, st) \in Nat
           /\ Tests!Count(rs, b, st) > 0 <=> \E t \in Tests!TasksOf(b) : rs[t].st = st
<1> DEFINE S == {t \in Tests!TasksOf(b) : rs[t].st = st}
<1>1. S \subseteq Tasks BY DEF Tests!TasksOf
<1>2. IsFiniteSet(S) BY <1>1, FS_Subset
<1>3. Cardinality(S) \in Nat /\ (Cardinality(S) = 0 <=> S = {}) BY <1>2, FS_CardinalityType, FS_EmptySet
<1>4. S # {} <=> \E t \in Tests!TasksOf(b) : rs[t].st = st OBVIOUS
<1>5. Tests!Count(rs, b, st) = Cardinality(S) BY DEF Tests!Count, Tests!Cardinality, Cardinality
<1> HIDE DEF S
<1> QED BY <1>3, <1>4, <1>5

LEMMA NoneCounted ==
    ASSUME NEW rs, NEW b, NEW st, \A t \in Tests!TasksOf(b) : rs[t].st # st
    PROVE  Tests!Count(rs, b, st) = 0
<1>1. {t \in Tests!TasksOf(b) : rs[t].st = st} = {} OBVIOUS
<1> QED BY <1>1, FS_EmptySet DEF Tests!Count, Tests!Cardinality, Cardinality

LEMMA CountIsSame ==
    ASSUME NEW rs, NEW ss, NEW b, NEW st,
           \A t \in Tests!TasksOf(b) : rs[t].st = st <=> ss[t].st = st
    PROVE  Tests!Count(rs, b, st) = Tests!Count(ss, b, st)
<1>1. {t \in Tests!TasksOf(b) : rs[t].st = st} = {t \in Tests!TasksOf(b) : ss[t].st = st} OBVIOUS
<1> QED BY <1>1 DEF Tests!Count

(* The verdict is "running" exactly while a task has not ended; and a batch
   in which tasks only went between queued and running keeps it. *)
LEMMA VerdictIsRunning ==
    ASSUME IsFiniteSet(Tasks), NEW rs, NEW b
    PROVE  Tests!Verdict(rs, b) = "running"
               <=> \E t \in Tests!TasksOf(b) : rs[t].st \in {"queued", "running"}
<1> DEFINE q == Tests!Count(rs, b, "queued")
           r == Tests!Count(rs, b, "running")
<1>1. /\ q \in Nat /\ (q > 0 <=> \E t \in Tests!TasksOf(b) : rs[t].st = "queued")
      /\ r \in Nat /\ (r > 0 <=> \E t \in Tests!TasksOf(b) : rs[t].st = "running") BY CountIsNat
<1>2. Tests!Verdict(rs, b) = "running" <=> q + r > 0 BY DEF Tests!Verdict
<1> HIDE DEF q, r
<1>3. q + r > 0 <=> q > 0 \/ r > 0 BY <1>1
<1> QED BY <1>1, <1>2, <1>3

Apart(rs, ss, b) ==
    \A t \in Tests!TasksOf(b) :
        rs[t].st = ss[t].st \/ {rs[t].st, ss[t].st} \subseteq {"queued", "running"}

LEMMA CountsAreKept ==
    ASSUME IsFiniteSet(Tasks), NEW rs, NEW ss, NEW b, NEW e,
           Apart(rs, ss, b), Counts(rs, b, e), e.st # "queued"
    PROVE  Counts(ss, b, e)
<1>1. \A t \in Tests!TasksOf(b), st \in Ended : rs[t].st = st <=> ss[t].st = st BY DEF Apart, Ended
<1>2. \A st \in Ended : Tests!Count(rs, b, st) = Tests!Count(ss, b, st) BY <1>1, CountIsSame
<1>3. Tests!Verdict(rs, b) = "running" <=> Tests!Verdict(ss, b) = "running" BY VerdictIsRunning DEF Apart
<1>4. ASSUME NEW us PROVE
        Tests!Verdict(us, b) = "running" \/ Tests!Verdict(us, b) =
            IF Tests!Count(us, b, "failed") > 0 THEN "failed"
            ELSE IF Tests!Count(us, b, "canceled") > 0 THEN "canceled" ELSE "completed" BY DEF Tests!Verdict
<1>5. Tests!Verdict(rs, b) = Tests!Verdict(ss, b)
  <2>1. \A us : Tests!Verdict(us, b) = "running" \/ Tests!Verdict(us, b) =
            IF Tests!Count(us, b, "failed") > 0 THEN "failed"
            ELSE IF Tests!Count(us, b, "canceled") > 0 THEN "canceled" ELSE "completed" BY <1>4
  <2> QED BY <1>2, <1>3, <2>1 DEF Ended
<1> QED BY <1>2, <1>5 DEF Counts, Ended

LEMMA CountsAreSame ==
    ASSUME IsFiniteSet(Tasks), NEW rs, NEW ss, NEW b, NEW e, Counts(rs, b, e),
           \A t \in Tests!TasksOf(b) : rs[t].st = ss[t].st
    PROVE  Counts(ss, b, e)
<1>1. \A st : Tests!Count(rs, b, st) = Tests!Count(ss, b, st) BY CountIsSame
<1> QED BY <1>1 DEF Counts, Tests!Verdict

(* The first task of a batch is begun. *)
LEMMA BatchBegins ==
    ASSUME IsFiniteSet(Tasks), NEW rs, NEW ss, NEW b, NEW e \in BatchSet,
           Apart(rs, ss, b), Counts(rs, b, e),
           NEW t \in Tests!TasksOf(b), ss[t].st = "running"
    PROVE  Counts(ss, b, [e EXCEPT !.st = "running"])
<1>1. \A u \in Tests!TasksOf(b), st \in Ended : rs[u].st = st <=> ss[u].st = st BY DEF Apart, Ended
<1>2. \A st \in Ended : Tests!Count(rs, b, st) = Tests!Count(ss, b, st) BY <1>1, CountIsSame
<1>3. Tests!Verdict(ss, b) = "running" BY VerdictIsRunning
<1> QED BY <1>2, <1>3 DEF Counts, Ended, BatchSet

(* _refresh_batch writes what agrees. *)
LEMMA RefreshCounts ==
    ASSUME IsFiniteSet(Tasks), NEW rs, NEW b
    PROVE  /\ Tests!Refreshed(rs, b) \in BatchSet
           /\ Tests!Refreshed(rs, b).st \notin {"none", "queued"}
           /\ Counts(rs, b, Tests!Refreshed(rs, b))
<1>1. \A st : Tests!Count(rs, b, st) \in Nat BY CountIsNat
<1>2. Tests!Verdict(rs, b) \in {"running", "completed", "failed", "canceled"} BY DEF Tests!Verdict
<1> QED BY <1>1, <1>2 DEF Counts, Tests!Refreshed, BatchSet, Statuses, Ended

LEMMA RefreshAgrees ==
    ASSUME IsFiniteSet(Tasks), batch \in [Batches -> BatchSet], NEW bs,
           Tests!Refresh(testRows', bs),
           \A b \in Batches : b \notin bs /\ batch[b].st # "none" => Counts(testRows', b, batch[b])
    PROVE  /\ batch' \in [Batches -> BatchSet]
           /\ \A b \in Batches : batch'[b].st # "none" => Counts(testRows', b, batch'[b])
           /\ \A b \in Batches : b \in bs => batch'[b].st # "none"
           /\ \A b \in Batches : b \notin bs => batch'[b] = batch[b]
<1>1. \A b \in Batches : /\ Tests!Refreshed(testRows', b) \in BatchSet
                         /\ Tests!Refreshed(testRows', b).st \notin {"none", "queued"}
                         /\ Counts(testRows', b, Tests!Refreshed(testRows', b)) BY RefreshCounts
<1>2. batch' = [b \in Batches |-> IF b \in bs THEN Tests!Refreshed(testRows', b) ELSE batch[b]]
  BY DEF Tests!Refresh
<1> QED BY <1>1, <1>2

(* The counts of a batch none of whose tasks the step touches. *)
LEMMA OthersAreKept ==
    ASSUME IsFiniteSet(Tasks), Tests!BatchAgrees, NEW b \in Batches, batch[b].st # "none",
           \A t \in Tests!TasksOf(b) : testRows'[t].st = testRows[t].st
    PROVE  Counts(testRows', b, batch[b])
<1>1. Counts(testRows, b, batch[b]) BY AgreesByBatch DEF ByBatch
<1> QED BY <1>1, CountsAreSame

(* What a step may do to a task: CancelHolds, of one step. *)
VerdictsOfTasks ==
    \A t \in Tasks :
        /\ testRows[t].cancel /\ testRows[t].st \notin Ended => testRows'[t].st \notin {"completed", "failed"}
        /\ testRows[t].st \in Ended => testRows'[t].st = testRows[t].st

(* A step of the worker that leaves every status as it is. *)
LEMMA WorkingKeeps ==
    ASSUME TestsAssumption, TasksInv, batch' = batch, TasksTyped', WorkerHolds', WorkerWasAsked',
           \A t \in Tasks : /\ testRows'[t].st = testRows[t].st
                            /\ testRows'[t].ledger = "completed" <=> testRows[t].ledger = "completed"
    PROVE  TasksInv' /\ VerdictsOfTasks
<1>1. \A b \in Batches : batch'[b].st # "none" => Counts(testRows', b, batch'[b])
  BY OthersAreKept DEF TestsAssumption, TasksInv, Tests!TasksOf
<1>2. \A t \in Tasks : AccountAgrees(testRows'[t]) BY AgreesByBatch DEF TasksInv, ByBatch, AccountAgrees
<1>3. Tests!BatchAgrees' BY <1>1, <1>2, AgreesByBatch DEF ByBatch
<1>4. BornTogether' BY DEF TasksInv, BornTogether
<1>5. VerdictsOfTasks BY DEF VerdictsOfTasks, Ended
<1> QED BY <1>3, <1>4, <1>5 DEF TasksInv

(* A step after which the batches bs are counted again. *)
LEMMA CountingKeeps ==
    ASSUME TestsAssumption, TasksInv, NEW bs, Tests!Refresh(testRows', bs),
           testRows' \in [Tasks -> RowSet],
           \A b \in Batches : b \notin bs /\ batch[b].st # "none" => Counts(testRows', b, batch[b]),
           \A t \in Tasks : AccountAgrees(testRows'[t]),
           \A t \in Tasks : testRows'[t].st = "none" <=> testRows[t].st = "none",
           \A b \in bs \cap Batches : batch[b].st # "none"
    PROVE  batch' \in [Batches -> BatchSet] /\ BornTogether' /\ Tests!BatchAgrees'
<1>1. /\ batch' \in [Batches -> BatchSet]
      /\ \A b \in Batches : batch'[b].st # "none" => Counts(testRows', b, batch'[b])
      /\ \A b \in Batches : b \in bs => batch'[b].st # "none"
      /\ \A b \in Batches : b \notin bs => batch'[b] = batch[b]
  BY RefreshAgrees DEF TestsAssumption, TasksInv, TasksTyped
<1>2. BornTogether' BY <1>1 DEF TestsAssumption, TasksInv, BornTogether
<1>3. Tests!BatchAgrees' BY <1>1, AgreesByBatch DEF ByBatch
<1> QED BY <1>1, <1>2, <1>3

LEMMA RunTemplateStep ==
    ASSUME TestsAssumption, TasksInv, NEW b \in Batches, Tests!RunTemplate(b)
    PROVE  TasksInv' /\ VerdictsOfTasks
<1> USE DEF Tests!RunTemplate, Tests!NewRow, Tests!NewBatch, Tests!None
<1>1. \A t \in Tasks : BatchOf[t] = b => testRows[t].st = "none" BY DEF TasksInv, BornTogether, TestsAssumption
<1>2. /\ \A t \in Tasks : BatchOf[t] = b => testRows'[t] = Tests!NewRow
      /\ \A t \in Tasks : BatchOf[t] # b => testRows'[t] = testRows[t] OBVIOUS
<1>3. TasksTyped' BY DEF TasksInv, TasksTyped, RowSet, BatchSet, Statuses
<1>4. WorkerHolds' /\ WorkerWasAsked' BY <1>1 DEF TasksInv, WorkerHolds, WorkerWasAsked, TasksTyped
<1>5. BornTogether' BY <1>2 DEF TasksInv, BornTogether, TestsAssumption, TasksTyped
<1>6. Counts(testRows', b, batch'[b])
  <2>1. \A t \in Tests!TasksOf(b) : testRows'[t].st = "queued" BY <1>2 DEF Tests!TasksOf
  <2>2. ASSUME NEW st \in Ended PROVE Tests!Count(testRows', b, st) = 0
    <3>1. \A t \in Tests!TasksOf(b) : testRows'[t].st # st BY <2>1, <2>2 DEF Ended
    <3> QED BY <3>1, NoneCounted
  <2>3. \A st \in Ended : Tests!Count(testRows', b, st) = 0 BY <2>2
  <2>4. batch'[b] = Tests!NewBatch BY DEF TasksInv, TasksTyped
  <2> QED BY <2>1, <2>3, <2>4 DEF Counts, Ended
<1>7. ASSUME NEW c \in Batches, c # b, batch'[c].st # "none" PROVE Counts(testRows', c, batch'[c])
  <2>1. batch'[c] = batch[c] BY <1>7 DEF TasksInv, TasksTyped
  <2>2. \A t \in Tests!TasksOf(c) : testRows'[t].st = testRows[t].st BY <1>7, <1>2 DEF Tests!TasksOf
  <2> QED BY <1>7, <2>1, <2>2, OthersAreKept DEF TasksInv, TestsAssumption
<1>8. \A t \in Tasks : AccountAgrees(testRows'[t]) BY <1>2, AgreesByBatch DEF TasksInv, ByBatch, AccountAgrees
<1>9. Tests!BatchAgrees' BY <1>6, <1>7, <1>8, AgreesByBatch DEF ByBatch
<1>10. VerdictsOfTasks BY <1>1, <1>2 DEF VerdictsOfTasks, Ended
<1> QED BY <1>3, <1>4, <1>5, <1>9, <1>10 DEF TasksInv

(* Asked: of a task that has not ended, only that it is to be. *)
LEMMA AskedRow ==
    ASSUME NEW r \in RowSet
    PROVE  /\ Tests!Asked(r) \in RowSet
           /\ Tests!Asked(r).st = "none" <=> r.st = "none"
           /\ r.st \in Ended \union {"none"} => Tests!Asked(r) = r
           /\ r.st = "queued" => Tests!Asked(r).st = "canceled"
           /\ r.st = "running" => Tests!Asked(r).st = "running" /\ Tests!Asked(r).cancel
           /\ r.cancel => Tests!Asked(r).cancel
           /\ AccountAgrees(r) => AccountAgrees(Tests!Asked(r))
  BY DEF Tests!Asked, RowSet, Statuses, Ended, AccountAgrees

LEMMA CancelStep ==
    ASSUME TestsAssumption, TasksInv, NEW ts, NEW bs, Tests!CancelAll(ts, bs),
           \A t \in Tasks : t \in ts => BatchOf[t] \in bs,
           \A b \in bs \cap Batches : batch[b].st # "none"
    PROVE  TasksInv' /\ VerdictsOfTasks
<1>1. /\ testRows \in [Tasks -> RowSet]
      /\ \A t \in Tasks : testRows'[t] = IF t \in ts THEN Tests!Asked(testRows[t]) ELSE testRows[t]
      /\ Tests!Refresh(testRows', bs) /\ tester' = tester BY DEF TasksInv, TasksTyped, Tests!CancelAll
<1>2. testRows' \in [Tasks -> RowSet] BY <1>1, AskedRow DEF Tests!CancelAll
<1>3. \A b \in Batches : b \notin bs /\ batch[b].st # "none" => Counts(testRows', b, batch[b])
  <2>1. ASSUME NEW b \in Batches, b \notin bs PROVE \A t \in Tests!TasksOf(b) : testRows'[t] = testRows[t]
    BY <1>1, <2>1 DEF Tests!TasksOf
  <2> QED BY <2>1, OthersAreKept DEF TasksInv, TestsAssumption
<1>4. \A t \in Tasks : AccountAgrees(testRows'[t]) BY <1>1, AskedRow, AgreesByBatch DEF TasksInv, ByBatch
<1>5. \A t \in Tasks : testRows'[t].st = "none" <=> testRows[t].st = "none" BY <1>1, AskedRow
<1>6. batch' \in [Batches -> BatchSet] /\ BornTogether' /\ Tests!BatchAgrees'
  BY <1>1, <1>2, <1>3, <1>4, <1>5, CountingKeeps
<1>7. WorkerHolds' /\ WorkerWasAsked' BY <1>1, AskedRow DEF TasksInv, WorkerHolds, WorkerWasAsked
<1>8. VerdictsOfTasks
  <2>1. ASSUME NEW t \in Tasks
        PROVE  /\ testRows[t].st \in Ended => testRows'[t].st = testRows[t].st
               /\ testRows[t].st \notin Ended => testRows'[t].st \notin {"completed", "failed"}
    <3>1. testRows[t].st \in Statuses BY <1>1 DEF RowSet
    <3>2. CASE testRows[t].st \in Ended BY <1>1, <3>2, AskedRow
    <3>3. CASE testRows[t].st \notin Ended BY <1>1, <3>1, <3>3, AskedRow DEF Statuses, Ended
    <3> QED BY <3>2, <3>3
  <2> QED BY <2>1 DEF VerdictsOfTasks
<1> QED BY <1>1, <1>2, <1>6, <1>7, <1>8 DEF TasksInv, TasksTyped

(* The worker begins a task: the batch of it is now running. *)
LEMMA ClaimStep ==
    ASSUME TestsAssumption, TasksInv, Tests!Claim
    PROVE  TasksInv' /\ VerdictsOfTasks
<1>0. PICK b \in Batches : \E t \in Tests!Queued(b) :
          /\ testRows' = [testRows EXCEPT ![t].st = "running", ![t].fresh = TRUE]
          /\ batch' = [batch EXCEPT ![b].st = IF batch[b].st = "queued" THEN "running" ELSE batch[b].st]
          /\ tester' = [at |-> "working", task |-> t] BY DEF Tests!Claim
<1>1. PICK t \in Tests!Queued(b) :
          /\ testRows' = [testRows EXCEPT ![t].st = "running", ![t].fresh = TRUE]
          /\ batch' = [batch EXCEPT ![b].st = IF batch[b].st = "queued" THEN "running" ELSE batch[b].st]
          /\ tester' = [at |-> "working", task |-> t] BY <1>0
<1>2. /\ t \in Tasks /\ t \in Tests!TasksOf(b) /\ BatchOf[t] = b
      /\ testRows[t].st = "queued" /\ testRows \in [Tasks -> RowSet]
  BY DEF Tests!Queued, Tests!TasksOf, TasksInv, TasksTyped
<1>3. /\ testRows' \in [Tasks -> RowSet]
      /\ testRows'[t].st = "running" /\ testRows'[t].ledger = testRows[t].ledger
      /\ \A u \in Tasks : u # t => testRows'[u] = testRows[u] BY <1>1, <1>2 DEF RowSet, Statuses
<1>4. /\ batch \in [Batches -> BatchSet] /\ batch' \in [Batches -> BatchSet]
      /\ \A c \in Batches : c # b => batch'[c] = batch[c]
      /\ batch'[b] = IF batch[b].st = "queued" THEN [batch[b] EXCEPT !.st = "running"] ELSE batch[b]
  BY <1>1 DEF TasksInv, TasksTyped, BatchSet, Statuses
<1>5. batch[b].st # "none" BY <1>2 DEF TasksInv, BornTogether
<1>6. Counts(testRows', b, batch'[b])
  <2>1. Apart(testRows, testRows', b) BY <1>2, <1>3 DEF Apart, Tests!TasksOf
  <2>2. Counts(testRows, b, batch[b]) BY <1>5, AgreesByBatch DEF TasksInv, ByBatch
  <2>3. CASE batch[b].st = "queued" BY <1>2, <1>3, <1>4, <2>1, <2>2, <2>3, BatchBegins DEF TestsAssumption
  <2>4. CASE batch[b].st # "queued" BY <1>4, <2>1, <2>2, <2>4, CountsAreKept DEF TestsAssumption
  <2> QED BY <2>3, <2>4
<1>7. ASSUME NEW c \in Batches, c # b, batch'[c].st # "none" PROVE Counts(testRows', c, batch'[c])
  <2>1. \A u \in Tests!TasksOf(c) : testRows'[u] = testRows[u] BY <1>2, <1>3, <1>7 DEF Tests!TasksOf
  <2> QED BY <1>4, <1>7, <2>1, OthersAreKept DEF TasksInv, TestsAssumption
<1>8. \A u \in Tasks : AccountAgrees(testRows'[u])
  <2>1. \A u \in Tasks : AccountAgrees(testRows[u]) BY AgreesByBatch DEF TasksInv, ByBatch
  <2> QED BY <1>2, <1>3, <2>1 DEF AccountAgrees
<1>9. Tests!BatchAgrees' BY <1>6, <1>7, <1>8, AgreesByBatch DEF ByBatch
<1>10. BornTogether' BY <1>2, <1>3, <1>4, <1>5 DEF TasksInv, BornTogether, BatchSet, TestsAssumption
<1>11. TasksTyped' /\ WorkerHolds' /\ WorkerWasAsked'
  BY <1>1, <1>2, <1>3, <1>4 DEF TasksTyped, WorkerHolds, WorkerWasAsked
<1>12. VerdictsOfTasks BY <1>2, <1>3 DEF VerdictsOfTasks, Ended
<1> QED BY <1>9, <1>10, <1>11, <1>12 DEF TasksInv

(* The worker goes on, or finds out how the replay ended: no status moves. *)
LEMMA WorkerStep ==
    ASSUME TestsAssumption, TasksInv,
           \/ Tests!Beat \/ Tests!Checkpoint \/ Tests!Stops \/ Tests!Through \/ Tests!Raises
           \/ Tests!StatementFails \/ Tests!Stop \/ Tests!TimePasses
    PROVE  TasksInv' /\ VerdictsOfTasks
<1>1. batch' = batch BY DEF Tests!Beat, Tests!Checkpoint, Tests!Stops, Tests!Through, Tests!Raises,
         Tests!StatementFails, Tests!Stop, Tests!TimePasses
<1>2. /\ testRows' \in [Tasks -> RowSet]
      /\ \A t \in Tasks : /\ testRows'[t].st = testRows[t].st /\ testRows'[t].cancel = testRows[t].cancel
                          /\ testRows'[t].ledger = "completed" <=> testRows[t].ledger = "completed"
  <2>1. CASE Tests!Beat \/ Tests!Checkpoint
    <3>1. /\ Tests!Mine \in Tasks /\ testRows[Tests!Mine].st = "running"
          /\ testRows[Tests!Mine].ledger # "completed"
      BY <2>1, AgreesByBatch DEF Tests!Beat, Tests!Checkpoint, Tests!Mine, TasksInv, WorkerHolds,
                                 ByBatch, AccountAgrees
    <3>2. testRows \in [Tasks -> RowSet] BY DEF TasksInv, TasksTyped
    <3>3. CASE Tests!Beat BY <3>1, <3>2, <3>3 DEF Tests!Beat, RowSet
    <3>4. CASE Tests!Checkpoint BY <3>1, <3>2, <3>4 DEF Tests!Checkpoint, RowSet
    <3> QED BY <2>1, <3>3, <3>4
  <2>2. CASE Tests!TimePasses BY <2>2 DEF Tests!TimePasses, TasksInv, TasksTyped, RowSet
  <2>3. CASE testRows' = testRows BY <2>3 DEF TasksInv, TasksTyped
  <2> QED BY <2>1, <2>2, <2>3 DEF Tests!Stops, Tests!Through, Tests!Raises, Tests!StatementFails,
                                  Tests!Stop
<1>3. /\ tester' \in [at : {"idle", "working", "through", "canceled", "failed", "dead", "off"},
                      task : Tasks \union {"none"}]
      /\ WorkerHolds' /\ WorkerWasAsked'
  BY <1>2 DEF Tests!Beat, Tests!Checkpoint, Tests!Stops, Tests!Through, Tests!Raises,
              Tests!StatementFails, Tests!Stop, Tests!TimePasses, Tests!None, Tests!Running,
              Tests!Mine, TasksInv, TasksTyped, WorkerHolds, WorkerWasAsked
<1>4. TasksTyped' BY <1>1, <1>2, <1>3 DEF TasksInv, TasksTyped
<1> QED BY <1>1, <1>2, <1>3, <1>4, WorkingKeeps

(* A verdict is written: of a task the user wants ended, no other than that
   it was canceled. *)
LEMMA VerdictKeeps ==
    ASSUME TestsAssumption, TasksInv, NEW t \in Tasks, t = tester.task,
           testRows[t].st = "running", NEW r \in RowSet, Tests!Ends(r),
           r.st \in Ended, AccountAgrees(r), testRows[t].cancel => r.st = "canceled"
    PROVE  TasksInv' /\ VerdictsOfTasks
<1>1. /\ testRows' = [testRows EXCEPT ![t] = r] /\ Tests!Refresh(testRows', {BatchOf[t]})
      /\ tester' = [at |-> "idle", task |-> "none"] /\ testRows \in [Tasks -> RowSet]
  BY DEF Tests!Ends, Tests!Mine, Tests!None, TasksInv, TasksTyped
<1>2. /\ testRows' \in [Tasks -> RowSet] /\ testRows'[t] = r
      /\ \A u \in Tasks : u # t => testRows'[u] = testRows[u] BY <1>1
<1>3. \A b \in Batches : b \notin {BatchOf[t]} /\ batch[b].st # "none" => Counts(testRows', b, batch[b])
  <2>1. ASSUME NEW b \in Batches, b # BatchOf[t]
        PROVE  \A u \in Tests!TasksOf(b) : testRows'[u] = testRows[u] BY <1>2, <2>1 DEF Tests!TasksOf
  <2> QED BY <2>1, OthersAreKept DEF TasksInv, TestsAssumption
<1>4. \A u \in Tasks : AccountAgrees(testRows'[u]) BY <1>2, AgreesByBatch DEF TasksInv, ByBatch
<1>5. \A u \in Tasks : testRows'[u].st = "none" <=> testRows[u].st = "none" BY <1>2 DEF Ended
<1>6. \A b \in {BatchOf[t]} \cap Batches : batch[b].st # "none" BY DEF TasksInv, BornTogether
<1>7. batch' \in [Batches -> BatchSet] /\ BornTogether' /\ Tests!BatchAgrees'
  BY <1>1, <1>2, <1>3, <1>4, <1>5, <1>6, CountingKeeps
<1>8. TasksTyped' /\ WorkerHolds' /\ WorkerWasAsked'
  BY <1>1, <1>2, <1>7 DEF TasksTyped, WorkerHolds, WorkerWasAsked
<1>9. VerdictsOfTasks BY <1>2 DEF VerdictsOfTasks, Ended
<1> QED BY <1>7, <1>8, <1>9 DEF TasksInv

LEMMA EndStep ==
    ASSUME TestsAssumption, TasksInv, Tests!Cancel \/ Tests!Complete \/ Tests!Fail
    PROVE  TasksInv' /\ VerdictsOfTasks
<1> DEFINE t == tester.task
<1> USE DEF RowSet, Statuses, Ended, AccountAgrees, Tests!Canceled, Tests!AccountCanceled, Tests!None
<1>1. /\ t \in Tasks /\ testRows[t] \in RowSet /\ testRows[t].st = "running"
      /\ tester.at = "canceled" => testRows[t].cancel
      /\ testRows[t].ledger # "completed"
  BY AgreesByBatch DEF Tests!Cancel, Tests!Complete, Tests!Fail, TasksInv, TasksTyped, WorkerHolds,
                       WorkerWasAsked, ByBatch
<1>2. CASE Tests!Cancel
  <2> DEFINE r == Tests!Canceled(testRows[t])
  <2>1. r \in RowSet /\ r.st \in Ended /\ AccountAgrees(r) /\ r.st = "canceled" BY <1>1
  <2>2. Tests!Ends(r) BY <1>2 DEF Tests!Cancel, Tests!Mine
  <2> HIDE DEF r
  <2> QED BY <1>1, <2>1, <2>2, VerdictKeeps
<1>3. CASE Tests!Complete
  <2> DEFINE r == IF testRows[t].cancel
                  THEN [testRows[t] EXCEPT !.st = "canceled", !.ledger = "canceled"]
                  ELSE [testRows[t] EXCEPT !.st = "completed", !.ledger = "completed"]
  <2>1. r \in RowSet /\ r.st \in Ended /\ AccountAgrees(r) /\ (testRows[t].cancel => r.st = "canceled") BY <1>1
  <2>2. Tests!Ends(r) BY <1>3 DEF Tests!Complete, Tests!Mine
  <2> HIDE DEF r
  <2> QED BY <1>1, <2>1, <2>2, VerdictKeeps
<1>4. CASE Tests!Fail
  <2> DEFINE r == IF testRows[t].cancel THEN Tests!Canceled(testRows[t])
                  ELSE [testRows[t] EXCEPT !.st = "failed"]
  <2>1. r \in RowSet /\ r.st \in Ended /\ AccountAgrees(r) /\ (testRows[t].cancel => r.st = "canceled") BY <1>1
  <2>2. Tests!Ends(r) BY <1>4 DEF Tests!Fail, Tests!Mine
  <2> HIDE DEF r
  <2> QED BY <1>1, <2>1, <2>2, VerdictKeeps
<1> QED BY <1>2, <1>3, <1>4

(* The start of the server: what was to be canceled is, what has not been
   heard of is queued again, and only the batches of the former are counted;
   the others keep their counts, for in them tasks only went between running
   and queued. *)
LEMMA StartStep ==
    ASSUME TestsAssumption, TasksInv, Tests!Start
    PROVE  TasksInv' /\ VerdictsOfTasks
<1> DEFINE bs == Tests!Given({t \in Tasks : testRows[t].st = "running" /\ testRows[t].cancel})
<1>1. /\ testRows' = [t \in Tasks |-> Tests!Recovered(testRows[t])] /\ Tests!Refresh(testRows', bs)
      /\ tester.at = "off" /\ tester' = [tester EXCEPT !.at = "idle"] /\ testRows \in [Tasks -> RowSet]
  BY DEF Tests!Start, TasksInv, TasksTyped
<1>2. ASSUME NEW r \in RowSet
      PROVE  /\ Tests!Recovered(r) \in RowSet
             /\ Tests!Recovered(r).st = "none" <=> r.st = "none"
             /\ r.st # "running" => Tests!Recovered(r) = r
             /\ r.st = "running" => Tests!Recovered(r).st \in {"running", "queued", "canceled"}
             /\ r.st = "running" /\ ~r.cancel => Tests!Recovered(r).st \in {"running", "queued"}
             /\ AccountAgrees(r) => AccountAgrees(Tests!Recovered(r))
  BY DEF Tests!Recovered, RowSet, Statuses, Ended, AccountAgrees
<1>3. testRows' \in [Tasks -> RowSet] /\ \A t \in Tasks : testRows'[t] = Tests!Recovered(testRows[t])
  BY <1>1, <1>2
<1>4. ASSUME NEW b \in Batches, b \notin bs, batch[b].st # "none"
      PROVE  Counts(testRows', b, batch[b])
  <2>1. \A t \in Tests!TasksOf(b) : ~(testRows[t].st = "running" /\ testRows[t].cancel)
    BY <1>4 DEF Tests!Given, Tests!TasksOf
  <2>2. Counts(testRows, b, batch[b]) BY <1>4, AgreesByBatch DEF TasksInv, ByBatch
  <2>3. CASE batch[b].st = "queued"
    <3>1. \A t \in Tests!TasksOf(b) : testRows'[t] = testRows[t]
      BY <1>1, <1>2, <1>3, <2>2, <2>3 DEF Counts, Tests!TasksOf
    <3> QED BY <3>1, <2>2, CountsAreSame DEF TestsAssumption
  <2>4. CASE batch[b].st # "queued"
    <3>1. Apart(testRows, testRows', b)
      <4>1. ASSUME NEW t \in Tests!TasksOf(b)
            PROVE  testRows[t].st = testRows'[t].st
                       \/ {testRows[t].st, testRows'[t].st} \subseteq {"queued", "running"}
        <5>1. t \in Tasks /\ testRows[t] \in RowSet /\ testRows'[t] = Tests!Recovered(testRows[t])
          BY <1>1, <1>3 DEF Tests!TasksOf
        <5> QED BY <5>1, <1>2, <2>1
      <4> QED BY <4>1 DEF Apart
    <3> QED BY <3>1, <2>2, <2>4, CountsAreKept DEF TestsAssumption
  <2> QED BY <2>3, <2>4
<1>5. \A t \in Tasks : AccountAgrees(testRows'[t]) BY <1>1, <1>2, <1>3, AgreesByBatch DEF TasksInv, ByBatch
<1>6. \A t \in Tasks : testRows'[t].st = "none" <=> testRows[t].st = "none" BY <1>1, <1>2, <1>3
<1>7. \A b \in bs \cap Batches : batch[b].st # "none" BY DEF Tests!Given, TasksInv, BornTogether
<1>8. batch' \in [Batches -> BatchSet] /\ BornTogether' /\ Tests!BatchAgrees'
  <2> HIDE DEF bs
  <2> QED BY <1>1, <1>3, <1>4, <1>5, <1>6, <1>7, CountingKeeps
<1>9. TasksTyped' /\ WorkerHolds' /\ WorkerWasAsked'
  BY <1>1, <1>3, <1>8 DEF TasksInv, TasksTyped, WorkerHolds, WorkerWasAsked
<1>10. VerdictsOfTasks BY <1>1, <1>2, <1>3 DEF VerdictsOfTasks, Ended
<1> QED BY <1>8, <1>9, <1>10 DEF TasksInv

LEMMA TasksInitially == TestsAssumption /\ Tests!Init => TasksInv
<1> SUFFICES ASSUME TestsAssumption, Tests!Init PROVE TasksInv OBVIOUS
<1> USE DEF Tests!Init, Tests!NewRow, Tests!NewBatch, Tests!None
<1>1. TasksTyped BY DEF TasksTyped, RowSet, BatchSet, Statuses
<1>2. WorkerHolds /\ WorkerWasAsked /\ BornTogether
  BY DEF WorkerHolds, WorkerWasAsked, BornTogether, TestsAssumption
<1>3. ByBatch BY DEF ByBatch, AccountAgrees
<1> QED BY <1>1, <1>2, <1>3, AgreesByBatch DEF TasksInv

LEMMA TasksStep ==
    ASSUME TestsAssumption, TasksInv, [Tests!Next]_(Tests!vars)
    PROVE  TasksInv' /\ VerdictsOfTasks
<1>1. ASSUME NEW b \in Batches, Tests!CancelBatch(b) PROVE TasksInv' /\ VerdictsOfTasks
  BY <1>1, CancelStep DEF Tests!CancelBatch, Tests!TasksOf, Tests!None
<1>2. ASSUME NEW t \in Tasks, Tests!CancelTask(t) PROVE TasksInv' /\ VerdictsOfTasks
  <2>1. testRows[t].st # "none" /\ Tests!CancelAll({t}, {BatchOf[t]})
    BY <1>2 DEF Tests!CancelTask, Tests!Created, Tests!None
  <2>2. \A b \in {BatchOf[t]} \cap Batches : batch[b].st # "none" BY <2>1 DEF TasksInv, BornTogether
  <2> QED BY <2>1, <2>2, CancelStep
<1>3. CASE UNCHANGED Tests!vars
  <2>1. testRows' = testRows /\ batch' = batch /\ tester' = tester BY <1>3 DEF Tests!vars
  <2> QED BY <2>1, WorkingKeeps DEF TasksInv, TasksTyped, WorkerHolds, WorkerWasAsked
<1> QED BY <1>1, <1>2, <1>3, RunTemplateStep, ClaimStep, WorkerStep, EndStep, StartStep
        DEF Tests!Next, Tests!User, Tests!Replay, Tests!Records, Tests!Server

----------------------------------------
(* Data sets. *)

UploadAssumption == Chunks \in Nat \ {0} /\ "none" \notin Got

Contents == Got \union {"empty", "none"}
ChunkMap == [0..Upload!Last -> Contents]
SetRow == [st : {"pending", "downloading", "validating", "ready", "failed", "canceled", "deleted"},
           next : Nat, atEnd : BOOLEAN, rows : ChunkMap, chunks : ChunkMap, whole : ChunkMap,
           file : Nat, copy : BOOLEAN]
Sent == Contents \ {"none"}
EaSet == [at : {"idle", "reading", "sending"}, set : Nat, chunk : Nat, content : Contents,
          misses : Nat, missed : Nat \X Nat]
PostSet == [set : Nat, chunk : Nat, content : Sent, try : Nat]
HandlerSet == [at : {"idle", "written", "recorded", "cleanup"}, set : Nat, chunk : Nat,
               content : Contents, try : Nat]

EaFits == /\ ea \in EaSet
          /\ ea.at # "idle" => ea.set \in Upload!Ids
          /\ ea.at = "sending" => ea.content \in Sent
PostsFit == posts \subseteq PostSet /\ \A m \in posts : m.set \in Upload!Ids
HandlerFits == /\ handler \in HandlerSet
               /\ handler.at # "idle" => handler.set \in Upload!Ids /\ handler.content \in Sent

UploadTyped == sets \in Seq(SetRow) /\ EaFits /\ PostsFit /\ HandlerFits /\ lost \in Nat

(* A row by itself: the cursor of a data set of its own has passed recorded
   chunks only, and all of them when it waits to be put together; its file
   is its own, and whole when it is ready.  A copy asks for no chunk. *)
AllOf(chunks) == \A c \in 0..Upload!Last : chunks[c] # "none"
RowFits(d, r) ==
    /\ ~r.copy => /\ r.file \in {0, d}
                  /\ r.st \in {"pending", "downloading"} =>
                        \A c \in 0..Upload!Last : c < r.next => r.rows[c] # "none"
                  /\ r.st = "validating" => AllOf(r.rows)
                  /\ r.st = "ready" => AllOf(r.whole)
    /\ r.copy => r.atEnd
RowsFit == \A d \in Upload!Ids : RowFits(d, sets[d])

LEMMA FittingRowsAreWhole == RowsFit => Upload!ReadyIsWhole
  BY DEF RowsFit, RowFits, AllOf, Upload!ReadyIsWhole, Upload!None

(* What the upload in progress has come to is what the row still says: no
   one else touches it between two of its statements. *)
HandlerKnows ==
    /\ handler.at = "recorded" => sets[handler.set].st = "validating"
    /\ handler.at = "cleanup" => sets[handler.set].st = "ready"

UploadInv == UploadTyped /\ RowsFit /\ HandlerKnows

(* EndedStays, of one step. *)
VerdictStands(r, s) ==
    r.st \in Upload!Ended =>
        /\ s.st \in Upload!Ended \union {"deleted"}
        /\ r.st = "ready" /\ s.st # "deleted" => s.file = r.file
VerdictsOfSets == \A d \in Upload!Ids : VerdictStands(sets[d], sets'[d])

LEMMA UploadInitially == UploadAssumption /\ Upload!Init => UploadInv
<1> SUFFICES ASSUME UploadAssumption, Upload!Init PROVE UploadInv OBVIOUS
<1> USE DEF Upload!Init, Upload!Idle, Upload!None, Upload!Ids
<1>1. sets \in Seq(SetRow) /\ DOMAIN sets = {} OBVIOUS
<1>2. ea \in EaSet BY DEF EaSet, Contents
<1>3. handler \in HandlerSet BY DEF HandlerSet, Contents
<1>4. UploadTyped BY <1>1, <1>2, <1>3 DEF UploadTyped, EaFits, PostsFit, HandlerFits
<1> QED BY <1>1, <1>4 DEF UploadInv, RowsFit, HandlerKnows

LEMMA IdsAre == sets \in Seq(SetRow) => Upload!Ids = 1..Len(sets) /\ \A d \in Upload!Ids : d \in Nat \ {0} /\ sets[d] \in SetRow
  BY DEF Upload!Ids

(* NextClaim finds the oldest: among numbers there is a smallest, because
   the interval up to it is the smallest of the intervals. *)
LEMMA SmallestIsThere ==
    ASSUME NEW S \in SUBSET Nat, S # {}
    PROVE  \E e \in S : \A f \in S : e <= f
<1> DEFINE T == {1..e : e \in S}
<1>1. T \subseteq FiniteSubsetsOf(Nat) /\ T # {}
  <2>1. ASSUME NEW e \in S PROVE 1..e \in FiniteSubsetsOf(Nat)
    <3>1. IsFiniteSet(1..e) /\ 1..e \subseteq Nat BY FS_Interval
    <3> QED BY <3>1 DEF FiniteSubsetsOf
  <2> QED BY <2>1
<1>2. PICK x \in T : \A y \in T : <<y, x>> \notin StrictSubsetOrdering(Nat)
  <2> HIDE DEF T
  <2> QED BY <1>1, FS_StrictSubsetOrderingWellFounded, WFMin
<1>3. PICK e \in S : x = 1..e OBVIOUS
<1>4. ASSUME NEW f \in S, f < e PROVE FALSE
  <2>1. 1..f \subseteq 1..e /\ 1..f \in SUBSET Nat /\ 1..e \in SUBSET Nat BY <1>4
  <2>2. e \in 1..e /\ e \notin 1..f BY <1>4
  <2>3. <<1..f, 1..e>> \in StrictSubsetOrdering(Nat) BY <2>1, <2>2 DEF StrictSubsetOrdering
  <2> QED BY <1>2, <1>3, <2>3
<1> QED BY <1>4

(* A step that writes one row. *)
LEMMA RowChanges ==
    ASSUME sets \in Seq(SetRow), RowsFit, NEW d \in Upload!Ids, NEW r \in SetRow,
           sets' = [sets EXCEPT ![d] = r], RowFits(d, r), VerdictStands(sets[d], r)
    PROVE  /\ sets' \in Seq(SetRow) /\ Upload!Ids' = Upload!Ids
           /\ RowsFit' /\ VerdictsOfSets
           /\ sets'[d] = r /\ \A e \in Upload!Ids : e # d => sets'[e] = sets[e]
<1>1. sets' \in Seq(SetRow) /\ Upload!Ids' = Upload!Ids BY IdsAre DEF Upload!Ids
<1>2. sets'[d] = r /\ \A e \in Upload!Ids : e # d => sets'[e] = sets[e] BY IdsAre DEF Upload!Ids
<1>3. RowsFit'
  <2>1. ASSUME NEW e \in Upload!Ids PROVE RowFits(e, sets'[e]) BY <1>2 DEF RowsFit
  <2>2. \A e \in Upload!Ids' : RowFits(e, sets'[e]) BY <1>1, <2>1
  <2> QED BY <2>2 DEF RowsFit, RowFits, AllOf
<1>4. VerdictsOfSets
  <2>1. ASSUME NEW e \in Upload!Ids PROVE VerdictStands(sets[e], sets'[e]) BY <1>2 DEF VerdictStands
  <2> QED BY <2>1 DEF VerdictsOfSets
<1> QED BY <1>1, <1>2, <1>3, <1>4

(* A step that writes none. *)
LEMMA RowsStand ==
    ASSUME sets' = sets, RowsFit
    PROVE  Upload!Ids' = Upload!Ids /\ RowsFit' /\ VerdictsOfSets
<1>1. RowsFit' BY DEF RowsFit, RowFits, AllOf, Upload!Ids
<1> QED BY <1>1 DEF VerdictsOfSets, VerdictStands, Upload!Ids

LEMMA PollStep ==
    ASSUME UploadAssumption, UploadInv, Upload!Poll
    PROVE  UploadInv' /\ VerdictsOfSets
<1> DEFINE d == Upload!NextClaim
           r == [sets[d] EXCEPT !.st = "downloading"]
<1>1. sets \in Seq(SetRow) /\ RowsFit /\ ea \in EaSet BY DEF UploadInv, UploadTyped, EaFits
<1>2. d \in Upload!Claimable
  <2>1. \A S \in SUBSET Upload!Ids : S # {} => \E e \in S : \A f \in S : e <= f
    <3>1. Upload!Ids \subseteq Nat BY <1>1, IdsAre
    <3> QED BY <3>1, SmallestIsThere
  <2>2. \A S \in SUBSET Upload!Ids : S # {} => Upload!OldestOf(S) \in S BY <2>1 DEF Upload!OldestOf
  <2>3. /\ Upload!Claimable \subseteq Upload!Ids /\ Upload!Preferred \subseteq Upload!Claimable
        /\ Upload!Claimable # {} BY DEF Upload!Claimable, Upload!Preferred, Upload!Poll
  <2> QED BY <2>2, <2>3 DEF Upload!NextClaim
<1>3. d \in Upload!Ids /\ sets[d].st \in {"pending", "downloading"} BY <1>2 DEF Upload!Claimable
<1>4. sets' = [sets EXCEPT ![d] = r] /\ UNCHANGED <<posts, handler, uploadCrashes>> BY DEF Upload!Poll
<1>5. r \in SetRow /\ sets[d] \in SetRow BY <1>1, <1>3, IdsAre, SMTT(30) DEF SetRow
<1>6. RowFits(d, r) /\ VerdictStands(sets[d], r)
  BY <1>1, <1>3, <1>5 DEF RowsFit, RowFits, VerdictStands, Upload!Ended, SetRow
<1>7. /\ ea' \in EaSet /\ lost' \in Nat
      /\ ea'.at # "idle" => ea'.set \in Upload!Ids
      /\ ea'.at # "sending"
  <2>1. /\ ea.at = "idle" /\ lost \in Nat
        /\ lost' = lost \/ lost' = lost + 1
        /\ \/ ea' = ea \/ ea' = [ea EXCEPT !.at = "idle"]
           \/ ea' = [ea EXCEPT !.at = "reading", !.set = d, !.chunk = sets[d].next]
    BY DEF Upload!Poll, Upload!Idled, UploadInv, UploadTyped
  <2>2. d \in Nat /\ sets[d].next \in Nat BY <1>1, <1>3, <1>5, IdsAre DEF SetRow
  <2> HIDE DEF d
  <2>3. CASE ea' = [ea EXCEPT !.at = "reading", !.set = d, !.chunk = sets[d].next]
    <3>1. ea' \in EaSet /\ ea'.at = "reading" /\ ea'.set = d BY <1>1, <2>2, <2>3 DEF EaSet
    <3> QED BY <1>3, <2>1, <3>1
  <2>4. CASE ea' = ea \/ ea' = [ea EXCEPT !.at = "idle"] BY <1>1, <2>1, <2>4 DEF EaSet
  <2> QED BY <2>1, <2>3, <2>4
<1> HIDE DEF r, d
<1>8. /\ sets' \in Seq(SetRow) /\ Upload!Ids' = Upload!Ids /\ RowsFit' /\ VerdictsOfSets
      /\ sets'[d] = r /\ \A e \in Upload!Ids : e # d => sets'[e] = sets[e]
  BY <1>1, <1>3, <1>4, <1>5, <1>6, RowChanges
<1>9. UploadTyped' BY <1>4, <1>7, <1>8 DEF UploadInv, UploadTyped, EaFits, PostsFit, HandlerFits
<1>10. HandlerKnows' BY <1>3, <1>4, <1>8 DEF UploadInv, UploadTyped, HandlerFits, HandlerKnows
<1> QED BY <1>8, <1>9, <1>10 DEF UploadInv

(* The EA reads, gives up or crashes with the server: no row is written. *)
LEMMA ReadingStep ==
    ASSUME UploadAssumption, UploadInv,
           \/ \E b \in Got : Upload!Read(b)
           \/ \E n \in BOOLEAN : Upload!ReadFails(n)
           \/ Upload!GiveUp \/ Upload!Crash \/ UNCHANGED Upload!vars
    PROVE  UploadInv' /\ VerdictsOfSets
<1>1. /\ sets' = sets /\ sets \in Seq(SetRow) /\ RowsFit
      /\ EaFits /\ PostsFit /\ HandlerFits /\ lost \in Nat
  BY DEF UploadInv, UploadTyped, Upload!Read, Upload!ReadFails, Upload!GiveUp, Upload!Crash,
         Upload!vars
<1>2. Upload!Ids' = Upload!Ids /\ RowsFit' /\ VerdictsOfSets BY <1>1, RowsStand
<1>3. ASSUME ea.at # "idle", NEW c \in Sent
      PROVE  Upload!Upload(c) \in PostSet /\ Upload!Upload(c).set \in Upload!Ids
  BY <1>1, <1>3 DEF EaFits, Upload!Upload, EaSet, PostSet
<1>4. PostsFit'
  <2>1. ASSUME NEW b \in Got, Upload!Read(b)
        PROVE  ea.at # "idle" /\ b \in Sent /\ posts' = posts \union {Upload!Upload(b)}
    BY <2>1 DEF Upload!Read, Sent, Contents, UploadAssumption
  <2>2. ASSUME NEW n \in BOOLEAN, Upload!ReadFails(n)
        PROVE  ea.at # "idle" /\ (posts' = posts \/ posts' = posts \union {Upload!Upload("empty")})
    BY <2>2 DEF Upload!ReadFails
  <2>3. CASE posts' \subseteq posts BY <1>1, <1>2, <2>3 DEF PostsFit
  <2>4. ASSUME ea.at # "idle", NEW c \in Sent, posts' = posts \union {Upload!Upload(c)}
        PROVE  PostsFit' BY <1>1, <1>2, <1>3, <2>4 DEF PostsFit
  <2>5. "empty" \in Sent BY DEF Sent, Contents
  <2> QED BY <2>1, <2>2, <2>3, <2>4, <2>5 DEF Upload!GiveUp, Upload!Crash, Upload!vars
<1>5. EaFits'
  <2>1. ASSUME NEW b \in Got, Upload!Read(b) PROVE EaFits'
    <3>1. b \in Sent /\ b \in Contents BY DEF Sent, Contents, UploadAssumption
    <3>2. ea.at # "idle" /\ ea' = [ea EXCEPT !.at = "sending", !.content = b] BY <2>1 DEF Upload!Read
    <3> QED BY <1>1, <1>2, <3>1, <3>2 DEF EaFits, EaSet
  <2>2. ASSUME NEW n \in BOOLEAN, Upload!ReadFails(n) PROVE EaFits'
    <3> DEFINE key == <<ea.set, ea.chunk>>
               before == IF ea.missed = key THEN ea.misses ELSE 0
               misses == IF n THEN before + 1 ELSE before
    <3>1. /\ ea.at # "idle"
          /\ \/ ea' = [[ea EXCEPT !.missed = key, !.misses = misses]
                           EXCEPT !.at = "sending", !.content = "empty"]
             \/ ea' = [[ea EXCEPT !.missed = key, !.misses = misses] EXCEPT !.at = "idle"]
      BY <2>2 DEF Upload!ReadFails
    <3>2. key \in Nat \X Nat /\ before \in Nat /\ misses \in Nat BY <1>1 DEF EaFits, EaSet
    <3>3. "empty" \in Sent /\ "empty" \in Contents BY DEF Sent, Contents
    <3> HIDE DEF key, misses
    <3> QED BY <1>1, <1>2, <3>1, <3>2, <3>3 DEF EaFits, EaSet
  <2>3. CASE ea' = ea \/ ea' = [ea EXCEPT !.at = "idle"] BY <1>1, <1>2, <2>3 DEF EaFits, EaSet
  <2> QED BY <2>1, <2>2, <2>3 DEF Upload!GiveUp, Upload!Crash, Upload!vars, Upload!Idled
<1>6. HandlerFits' /\ HandlerKnows' /\ lost' \in Nat
  <2>1. handler' = handler \/ handler' = Upload!Idle
    BY DEF Upload!Read, Upload!ReadFails, Upload!GiveUp, Upload!Crash, Upload!vars
  <2>2. Upload!Idle \in HandlerSet /\ Upload!Idle.at = "idle"
    BY DEF Upload!Idle, Upload!None, HandlerSet, Contents
  <2>3. lost' = lost \/ lost' = lost + 1
    BY DEF Upload!Read, Upload!ReadFails, Upload!GiveUp, Upload!Crash, Upload!vars
  <2> QED BY <1>1, <1>2, <2>1, <2>2, <2>3 DEF UploadInv, HandlerFits, HandlerKnows
<1> QED BY <1>1, <1>2, <1>4, <1>5, <1>6 DEF UploadInv, UploadTyped

(* An answer reaches the EA or no one. *)
LEMMA AnsweredFits ==
    ASSUME EaFits, Upload!Ids' = Upload!Ids, NEW m, NEW ok, Upload!Answered(m, ok) \/ ea' = ea
    PROVE  EaFits'
<1>1. \/ ea' = ea \/ ea' = [ea EXCEPT !.at = "idle"]
      \/ ea' = [ea EXCEPT !.at = "idle", !.misses = 0, !.missed = <<0, 0>>] BY DEF Upload!Answered, Upload!Idled
<1>2. <<0, 0>> \in Nat \X Nat OBVIOUS
<1> QED BY <1>1, <1>2 DEF EaFits, EaSet

LEMMA AcceptStep ==
    ASSUME UploadAssumption, UploadInv, NEW m \in posts, Upload!Accept(m)
    PROVE  UploadInv' /\ VerdictsOfSets
<1> DEFINE d == m.set
           r == [sets[d] EXCEPT !.chunks[m.chunk] = m.content]
<1>1. /\ sets \in Seq(SetRow) /\ RowsFit
      /\ EaFits /\ PostsFit /\ HandlerFits /\ HandlerKnows /\ lost \in Nat
      /\ posts' \subseteq posts /\ lost' = lost /\ handler.at = "idle"
  BY DEF UploadInv, UploadTyped, Upload!Accept, Upload!Free
<1>2. d \in Upload!Ids /\ m \in PostSet BY <1>1 DEF PostsFit
<1>3. CASE sets' = sets /\ handler' = handler /\ Upload!Answered(m, ~Upload!Gone(d))
  <2>1. Upload!Ids' = Upload!Ids /\ RowsFit' /\ VerdictsOfSets BY <1>1, <1>3, RowsStand
  <2>2. EaFits' BY <1>1, <1>3, <2>1, AnsweredFits
  <2> QED BY <1>1, <1>3, <2>1, <2>2 DEF UploadInv, UploadTyped, PostsFit, HandlerFits, HandlerKnows
<1>4. CASE /\ sets' = [sets EXCEPT ![d] = r] /\ ea' = ea
           /\ handler' = [at |-> "written", set |-> d, chunk |-> m.chunk, content |-> m.content,
                          try |-> m.try]
  <2>1. sets[d] \in SetRow /\ m.content \in Sent /\ m.content \in Contents
    BY <1>1, <1>2, IdsAre DEF PostSet, Sent
  <2>2. /\ r \in SetRow /\ r.copy = sets[d].copy /\ r.st = sets[d].st /\ r.file = sets[d].file
        /\ r.next = sets[d].next /\ r.rows = sets[d].rows /\ r.whole = sets[d].whole
        /\ r.atEnd = sets[d].atEnd
    <3>1. sets[d].chunks \in ChunkMap BY <2>1 DEF SetRow
    <3>2. [sets[d].chunks EXCEPT ![m.chunk] = m.content] \in ChunkMap BY <2>1, <3>1 DEF ChunkMap
    <3> QED BY <2>1, <3>2 DEF SetRow
  <2>3. RowFits(d, r) /\ VerdictStands(sets[d], r)
    BY <1>1, <1>2, <2>2 DEF RowsFit, RowFits, AllOf, VerdictStands
  <2> HIDE DEF r
  <2>4. /\ sets' \in Seq(SetRow) /\ Upload!Ids' = Upload!Ids /\ RowsFit' /\ VerdictsOfSets
    BY <1>1, <1>2, <1>4, <2>2, <2>3, RowChanges
  <2>5. HandlerFits' /\ HandlerKnows'
    BY <1>2, <1>4, <2>1, <2>4 DEF HandlerFits, HandlerKnows, HandlerSet, PostSet
  <2> QED BY <1>1, <1>4, <2>4, <2>5 DEF UploadInv, UploadTyped, PostsFit, EaFits
<1>5. (Upload!Gone(d) \/ (sets[d].st = "ready" /\ m.chunk < sets[d].next))
          => sets' = sets /\ handler' = handler /\ Upload!Answered(m, ~Upload!Gone(d)) BY DEF Upload!Accept
<1>6. ~(Upload!Gone(d) \/ (sets[d].st = "ready" /\ m.chunk < sets[d].next))
          => /\ sets' = [sets EXCEPT ![d].chunks[m.chunk] = m.content] /\ ea' = ea
             /\ handler' = [at |-> "written", set |-> d, chunk |-> m.chunk, content |-> m.content,
                            try |-> m.try] BY DEF Upload!Accept
<1>7. [sets EXCEPT ![d].chunks[m.chunk] = m.content] = [sets EXCEPT ![d] = r] BY <1>1, <1>2
<1> QED BY <1>3, <1>4, <1>5, <1>6, <1>7

(* A row written while the upload is at work. *)
LEMMA HandlerWrites ==
    ASSUME UploadInv, handler.at # "idle", NEW r \in SetRow,
           sets' = [sets EXCEPT ![handler.set] = r],
           RowFits(handler.set, r), VerdictStands(sets[handler.set], r),
           posts' = posts, lost' = lost,
           NEW ok, Upload!Answered(handler, ok) \/ ea' = ea,
           \/ handler' = Upload!Idle
           \/ handler' = [handler EXCEPT !.at = "recorded"] /\ r.st = "validating"
           \/ handler' = [handler EXCEPT !.at = "cleanup"] /\ r.st = "ready"
    PROVE  UploadInv' /\ VerdictsOfSets
<1>1. /\ sets \in Seq(SetRow) /\ RowsFit
      /\ EaFits /\ PostsFit /\ HandlerFits /\ lost \in Nat /\ handler.set \in Upload!Ids
  BY DEF UploadInv, UploadTyped, HandlerFits
<1>2. /\ sets' \in Seq(SetRow) /\ Upload!Ids' = Upload!Ids /\ RowsFit' /\ VerdictsOfSets
      /\ sets'[handler.set] = r BY <1>1, RowChanges
<1>3. EaFits' BY <1>1, <1>2, AnsweredFits
<1>4. HandlerFits' /\ HandlerKnows'
  <2>1. Upload!Idle \in HandlerSet /\ Upload!Idle.at = "idle"
    BY DEF Upload!Idle, Upload!None, HandlerSet, Contents
  <2>2. CASE handler' = Upload!Idle BY <2>1, <2>2 DEF HandlerFits, HandlerKnows
  <2>3. ASSUME NEW at \in {"recorded", "cleanup"}, handler' = [handler EXCEPT !.at = at],
               at = "recorded" => r.st = "validating", at = "cleanup" => r.st = "ready"
        PROVE  HandlerFits' /\ HandlerKnows'
    <3>1. handler' \in HandlerSet /\ handler'.at = at /\ handler'.set = handler.set
          /\ handler'.content = handler.content BY <1>1, <2>3 DEF HandlerFits, HandlerSet
    <3> QED BY <1>1, <1>2, <2>3, <3>1 DEF HandlerFits, HandlerKnows
  <2> QED BY <2>2, <2>3
<1> QED BY <1>1, <1>2, <1>3, <1>4 DEF UploadInv, UploadTyped, PostsFit

LEMMA RecordStep ==
    ASSUME UploadAssumption, UploadInv, Upload!RecordChunk
    PROVE  UploadInv' /\ VerdictsOfSets
<1> DEFINE d == handler.set
           c == handler.chunk
           row == sets[d].rows[c]
           fits == sets[d].st \in Upload!Receiving /\ c = sets[d].next /\ ~sets[d].atEnd
           r == [sets[d] EXCEPT !.rows[c] = handler.content, !.next = c + 1,
                                !.st = IF c = Upload!Last THEN "validating" ELSE "downloading"]
<1>1. /\ sets \in Seq(SetRow) /\ RowsFit /\ d \in Upload!Ids /\ sets[d] \in SetRow
      /\ handler \in HandlerSet /\ handler.content \in Sent /\ handler.at = "written"
      /\ posts' = posts /\ lost' = lost BY IdsAre DEF UploadInv, UploadTyped, HandlerFits, Upload!RecordChunk
<1>2. RowFits(d, sets[d]) /\ VerdictStands(sets[d], sets[d]) /\ [sets EXCEPT ![d] = sets[d]] = sets
  BY <1>1 DEF RowsFit, VerdictStands
<1>3. CASE row = "none" /\ fits
  <2>1. /\ sets' = [sets EXCEPT ![d].rows[c] = handler.content, ![d].next = c + 1,
                               ![d].st = IF c = Upload!Last THEN "validating" ELSE "downloading"]
        /\ handler' = IF c = Upload!Last THEN [handler EXCEPT !.at = "recorded"] ELSE Upload!Idle
        /\ IF c = Upload!Last THEN ea' = ea ELSE Upload!Answered(handler, TRUE)
    BY <1>3 DEF Upload!RecordChunk, Upload!None
  <2>2. sets' = [sets EXCEPT ![d] = r] BY <1>1, <2>1
  <2>3. c \in Nat /\ handler.content \in Contents /\ handler.content # "none" /\ sets[d].rows \in ChunkMap
    BY <1>1 DEF HandlerSet, Sent, SetRow
  <2>4. r \in SetRow
    <3> DEFINE recorded == [sets[d].rows EXCEPT ![c] = handler.content]
               verdict == IF c = Upload!Last THEN "validating" ELSE "downloading"
    <3>1. recorded \in ChunkMap BY <2>3 DEF ChunkMap
    <3>2. verdict \in {"validating", "downloading"} /\ c + 1 \in Nat BY <2>3
    <3>3. r = [sets[d] EXCEPT !.rows = recorded, !.next = c + 1, !.st = verdict] BY <1>1 DEF SetRow
    <3> HIDE DEF recorded, verdict, r, c
    <3> QED BY <1>1, <3>1, <3>2, <3>3 DEF SetRow
  <2>5. /\ r.next = c + 1 /\ r.st = (IF c = Upload!Last THEN "validating" ELSE "downloading")
        /\ r.copy = sets[d].copy /\ r.atEnd = sets[d].atEnd /\ r.file = sets[d].file
        /\ \A x \in 0..Upload!Last : x # c => r.rows[x] = sets[d].rows[x]
        /\ \A x \in 0..Upload!Last : x = c => r.rows[x] # "none" BY <1>1, <2>3 DEF SetRow, ChunkMap
  <2> HIDE DEF r
  <2>6. RowFits(d, r)
    <3>1. ~sets[d].copy BY <1>2, <1>3 DEF RowFits
    <3>2. \A x \in 0..Upload!Last : x < c => sets[d].rows[x] # "none"
      BY <1>2, <1>3, <3>1 DEF RowFits, AllOf, Upload!Receiving
    <3>3. \A x \in 0..Upload!Last : x < c + 1 => r.rows[x] # "none" BY <2>3, <2>5, <3>2
    <3>4. c = Upload!Last => AllOf(r.rows) BY <2>3, <3>3 DEF AllOf
    <3> QED BY <1>2, <2>5, <3>1, <3>3, <3>4 DEF RowFits
  <2>7. VerdictStands(sets[d], r) BY <1>3 DEF VerdictStands, Upload!Ended, Upload!Receiving
  <2> QED BY <1>1, <2>1, <2>2, <2>4, <2>5, <2>6, <2>7, HandlerWrites
<1>4. CASE ~(row = "none" /\ fits)
  <2>1. /\ sets' = sets
        /\ \/ /\ sets[d].st = "validating" /\ ea' = ea
              /\ handler' = [handler EXCEPT !.at = "recorded"]
           \/ Upload!Answered(handler, row = handler.content) /\ handler' = Upload!Idle
    BY <1>4 DEF Upload!RecordChunk, Upload!None
  <2> HIDE DEF row, fits
  <2> QED BY <1>1, <1>2, <2>1, HandlerWrites
<1> QED BY <1>3, <1>4

LEMMA FinalizeStep ==
    ASSUME UploadAssumption, UploadInv, Upload!Finalize
    PROVE  UploadInv' /\ VerdictsOfSets
<1> DEFINE d == handler.set
           whole == [c \in 0..Upload!Last |-> IF c \in Upload!Whole(d) THEN sets[d].chunks[c] ELSE "none"]
           r == [sets[d] EXCEPT !.st = "ready", !.file = d, !.whole = whole]
           f == [sets[d] EXCEPT !.st = "failed"]
<1>1. /\ sets \in Seq(SetRow) /\ RowsFit /\ d \in Upload!Ids /\ sets[d] \in SetRow /\ d \in Nat
      /\ handler.at = "recorded" /\ posts' = posts /\ lost' = lost /\ sets[d].st = "validating"
  BY IdsAre DEF UploadInv, UploadTyped, HandlerFits, HandlerKnows, Upload!Finalize
<1>2. RowFits(d, sets[d]) /\ \A s : VerdictStands(sets[d], s) BY <1>1 DEF RowsFit, VerdictStands, Upload!Ended
<1>3. CASE Upload!Usable(d)
  <2>1. /\ sets' = [sets EXCEPT ![d].st = "ready", ![d].file = d, ![d].whole = whole]
        /\ handler' = [handler EXCEPT !.at = "cleanup"] /\ ea' = ea BY <1>3 DEF Upload!Finalize, Upload!None
  <2>2. sets' = [sets EXCEPT ![d] = r] BY <1>1, <2>1
  <2>3. whole \in ChunkMap BY <1>1 DEF SetRow, ChunkMap, Contents
  <2>4. ~sets[d].copy => AllOf(whole)
    BY <1>1, <1>2, <1>3 DEF RowFits, AllOf, Upload!Usable, Upload!Whole, Upload!None
  <2> HIDE DEF whole
  <2>5. r \in SetRow BY <1>1, <2>3 DEF SetRow
  <2>6. r.st = "ready" /\ RowFits(d, r) BY <1>1, <1>2, <2>4 DEF RowFits, SetRow
  <2> HIDE DEF r
  <2> QED BY <1>1, <1>2, <2>1, <2>2, <2>5, <2>6, HandlerWrites
<1>4. CASE ~Upload!Usable(d)
  <2>1. /\ sets' = [sets EXCEPT ![d].st = "failed"] /\ handler' = Upload!Idle
        /\ Upload!Answered(handler, TRUE) BY <1>4 DEF Upload!Finalize
  <2>2. sets' = [sets EXCEPT ![d] = f] /\ f \in SetRow /\ RowFits(d, f) BY <1>1, <1>2, <2>1 DEF RowFits, SetRow
  <2> HIDE DEF f
  <2> QED BY <1>1, <1>2, <2>1, <2>2, HandlerWrites
<1> QED BY <1>3, <1>4

LEMMA CleanupStep ==
    ASSUME UploadAssumption, UploadInv, Upload!Cleanup
    PROVE  UploadInv' /\ VerdictsOfSets
<1> DEFINE d == handler.set
           r == [sets[d] EXCEPT !.rows = Upload!NoChunks, !.chunks = Upload!NoChunks]
<1>1. /\ sets \in Seq(SetRow) /\ RowsFit /\ d \in Upload!Ids /\ sets[d] \in SetRow
      /\ handler.at = "cleanup" /\ posts' = posts /\ lost' = lost /\ sets[d].st = "ready"
      /\ handler' = Upload!Idle /\ Upload!Answered(handler, TRUE)
      /\ sets' = [sets EXCEPT ![d].rows = Upload!NoChunks, ![d].chunks = Upload!NoChunks]
  BY IdsAre DEF UploadInv, UploadTyped, HandlerFits, HandlerKnows, Upload!Cleanup
<1>2. Upload!NoChunks \in ChunkMap BY DEF Upload!NoChunks, Upload!None, ChunkMap, Contents
<1>3. sets' = [sets EXCEPT ![d] = r] /\ r \in SetRow BY <1>1, <1>2 DEF SetRow
<1>4. RowFits(d, r) /\ VerdictStands(sets[d], r)
  BY <1>1 DEF RowsFit, RowFits, VerdictStands, Upload!Ended, SetRow
<1> HIDE DEF r
<1> QED BY <1>1, <1>3, <1>4, HandlerWrites

(* A row is added. *)
LEMMA RowIsAdded ==
    ASSUME UploadInv, NEW r \in SetRow, sets' = Append(sets, r),
           r.copy => r.atEnd, ~r.copy => r = Upload!NewSet,
           UNCHANGED <<ea, posts, handler, lost>>
    PROVE  UploadInv' /\ VerdictsOfSets
<1>1. sets \in Seq(SetRow) /\ RowsFit /\ EaFits /\ PostsFit /\ HandlerFits /\ HandlerKnows /\ lost \in Nat
  BY DEF UploadInv, UploadTyped
<1>2. /\ sets' \in Seq(SetRow) /\ Len(sets') = Len(sets) + 1
      /\ \A d \in 1..Len(sets) : sets'[d] = sets[d]
      /\ sets'[Len(sets) + 1] = r BY <1>1, AppendProperties
<1>3. /\ Upload!Ids' = Upload!Ids \union {Len(sets) + 1}
      /\ \A d \in Upload!Ids : sets'[d] = sets[d] BY <1>1, <1>2 DEF Upload!Ids
<1>4. RowsFit'
  <2>1. \A d \in Upload!Ids : RowFits(d, sets'[d]) BY <1>1, <1>3 DEF RowsFit
  <2>2. RowFits(Len(sets) + 1, r) BY DEF RowFits, Upload!NewSet, AllOf
  <2>3. \A d \in Upload!Ids' : RowFits(d, sets'[d]) BY <1>2, <1>3, <2>1, <2>2
  <2> QED BY <2>3 DEF RowsFit, RowFits, AllOf
<1>5. VerdictsOfSets BY <1>3 DEF VerdictsOfSets, VerdictStands
<1>6. EaFits' /\ PostsFit' /\ HandlerFits' /\ HandlerKnows' /\ lost' \in Nat
  BY <1>1, <1>3 DEF EaFits, PostsFit, HandlerFits, HandlerKnows
<1> QED BY <1>2, <1>4, <1>5, <1>6 DEF UploadInv, UploadTyped

LEMMA NewSetIsRow == UploadAssumption => Upload!NewSet \in SetRow /\ ~Upload!NewSet.copy
<1>1. Upload!NoChunks \in ChunkMap BY DEF Upload!NoChunks, Upload!None, ChunkMap, Contents
<1> QED BY <1>1 DEF Upload!NewSet, SetRow

LEMMA UserStep ==
    ASSUME UploadAssumption, UploadInv, Upload!User
    PROVE  UploadInv' /\ VerdictsOfSets
<1>0. /\ sets \in Seq(SetRow) /\ RowsFit /\ EaFits /\ PostsFit /\ HandlerFits /\ HandlerKnows
      /\ lost \in Nat /\ UNCHANGED <<ea, posts, handler, lost>> /\ handler.at = "idle"
  BY DEF UploadInv, UploadTyped, Upload!User, Upload!Create, Upload!Copy, Upload!Cancel,
         Upload!Delete, Upload!Free
<1>1. CASE Upload!Create BY <1>0, <1>1, NewSetIsRow, RowIsAdded DEF Upload!Create
<1>2. ASSUME NEW d \in Upload!Ids, Upload!Copy(d) PROVE UploadInv' /\ VerdictsOfSets
  <2> DEFINE r == [Upload!NewSet EXCEPT !.st = sets[d].st, !.next = sets[d].next, !.atEnd = TRUE,
                                        !.file = sets[d].file, !.copy = TRUE]
  <2>1. sets' = Append(sets, r) BY <1>2 DEF Upload!Copy
  <2>2. sets[d] \in SetRow BY <1>0, IdsAre
  <2>3. r \in SetRow /\ r.copy /\ r.atEnd BY <2>2, NewSetIsRow DEF SetRow
  <2> HIDE DEF r
  <2> QED BY <1>0, <2>1, <2>3, RowIsAdded
<1>3. ASSUME NEW d \in Upload!Ids, Upload!Cancel(d) PROVE UploadInv' /\ VerdictsOfSets
  <2> DEFINE r == [sets[d] EXCEPT !.st = "canceled"]
  <2>1. sets[d] \in SetRow /\ RowFits(d, sets[d]) /\ sets[d].st # "ready"
    BY <1>0, <1>3, IdsAre DEF RowsFit, Upload!Cancel
  <2>2. sets' = [sets EXCEPT ![d] = r] BY <1>3 DEF Upload!Cancel
  <2>3. r \in SetRow /\ RowFits(d, r) /\ VerdictStands(sets[d], r)
    BY <2>1 DEF SetRow, RowFits, VerdictStands, Upload!Ended
  <2> HIDE DEF r
  <2>4. sets' \in Seq(SetRow) /\ Upload!Ids' = Upload!Ids /\ RowsFit' /\ VerdictsOfSets
    BY <1>0, <2>2, <2>3, RowChanges
  <2> QED BY <1>0, <2>4 DEF UploadInv, UploadTyped, EaFits, PostsFit, HandlerFits, HandlerKnows
<1>4. ASSUME NEW d \in Upload!Ids, Upload!Delete(d) PROVE UploadInv' /\ VerdictsOfSets
  <2> DEFINE New(e) == IF e = d THEN [Upload!NewSet EXCEPT !.st = "deleted"]
                       ELSE IF sets[e].file = d THEN [sets[e] EXCEPT !.whole = Upload!NoChunks] ELSE sets[e]
  <2>1. sets' = [e \in Upload!Ids |-> New(e)] BY <1>4 DEF Upload!Delete
  <2>2. Upload!NoChunks \in ChunkMap BY DEF Upload!NoChunks, Upload!None, ChunkMap, Contents
  <2>3. ASSUME NEW e \in Upload!Ids
        PROVE  New(e) \in SetRow /\ RowFits(e, New(e)) /\ VerdictStands(sets[e], New(e))
    <3>1. sets[e] \in SetRow /\ RowFits(e, sets[e]) /\ d # 0 BY <1>0, IdsAre DEF RowsFit
    <3>2. CASE e = d
      <4>1. New(e) \in SetRow /\ New(e).st = "deleted" /\ ~New(e).copy /\ New(e).file = 0
        BY <3>2, NewSetIsRow DEF SetRow, Upload!NewSet
      <4> QED BY <4>1 DEF RowFits, VerdictStands
    <3>3. CASE e # d /\ sets[e].file = d
      <4>1. sets[e].copy BY <3>1, <3>3 DEF RowFits
      <4>2. New(e) \in SetRow /\ New(e).copy /\ New(e).atEnd /\ New(e).st = sets[e].st
            /\ New(e).file = sets[e].file BY <2>2, <3>1, <3>3, <4>1 DEF SetRow, RowFits
      <4> QED BY <4>2 DEF RowFits, VerdictStands
    <3>4. CASE e # d /\ sets[e].file # d BY <3>1, <3>4 DEF VerdictStands
    <3> QED BY <3>2, <3>3, <3>4
  <2> HIDE DEF New
  <2>4. Upload!Ids = 1..Len(sets) /\ Len(sets) \in Nat BY <1>0, IdsAre
  <2>5. sets' \in Seq(SetRow) /\ Upload!Ids' = Upload!Ids /\ \A e \in Upload!Ids : sets'[e] = New(e)
    <3>1. sets' \in [1..Len(sets) -> SetRow] BY <2>1, <2>3, <2>4
    <3>2. sets' \in Seq(SetRow) BY <2>4, <3>1, SeqDef
    <3> QED BY <2>1, <3>2 DEF Upload!Ids
  <2>6. RowsFit'
    <3>1. \A e \in Upload!Ids' : RowFits(e, sets'[e]) BY <2>3, <2>5
    <3> QED BY <3>1 DEF RowsFit, RowFits, AllOf
  <2>7. VerdictsOfSets BY <2>3, <2>5 DEF VerdictsOfSets
  <2> QED BY <1>0, <2>5, <2>6, <2>7 DEF UploadInv, UploadTyped, EaFits, PostsFit, HandlerFits, HandlerKnows
<1> QED BY <1>1, <1>2, <1>3, <1>4 DEF Upload!User

LEMMA UploadStep ==
    ASSUME UploadAssumption, UploadInv, [Upload!Next]_(Upload!vars)
    PROVE  UploadInv' /\ VerdictsOfSets
  BY PollStep, ReadingStep, AcceptStep, RecordStep, FinalizeStep, CleanupStep, UserStep
     DEF Upload!Next, Upload!EAStep, Upload!Serve

----------------------------------------
(* Events of the outbox, for any number of them and of dispatchers. *)

LEMMA EventBounds ==
  /\ MaxAbandoned \in Nat /\ MaxHandled \in Nat
  /\ Event \cap {"idle", "read", "claim"} = {} BY ServicesAssumption

LEMMA EventsTyped == Events!Spec => []Events!TypeOK
<1>1. Events!Init => Events!TypeOK BY EventBounds DEF Events!Init, Events!TypeOK
<1>2. Events!TypeOK /\ [Events!Next]_(Events!vars) => Events!TypeOK'
  <2> SUFFICES ASSUME Events!TypeOK, [Events!Next]_(Events!vars) PROVE Events!TypeOK' OBVIOUS
  <2> USE EventBounds DEF Events!TypeOK
  <2>1. ASSUME NEW e \in Event, Events!Enqueue(e) PROVE Events!TypeOK' BY <2>1 DEF Events!Enqueue
  <2>2. ASSUME NEW e \in Event, Events!RetryComesDue(e) PROVE Events!TypeOK' BY <2>2 DEF Events!RetryComesDue
  <2>3. ASSUME NEW e \in Event, Events!LeaseRunsOut(e) PROVE Events!TypeOK' BY <2>3 DEF Events!LeaseRunsOut
  <2>4. ASSUME NEW e \in Event, Events!PurgeOld(e) PROVE Events!TypeOK' BY <2>4 DEF Events!PurgeOld
  <2>5. ASSUME NEW d \in Dispatcher, Events!RecoverStale(d) PROVE Events!TypeOK'
    BY <2>5 DEF Events!RecoverStale, Events!Abandoned
  <2>6. ASSUME NEW d \in Dispatcher, Events!ReadPending(d) PROVE Events!TypeOK' BY <2>6 DEF Events!ReadPending
  <2>7. ASSUME NEW d \in Dispatcher, NEW e \in Event, Events!Claim(d, e) PROVE Events!TypeOK'
    BY <2>7 DEF Events!Claim
  <2>8. ASSUME NEW d \in Dispatcher, NEW e \in Event, Events!Handle(d, e) PROVE Events!TypeOK'
    BY <2>8 DEF Events!Handle
  <2>9. ASSUME NEW d \in Dispatcher, NEW e \in Event, Events!MarkFailed(d, e) PROVE Events!TypeOK'
    BY <2>9 DEF Events!MarkFailed
  <2>10. ASSUME NEW d \in Dispatcher, Events!MarkPublished(d) PROVE Events!TypeOK'
    BY <2>10 DEF Events!MarkPublished
  <2>11. ASSUME NEW d \in Dispatcher, Events!FinishBatch(d) PROVE Events!TypeOK' BY <2>11 DEF Events!FinishBatch
  <2>12. ASSUME NEW d \in Dispatcher, Events!Abandon(d) PROVE Events!TypeOK' BY <2>12 DEF Events!Abandon
  <2>13. CASE UNCHANGED Events!vars BY <2>13 DEF Events!vars
  <2> QED BY <2>1, <2>2, <2>3, <2>4, <2>5, <2>6, <2>7, <2>8, <2>9, <2>10, <2>11, <2>12, <2>13
    DEF Events!Next
<1> QED BY <1>1, <1>2, PTL DEF Events!Spec

(* Between the handler and the mark the event is in dispatching: there too it has
   been through its handler. *)
MarkedWasHandled == \A d \in Dispatcher : dispatching[d] \in Event => handled[dispatching[d]] > 0
HandledInv == Events!PublishedWasHandled /\ MarkedWasHandled

(* A step that leaves dispatching and handled alone and publishes nothing keeps the
   invariant. *)
LEMMA PublishesNothing ==
  ASSUME HandledInv, UNCHANGED <<dispatching, handled>>,
         \A e \in Event : eventStatus'[e] = "published" => eventStatus[e] = "published"
  PROVE  HandledInv' BY DEF HandledInv, Events!PublishedWasHandled, MarkedWasHandled

(* An event that was published has been through its handler at least once:
   no crash between claim, handler and mark loses an event. *)
THEOREM NothingPublishedUnhandled == Events!Spec => []Events!PublishedWasHandled
<1>1. Events!Init => HandledInv
  BY EventBounds DEF Events!Init, HandledInv, Events!PublishedWasHandled, MarkedWasHandled
<1>2. Events!TypeOK /\ HandledInv /\ [Events!Next]_(Events!vars) => HandledInv'
  <2> SUFFICES ASSUME Events!TypeOK, HandledInv, [Events!Next]_(Events!vars) PROVE HandledInv' OBVIOUS
  <2> USE EventBounds DEF Events!TypeOK
  <2>1. ASSUME NEW e \in Event, Events!Enqueue(e) PROVE HandledInv' BY <2>1, PublishesNothing DEF Events!Enqueue
  <2>2. ASSUME NEW e \in Event,
               Events!RetryComesDue(e) \/ Events!LeaseRunsOut(e) \/ Events!PurgeOld(e)
        PROVE  HandledInv'
    BY <2>2, PublishesNothing DEF Events!RetryComesDue, Events!LeaseRunsOut, Events!PurgeOld
  <2>3. ASSUME NEW d \in Dispatcher,
               \/ Events!RecoverStale(d) \/ Events!ReadPending(d)
               \/ Events!FinishBatch(d) \/ Events!Abandon(d) PROVE HandledInv'
    <3>1. \A e \in Event : eventStatus'[e] = "published" => eventStatus[e] = "published"
      BY <2>3 DEF Events!RecoverStale, Events!ReadPending, Events!FinishBatch, Events!Abandon
    <3>2. handled' = handled /\ \A c \in Dispatcher : dispatching'[c] \in Event => dispatching'[c] = dispatching[c]
      BY <2>3 DEF Events!RecoverStale, Events!ReadPending, Events!FinishBatch, Events!Abandon
    <3> QED BY <3>1, <3>2 DEF HandledInv, Events!PublishedWasHandled, MarkedWasHandled
  <2>4. ASSUME NEW d \in Dispatcher, NEW e \in Event, Events!Claim(d, e) PROVE HandledInv'
    BY <2>4, PublishesNothing DEF Events!Claim
  <2>5. ASSUME NEW d \in Dispatcher, NEW e \in Event, Events!MarkFailed(d, e) PROVE HandledInv'
    BY <2>5, PublishesNothing DEF Events!MarkFailed
  <2>6. ASSUME NEW d \in Dispatcher, NEW e \in Event, Events!Handle(d, e) PROVE HandledInv'
    BY <2>6 DEF Events!Handle, HandledInv, Events!PublishedWasHandled, MarkedWasHandled
  <2>7. ASSUME NEW d \in Dispatcher, Events!MarkPublished(d) PROVE HandledInv'
    BY <2>7 DEF Events!MarkPublished, HandledInv, Events!PublishedWasHandled, MarkedWasHandled
  <2>8. CASE UNCHANGED Events!vars BY <2>8, PublishesNothing DEF Events!vars
  <2> QED BY <2>1, <2>2, <2>3, <2>4, <2>5, <2>6, <2>7, <2>8 DEF Events!Next
<1>3. HandledInv => Events!PublishedWasHandled BY DEF HandledInv
<1> QED BY <1>1, <1>2, <1>3, EventsTyped, PTL DEF Events!Spec

(* What one dispatcher, the deployed case, adds: nobody touches the rows
   it has read, reserved or handled, except the retention job. *)

RowsUntouched(d) ==
  /\ dispatching[d] \in {"idle", "read"} => fetched[d] = {} /\ reserved[d] = {}
  /\ dispatching[d] \in Event => /\ eventStatus[dispatching[d]] = "publishing"
                                /\ dispatching[d] \notin reserved[d] /\ fetched[d] = {}
  /\ \A e \in fetched[d] : eventStatus[e] \in {"pending", "purged"}
  /\ \A e \in reserved[d] : eventStatus[e] = "publishing"

(* A handler that has run is paid for by a crash, unless its event is done
   with or is about to be marked. *)
Paid(d) ==
  \A e \in Event :
    /\ handled[e] <= 1 + abandoned
    /\ eventStatus[e] \notin {"published", "purged"} /\ dispatching[d] # e => handled[e] <= abandoned

LEMMA OneDispatcherOwns ==
  ASSUME NEW d, Dispatcher = {d}
  PROVE  Events!Spec => [](Events!TypeOK /\ RowsUntouched(d) /\ Paid(d))
<1> DEFINE Inv == RowsUntouched(d) /\ Paid(d)
<1> USE EventBounds
<1>1. Events!Init => Inv BY DEF Events!Init, RowsUntouched, Paid
<1>2. Events!TypeOK /\ Inv /\ [Events!Next]_(Events!vars) => Inv'
  <2> SUFFICES ASSUME Events!TypeOK, Inv, [Events!Next]_(Events!vars) PROVE Inv' OBVIOUS
  <2> USE DEF Events!TypeOK, RowsUntouched, Paid
  <2>1. ASSUME NEW e \in Event, Events!Enqueue(e) PROVE Inv' BY <2>1 DEF Events!Enqueue
  <2>2. ASSUME NEW e \in Event, Events!RetryComesDue(e) PROVE Inv' BY <2>2 DEF Events!RetryComesDue
  <2>3. ASSUME NEW e \in Event, Events!LeaseRunsOut(e) PROVE Inv' BY <2>3 DEF Events!LeaseRunsOut
  <2>4. ASSUME NEW e \in Event, Events!PurgeOld(e) PROVE Inv' BY <2>4 DEF Events!PurgeOld
  <2>5. CASE Events!RecoverStale(d) BY <2>5 DEF Events!RecoverStale, Events!Abandoned
  <2>6. CASE Events!ReadPending(d) BY <2>6 DEF Events!ReadPending
  <2>7. ASSUME NEW e \in Event, Events!Claim(d, e) PROVE Inv' BY <2>7 DEF Events!Claim
  <2>8. ASSUME NEW e \in Event, Events!Handle(d, e) PROVE Inv' BY <2>8 DEF Events!Handle
  <2>9. ASSUME NEW e \in Event, Events!MarkFailed(d, e) PROVE Inv' BY <2>9 DEF Events!MarkFailed
  <2>10. CASE Events!MarkPublished(d) BY <2>10 DEF Events!MarkPublished
  <2>11. CASE Events!FinishBatch(d) BY <2>11 DEF Events!FinishBatch
  <2>12. CASE Events!Abandon(d) BY <2>12 DEF Events!Abandon
  <2>13. CASE UNCHANGED Events!vars BY <2>13 DEF Events!vars
  <2> QED BY <2>1, <2>2, <2>3, <2>4, <2>5, <2>6, <2>7, <2>8, <2>9, <2>10, <2>11, <2>12, <2>13
    DEF Events!Next
<1> QED BY <1>1, <1>2, EventsTyped, PTL DEF Events!Spec

(* One dispatcher calls the handler of an event again only for a batch
   that was abandoned. *)
LEMMA RepeatsAreAbandoned ==
  ASSUME NEW d, Dispatcher = {d}
  PROVE  Events!Spec => []Events!RepeatNeedsAbandon
<1>1. Paid(d) => Events!RepeatNeedsAbandon BY DEF Paid, Events!RepeatNeedsAbandon
<1> QED BY <1>1, OneDispatcherOwns, PTL

(* With one dispatcher a published event is never taken up again. *)
THEOREM PublishedStaysPublished ==
  ASSUME NEW d, Dispatcher = {d}
  PROVE  Events!Spec => Events!PublishedIsFinal
<1>1. Events!TypeOK /\ RowsUntouched(d) /\ [Events!Next]_(Events!vars) =>
        [Events!OneDispatcher =>
            \A e \in Event : eventStatus[e] = "published" => eventStatus'[e] = "published"]_(Events!vars)
  <2> SUFFICES ASSUME Events!TypeOK, RowsUntouched(d), Events!Next, NEW e \in Event, eventStatus[e] = "published"
               PROVE  eventStatus'[e] = "published" OBVIOUS
  <2> USE EventBounds DEF Events!TypeOK, RowsUntouched
  <2>1. ASSUME NEW f \in Event,
               \/ Events!Enqueue(f) \/ Events!RetryComesDue(f)
               \/ Events!LeaseRunsOut(f) \/ Events!PurgeOld(f) PROVE eventStatus'[e] = "published"
    BY <2>1 DEF Events!Enqueue, Events!RetryComesDue, Events!LeaseRunsOut, Events!PurgeOld
  <2>2. ASSUME \/ Events!RecoverStale(d) \/ Events!ReadPending(d)
               \/ Events!FinishBatch(d) \/ Events!Abandon(d) PROVE eventStatus'[e] = "published"
    BY <2>2 DEF Events!RecoverStale, Events!Abandoned, Events!ReadPending, Events!FinishBatch, Events!Abandon
  <2>3. ASSUME NEW f \in Event, Events!Claim(d, f) \/ Events!Handle(d, f) \/ Events!MarkFailed(d, f)
        PROVE  eventStatus'[e] = "published" BY <2>3 DEF Events!Claim, Events!Handle, Events!MarkFailed
  <2>4. CASE Events!MarkPublished(d) BY <2>4 DEF Events!MarkPublished
  <2> QED BY <2>1, <2>2, <2>3, <2>4 DEF Events!Next
<1> QED BY <1>1, OneDispatcherOwns, PTL DEF Events!Spec, Events!PublishedIsFinal

LEMMA EventsHold == ServicesSpec => []EventsAreHandled /\ Events!PublishedIsFinal
<1>1. CASE Events!OneDispatcher
  <2>1. \E d : Dispatcher = {d}
    <3>1. Cardinality(Dispatcher) = 1 BY <1>1 DEF Events!OneDispatcher, Events!Cardinality, Cardinality
    <3> QED BY <3>1, ServicesAssumption, FS_Singleton
  <2>2. PICK d : Dispatcher = {d} BY <2>1
  <2>3. Events!Spec => []Events!RepeatNeedsAbandon BY <2>2, RepeatsAreAbandoned
  <2>4. Events!Spec => Events!PublishedIsFinal BY <2>2, PublishedStaysPublished
  <2> QED BY <2>3, <2>4, NothingPublishedUnhandled, PTL DEF ServicesSpec, EventsAreHandled
<1>2. CASE ~ Events!OneDispatcher
  <2>1. Events!RepeatNeedsAbandon BY <1>2 DEF Events!RepeatNeedsAbandon
  <2>2. [Events!Next]_(Events!vars) =>
          [Events!OneDispatcher =>
              \A e \in Event : eventStatus[e] = "published" => eventStatus'[e] = "published"]_(Events!vars)
    BY <1>2
  <2> QED BY <2>1, <2>2, NothingPublishedUnhandled, PTL
       DEF ServicesSpec, EventsAreHandled, Events!Spec, Events!PublishedIsFinal
<1> QED BY <1>1, <1>2

----------------------------------------
(* The position rules. *)

(* Arithmetic the rules are made of. *)
LEMMA Products == \A a, b \in Int : a * b \in Int OBVIOUS

LEMMA Signs == \A d : Sign(d) \in Int BY DEF Sign

LEMMA ShareIsNumber == ASSUME NEW a \in Int, NEW b \in Int PROVE Share(a, b) \in Int
<1>1. a * b \in Int BY Products
<1> QED BY <1>1 DEF Share

LEMMA ShareIsNatural == ASSUME NEW a \in Nat, NEW b \in Nat PROVE Share(a, b) \in Nat
<1> DEFINE product == a * b
<1>1. product \in Int /\ product >= 0 OBVIOUS
<1> HIDE DEF product
<1>2. product \div 100 \in Nat BY <1>1
<1> QED BY <1>2 DEF Share, product

(* A volume of a step or more has a slice for every share of it. *)
LEMMA ShareIsPositive ==
  ASSUME NEW a \in Int, a >= Step, NEW b \in Nat, b > 0 PROVE Share(a, b) > 0
<1> DEFINE product == a * b
<1>1. product \in Int /\ product >= 100 BY DEF Step
<1> HIDE DEF product
<1>2. product \div 100 > 0 BY <1>1
<1> QED BY <1>2 DEF Share, product

LEMMA SignedIsNumber == ASSUME NEW d, NEW a \in Int PROVE Sign(d) * a \in Int BY Signs, Products

LEMMA OutwardIsNumber ==
  ASSUME NEW d, NEW a \in Int, NEW b \in Int
  PROVE  a + Sign(d) * b \in Int /\ a - Sign(d) * b \in Int /\ a + (-Sign(d)) * b \in Int
<1>1. Sign(d) * b \in Int /\ (-Sign(d)) * b \in Int BY DEF Sign
<1> QED BY <1>1

LEMMA AwayIsNatural == ASSUME NEW a \in Int, NEW b \in Int PROVE Away(a, b) \in Nat BY DEF Away

(* Directions. *)
LEMMA BeyondIs ==
  ASSUME NEW a \in Int, NEW b \in Int
  PROVE  Beyond("buy", a, b) = (a > b) /\ Beyond("sell", a, b) = (a < b) BY DEF Beyond, Sign

----------------------------------------
(* Least and greatest. *)
LEMMA IntervalHasGreatest ==
  ASSUME NEW a \in Int, NEW b \in Int, NEW S \in SUBSET (a..b), S # {}
  PROVE  Max(S) \in S /\ Min(S) \in S
<1> DEFINE Above == {b - x : x \in S}
    Below == {x - a : x \in S}
<1>1. Above \in SUBSET Nat /\ Above # {} /\ Below \in SUBSET Nat /\ Below # {} OBVIOUS
<1>2. PICK m \in Above : \A y \in Above : m <= y
  <2> HIDE DEF Above
  <2> QED BY <1>1, E!NumbersHaveLeast
<1>3. PICK n \in Below : \A y \in Below : n <= y
  <2> HIDE DEF Below
  <2> QED BY <1>1, E!NumbersHaveLeast
<1>4. PICK x \in S : m = b - x BY <1>2
<1>5. PICK z \in S : n = z - a BY <1>3
<1>6. \A y \in S : x >= y
  <2> SUFFICES ASSUME NEW y \in S PROVE x >= y OBVIOUS
  <2>1. m <= b - y BY <1>2
  <2> QED BY <1>4, <2>1
<1>7. \A y \in S : z <= y
  <2> SUFFICES ASSUME NEW y \in S PROVE z <= y OBVIOUS
  <2>1. n <= y - a BY <1>3
  <2> QED BY <1>5, <2>1
<1> QED BY <1>6, <1>7 DEF Max, Min

LEMMA FiniteIs == \A S : E!IsFiniteSet(S) <=> IsFiniteSet(S) BY DEF E!IsFiniteSet, IsFiniteSet

LEMMA SumTakesOff ==
  ASSUME NEW f, IsFiniteSet(DOMAIN f)
  PROVE  \E s : E!AddsUp(s, f, DOMAIN f) /\ SumFunction(f) = s[DOMAIN f]
<1> DEFINE s == CHOOSE s : E!AddsUp(s, f, DOMAIN f)
<1>1. SumFunction(f) = s[DOMAIN f]
  BY DEF SumFunction, SumFunctionOnSet, FoldFunctionOnSet, MapThenFoldSet, E!AddsUp
<1>2. \E t : E!AddsUp(t, f, DOMAIN f) BY FiniteIs, E!SumIsDefined
<1>3. E!AddsUp(s, f, DOMAIN f) BY <1>2
<1> QED BY <1>1, <1>3

(* A sum of naturals is one, and no smaller than any of them. *)
LEMMA SumOfNaturals ==
  ASSUME NEW S, IsFiniteSet(S), NEW f \in [S -> Nat]
  PROVE  SumFunction(f) \in Nat /\ \A x \in S : f[x] <= SumFunction(f)
<1>1. PICK s : E!AddsUp(s, f, S) /\ SumFunction(f) = s[S] BY SumTakesOff
<1> DEFINE Good == {W \in SUBSET S : s[W] \in Nat /\ \A x \in W : f[x] <= s[W]}
<1>2. {} \in Good BY <1>1 DEF E!AddsUp
<1>3. ASSUME NEW W \in SUBSET S, W # {}, W \ {CHOOSE x \in W : TRUE} \in Good PROVE W \in Good
  <2> DEFINE x == CHOOSE x \in W : TRUE
      rest == W \ {x}
  <2>1. x \in S /\ x \in W BY <1>3
  <2>2. s[W] = f[x] + s[rest] BY <1>1, <1>3 DEF E!AddsUp
  <2>3. s[rest] \in Nat /\ \A y \in rest : f[y] <= s[rest] BY <1>3
  <2>4. \A y \in W : y = x \/ y \in rest OBVIOUS
  <2>5. \A y \in W : f[y] \in Nat OBVIOUS
  <2> HIDE DEF rest, x
  <2>6. s[W] \in Nat /\ \A y \in W : f[y] <= s[W] BY <2>1, <2>2, <2>3, <2>4, <2>5
  <2> QED BY <2>6
<1> HIDE DEF Good
<1>4. S \in Good BY <1>2, <1>3, FiniteIs, E!EverySubset
<1> QED BY <1>1, <1>4 DEF Good

(* Of finitely many things one has the greatest number. *)
LEMMA FurthestIs ==
  ASSUME NEW S, IsFiniteSet(S), S # {}, NEW f \in [S -> Int]
  PROVE  /\ \E x \in S : \A y \in S : f[y] <= f[x]
         /\ \E x \in S : \A y \in S : f[x] <= f[y]
<1> DEFINE Good == {W \in SUBSET S : W # {} => /\ \E x \in W : \A y \in W : f[y] <= f[x]
                                               /\ \E x \in W : \A y \in W : f[x] <= f[y]}
<1>1. {} \in Good OBVIOUS
<1>2. ASSUME NEW W \in SUBSET S, W # {}, W \ {CHOOSE x \in W : TRUE} \in Good PROVE W \in Good
  <2> DEFINE x == CHOOSE x \in W : TRUE
      rest == W \ {x}
  <2>1. x \in W /\ (\A y \in W : y = x \/ y \in rest) /\ rest \subseteq W /\ \A y \in W : f[y] \in Int BY <1>2
  <2>2. rest # {} => /\ \E z \in rest : \A y \in rest : f[y] <= f[z]
                     /\ \E z \in rest : \A y \in rest : f[z] <= f[y] BY <1>2
  <2> HIDE DEF rest, x
  <2>3. /\ \E z \in W : \A y \in W : f[y] <= f[z]
        /\ \E z \in W : \A y \in W : f[z] <= f[y]
    <3>1. CASE rest = {} BY <2>1, <3>1
    <3>2. CASE rest # {}
      <4>1. PICK z \in rest : \A y \in rest : f[y] <= f[z] BY <2>2, <3>2
      <4>2. PICK w \in rest : \A y \in rest : f[w] <= f[y] BY <2>2, <3>2
      <4>3. \E v \in W : \A y \in W : f[y] <= f[v]
        <5>1. CASE f[x] <= f[z] BY <2>1, <4>1, <5>1
        <5>2. CASE ~(f[x] <= f[z]) BY <2>1, <4>1, <5>2
        <5> QED BY <5>1, <5>2
      <4>4. \E v \in W : \A y \in W : f[v] <= f[y]
        <5>1. CASE f[w] <= f[x] BY <2>1, <4>2, <5>1
        <5>2. CASE ~(f[w] <= f[x]) BY <2>1, <4>2, <5>2
        <5> QED BY <5>1, <5>2
      <4> QED BY <4>3, <4>4
    <3> QED BY <3>1, <3>2
  <2> QED BY <2>3
<1> HIDE DEF Good
<1>3. S \in Good BY <1>1, <1>2, FiniteIs, E!EverySubset
<1> QED BY <1>3 DEF Good

----------------------------------------
(* The volume of the trade rows, added up row by row. *)

SumsUp(s, trades, n) ==
  s = [k \in 0..n |-> IF k = 0 THEN 0 ELSE s[k - 1] + trades[k].volume]

LEMMA VolumeIsDefined ==
  ASSUME NEW trades, NEW n \in Nat
  PROVE  \E s : SumsUp(s, trades, n)
<1> DEFINE Missing == {k \in Nat : ~ \E s : SumsUp(s, trades, k)}
<1> SUFFICES ASSUME Missing # {} PROVE FALSE OBVIOUS
<1>1. PICK m \in Missing : \A k \in Missing : m <= k
  <2>1. Missing \in SUBSET Nat OBVIOUS
  <2> HIDE DEF Missing
  <2> QED BY <2>1, E!NumbersHaveLeast
<1>2. m \in Nat /\ ~ \E s : SumsUp(s, trades, m) OBVIOUS
<1>3. CASE m = 0
  <2> DEFINE g == [k \in 0..m |-> 0]
  <2>1. SumsUp(g, trades, m) BY <1>3 DEF SumsUp
  <2> QED BY <1>2, <2>1
<1>4. CASE m # 0
  <2>1. m - 1 \in Nat /\ m - 1 \notin Missing
    <3> HIDE DEF Missing
    <3> QED BY <1>1, <1>2, <1>4
  <2>2. PICK s : SumsUp(s, trades, m - 1) BY <2>1
  <2> DEFINE g == [k \in 0..m |-> IF k = 0 THEN 0 ELSE s[k - 1] + trades[k].volume]
  <2>3. ASSUME NEW k \in 0..m, k # 0 PROVE g[k - 1] = s[k - 1]
    <3>1. k - 1 \in 0..(m - 1) /\ k - 1 \in 0..m BY <1>2, <2>3
    <3>2. s[k - 1] = IF k - 1 = 0 THEN 0 ELSE s[k - 1 - 1] + trades[k - 1].volume BY <2>2, <3>1 DEF SumsUp
    <3> QED BY <3>1, <3>2
  <2>4. SumsUp(g, trades, m)
    <3>1. \A k \in 0..m : (IF k = 0 THEN 0 ELSE s[k - 1] + trades[k].volume)
                            = IF k = 0 THEN 0 ELSE g[k - 1] + trades[k].volume
      <4> HIDE DEF g
      <4> QED BY <2>3
    <3> DEFINE h == [k \in 0..m |-> IF k = 0 THEN 0 ELSE g[k - 1] + trades[k].volume]
    <3>2. g = h BY <3>1
    <3> QED BY <3>2 DEF SumsUp
  <2> QED BY <1>2, <2>4
<1> QED BY <1>3, <1>4

(* What is added up to a row does not depend on the rows after it. *)
LEMMA VolumesAgree ==
  ASSUME NEW m \in Nat, NEW n \in Nat, m <= n, NEW a, NEW b, NEW s, NEW t,
         SumsUp(s, a, m), SumsUp(t, b, n),
         \A k \in 1..m : a[k].volume \in Int /\ a[k].volume = b[k].volume
  PROVE  \A k \in 0..m : s[k] \in Int /\ s[k] = t[k]
<1> DEFINE Bad == {k \in 0..m : ~(s[k] \in Int /\ s[k] = t[k])}
<1> SUFFICES ASSUME Bad # {} PROVE FALSE OBVIOUS
<1>1. PICK k \in Bad : \A j \in Bad : k <= j
  <2>1. Bad \in SUBSET Nat OBVIOUS
  <2> HIDE DEF Bad
  <2> QED BY <2>1, E!NumbersHaveLeast
<1>2. k \in 0..m /\ k \in 0..n /\ ~(s[k] \in Int /\ s[k] = t[k]) OBVIOUS
<1>3. s[k] = (IF k = 0 THEN 0 ELSE s[k - 1] + a[k].volume) BY <1>2 DEF SumsUp
<1>4. t[k] = (IF k = 0 THEN 0 ELSE t[k - 1] + b[k].volume) BY <1>2 DEF SumsUp
<1>5. CASE k = 0 BY <1>2, <1>3, <1>4, <1>5
<1>6. CASE k # 0
  <2>1. k - 1 \in 0..m /\ k \in 1..m /\ k - 1 \notin Bad
    <3> HIDE DEF Bad
    <3> QED BY <1>1, <1>2, <1>6
  <2>2. s[k - 1] \in Int /\ s[k - 1] = t[k - 1] BY <2>1
  <2> HIDE DEF Bad
  <2> QED BY <1>2, <1>3, <1>4, <1>6, <2>1, <2>2
<1> QED BY <1>5, <1>6

LEMMA VolumeIs ==
  ASSUME NEW trades, Len(trades) \in Nat
  PROVE  \E s : SumsUp(s, trades, Len(trades)) /\ VolumeOf(trades) = s[Len(trades)]
<1> DEFINE s == CHOOSE s : SumsUp(s, trades, Len(trades))
<1>1. VolumeOf(trades) = s[Len(trades)] BY DEF VolumeOf, SumsUp
<1>2. SumsUp(s, trades, Len(trades)) BY VolumeIsDefined
<1> QED BY <1>1, <1>2

LEMMA VolumeOfNone == VolumeOf(<<>>) = 0
<1>1. Len(<<>>) = 0 OBVIOUS
<1>2. PICK s : SumsUp(s, <<>>, 0) /\ VolumeOf(<<>>) = s[0] BY <1>1, VolumeIs
<1> QED BY <1>2 DEF SumsUp

(* A row more adds its volume. *)
LEMMA VolumeAdds ==
  ASSUME NEW S, NEW trades \in Seq(S), NEW row \in S,
         \A k \in 1..Len(trades) : trades[k].volume \in Int, row.volume \in Int
  PROVE  VolumeOf(Append(trades, row)) = VolumeOf(trades) + row.volume /\ VolumeOf(trades) \in Int
<1> DEFINE n == Len(trades)
    more == Append(trades, row)
<1>1. n \in Nat /\ Len(more) = n + 1 /\ more[n + 1] = row /\ \A k \in 1..n : more[k] = trades[k] OBVIOUS
<1> HIDE DEF more
<1>2. PICK s : SumsUp(s, trades, n) /\ VolumeOf(trades) = s[n] BY <1>1, VolumeIs
<1>3. PICK t : SumsUp(t, more, n + 1) /\ VolumeOf(more) = t[n + 1] BY <1>1, VolumeIs
<1>4. \A k \in 1..n : trades[k].volume \in Int /\ trades[k].volume = more[k].volume BY <1>1
<1> HIDE DEF n
<1>5. s[n] \in Int /\ s[n] = t[n] BY <1>1, <1>2, <1>3, <1>4, VolumesAgree
<1>6. t[n + 1] = t[n] + more[n + 1].volume BY <1>1, <1>3 DEF SumsUp
<1> QED BY <1>1, <1>2, <1>3, <1>5, <1>6 DEF more, n

----------------------------------------
(* What the rules ask of an open position. *)

PastIn(d, level, mark) ==
  IF level.kind = "stop_loss" THEN ~Beyond(d, mark, level.price) ELSE ~Beyond(d, level.price, mark)

(* Staged levels have ids of their own, and no stop of them lies past a
   target, so that a quote reaches stops only or targets only. *)
Levels(levels, d) ==
  /\ IsFiniteSet(levels)
  /\ \A l \in levels : /\ l.kind \in {"stop_loss", "take_profit", "runner"}
                       /\ l.price \in Int /\ l.percent \in Nat /\ l.id # SignalTarget
                       /\ l.kind = "stop_loss" /\ d = "sell" => l.price > 0
                       /\ l.kind = "take_profit" /\ d = "buy" => l.price > 0
  /\ \A l, m \in levels : l.id = m.id => l = m
  /\ \A l, t \in levels : l.kind = "stop_loss" /\ t.kind = "take_profit" => Beyond(d, t.price, l.price)

(* A row of an open position is one the rules can count with. *)
Row(p) ==
  /\ {"st", "dir", "vol", "rem", "entry", "sl", "tp", "fav", "risk", "done", "why", "levels"} \subseteq DOMAIN p
  /\ p.dir \in {"buy", "sell"}
  /\ p.vol \in Int /\ p.vol >= Step /\ p.rem \in 0..p.vol
  /\ p.entry \in Int /\ p.sl \in Int /\ p.sl > 0 /\ p.fav \in Int /\ p.risk \in Int
  /\ Levels(p.levels, p.dir)

(* No level that closes what is left was executed. *)
RestWaits(p) == \A l \in p.levels : l.rest /\ l.kind # "runner" => l.id \notin p.done

(* A stop the position may move to. *)
LegalStop(p, c, mark) == c \in Int /\ Tightens(p.dir, p.sl, c, mark)

(* What an action may be: nothing, a close, a slice of volume with ids that
   are not done, or a tighter stop. *)
Slice(p, act, mark) ==
  /\ act.kind = "partial" /\ act.volume \in Int /\ act.ids \cap p.done = {}
  /\ act.stop = 0 \/ LegalStop(p, act.stop, mark)
  /\ \A l \in p.levels : l.rest => l.id \notin act.ids
Asks(p, act, mark) ==
  \/ act = Hold
  \/ act.kind = "close"
  \/ Slice(p, act, mark)
  \/ act.kind = "stop" /\ LegalStop(p, act.stop, mark)

(* Levels the mark has reached are taken by the action. *)
Takes(p, act, mark) ==
  act.kind # "close" =>
    \A l \in p.levels : l.kind # "runner" /\ PastIn(p.dir, l, mark) =>
      /\ ~l.rest
      /\ l.percent > 0 => \/ l.id \in p.done
                          \/ act.kind = "partial" /\ act.volume > 0 /\ l.id \in act.ids

LEMMA Acts ==
  /\ Hold.kind = "hold"
  /\ \A ids, reason : Close(ids, reason).kind = "close"
  /\ \A volume, ids, moved, reason :
        LET act == Partial(volume, ids, moved, reason) IN
        act.kind = "partial" /\ act.volume = volume /\ act.ids = ids /\ act.stop = moved
  BY DEF Hold, Close, Partial

LEMMA ActiveIs ==
  ASSUME NEW p, Row(p)
  PROVE  /\ Active(p) \in Int /\ 0 < Active(p) /\ Active(p) <= p.vol
         /\ p.rem > 0 => Active(p) = p.rem BY DEF Row, Active, Step

(* A quote at a level is not at a level of the other kind. *)
LEMMA OneKindIsHit ==
  ASSUME NEW p, Row(p), NEW mark \in Nat \ {0}, NEW l \in p.levels, NEW t \in p.levels,
         l.kind = "stop_loss", t.kind = "take_profit",
         PastIn(p.dir, l, mark), PastIn(p.dir, t, mark)
  PROVE  FALSE
<1>1. l.price \in Int /\ t.price \in Int /\ Beyond(p.dir, t.price, l.price) BY DEF Row, Levels
<1>2. ~Beyond(p.dir, mark, l.price) /\ ~Beyond(p.dir, t.price, mark) BY DEF PastIn
<1>3. CASE p.dir = "buy" BY <1>1, <1>2, <1>3, BeyondIs
<1>4. CASE p.dir = "sell" BY <1>1, <1>2, <1>4, BeyondIs
<1> QED BY <1>3, <1>4 DEF Row

(* A level the mark has reached and that was not executed is hit. *)
LEMMA ReachedIsHit ==
  ASSUME NEW p, Row(p), NEW mark \in Nat \ {0}, NEW l \in p.levels, l.kind # "runner",
         PastIn(p.dir, l, mark), l.id \notin p.done
  PROVE  l \in Hit(p, mark, l.kind)
<1>1. /\ l.price \in Int /\ l.kind \in {"stop_loss", "take_profit", "runner"}
      /\ l.kind = "stop_loss" /\ p.dir = "sell" => l.price > 0
      /\ l.kind = "take_profit" /\ p.dir = "buy" => l.price > 0 BY DEF Row, Levels
<1>2. CASE l.kind = "stop_loss"
  <2>1. ~Beyond(p.dir, mark, l.price) BY <1>2 DEF PastIn
  <2>2. l.price > 0
    <3>1. CASE p.dir = "buy" BY <1>1, <2>1, <3>1 DEF Beyond, Sign
    <3> QED BY <1>1, <1>2, <3>1 DEF Row
  <2> QED BY <1>2, <2>1, <2>2 DEF Hit
<1>3. CASE l.kind = "take_profit"
  <2>1. ~Beyond(p.dir, l.price, mark) BY <1>3 DEF PastIn
  <2>2. l.price > 0
    <3>1. CASE p.dir = "sell" BY <1>1, <2>1, <3>1 DEF Beyond, Sign
    <3> QED BY <1>1, <1>3, <3>1 DEF Row
  <2> QED BY <1>3, <2>1, <2>2 DEF Hit
<1> QED BY <1>1, <1>2, <1>3

LEMMA HitIs ==
  ASSUME NEW p, Row(p), NEW mark \in Nat \ {0}, NEW kind \in {"stop_loss", "take_profit"}
  PROVE  /\ Hit(p, mark, kind) \in SUBSET p.levels /\ IsFiniteSet(Hit(p, mark, kind))
         /\ \A l \in Hit(p, mark, kind) : l.kind = kind /\ l.id \notin p.done /\ PastIn(p.dir, l, mark)
<1>1. Hit(p, mark, kind) \in SUBSET p.levels BY DEF Hit
<1>2. IsFiniteSet(Hit(p, mark, kind)) BY <1>1, FS_Subset DEF Row, Levels
<1>3. \A l \in Hit(p, mark, kind) : l.kind = kind /\ l.id \notin p.done /\ PastIn(p.dir, l, mark)
  BY DEF Hit, PastIn
<1> QED BY <1>1, <1>2, <1>3

(* Staged exits: they take every level the mark has reached, the whole
   position with the level that closes the rest. *)
LEMMA LevelExitIs ==
  ASSUME NEW p, Row(p), RestWaits(p), NEW mark \in Nat \ {0}
  PROVE  LET act == LevelExit(p, mark) IN
         /\ act = Hold \/ act.kind = "close" \/ Slice(p, act, mark)
         /\ Takes(p, act, mark)
<1> DEFINE stopLevels == Hit(p, mark, "stop_loss")
    hits == IF stopLevels # {} THEN stopLevels ELSE Hit(p, mark, "take_profit")
    f == [l \in hits |-> Share(p.vol, l.percent)]
    slice == SumFunction(f)
    volume == IF \E l \in hits : l.rest THEN Active(p) ELSE AtMost(slice, Active(p))
    ids == {l.id : l \in hits}
    reason == IF stopLevels # {} THEN "multi_level_stop_loss" ELSE "multi_level_take_profit"
    act == LevelExit(p, mark)
<1> SUFFICES /\ act = Hold \/ act.kind = "close" \/ Slice(p, act, mark)
             /\ Takes(p, act, mark) OBVIOUS
<1>1. act = IF hits = {} THEN Hold ELSE IF volume >= Active(p) THEN Close(ids, reason)
            ELSE Partial(volume, ids, 0, reason) BY DEF LevelExit
<1>2. /\ hits \in SUBSET p.levels /\ IsFiniteSet(hits)
      /\ \A l \in hits : l.id \notin p.done /\ PastIn(p.dir, l, mark) /\ l.kind # "runner" BY HitIs
(* What the mark has reached is done or hit. *)
<1>3. ASSUME NEW l \in p.levels, l.kind # "runner", PastIn(p.dir, l, mark), l.id \notin p.done
      PROVE  l \in hits
  <2>1. l.kind \in {"stop_loss", "take_profit", "runner"} BY DEF Row, Levels
  <2>2. l \in Hit(p, mark, l.kind) BY <1>3, ReachedIsHit
  <2>3. CASE l.kind = "stop_loss" BY <2>2, <2>3
  <2>4. CASE l.kind = "take_profit"
    <3>1. stopLevels = {}
      <4> SUFFICES ASSUME NEW s \in stopLevels PROVE FALSE OBVIOUS
      <4>1. s \in p.levels /\ s.kind = "stop_loss" /\ PastIn(p.dir, s, mark) BY HitIs
      <4> QED BY <1>3, <2>4, <4>1, OneKindIsHit
    <3> QED BY <2>2, <2>4, <3>1
  <2> QED BY <1>3, <2>1, <2>3, <2>4
<1>4. Active(p) \in Int /\ 0 < Active(p) BY ActiveIs
<1>5. f \in [hits -> Nat] /\ slice \in Nat /\ \A l \in hits : Share(p.vol, l.percent) <= slice
  <2>1. \A l \in hits : Share(p.vol, l.percent) \in Nat
    <3>1. p.vol \in Nat /\ \A l \in p.levels : l.percent \in Nat BY DEF Row, Levels, Step
    <3> HIDE DEF hits
    <3> QED BY <1>2, <3>1, ShareIsNatural
  <2>2. f \in [hits -> Nat] BY <2>1
  <2>3. \A l \in hits : f[l] = Share(p.vol, l.percent) OBVIOUS
  <2> HIDE DEF f, hits
  <2> QED BY <1>2, <2>2, <2>3, SumOfNaturals
<1>6. volume \in Int
  <2> HIDE DEF slice
  <2> QED BY <1>4, <1>5 DEF AtMost
<1> HIDE DEF hits, stopLevels, f, slice, act
<1>7. CASE hits = {} BY <1>1, <1>3, <1>7 DEF Takes, RestWaits
<1>8. CASE hits # {} /\ volume >= Active(p) BY <1>1, <1>8, Acts DEF Takes
<1>9. CASE hits # {} /\ ~(volume >= Active(p))
  <2>1. act = Partial(volume, ids, 0, reason) BY <1>1, <1>9
  <2>2. act.kind = "partial" /\ act.volume = volume /\ act.ids = ids /\ act.stop = 0 BY <2>1, Acts
  <2>3. ~(\E l \in hits : l.rest) /\ volume = AtMost(slice, Active(p)) BY <1>4, <1>9
  <2>4. \A l \in p.levels : l.rest => l.id \notin ids BY <1>2, <2>3 DEF Row, Levels
  <2>5. Slice(p, act, mark)
    <3>1. ids \cap p.done = {} BY <1>2
    <3> QED BY <1>6, <2>2, <2>4, <3>1 DEF Slice
  <2>6. Takes(p, act, mark)
    <3> SUFFICES ASSUME NEW l \in p.levels, l.kind # "runner", PastIn(p.dir, l, mark)
                 PROVE  ~l.rest /\ (l.percent > 0 => l.id \in p.done \/ (act.volume > 0 /\ l.id \in act.ids))
      BY <2>2 DEF Takes
    <3>1. CASE l.id \in p.done BY <3>1 DEF RestWaits
    <3>2. CASE l.id \notin p.done
      <4>1. l \in hits /\ l.id \in ids BY <1>3, <3>2
      <4>2. l.percent > 0 => volume > 0
        <5>1. l.percent \in Nat /\ p.vol \in Int /\ p.vol >= Step BY DEF Row, Levels
        <5>2. l.percent > 0 => Share(p.vol, l.percent) > 0 BY <5>1, ShareIsPositive
        <5>3. Share(p.vol, l.percent) \in Int
          <6>1. l.percent \in Int BY <5>1
          <6> QED BY <5>1, <6>1, ShareIsNumber
        <5>4. l.percent > 0 => slice > 0 BY <1>5, <4>1, <5>2, <5>3
        <5> QED BY <1>4, <1>5, <2>3, <5>4 DEF AtMost
      <4> QED BY <2>2, <2>3, <4>1, <4>2
    <3> QED BY <3>1, <3>2
  <2> QED BY <2>5, <2>6
<1> QED BY <1>7, <1>8, <1>9

LEMMA RunnerExitIs ==
  ASSUME NEW p, NEW mark, NEW policy
  PROVE  LET act == RunnerExit(p, mark, policy) IN act = Hold \/ act.kind = "close" BY Acts DEF RunnerExit

LEMMA SignalTargetExitIs ==
  ASSUME NEW p, Row(p), NEW mark, NEW policy, policy.signalShare \in Int
  PROVE  LET act == SignalTargetExit(p, mark, policy) IN act = Hold \/ Slice(p, act, mark)
<1> DEFINE act == SignalTargetExit(p, mark, policy)
    volume == Share(Active(p), policy.signalShare)
<1> SUFFICES ASSUME act # Hold PROVE Slice(p, act, mark) OBVIOUS
<1>1. volume \in Int BY ActiveIs, ShareIsNumber
<1> HIDE DEF volume
<1>2. /\ act = Partial(volume, {SignalTarget}, 0, "signal_take_profit_partial")
      /\ SignalTarget \notin p.done BY DEF SignalTargetExit, volume
<1>3. \A l \in p.levels : l.id # SignalTarget BY DEF Row, Levels
<1> HIDE DEF act
<1> QED BY <1>1, <1>2, <1>3, Acts DEF Slice

LEMMA BestIsNumber == ASSUME NEW p, Row(p), NEW mark \in Int PROVE Best(p, mark) \in Int BY DEF Best, Row

LEMMA TrailIsNumber ==
  ASSUME NEW p, Row(p), NEW mark \in Int, NEW distance \in Int
  PROVE  Trail(p, mark, distance) \in Int BY BestIsNumber, OutwardIsNumber DEF Trail

LEMMA PartialStopIs ==
  ASSUME NEW p, Row(p), NEW mark \in Int, NEW policy,
         \A k \in DOMAIN policy.rules : RuleNumbers(policy.rules[k]), NEW move
  PROVE  LET moved == PartialStop(p, mark, policy, move) IN moved = 0 \/ LegalStop(p, moved, mark)
<1> DEFINE trails == {r \in Range(policy.rules) : r.kind = "trailing_stop"}
    distance == IF trails = {} THEN Share(p.risk, 80)
                ELSE Share(p.risk, (CHOOSE r \in trails : TRUE).distance)
    candidate == CASE move = "break_even" -> {p.entry}
                   [] move = "trail" -> {Trail(p, mark, distance)}
                   [] OTHER -> {}
    legal == {c \in candidate : Tightens(p.dir, p.sl, c, mark)}
<1>1. p.risk \in Int /\ p.entry \in Int BY DEF Row
<1>2. distance \in Int
  <2>1. CASE trails = {}
    <3>1. distance = Share(p.risk, 80) BY <2>1
    <3> HIDE DEF distance
    <3>2. Share(p.risk, 80) \in Int BY <1>1, 80 \in Int, ShareIsNumber
    <3> QED BY <3>1, <3>2
  <2>2. CASE trails # {}
    <3> DEFINE first == CHOOSE r \in trails : TRUE
    <3>1. first \in trails BY <2>2
    <3>2. first.kind = "trailing_stop" /\ RuleNumbers(first) BY <3>1 DEF Range
    <3>3. first.distance \in Int BY <3>2 DEF RuleNumbers
    <3>4. distance = Share(p.risk, first.distance) BY <2>2
    <3> HIDE DEF first, distance
    <3> QED BY <1>1, <3>3, <3>4, ShareIsNumber
  <2> QED BY <2>1, <2>2
<1> HIDE DEF distance, trails
<1>3. Trail(p, mark, distance) \in Int BY <1>2, TrailIsNumber
<1>4. \A c \in candidate : c \in Int BY <1>1, <1>3
<1>5. PartialStop(p, mark, policy, move) = IF legal = {} THEN 0 ELSE CHOOSE c \in legal : TRUE
  BY DEF PartialStop, distance
<1>6. \A c \in legal : LegalStop(p, c, mark) BY <1>4 DEF LegalStop
<1> HIDE DEF legal
<1> QED BY <1>5, <1>6

(* A rule that ends the evaluation.  One that takes a slice is not used
   where there are staged levels. *)
LEMMA RuleExitIs ==
  ASSUME NEW p, Row(p), NEW mark \in Int, NEW policy, NEW market, NEW rule, NEW reverse,
         \A k \in DOMAIN policy.rules : RuleNumbers(policy.rules[k]),
         RuleNumbers(rule), rule.kind = "partial_take_profit" => p.levels = {}
  PROVE  LET act == RuleExit(rule, p, mark, policy, market, reverse) IN
         act = Hold \/ act.kind = "close" \/ Slice(p, act, mark)
<1> DEFINE act == RuleExit(rule, p, mark, policy, market, reverse)
<1> SUFFICES act = Hold \/ act.kind = "close" \/ Slice(p, act, mark) OBVIOUS
<1> DEFINE levelsDue == {k \in DOMAIN rule.levels : /\ rule.levels[k].id \notin p.done
                                              /\ Reached(p, mark, rule.levels[k].trigger)}
    level == rule.levels[Min(levelsDue)]
    moved == PartialStop(p, mark, policy, level.move)
    volume == Share(Active(p), level.percent)
<1>1. CASE rule.kind = "partial_take_profit" /\ p.risk > 0 /\ levelsDue # {}
  <2>1. /\ DOMAIN rule.levels \subseteq Nat
        /\ \A k \in DOMAIN rule.levels : rule.levels[k].percent \in Int BY <1>1 DEF RuleNumbers
  <2>2. Min(levelsDue) \in levelsDue
    <3>1. levelsDue \in SUBSET Nat /\ levelsDue # {} BY <1>1, <2>1
    <3> HIDE DEF levelsDue
    <3> QED BY <3>1, E!NumbersHaveLeast DEF Min
  <2>3. level.percent \in Int /\ level.id \notin p.done BY <2>1, <2>2
  <2>4. act = Partial(volume, {level.id}, moved, "partial_take_profit") BY <1>1 DEF RuleExit
  <2> HIDE DEF act, level
  <2>5. volume \in Int BY <2>3, ActiveIs, ShareIsNumber
  <2>6. moved = 0 \/ LegalStop(p, moved, mark) BY PartialStopIs
  <2> HIDE DEF volume, moved
  <2>7. act.kind = "partial" /\ act.volume = volume /\ act.ids = {level.id} /\ act.stop = moved BY <2>4, Acts
  <2>8. p.levels = {} BY <1>1
  <2> QED BY <2>3, <2>5, <2>6, <2>7, <2>8 DEF Slice
<1>2. CASE ~(rule.kind = "partial_take_profit" /\ p.risk > 0 /\ levelsDue # {})
  <2>1. act = Hold \/ \E reason : act = Close({}, reason) BY <1>2 DEF RuleExit
  <2> HIDE DEF act
  <2> QED BY <2>1, Acts
<1> QED BY <1>1, <1>2

(* What the other rules would like to see is a price. *)
MarketNumbers(market) ==
  /\ market.atr \in Int /\ market.low \in Int /\ market.high \in Int
  /\ \A v \in market.pivots : v.price \in Int

LEMMA PivotCandidateIsNumber ==
  ASSUME NEW d, NEW from \in Int, NEW rule, rule.buffer \in Int, NEW pivots,
         \A v \in pivots : v.price \in Int, NEW forStop, NEW moment
  PROVE  \A c \in PivotCandidate(d, from, rule, pivots, forStop, moment) : c \in Int
<1> DEFINE low == (d = "buy") = forStop
    usable == {v \in pivots :
      /\ v.low = low
      /\ v.confirmed <= moment
      /\ rule.maxAge > 0 => moment - v.time <= rule.maxAge
      /\ IF low THEN v.price < from ELSE v.price > from}
    nearest == CHOOSE v \in usable :
      \A q \in usable : Away(v.price, from) <= Away(q.price, from)
    distances == {Away(v.price, from) : v \in usable}
<1>1. PivotCandidate(d, from, rule, pivots, forStop, moment) =
        IF usable = {} THEN {}
        ELSE {IF low THEN nearest.price - rule.buffer ELSE nearest.price + rule.buffer} BY DEF PivotCandidate
<1>2. \A v \in usable : v.price \in Int OBVIOUS
<1> HIDE DEF usable
<1>3. ASSUME usable # {} PROVE nearest.price \in Int
  <2>1. distances \in SUBSET Nat /\ distances # {} BY <1>2, <1>3, AwayIsNatural
  <2>2. PICK least \in distances : \A m \in distances : least <= m
    <3> HIDE DEF distances
    <3> QED BY <2>1, E!NumbersHaveLeast
  <2>3. \E v \in usable : \A q \in usable : Away(v.price, from) <= Away(q.price, from) BY <2>2
  <2>4. nearest \in usable BY <2>3
  <2> QED BY <1>2, <2>4
<1> HIDE DEF nearest, low
<1> QED BY <1>1, <1>3

LEMMA RuleStopIsNumber ==
  ASSUME NEW p, Row(p), NEW mark \in Int, NEW market, MarketNumbers(market),
         NEW rule, RuleNumbers(rule)
  PROVE  \A c \in RuleStop(rule, p, mark, market) : c \in Int
<1> DEFINE toward(percent) == p.entry + Sign(p.dir) * Share(p.risk, percent)
    protected == IF p.dir = "buy" THEN market.low ELSE market.high
    level == protected - Sign(p.dir) * Share(market.atr, rule.buffer)
<1>1. p.risk \in Int /\ p.entry \in Int /\ market.atr \in Int /\ protected \in Int BY DEF Row, MarketNumbers
<1>2. \A percent \in Int : toward(percent) \in Int BY <1>1, ShareIsNumber, OutwardIsNumber
<1> SUFFICES ASSUME NEW c \in RuleStop(rule, p, mark, market) PROVE c \in Int OBVIOUS
<1>3. CASE rule.kind = "profit_protection" /\ p.risk > 0
  <2> DEFINE stages == {k \in DOMAIN rule.stages : Reached(p, mark, rule.stages[k].start)}
  <2>1. stages # {} /\ c = toward(rule.stages[Max(stages)].stop)
    <3>1. RuleStop(rule, p, mark, market) =
            IF stages = {} THEN {} ELSE {toward(rule.stages[Max(stages)].stop)} BY <1>3 DEF RuleStop
    <3> HIDE DEF stages, toward
    <3> QED BY <3>1
  <2>2. rule.stages \in Seq([start : Int, stop : Int]) BY <1>3 DEF RuleNumbers
  <2>3. stages \in SUBSET (1..Len(rule.stages)) /\ Len(rule.stages) \in Int BY <2>2
  <2>4. stages # {} BY <2>1
  <2> DEFINE n == Len(rule.stages)
  <2>5. Max(stages) \in stages
    <3>1. n \in Int /\ 1 \in Int /\ stages \in SUBSET (1..n) BY <2>3
    <3> HIDE DEF stages, n
    <3> QED BY <2>4, <3>1, IntervalHasGreatest
  <2>6. Max(stages) \in 1..n BY <2>3, <2>5
  <2> HIDE DEF stages
  <2>7. rule.stages[Max(stages)] \in [start : Int, stop : Int]
    <3> DEFINE stage == rule.stages
    <3>1. stage \in Seq([start : Int, stop : Int]) /\ Max(stages) \in 1..Len(stage) BY <2>2, <2>6
    <3> HIDE DEF stage
    <3>2. stage[Max(stages)] \in [start : Int, stop : Int] BY <3>1, ElementOfSeq
    <3> QED BY <3>2 DEF stage
  <2>8. rule.stages[Max(stages)].stop \in Int BY <2>7
  <2> HIDE DEF toward
  <2> QED BY <1>2, <2>1, <2>8
<1>4. CASE rule.kind = "target_trailing" /\ p.risk > 0
  <2> DEFINE wish == IF rule.multiple > 0 /\ market.atr > 0 THEN Share(market.atr, rule.multiple)
                     ELSE Share(p.risk, rule.distance)
      distance == AtLeast(AtMost(wish, Share(p.risk, rule.most)), Share(p.risk, rule.least))
  <2>1. c = Trail(p, mark, distance) BY <1>4 DEF RuleStop
  <2>2. rule.multiple \in Int /\ rule.distance \in Int /\ rule.most \in Int /\ rule.least \in Int
    BY <1>4 DEF RuleNumbers
  <2>3. wish \in Int /\ Share(p.risk, rule.most) \in Int /\ Share(p.risk, rule.least) \in Int
    BY <1>1, <2>2, ShareIsNumber
  <2> HIDE DEF wish
  <2>4. distance \in Int BY <2>3 DEF AtLeast, AtMost
  <2> HIDE DEF distance
  <2> QED BY <2>1, <2>4, TrailIsNumber
<1>5. CASE rule.kind = "break_even" /\ p.risk > 0
  <2>1. c = toward(rule.offset) /\ rule.offset \in Int BY <1>5 DEF RuleStop, RuleNumbers
  <2> HIDE DEF toward
  <2> QED BY <1>2, <2>1
<1>6. CASE rule.kind = "trailing_stop" /\ p.risk > 0
  <2>1. c = Trail(p, mark, Share(p.risk, rule.distance)) /\ rule.distance \in Int
    BY <1>6 DEF RuleStop, RuleNumbers
  <2> QED BY <1>1, <2>1, ShareIsNumber, TrailIsNumber
<1>7. CASE rule.kind = "pivot_trailing"
  <2>1. /\ c \in PivotCandidate(p.dir, mark, rule, market.pivots, TRUE, market.now)
        /\ rule.buffer \in Int BY <1>7 DEF RuleStop, RuleNumbers
  <2> QED BY <2>1, PivotCandidateIsNumber DEF MarketNumbers
<1>8. CASE rule.kind = "structure_trailing"
  <2>1. c = level /\ rule.buffer \in Int BY <1>8 DEF RuleStop, RuleNumbers
  <2> HIDE DEF protected
  <2>2. level \in Int BY <1>1, <2>1, ShareIsNumber, OutwardIsNumber
  <2> QED BY <2>1, <2>2
<1> QED BY <1>3, <1>4, <1>5, <1>6, <1>7, <1>8 DEF RuleStop

(* The best of the stops the rules would like is one the position may move
   to: those lie between its stop and the price, so one is the best. *)
LEMMA TightestIs ==
  ASSUME NEW p, Row(p), NEW mark \in Int, NEW stopLevels, \A c \in stopLevels : c \in Int
  PROVE  LET act == Tightest(p, stopLevels, mark) IN
         act = Hold \/ (act.kind = "stop" /\ LegalStop(p, act.stop, mark))
<1> DEFINE legal == {c \in stopLevels : Tightens(p.dir, p.sl, c, mark)}
    act == Tightest(p, stopLevels, mark)
<1> SUFFICES ASSUME act # Hold PROVE act.kind = "stop" /\ LegalStop(p, act.stop, mark) OBVIOUS
<1>1. legal # {} /\ act = [Hold EXCEPT !.kind = "stop",
                                      !.stop = IF p.dir = "buy" THEN Max(legal) ELSE Min(legal)] BY DEF Tightest
<1>2. \A c \in legal : LegalStop(p, c, mark) BY DEF LegalStop
<1>3. p.sl \in Int /\ p.dir \in {"buy", "sell"} BY DEF Row
<1>4. CASE p.dir = "buy"
  <2>1. \A c \in legal : c \in p.sl..mark BY <1>2, <1>3, <1>4 DEF LegalStop, Tightens, Beyond, Sign
  <2> HIDE DEF legal, act
  <2>2. Max(legal) \in legal BY <1>1, <1>3, <2>1, IntervalHasGreatest
  <2>3. act.kind = "stop" /\ act.stop = Max(legal) BY <1>1, <1>4 DEF Hold
  <2> QED BY <1>2, <2>2, <2>3
<1>5. CASE p.dir = "sell"
  <2>1. \A c \in legal : c \in mark..p.sl BY <1>2, <1>3, <1>5 DEF LegalStop, Tightens, Beyond, Sign
  <2> HIDE DEF legal, act
  <2>2. Min(legal) \in legal BY <1>1, <1>3, <2>1, IntervalHasGreatest
  <2>3. act.kind = "stop" /\ act.stop = Min(legal) BY <1>1, <1>5 DEF Hold
  <2> QED BY <1>2, <2>2, <2>3
<1> QED BY <1>3, <1>4, <1>5

(* A quote asks for one of these, and takes the levels it has reached. *)
LEMMA EvaluateIs ==
  ASSUME NEW p, Row(p), RestWaits(p), NEW mark \in Nat \ {0}, NEW policy, ManagedNumbers(policy),
         NEW market, NEW reverse, MarketNumbers(market), p.levels # {} => policy.multi
  PROVE  LET act == Evaluate(p, mark, policy, market, reverse) IN
         Asks(p, act, mark) /\ Takes(p, act, mark)
<1> DEFINE inUse == {k \in DOMAIN policy.rules : ~(policy.multi /\ policy.rules[k].kind \in Owned)}
    exits == [k \in inUse |-> RuleExit(policy.rules[k], p, mark, policy, market, reverse)]
    rules == ByRules(p, mark, policy, market, exits, inUse)
    staged == LevelExit(p, mark)
    runner == RunnerExit(p, mark, policy)
    signal == SignalTargetExit(p, mark, policy)
    act == Evaluate(p, mark, policy, market, reverse)
<1> SUFFICES Asks(p, act, mark) /\ Takes(p, act, mark) OBVIOUS
<1>1. act = FirstOf(staged, runner, signal, rules) BY DEF Evaluate
<1>2. /\ staged = Hold \/ staged.kind = "close" \/ Slice(p, staged, mark)
      /\ Takes(p, staged, mark) BY LevelExitIs
<1>3. runner = Hold \/ runner.kind = "close" BY RunnerExitIs
<1>4. signal = Hold \/ Slice(p, signal, mark) BY SignalTargetExitIs DEF ManagedNumbers
<1>5. mark \in Int /\ DOMAIN policy.rules \subseteq Nat
      /\ \A k \in DOMAIN policy.rules : RuleNumbers(policy.rules[k]) BY DEF ManagedNumbers
<1>6. ASSUME NEW k \in inUse
      PROVE  exits[k] = Hold \/ exits[k].kind = "close" \/ Slice(p, exits[k], mark)
  <2>1. policy.rules[k].kind = "partial_take_profit" => p.levels = {} BY DEF Owned
  <2>2. exits[k] = RuleExit(policy.rules[k], p, mark, policy, market, reverse) OBVIOUS
  <2>3. RuleNumbers(policy.rules[k]) BY <1>5
  <2> HIDE DEF exits
  <2> QED BY <1>5, <2>1, <2>2, <2>3, RuleExitIs
<1>7. Asks(p, rules, mark)
  <2> DEFINE ending == {k \in inUse : exits[k] # Hold}
      stopLevels == UNION {RuleStop(policy.rules[k], p, mark, market) : k \in inUse}
  <2>1. rules = IF ending # {} THEN exits[Min(ending)] ELSE Tightest(p, stopLevels, mark) BY DEF ByRules
  <2>2. CASE ending # {}
    <3>1. ending \in SUBSET Nat BY <1>5
    <3>2. Min(ending) \in ending
      <4> HIDE DEF ending
      <4> QED BY <2>2, <3>1, E!NumbersHaveLeast DEF Min
    <3>3. Min(ending) \in inUse BY <3>2
    <3> HIDE DEF rules, exits, inUse, ending
    <3> QED BY <1>6, <2>1, <2>2, <3>3 DEF Asks
  <2>3. CASE ending = {}
    <3>1. \A c \in stopLevels : c \in Int
      <4> SUFFICES ASSUME NEW k \in inUse, NEW c \in RuleStop(policy.rules[k], p, mark, market)
                   PROVE  c \in Int OBVIOUS
      <4>1. RuleNumbers(policy.rules[k]) BY <1>5
      <4> QED BY <1>5, <4>1, RuleStopIsNumber
    <3> HIDE DEF stopLevels, rules, ending
    <3>2. rules = Tightest(p, stopLevels, mark) BY <2>1, <2>3
    <3> QED BY <1>5, <3>1, <3>2, TightestIs DEF Asks
  <2> QED BY <2>2, <2>3
<1> HIDE DEF act, staged, runner, signal, rules
<1>8. CASE staged # Hold BY <1>1, <1>2, <1>8 DEF FirstOf, Asks
<1>9. CASE staged = Hold
  <2>1. act = runner \/ act = signal \/ act = rules BY <1>1, <1>9 DEF FirstOf
  <2>2. Asks(p, act, mark) BY <1>3, <1>4, <1>7, <2>1 DEF Asks
  <2>3. Takes(p, act, mark) BY <1>2, <1>9, Acts DEF Takes
  <2> QED BY <2>2, <2>3
<1> QED BY <1>8, <1>9

----------------------------------------
(* What a quote makes of an open position. *)

RowFields == {"st", "dir", "vol", "rem", "entry", "sl", "tp", "fav", "risk", "done", "why", "levels"}

Finished(p, out) ==
  /\ out.pos.st = "closed" /\ out.pos.vol = p.vol
  /\ \E r : out.row = {r} /\ r.volume = Active(p) /\ r.ids = {}

SameTerms(p, new) ==
  /\ RowFields \subseteq DOMAIN new
  /\ new.dir = p.dir /\ new.vol = p.vol /\ new.entry = p.entry /\ new.risk = p.risk
  /\ new.levels = p.levels

Untouched(p, out) == out.row = {} /\ out.pos.rem = p.rem /\ out.pos.done = p.done
ReducedBy(p, out) ==
  \E r : /\ out.row = {r} /\ r.volume \in 0..Active(p) /\ r.ids \cap p.done = {}
         /\ out.pos.rem = Active(p) - r.volume /\ out.pos.done = p.done \cup r.ids
         /\ \A l \in p.levels : l.rest => l.id \notin r.ids

Survived(p, out, mark) ==
  /\ SameTerms(p, out.pos) /\ out.pos.st = "open" /\ out.pos.fav = Best(p, mark)
  /\ Beyond(p.dir, mark, p.sl)
  /\ out.pos.sl = p.sl \/ LegalStop(p, out.pos.sl, mark)
  /\ \A l \in p.levels : l.kind # "runner" /\ PastIn(p.dir, l, mark) =>
        ~l.rest /\ (l.percent > 0 => l.id \in out.pos.done)
  /\ Untouched(p, out) \/ ReducedBy(p, out)

LEMMA ClosedIs ==
  ASSUME NEW p, RowFields \subseteq DOMAIN p, NEW quote, NEW settings, NEW reason
  PROVE  Finished(p, Closed(p, quote, settings, reason))
<1> DEFINE out == Closed(p, quote, settings, reason)
    result == Gross(p, ExitOf(p, quote, settings), Active(p)) - Active(p) * settings.perLot - p.fee
    r == [volume |-> Active(p), net |-> result, reason |-> reason, ids |-> {}]
<1>1. out.pos = [p EXCEPT !.st = "closed", !.why = reason] /\ out.row = {r} BY DEF Closed
<1>2. r.volume = Active(p) /\ r.ids = {} OBVIOUS
<1> HIDE DEF r, result, out
<1>3. out.pos.st = "closed" /\ out.pos.vol = p.vol BY <1>1 DEF RowFields
<1>4. \E x : out.row = {x} /\ x.volume = Active(p) /\ x.ids = {} BY <1>1, <1>2
<1> QED BY <1>3, <1>4 DEF Finished, out

LEMMA NormalizeIs ==
  ASSUME NEW value \in Int, NEW minimum \in Nat, NEW current \in Int, current > 0
  PROVE  LET taken == AtMost(NormalizeClosing(AtMost(value, current), minimum, current), current) IN
         taken \in 0..current
<1> DEFINE v == AtMost(value, current)
<1>1. v \in Int BY DEF AtMost
<1> HIDE DEF v
<1> DEFINE down == (v \div Step) * Step
<1>2. down \in Int
  <2>1. v \div Step \in Int /\ Step \in Int BY <1>1 DEF Step
  <2> QED BY <2>1, Products
<1> HIDE DEF down
<1>3. NormalizeClosing(v, minimum, current) =
        IF 2 * v >= 2 * current - Step THEN current ELSE IF down < minimum THEN current ELSE down
  BY DEF NormalizeClosing, down
<1>4. NormalizeClosing(v, minimum, current) \in Nat BY <1>2, <1>3
<1> QED BY <1>4 DEF AtMost, v

LEMMA ReducedIs ==
  ASSUME NEW p, Row(p), NEW mark, NEW quote, NEW settings, settings.minimum \in Nat, NEW act, Slice(p, act, mark)
  PROVE  LET out == Reduced(p, quote, settings, act) IN
         /\ SameTerms(p, out.pos) /\ out.pos.st = p.st /\ out.pos.fav = p.fav
         /\ out.pos.sl = p.sl \/ LegalStop(p, out.pos.sl, mark)
         /\ ReducedBy(p, out) /\ out.pos.done = p.done \cup act.ids
<1> DEFINE current == Active(p)
    taken == AtMost(NormalizeClosing(AtMost(act.volume, current), settings.minimum, current), current)
    out == Reduced(p, quote, settings, act)
<1>1. taken \in 0..current
  <2>1. act.volume \in Int /\ current \in Int /\ current > 0 BY ActiveIs DEF Slice
  <2> HIDE DEF current
  <2> QED BY <2>1, NormalizeIs
<1> DEFINE gain == Gross(p, MarkOf(p, quote), taken) - taken * settings.perLot
<1>2. /\ out.pos = [p EXCEPT !.rem = current - taken, !.done = @ \cup act.ids,
                             !.sl = IF act.stop = 0 THEN @ ELSE act.stop,
                             !.tp = IF SignalTarget \in act.ids THEN 0 ELSE @]
      /\ out.row = {[volume |-> taken, net |-> gain, reason |-> act.reason, ids |-> act.ids]} BY DEF Reduced
<1> HIDE DEF taken, gain, out
<1>3. RowFields \subseteq DOMAIN p BY DEF Row, RowFields
<1>4. /\ SameTerms(p, out.pos) /\ out.pos.st = p.st /\ out.pos.fav = p.fav
      /\ out.pos.rem = current - taken /\ out.pos.done = p.done \cup act.ids
      /\ out.pos.sl = IF act.stop = 0 THEN p.sl ELSE act.stop BY <1>2, <1>3 DEF SameTerms, RowFields
<1>5. out.pos.sl = p.sl \/ LegalStop(p, out.pos.sl, mark) BY <1>4 DEF Slice
<1>6. ReducedBy(p, out)
  <2> DEFINE r == [volume |-> taken, net |-> gain, reason |-> act.reason, ids |-> act.ids]
  <2>1. r.volume = taken /\ r.ids = act.ids /\ out.row = {r} BY <1>2
  <2> HIDE DEF r
  <2> QED BY <1>1, <1>4, <2>1 DEF ReducedBy, Slice
<1> QED BY <1>4, <1>5, <1>6 DEF out

LEMMA ManageIs ==
  ASSUME NEW p, Row(p), p.st = "open", RestWaits(p), NEW quote, NEW settings, NEW market,
         MarkOf(p, quote) \in Nat \ {0}, PolicyNumbers(settings.policy), settings.minimum \in Nat,
         MarketNumbers(market), p.levels # {} => settings.policy.multi
  PROVE  LET out == Manage(p, quote, settings, market) IN
         Finished(p, out) \/ Survived(p, out, MarkOf(p, quote))
<1> DEFINE mark == MarkOf(p, quote)
    reason == ReasonToClose(p, quote, settings)
    seenNow == [p EXCEPT !.fav = Best(p, mark)]
    act == Evaluate(seenNow, mark, settings.policy, market, FALSE)
    out == Manage(p, quote, settings, market)
<1> SUFFICES Finished(p, out) \/ Survived(p, out, mark) OBVIOUS
<1>1. out = IF reason # "" THEN Closed(p, quote, settings, reason) ELSE Acted(seenNow, quote, settings, act)
  BY DEF Manage
<1>2. RowFields \subseteq DOMAIN p /\ mark \in Int BY DEF Row, RowFields
<1>3. CASE reason # ""
  <2> HIDE DEF reason, act, seenNow, out
  <2> QED BY <1>1, <1>2, <1>3, ClosedIs
<1>4. CASE reason = ""
  <2>1. Beyond(p.dir, mark, p.sl)
    <3>1. p.sl > 0 BY DEF Row
    <3>2. HardExit(p, mark) # "stop_loss" BY <1>4 DEF ReasonToClose
    <3> QED BY <3>1, <3>2 DEF HardExit
  <2>2. out = Acted(seenNow, quote, settings, act) BY <1>1, <1>4
  <2>3. /\ SameTerms(p, seenNow) /\ seenNow.st = "open" /\ seenNow.fav = Best(p, mark)
        /\ seenNow.sl = p.sl /\ seenNow.rem = p.rem /\ seenNow.done = p.done BY <1>2 DEF SameTerms, RowFields
  <2> HIDE DEF reason, mark, out, seenNow
  <2>4. Row(seenNow) /\ RestWaits(seenNow) /\ Active(seenNow) = Active(p)
    <3>1. Best(p, mark) \in Int BY <1>2, BestIsNumber
    <3> QED BY <2>3, <3>1 DEF Row, RestWaits, SameTerms, Active, RowFields
  <2>5. Asks(seenNow, act, mark) /\ Takes(seenNow, act, mark)
    <3>1. mark \in Nat \ {0} /\ (seenNow.levels # {} => settings.policy.multi) BY <2>3 DEF mark, SameTerms
    <3> QED BY <2>4, <3>1, EvaluateIs DEF PolicyNumbers
  <2> HIDE DEF act
  <2>6. \A c : LegalStop(seenNow, c, mark) <=> LegalStop(p, c, mark) BY <2>3 DEF LegalStop, SameTerms
  <2>7. CASE act.kind = "close"
    <3>1. out = Closed(seenNow, quote, settings, act.reason) BY <2>2, <2>7 DEF Acted
    <3>2. Finished(seenNow, out) BY <2>3, <3>1, ClosedIs DEF SameTerms
    <3> QED BY <2>3, <2>4, <3>2 DEF Finished, SameTerms
  <2>8. CASE act.kind = "partial" /\ act.volume > 0
    <3>1. Slice(seenNow, act, mark) BY <2>5, <2>8, Acts DEF Asks
    <3>2. out = Reduced(seenNow, quote, settings, act) BY <2>2, <2>8 DEF Acted
    <3>3. /\ SameTerms(seenNow, out.pos) /\ out.pos.st = "open" /\ out.pos.fav = seenNow.fav
          /\ out.pos.sl = seenNow.sl \/ LegalStop(seenNow, out.pos.sl, mark)
          /\ ReducedBy(seenNow, out) /\ out.pos.done = seenNow.done \cup act.ids
      BY <2>3, <2>4, <3>1, <3>2, ReducedIs
    <3>4. SameTerms(p, out.pos) /\ ReducedBy(p, out) BY <2>3, <2>4, <3>3 DEF SameTerms, ReducedBy
    <3>5. \A l \in p.levels : l.kind # "runner" /\ PastIn(p.dir, l, mark) =>
             ~l.rest /\ (l.percent > 0 => l.id \in out.pos.done) BY <2>3, <2>5, <2>8, <3>3 DEF Takes, SameTerms
    <3> QED BY <2>1, <2>3, <2>6, <3>3, <3>4, <3>5 DEF Survived
  <2>9. CASE act.kind # "close" /\ ~(act.kind = "partial" /\ act.volume > 0)
    <3>1. \A l \in p.levels : l.kind # "runner" /\ PastIn(p.dir, l, mark) =>
             ~l.rest /\ (l.percent > 0 => l.id \in p.done) BY <2>3, <2>5, <2>9 DEF Takes, SameTerms
    <3>2. CASE act.kind = "stop"
      <4>1. LegalStop(p, act.stop, mark) BY <2>5, <2>6, <3>2, Acts DEF Asks, Slice
      <4>2. out = [pos |-> [seenNow EXCEPT !.sl = act.stop], gain |-> 0, row |-> {}] BY <2>2, <3>2 DEF Acted
      <4>3. /\ SameTerms(seenNow, out.pos) /\ out.pos.st = "open" /\ out.pos.fav = seenNow.fav
            /\ out.pos.sl = act.stop /\ Untouched(seenNow, out)
        BY <2>3, <4>2 DEF SameTerms, RowFields, Untouched
      <4>4. SameTerms(p, out.pos) /\ Untouched(p, out) /\ out.pos.done = p.done
        BY <2>3, <4>3 DEF SameTerms, Untouched
      <4> QED BY <2>1, <2>3, <3>1, <4>1, <4>3, <4>4 DEF Survived
    <3>3. CASE act.kind # "stop"
      <4>1. out = [pos |-> seenNow, gain |-> 0, row |-> {}] BY <2>2, <2>9, <3>3 DEF Acted
      <4>2. out.pos = seenNow /\ Untouched(p, out) BY <2>3, <4>1 DEF Untouched
      <4> QED BY <2>1, <2>3, <3>1, <4>2 DEF Survived
    <3> QED BY <3>2, <3>3
  <2> QED BY <2>7, <2>8, <2>9
<1> QED BY <1>3, <1>4

----------------------------------------
(* The plan of a new position. *)

(* Candidates of the staged exits: finitely many, one of each layer. *)
Chosen(chosen, percent) ==
  /\ IsFiniteSet(chosen)
  /\ \A c \in chosen : c.price \in Int /\ percent[c.layer] \in Nat
  /\ \A c, e \in chosen : c.layer = e.layer => c = e

LEMMA ImageIsFinite ==
  ASSUME NEW S, IsFiniteSet(S), NEW f PROVE IsFiniteSet({f[x] : x \in S})
<1> DEFINE W == {f[x] : x \in S}
    g == [x \in S |-> f[x]]
<1>1. g \in Surjection(S, W)
  <2>1. \A t \in W : \E x \in S : g[x] = t OBVIOUS
  <2>2. g \in [S -> W] OBVIOUS
  <2> HIDE DEF g, W
  <2> QED BY <2>1, <2>2 DEF Surjection
<1> HIDE DEF g, W
<1>2. IsFiniteSet(W) BY <1>1, FS_Surjection
<1> QED BY <1>2 DEF W

LEMMA FirstOfLayerIs ==
  ASSUME NEW candidates, NEW n \in Nat, DOMAIN candidates = 1..n, NEW entry, NEW out, NEW percent,
         \A k \in 1..n : candidates[k].price \in Int /\ percent[candidates[k].layer] \in Nat
  PROVE  /\ Chosen(FirstOfLayer(candidates, entry, out), percent)
         /\ \A c \in FirstOfLayer(candidates, entry, out) : (c.price - entry) * out > 0
<1> DEFINE valid(k) == (candidates[k].price - entry) * out > 0
    first == {k \in 1..n : /\ valid(k)
                           /\ \A j \in 1..(k - 1) : candidates[j].layer = candidates[k].layer => ~valid(j)}
    C == {candidates[k] : k \in first}
<1>1. FirstOfLayer(candidates, entry, out) = C BY DEF FirstOfLayer
<1>2. IsFiniteSet(C)
  <2>1. IsFiniteSet(1..n) BY 1 \in Int, n \in Int, FS_Interval
  <2>2. IsFiniteSet(first) BY <2>1, FS_Subset
  <2> HIDE DEF first
  <2> QED BY <2>2, ImageIsFinite
<1>3. \A c \in C : c.price \in Int /\ percent[c.layer] \in Nat /\ (c.price - entry) * out > 0 OBVIOUS
<1>4. ASSUME NEW j \in first, NEW k \in first, candidates[j].layer = candidates[k].layer PROVE j = k
  <2>1. j \in 1..n /\ k \in 1..n /\ valid(j) /\ valid(k) OBVIOUS
  <2>2. ~(j \in 1..(k - 1)) /\ ~(k \in 1..(j - 1)) BY <1>4, <2>1
  <2> QED BY <2>1, <2>2
<1>5. \A c, e \in C : c.layer = e.layer => c = e
  <2> HIDE DEF first
  <2> QED BY <1>4
<1> HIDE DEF C
<1> QED BY <1>1, <1>2, <1>3, <1>5 DEF Chosen

(* Levels made of them: known by kind and layer, and one closes the rest. *)
LEMMA StagedIs ==
  ASSUME NEW kind, NEW chosen, NEW percent, Chosen(chosen, percent), chosen # {}, NEW entry \in Int
  PROVE  LET levels == Staged(kind, chosen, percent, entry) IN
         /\ IsFiniteSet(levels) /\ levels # {}
         /\ \A l \in levels : l.kind = kind /\ l.percent \in Nat /\ \E c \in chosen : l.price = c.price /\ l.id = <<kind, c.layer>>
         /\ \A l, m \in levels : l.id = m.id => l = m
         /\ \E l \in levels : {m \in levels : m.rest} = {l}
         /\ \A c \in chosen : c.price \in Prices(levels)
<1> DEFINE final == CHOOSE c \in chosen : \A o \in chosen : Away(o.price, entry) <= Away(c.price, entry)
    level(c) == [id |-> <<kind, c.layer>>, kind |-> kind, price |-> c.price,
                 percent |-> percent[c.layer], rest |-> c = final, risk |-> 0]
    levels == {level(c) : c \in chosen}
<1>1. Staged(kind, chosen, percent, entry) = levels BY DEF Staged
<1>2. final \in chosen
  <2> DEFINE f == [c \in chosen |-> Away(c.price, entry)]
  <2>1. f \in [chosen -> Int]
    <3>1. \A c \in chosen : Away(c.price, entry) \in Int BY DEF Away, Chosen
    <3> QED BY <3>1
  <2>2. \E c \in chosen : \A o \in chosen : f[o] <= f[c]
    <3> HIDE DEF f
    <3> QED BY <2>1, FurthestIs DEF Chosen
  <2>3. \E c \in chosen : \A o \in chosen : Away(o.price, entry) <= Away(c.price, entry) BY <2>2
  <2> QED BY <2>3
<1> HIDE DEF final
<1>3. IsFiniteSet(levels) /\ levels # {}
  <2> DEFINE f == [c \in chosen |-> level(c)]
  <2>1. levels = {f[c] : c \in chosen} OBVIOUS
  <2>2. IsFiniteSet({f[c] : c \in chosen})
    <3> HIDE DEF f
    <3> QED BY ImageIsFinite DEF Chosen
  <2> QED BY <2>1, <2>2
<1>4. \A c \in chosen : /\ level(c).kind = kind /\ level(c).price = c.price /\ level(c).id = <<kind, c.layer>>
                        /\ level(c).percent = percent[c.layer] /\ (level(c).rest <=> c = final) OBVIOUS
<1>5. \A c, e \in chosen : level(c).id = level(e).id => c = e
  <2>1. \A c, e \in chosen : level(c).id = level(e).id => c.layer = e.layer
    <3> HIDE DEF level
    <3> SUFFICES ASSUME NEW c \in chosen, NEW e \in chosen, level(c).id = level(e).id PROVE c.layer = e.layer
      OBVIOUS
    <3>1. <<kind, c.layer>> = <<kind, e.layer>> BY <1>4
    <3> QED BY <3>1
  <2> HIDE DEF level
  <2> QED BY <2>1 DEF Chosen
<1> HIDE DEF level
<1>6. {m \in levels : m.rest} = {level(final)} /\ level(final) \in levels BY <1>2, <1>4
<1>7. \A l \in levels : l.kind = kind /\ l.percent \in Nat /\ \E c \in chosen : l.price = c.price /\ l.id = <<kind, c.layer>>
  BY <1>4 DEF Chosen
<1>8. \A l, m \in levels : l.id = m.id => l = m BY <1>5
<1>9. Prices(levels) = {c.price : c \in chosen} BY <1>4 DEF Prices
<1> HIDE DEF levels
<1> QED BY <1>1, <1>3, <1>6, <1>7, <1>8, <1>9

(* Projected targets, with the runner that closes the rest. *)
LEMMA ProjectedIs ==
  ASSUME NEW d \in {"buy", "sell"}, NEW entry \in Int, NEW risk \in Nat,
         NEW discovery \in Seq([reward : Nat \ {0}, percent : Nat \ {0}])
  PROVE  LET levels == Projected(d, entry, discovery, risk) IN
         /\ IsFiniteSet(levels)
         /\ \A l \in levels : /\ l.kind = "runner" \/ (l.kind = "take_profit" /\ ~Beyond(d, entry, l.price))
                              /\ l.price \in Int /\ l.percent \in Nat
                              /\ \E k \in Int : l.id = <<l.kind, k>>
         /\ \A l, m \in levels : l.id = m.id => l = m
         /\ \E l \in levels : {m \in levels : m.rest} = {l}
<1> DEFINE level(k) == [id |-> <<"take_profit", k>>, kind |-> "take_profit",
                        price |-> entry + Sign(d) * Share(risk, discovery[k].reward),
                        percent |-> discovery[k].percent, rest |-> FALSE, risk |-> 0]
    runner == [id |-> <<"runner", 0>>, kind |-> "runner", price |-> 0, percent |-> 0,
               rest |-> TRUE, risk |-> risk]
    fixed == {level(k) : k \in DOMAIN discovery}
    levels == fixed \cup {runner}
<1>1. Projected(d, entry, discovery, risk) = levels BY DEF Projected
<1>2. DOMAIN discovery = 1..Len(discovery) /\ Len(discovery) \in Nat OBVIOUS
<1>3. ASSUME NEW k \in DOMAIN discovery
      PROVE  /\ level(k).kind = "take_profit" /\ level(k).price \in Int /\ ~Beyond(d, entry, level(k).price)
             /\ level(k).percent \in Nat /\ level(k).id = <<"take_profit", k>> /\ level(k).rest = FALSE
             /\ k \in Int
  <2>1. discovery[k] \in [reward : Nat \ {0}, percent : Nat \ {0}] /\ k \in Int
    <3>1. k \in 1..Len(discovery) /\ k \in Int BY <1>2
    <3>2. discovery[k] \in [reward : Nat \ {0}, percent : Nat \ {0}] BY <3>1, ElementOfSeq
    <3> QED BY <3>1, <3>2
  <2>2. discovery[k].reward \in Nat /\ discovery[k].percent \in Nat BY <2>1
  <2> DEFINE gain == Share(risk, discovery[k].reward)
  <2>3. gain \in Nat BY <2>2, ShareIsNatural
  <2> HIDE DEF gain
  <2>4. entry + Sign(d) * gain \in Int /\ ~Beyond(d, entry, entry + Sign(d) * gain)
    <3>1. CASE d = "buy" BY <2>3, <3>1 DEF Beyond, Sign
    <3>2. CASE d = "sell" BY <2>3, <3>2 DEF Beyond, Sign
    <3> QED BY <3>1, <3>2
  <2>5. /\ level(k).kind = "take_profit" /\ level(k).id = <<"take_profit", k>> /\ level(k).rest = FALSE
        /\ level(k).percent = discovery[k].percent /\ level(k).price = entry + Sign(d) * gain BY DEF gain
  <2> HIDE DEF level
  <2> QED BY <2>1, <2>2, <2>4, <2>5
<1>4. /\ runner.kind = "runner" /\ runner.price = 0 /\ runner.percent = 0 /\ runner.rest = TRUE
      /\ runner.id = <<"runner", 0>> OBVIOUS
<1> HIDE DEF level, runner
<1>5. IsFiniteSet(levels)
  <2>1. IsFiniteSet(DOMAIN discovery) BY <1>2, 1 \in Int, FS_Interval
  <2>2. IsFiniteSet(fixed)
    <3> DEFINE f == [k \in DOMAIN discovery |-> level(k)]
    <3>1. fixed = {f[k] : k \in DOMAIN discovery} OBVIOUS
    <3> HIDE DEF f
    <3> QED BY <2>1, <3>1, ImageIsFinite
  <2> QED BY <2>2, FS_Singleton, FS_Union
<1>6. \A l \in levels : /\ l.kind = "runner" \/ (l.kind = "take_profit" /\ ~Beyond(d, entry, l.price))
                        /\ l.price \in Int /\ l.percent \in Nat
                        /\ \E k \in Int : l.id = <<l.kind, k>>
  <2> SUFFICES ASSUME NEW l \in levels
               PROVE  /\ l.kind = "runner" \/ (l.kind = "take_profit" /\ ~Beyond(d, entry, l.price))
                      /\ l.price \in Int /\ l.percent \in Nat
                      /\ \E k \in Int : l.id = <<l.kind, k>> OBVIOUS
  <2>1. CASE l = runner BY <1>4, <2>1
  <2>2. CASE l \in fixed
    <3>1. PICK k \in DOMAIN discovery : l = level(k) BY <2>2
    <3> QED BY <1>3, <3>1
  <2> QED BY <2>1, <2>2
<1>7. ASSUME NEW l \in levels, NEW m \in levels, l.id = m.id PROVE l = m
  <2>1. CASE l \in fixed /\ m \in fixed
    <3>1. PICK j \in DOMAIN discovery, k \in DOMAIN discovery : l = level(j) /\ m = level(k) BY <2>1
    <3>2. <<"take_profit", j>> = <<"take_profit", k>> BY <1>3, <1>7, <3>1
    <3> QED BY <3>1, <3>2
  <2>2. \A k : <<"take_profit", k>> # <<"runner", 0>> OBVIOUS
  <2>3. \A x \in fixed : x.id # runner.id BY <1>3, <1>4, <2>2
  <2>4. CASE ~(l \in fixed /\ m \in fixed)
    <3>1. l = runner \/ m = runner BY <2>4
    <3> HIDE DEF fixed
    <3> QED BY <1>7, <2>3, <3>1
  <2> QED BY <2>1, <2>4
<1>8. {m \in levels : m.rest} = {runner} /\ runner \in levels BY <1>3, <1>4
<1> HIDE DEF levels
<1> QED BY <1>1, <1>5, <1>6, <1>7, <1>8

(* Staged exits of a plan with the stop s behind them: every stop of them is
   in front of s, and one stop and one other level close the rest. *)
StagedBehind(levels, d, s) ==
  LET stopLevels == {l \in levels : l.kind = "stop_loss"} IN
  /\ Levels(levels, d)
  /\ \A l \in stopLevels : ~Beyond(d, s, l.price)
  /\ Cardinality({l \in stopLevels : l.rest}) = 1
  /\ Cardinality({l \in levels \ stopLevels : l.rest}) = 1

LEMMA MultiLevelIs ==
  ASSUME NEW d \in {"buy", "sell"}, NEW entry \in Nat \ {0}, NEW policy, PolicyNumbers(policy),
         NEW ctx, ContextNumbers(ctx, policy)
  PROVE  LET plan == MultiLevelExitPlan(d, entry, policy, ctx) IN
         plan.ok => /\ plan.stop \in Int /\ StagedBehind(plan.levels, d, plan.stop)
                    /\ \A l \in plan.levels : l.kind = "stop_loss" => Beyond(d, entry, l.price)
<1> DEFINE chosenStops == FirstOfLayer(ctx.stops, entry, -Sign(d))
    chosenTargets == FirstOfLayer(ctx.targets, entry, Sign(d))
    stopLevels == Staged("stop_loss", chosenStops, policy.stopPercent, entry)
    reference == Away(entry, Nearest(Prices(stopLevels), entry))
    discovery == chosenTargets = {} \/ ctx.projection
    targets == IF discovery THEN Projected(d, entry, policy.discovery, reference)
               ELSE Staged("take_profit", chosenTargets, policy.targetPercent, entry)
    fixed == {t \in targets : t.kind = "take_profit"}
    furthest == Furthest(Prices(stopLevels), entry)
    levels == stopLevels \cup targets
    plan == MultiLevelExitPlan(d, entry, policy, ctx)
<1> SUFFICES ASSUME plan.ok
             PROVE  /\ plan.stop \in Int /\ StagedBehind(plan.levels, d, plan.stop)
                    /\ \A l \in plan.levels : l.kind = "stop_loss" => Beyond(d, entry, l.price) OBVIOUS
<1>1. /\ stopLevels # {} /\ plan.levels = levels
      /\ plan.stop = furthest - Sign(d) * Share(ctx.atr, policy.disaster)
  <2>1. plan = IF stopLevels = {} \/ fixed = {} THEN NoPlan
               ELSE [ok |-> TRUE, stop |-> furthest - Sign(d) * Share(ctx.atr, policy.disaster),
                     risk |-> reference, levels |-> levels,
                     target |-> IF discovery
                                THEN entry + Sign(d) * Share(reference, policy.discovery[1].reward)
                                ELSE Nearest(Prices(fixed), entry)] BY DEF MultiLevelExitPlan
  <2>2. NoPlan.ok = FALSE BY DEF NoPlan
  <2> HIDE DEF plan, stopLevels, fixed, levels, furthest, reference
  <2>3. ~(stopLevels = {} \/ fixed = {}) BY <2>1, <2>2
  <2> QED BY <2>1, <2>3
<1>2. /\ Chosen(chosenStops, policy.stopPercent) /\ \A c \in chosenStops : (c.price - entry) * (-Sign(d)) > 0
      /\ Chosen(chosenTargets, policy.targetPercent) /\ \A c \in chosenTargets : (c.price - entry) * Sign(d) > 0
  BY FirstOfLayerIs DEF ContextNumbers
<1>3. ASSUME NEW c \in chosenStops PROVE c.price \in Int /\ Beyond(d, entry, c.price)
  <2>1. c.price \in Int /\ (c.price - entry) * (-Sign(d)) > 0 BY <1>2 DEF Chosen
  <2> HIDE DEF chosenStops
  <2>2. CASE d = "buy" BY <2>1, <2>2 DEF Beyond, Sign
  <2>3. CASE d = "sell" BY <2>1, <2>3 DEF Beyond, Sign
  <2> QED BY <2>1, <2>2, <2>3
<1>4. ASSUME NEW c \in chosenTargets PROVE c.price \in Int /\ ~Beyond(d, entry, c.price)
  <2>1. c.price \in Int /\ (c.price - entry) * Sign(d) > 0 BY <1>2 DEF Chosen
  <2> HIDE DEF chosenTargets
  <2>2. CASE d = "buy" BY <2>1, <2>2 DEF Beyond, Sign
  <2>3. CASE d = "sell" BY <2>1, <2>3 DEF Beyond, Sign
  <2> QED BY <2>1, <2>2, <2>3
<1>5. chosenStops # {} BY <1>1 DEF Staged
<1> HIDE DEF chosenStops, chosenTargets
<1>6. /\ IsFiniteSet(stopLevels)
      /\ \A l \in stopLevels : /\ l.kind = "stop_loss" /\ l.percent \in Nat
                          /\ \E c \in chosenStops : l.price = c.price /\ l.id = <<"stop_loss", c.layer>>
      /\ \A l, m \in stopLevels : l.id = m.id => l = m
      /\ \E l \in stopLevels : {m \in stopLevels : m.rest} = {l}
      /\ \A x \in Prices(stopLevels) : \E c \in chosenStops : x = c.price
      /\ \A c \in chosenStops : c.price \in Prices(stopLevels)
  <2>1. entry \in Int /\ Chosen(chosenStops, policy.stopPercent) BY <1>2
  <2>2. stopLevels = Staged("stop_loss", chosenStops, policy.stopPercent, entry) OBVIOUS
  <2> HIDE DEF stopLevels
  <2>3. /\ IsFiniteSet(stopLevels)
        /\ \A l \in stopLevels : /\ l.kind = "stop_loss" /\ l.percent \in Nat
                            /\ \E c \in chosenStops : l.price = c.price /\ l.id = <<"stop_loss", c.layer>>
        /\ \A l, m \in stopLevels : l.id = m.id => l = m
        /\ \E l \in stopLevels : {m \in stopLevels : m.rest} = {l} BY <1>5, <2>1, <2>2, StagedIs
  <2>4. /\ \A x \in Prices(stopLevels) : \E c \in chosenStops : x = c.price
        /\ \A c \in chosenStops : c.price \in Prices(stopLevels)
    <3>1. \A x \in Prices(stopLevels) : \E l \in stopLevels : x = l.price BY DEF Prices
    <3>2. \A c \in chosenStops : c.price \in Prices(stopLevels) BY <1>5, <2>1, <2>2, StagedIs
    <3> QED BY <2>3, <3>1, <3>2
  <2> QED BY <2>3, <2>4
<1> HIDE DEF stopLevels
<1>7. IsFiniteSet(Prices(stopLevels)) /\ Prices(stopLevels) # {} /\ \A x \in Prices(stopLevels) : x \in Int
  <2>1. \A x \in Prices(stopLevels) : x \in Int BY <1>3, <1>6
  <2>2. Prices(stopLevels) # {} BY <1>5, <1>6
  <2>3. IsFiniteSet(Prices(stopLevels))
    <3> DEFINE f == [l \in stopLevels |-> l.price]
    <3>1. Prices(stopLevels) = {f[l] : l \in stopLevels} BY DEF Prices
    <3>2. IsFiniteSet(stopLevels) BY <1>6
    <3> HIDE DEF f
    <3> QED BY <3>1, <3>2, ImageIsFinite
  <2> QED BY <2>1, <2>2, <2>3
<1>8. /\ furthest \in Prices(stopLevels) /\ \A x \in Prices(stopLevels) : Away(x, entry) <= Away(furthest, entry)
      /\ Nearest(Prices(stopLevels), entry) \in Prices(stopLevels)
  <2> DEFINE P == Prices(stopLevels)
      f == [x \in P |-> Away(x, entry)]
  <2>1. f \in [P -> Int]
    <3>1. \A x \in P : Away(x, entry) \in Int BY <1>7 DEF Away
    <3> QED BY <3>1
  <2>2. (\E x \in P : \A y \in P : f[y] <= f[x]) /\ (\E x \in P : \A y \in P : f[x] <= f[y])
    <3> HIDE DEF f, P
    <3>1. IsFiniteSet(P) /\ P # {} BY <1>7 DEF P
    <3> QED BY <2>1, <3>1, FurthestIs
  <2>3. /\ \E x \in P : \A y \in P : Away(y, entry) <= Away(x, entry)
        /\ \E x \in P : \A y \in P : Away(x, entry) <= Away(y, entry) BY <2>2
  <2> QED BY <2>3 DEF Furthest, Nearest
<1>9. reference \in Nat BY <1>7, <1>8 DEF Away
<1> HIDE DEF reference
<1>10. /\ IsFiniteSet(targets)
       /\ \A t \in targets : /\ t.kind = "runner" \/ (t.kind = "take_profit" /\ ~Beyond(d, entry, t.price))
                             /\ t.price \in Int /\ t.percent \in Nat
                             /\ \E x : t.id = <<t.kind, x>>
       /\ \A t, m \in targets : t.id = m.id => t = m
       /\ \E t \in targets : {m \in targets : m.rest} = {t}
  <2>1. CASE discovery
    <3>1. targets = Projected(d, entry, policy.discovery, reference) BY <2>1
    <3>2. policy.discovery \in Seq([reward : Nat \ {0}, percent : Nat \ {0}]) /\ entry \in Int
      BY DEF PolicyNumbers
    <3> HIDE DEF targets
    <3>3. /\ IsFiniteSet(targets)
          /\ \A l \in targets : /\ l.kind = "runner" \/ (l.kind = "take_profit" /\ ~Beyond(d, entry, l.price))
                                /\ l.price \in Int /\ l.percent \in Nat
                                /\ \E k \in Int : l.id = <<l.kind, k>>
          /\ \A l, m \in targets : l.id = m.id => l = m
          /\ \E l \in targets : {m \in targets : m.rest} = {l} BY <1>9, <3>1, <3>2, ProjectedIs
    <3> QED BY <3>3
  <2>2. CASE ~discovery
    <3>1. targets = Staged("take_profit", chosenTargets, policy.targetPercent, entry) /\ chosenTargets # {}
      BY <2>2
    <3> HIDE DEF targets
    <3>2. /\ IsFiniteSet(targets)
          /\ \A l \in targets : /\ l.kind = "take_profit" /\ l.percent \in Nat
                                /\ \E c \in chosenTargets : l.price = c.price /\ l.id = <<"take_profit", c.layer>>
          /\ \A l, m \in targets : l.id = m.id => l = m
          /\ \E l \in targets : {m \in targets : m.rest} = {l}
      <4>1. entry \in Int /\ Chosen(chosenTargets, policy.targetPercent) BY <1>2
      <4> QED BY <3>1, <4>1, StagedIs
    <3>3. ASSUME NEW t \in targets
          PROVE  /\ t.kind = "take_profit" /\ ~Beyond(d, entry, t.price)
                 /\ t.price \in Int /\ t.percent \in Nat
                 /\ \E x : t.id = <<t.kind, x>> BY <1>4, <3>2
    <3> QED BY <3>2, <3>3
  <2> QED BY <2>1, <2>2
<1> HIDE DEF targets
(* What the levels are, together. *)
<1>11. \A l \in stopLevels : l.kind = "stop_loss" /\ l.price \in Int /\ Beyond(d, entry, l.price)
                        /\ l.percent \in Nat /\ l.price \in Prices(stopLevels) /\ \E x : l.id = <<"stop_loss", x>>
  BY <1>3, <1>6 DEF Prices
<1>12. {l \in levels : l.kind = "stop_loss"} = stopLevels /\ levels \ stopLevels = targets BY <1>10, <1>11
<1>13. Levels(levels, d)
  <2>1. IsFiniteSet(levels) BY <1>6, <1>10, FS_Union
  <2>2. ASSUME NEW l \in levels
        PROVE  /\ l.kind \in {"stop_loss", "take_profit", "runner"}
               /\ l.price \in Int /\ l.percent \in Nat /\ l.id # SignalTarget
               /\ l.kind = "stop_loss" /\ d = "sell" => l.price > 0
               /\ l.kind = "take_profit" /\ d = "buy" => l.price > 0
    <3>1. \A x : <<"stop_loss", x>> # SignalTarget /\ <<"take_profit", x>> # SignalTarget
                 /\ <<"runner", x>> # SignalTarget BY DEF SignalTarget
    <3>2. CASE l \in stopLevels
      <4>1. l.kind = "stop_loss" /\ l.price \in Int /\ Beyond(d, entry, l.price) /\ l.percent \in Nat
        BY <1>11, <3>2
      <4>2. d = "sell" => l.price > 0 BY <4>1 DEF Beyond, Sign
      <4>3. l.id # SignalTarget BY <1>11, <3>1, <3>2
      <4> QED BY <4>1, <4>2, <4>3
    <3>3. CASE l \in targets
      <4>1. /\ l.kind = "runner" \/ (l.kind = "take_profit" /\ ~Beyond(d, entry, l.price))
            /\ l.price \in Int /\ l.percent \in Nat BY <1>10, <3>3
      <4>2. l.kind = "take_profit" /\ d = "buy" => l.price > 0 BY <4>1 DEF Beyond, Sign
      <4>3. l.id # SignalTarget BY <1>10, <3>1, <3>3
      <4> QED BY <4>1, <4>2, <4>3
    <3> QED BY <3>2, <3>3
  <2>3. ASSUME NEW l \in levels, NEW m \in levels, l.id = m.id PROVE l = m
    <3>1. \A x, y : <<"stop_loss", x>> # <<"take_profit", y>> /\ <<"stop_loss", x>> # <<"runner", y>> OBVIOUS
    <3>2. \A s \in stopLevels, t \in targets : s.id # t.id
      <4> SUFFICES ASSUME NEW s \in stopLevels, NEW t \in targets PROVE s.id # t.id OBVIOUS
      <4>1. PICK x : s.id = <<"stop_loss", x>> BY <1>11
      <4>2. PICK y : t.id = <<t.kind, y>> BY <1>10
      <4>3. t.kind = "runner" \/ t.kind = "take_profit" BY <1>10
      <4> QED BY <3>1, <4>1, <4>2, <4>3
    <3>3. (l \in stopLevels /\ m \in stopLevels) \/ (l \in targets /\ m \in targets) BY <2>3, <3>2
    <3> QED BY <1>6, <1>10, <2>3, <3>3
  <2>4. ASSUME NEW l \in levels, NEW t \in levels, l.kind = "stop_loss", t.kind = "take_profit"
        PROVE  Beyond(d, t.price, l.price)
    <3>1. l.price \in Int /\ Beyond(d, entry, l.price) BY <1>11, <1>12, <2>4
    <3>2. t.price \in Int /\ ~Beyond(d, entry, t.price) BY <1>10, <1>11, <1>12, <2>4
    <3>3. CASE d = "buy" BY <3>1, <3>2, <3>3 DEF Beyond, Sign
    <3>4. CASE d = "sell" BY <3>1, <3>2, <3>4 DEF Beyond, Sign
    <3> QED BY <3>3, <3>4
  <2> HIDE DEF levels
  <2> QED BY <2>1, <2>2, <2>3, <2>4 DEF Levels
<1>14. Cardinality({l \in stopLevels : l.rest}) = 1 /\ Cardinality({l \in targets : l.rest}) = 1
  BY <1>6, <1>10, FS_Singleton
<1>15. plan.stop \in Int /\ \A l \in stopLevels : ~Beyond(d, plan.stop, l.price)
  <2> DEFINE behind == Share(ctx.atr, policy.disaster)
  <2>1. behind \in Nat
    <3>1. ctx.atr \in Nat /\ policy.disaster \in Nat BY DEF ContextNumbers, PolicyNumbers
    <3> QED BY <3>1, ShareIsNatural
  <2>2. furthest \in Int BY <1>7, <1>8
  <2> DEFINE at == furthest
  <2> HIDE DEF behind, plan
  <2>3. plan.stop = at - Sign(d) * behind BY <1>1 DEF behind
  <2>4. ASSUME NEW l \in stopLevels PROVE ~Beyond(d, plan.stop, l.price)
    <3>1. l.price \in Int /\ Beyond(d, entry, l.price) /\ Away(l.price, entry) <= Away(at, entry) BY <1>8, <1>11
    <3>2. Beyond(d, entry, at) BY <1>3, <1>6, <1>8
    <3> HIDE DEF at
    <3>3. at \in Int BY <2>2 DEF at
    <3>4. CASE d = "buy" BY <2>1, <2>3, <3>1, <3>2, <3>3, <3>4 DEF Beyond, Sign, Away
    <3>5. CASE d = "sell" BY <2>1, <2>3, <3>1, <3>2, <3>3, <3>5 DEF Beyond, Sign, Away
    <3> QED BY <3>4, <3>5
  <2>5. plan.stop \in Int
    <3> HIDE DEF at
    <3>1. at \in Int BY <2>2 DEF at
    <3> QED BY <2>1, <2>3, <3>1 DEF Sign
  <2> QED BY <2>4, <2>5
<1> HIDE DEF plan, levels
<1> QED BY <1>1, <1>11, <1>12, <1>13, <1>14, <1>15 DEF StagedBehind


(* A stop moved out to the floor and by the spread is behind what it was. *)
LEMMA StopFromIs ==
  ASSUME NEW d \in {"buy", "sell"}, NEW entry \in Int, NEW raw \in Int, NEW floor \in Int, NEW spread \in Nat
  PROVE  /\ StopFrom(d, entry, raw, floor, spread) \in Int
         /\ \A x \in Int : ~Beyond(d, raw, x) /\ Beyond(d, entry, x)
              => ~Beyond(d, StopFrom(d, entry, raw, floor, spread), x)
<1>1. CASE d = "buy" BY <1>1 DEF StopFrom, Beyond, Sign, Away
<1>2. CASE d = "sell" BY <1>2 DEF StopFrom, Beyond, Sign, Away
<1> QED BY <1>1, <1>2

LEMMA MinimumStopIsNumber ==
  ASSUME NEW entry \in Int, NEW policy, PolicyNumbers(policy), NEW ctx, ContextNumbers(ctx, policy)
  PROVE  MinimumStop(entry, policy, ctx) \in Int
<1>1. policy.minAtr \in Int /\ policy.minPercent \in Int /\ policy.minDistance \in Int /\ ctx.atr \in Int
  BY DEF PolicyNumbers, ContextNumbers
<1>2. Share(ctx.atr, policy.minAtr) \in Int /\ Share(entry, policy.minPercent) \in Int BY <1>1, ShareIsNumber
<1> QED BY <1>1, <1>2 DEF MinimumStop

(* What one rule of the stop chain proposes is a price. *)
LEMMA ProposedIsNumber ==
  ASSUME NEW rule, ChainNumbers(rule), NEW d, NEW entry \in Int, NEW signal \in Int, NEW policy,
         NEW ctx, ContextNumbers(ctx, policy)
  PROVE  \A c \in Proposed(rule, d, entry, signal, 0, ctx, TRUE) : c \in Int
<1> DEFINE out == -Sign(d)
<1>1. out \in Int BY DEF Sign
<1>2. Proposed(rule, d, entry, signal, 0, ctx, TRUE) =
        CASE rule.kind = "signal" /\ signal > 0 -> {signal}
          [] rule.kind = "pivot" ->
                PivotCandidate(d, entry, rule, ctx.pivots, TRUE, ctx.now)
          [] rule.kind = "fixed_points" -> {entry + out * rule.value}
          [] rule.kind = "fixed_percent" -> {entry + out * Share(entry, rule.value)}
          [] rule.kind = "atr" /\ ctx.atr > 0 -> {entry + out * Share(ctx.atr, rule.value)}
          [] rule.kind = "risk_reward" /\ FALSE -> {entry + out * Share(0, rule.value)}
          [] rule.kind = "none" /\ FALSE -> {0}
          [] OTHER -> {} BY DEF Proposed
<1> HIDE DEF out
<1>3. CASE rule.kind = "signal" BY <1>2, <1>3
<1>4. CASE rule.kind = "pivot"
  <2>1. rule.buffer \in Int /\ \A v \in ctx.pivots : v.price \in Int BY <1>4 DEF ChainNumbers, ContextNumbers
  <2>2. \A c \in PivotCandidate(d, entry, rule, ctx.pivots, TRUE, ctx.now) : c \in Int
    BY <2>1, PivotCandidateIsNumber
  <2> QED BY <1>2, <1>4, <2>2
<1>5. CASE rule.kind \in {"fixed_points", "fixed_percent", "atr"}
  <2>1. rule.value \in Int /\ ctx.atr \in Int BY <1>5 DEF ChainNumbers, ContextNumbers
  <2>2. Share(entry, rule.value) \in Int /\ Share(ctx.atr, rule.value) \in Int BY <2>1, ShareIsNumber
  <2> DEFINE v == rule.value
      e == Share(entry, rule.value)
      a == Share(ctx.atr, rule.value)
  <2>3. entry + out * v \in Int /\ entry + out * e \in Int /\ entry + out * a \in Int
    <3>1. v \in Int /\ e \in Int /\ a \in Int BY <2>1, <2>2
    <3> HIDE DEF v, e, a
    <3>2. out * v \in Int /\ out * e \in Int /\ out * a \in Int BY <1>1, <3>1, Products
    <3> QED BY <3>2
  <2> QED BY <1>2, <1>5, <2>3
<1>6. CASE rule.kind \notin {"signal", "pivot", "fixed_points", "fixed_percent", "atr"} BY <1>2, <1>6
<1> QED BY <1>3, <1>4, <1>5, <1>6

LEMMA InitialStopIsNumber ==
  ASSUME NEW d, NEW entry \in Int, NEW policy, PolicyNumbers(policy), NEW ctx, ContextNumbers(ctx, policy)
  PROVE  \A c \in InitialStop(d, entry, policy, ctx) : c \in Int
<1>1. ctx.boundary \in Int /\ ctx.signalStop \in Int BY DEF ContextNumbers
<1>2. ASSUME NEW c \in ResolveRule(policy.stopRules, d, entry, ctx.signalStop, 0, ctx, TRUE) PROVE c \in Int
  <2> DEFINE rules == policy.stopRules
      offer(k) == {x \in Proposed(rules[k], d, entry, ctx.signalStop, 0, ctx, TRUE) :
                       (x = 0 /\ FALSE) \/ Beyond(d, entry, x)}
      useful == {k \in DOMAIN rules : offer(k) # {}}
  <2>1. useful # {} /\ c \in offer(Min(useful)) BY <1>2 DEF ResolveRule
  <2>2. \E m \in useful : \A k \in useful : m <= k
    <3>1. useful \in SUBSET Nat BY DEF PolicyNumbers
    <3> HIDE DEF useful
    <3> QED BY <2>1, <3>1, E!NumbersHaveLeast
  <2>3. Min(useful) \in useful BY <2>2 DEF Min
  <2> DEFINE k == Min(useful)
  <2>4. k \in DOMAIN rules /\ c \in Proposed(rules[k], d, entry, ctx.signalStop, 0, ctx, TRUE) BY <2>1, <2>3
  <2> HIDE DEF k
  <2>5. ChainNumbers(rules[k]) BY <2>4 DEF PolicyNumbers
  <2> QED BY <1>1, <2>4, <2>5, ProposedIsNumber
<1> QED BY <1>1, <1>2 DEF InitialStop

(* A plan that is made has a stop, and staged exits in front of it. *)
LEMMA CreatePlanIs ==
  ASSUME NEW s, ScenarioNumbers(s)
  PROVE  LET plan == CreatePlan(s.dir, s.entry, s.cfg.policy, s.ctx) IN
         plan.ok => /\ plan.stop \in Int
                    /\ \/ plan.levels = {}
                       \/ s.cfg.policy.multi /\ StagedBehind(plan.levels, s.dir, plan.stop)
<1> DEFINE d == s.dir
    entry == s.entry
    policy == s.cfg.policy
    ctx == s.ctx
    staged == MultiLevelExitPlan(d, entry, policy, ctx)
    first == IF policy.multi
             THEN IF ctx.structure /\ staged.ok THEN {staged.stop} ELSE {}
             ELSE InitialStop(d, entry, policy, ctx)
    floor == MinimumStop(entry, policy, ctx)
    stopLevels == {StopFrom(d, entry, raw, floor, ctx.spread) : raw \in first}
    made(x) == PlanBehind(d, entry, x, Away(entry, x), policy, ctx, staged)
    plans == {made(x) : x \in stopLevels}
    plan == CreatePlan(d, entry, policy, ctx)
<1> SUFFICES ASSUME plan.ok
             PROVE  /\ plan.stop \in Int
                    /\ \/ plan.levels = {}
                       \/ policy.multi /\ StagedBehind(plan.levels, d, plan.stop) OBVIOUS
<1>1. /\ d \in {"buy", "sell"} /\ entry \in Nat \ {0}
      /\ PolicyNumbers(policy) /\ ContextNumbers(ctx, policy) BY DEF ScenarioNumbers
<1>2. plan = IF plans = {} THEN NoPlan ELSE CHOOSE x \in plans : TRUE BY DEF CreatePlan
<1> HIDE DEF plan, d, entry, policy, ctx
<1>3. floor \in Int /\ ctx.spread \in Nat
  <2>1. entry \in Int BY <1>1
  <2>2. floor \in Int BY <1>1, <2>1, MinimumStopIsNumber
  <2>3. ctx.spread \in Nat BY <1>1 DEF ContextNumbers
  <2> QED BY <2>2, <2>3
<1> HIDE DEF floor
<1>4. PICK raw \in first : plan = made(StopFrom(d, entry, raw, floor, ctx.spread))
  <2>1. NoPlan.ok = FALSE BY DEF NoPlan
  <2> HIDE DEF plans
  <2>2. plans # {} /\ plan \in plans BY <1>2, <2>1
  <2> QED BY <2>2 DEF plans
<1> DEFINE x == StopFrom(d, entry, raw, floor, ctx.spread)
<1>5. plan.stop = x /\ plan.levels = IF policy.multi THEN staged.levels ELSE {}
  <2>1. NoPlan.ok = FALSE BY DEF NoPlan
  <2>2. plan = made(x) BY <1>4
  <2> HIDE DEF x, staged
  <2> QED BY <2>1, <2>2 DEF PlanBehind
<1>6. ASSUME raw \in Int
      PROVE  x \in Int /\ \A y \in Int : ~Beyond(d, raw, y) /\ Beyond(d, entry, y) => ~Beyond(d, x, y)
  <2> DEFINE spread == ctx.spread
  <2>1. x = StopFrom(d, entry, raw, floor, spread) /\ entry \in Int /\ spread \in Nat BY <1>1, <1>3
  <2> HIDE DEF x, spread
  <2>2. /\ StopFrom(d, entry, raw, floor, spread) \in Int
        /\ \A y \in Int : ~Beyond(d, raw, y) /\ Beyond(d, entry, y)
                => ~Beyond(d, StopFrom(d, entry, raw, floor, spread), y) BY <1>1, <1>3, <1>6, <2>1, StopFromIs
  <2> QED BY <2>1, <2>2
<1>7. CASE ~policy.multi
  <2>1. raw \in Int BY <1>1, <1>7, InitialStopIsNumber
  <2>2. x \in Int BY <1>6, <2>1
  <2> QED BY <1>5, <1>7, <2>2
<1>8. CASE policy.multi
  <2>1. raw = staged.stop /\ staged.ok BY <1>4, <1>8
  <2>2. /\ raw \in Int /\ StagedBehind(staged.levels, d, raw)
        /\ \A l \in staged.levels : l.kind = "stop_loss" => Beyond(d, entry, l.price)
    BY <1>1, <2>1, MultiLevelIs
  <2> HIDE DEF staged
  <2>3. x \in Int /\ \A y \in Int : ~Beyond(d, raw, y) /\ Beyond(d, entry, y) => ~Beyond(d, x, y) BY <1>6, <2>2
  <2> HIDE DEF x
  <2> DEFINE levels == staged.levels
  <2>4. \A l \in levels : l.kind = "stop_loss" => ~Beyond(d, x, l.price) BY <2>2, <2>3 DEF StagedBehind, Levels
  <2>5. StagedBehind(levels, d, x) BY <2>2, <2>4 DEF StagedBehind
  <2> QED BY <1>5, <1>8, <2>3, <2>5
<1> QED BY <1>7, <1>8
----------------------------------------
(* The life of a position.  Its invariant: staged levels stand apart and are
   executed by id, what was sold and what remains make up what was bought,
   and every quote since it opened has been compared with every level. *)

OpenInv ==
  /\ Row(pos) /\ RestWaits(pos) /\ (pos.levels # {} => scn.cfg.policy.multi)
  /\ WatermarkIsBest /\ LevelsAreTaken
  /\ \A k \in 1..Len(rows) : rows[k].ids \subseteq pos.done
  /\ ~emptied => pos.rem > 0 /\ Sold + pos.rem = pos.vol

RowsInv ==
  /\ \E R : rows \in Seq(R)
  /\ \A k \in 1..Len(rows) : rows[k].volume \in Int
  /\ Sold \in Int
  /\ LevelsFireOnce

LifeInv ==
  /\ scn \in Scenarios /\ ticks \in Nat
  /\ seen \subseteq Nat \ {0}
  /\ RowsInv
  /\ pos.st \in {"refused", "open", "closed"}
  /\ pos.st = "refused" => rows = <<>>
  /\ pos.st = "closed" => (~emptied => Sold = pos.vol)
  /\ pos.st = "open" => OpenInv
  /\ PlanProtects /\ SurvivorIsProtected

LEMMA DomainOfRows == ASSUME NEW R, NEW s \in Seq(R) PROVE DOMAIN s = 1..Len(s) /\ Len(s) \in Nat OBVIOUS

(* A row written behind the others. *)
LEMMA RowIsWritten ==
  ASSUME RowsInv, NEW r, r.volume \in Int, rows' = Append(rows, r),
         \A k \in 1..Len(rows) : rows[k].ids \cap r.ids = {}
  PROVE  RowsInv' /\ Sold' = Sold + r.volume
         /\ \A k \in 1..Len(rows') : rows'[k] = r \/ (k \in 1..Len(rows) /\ rows'[k] = rows[k])
<1>1. PICK R : rows \in Seq(R) BY DEF RowsInv
<1> DEFINE S == R \cup {r}
<1>2. rows \in Seq(S) /\ r \in S BY <1>1
<1> HIDE DEF S
<1>3. /\ rows' \in Seq(S) /\ Len(rows') = Len(rows) + 1 /\ Len(rows) \in Nat
      /\ DOMAIN rows' = 1..Len(rows') /\ DOMAIN rows = 1..Len(rows)
      /\ rows'[Len(rows) + 1] = r /\ \A k \in 1..Len(rows) : rows'[k] = rows[k] BY <1>2
<1>4. \A k \in 1..Len(rows') : (k = Len(rows) + 1 /\ rows'[k] = r) \/ (k \in 1..Len(rows) /\ rows'[k] = rows[k])
  BY <1>3
<1>5. \A k \in 1..Len(rows') : rows'[k].volume \in Int BY <1>4 DEF RowsInv
<1>6. Sold' = Sold + r.volume /\ Sold' \in Int
  <2>1. VolumeOf(Append(rows, r)) = VolumeOf(rows) + r.volume /\ VolumeOf(rows) \in Int
    BY <1>2, VolumeAdds DEF RowsInv
  <2> QED BY <2>1 DEF Sold
<1>7. LevelsFireOnce'
  <2> SUFFICES ASSUME NEW j \in DOMAIN rows', NEW k \in DOMAIN rows', j # k
               PROVE  rows'[j].ids \cap rows'[k].ids = {} BY DEF LevelsFireOnce
  <2> QED BY <1>3, <1>4 DEF RowsInv, LevelsFireOnce
<1> QED BY <1>3, <1>4, <1>5, <1>6, <1>7 DEF RowsInv

LEMMA MarkIs ==
  ASSUME NEW p, NEW bid \in Quoted
  PROVE  MarkOf(p, [bid |-> bid, ask |-> bid + Spread]) \in Nat \ {0} BY LifeAssumption DEF MarkOf

LEMMA ScenarioIs ==
  ASSUME NEW s \in Scenarios
  PROVE  /\ ScenarioNumbers(s)
         /\ PolicyNumbers(s.cfg.policy) /\ s.cfg.minimum \in Nat
         /\ s.ctx.atr \in Nat /\ s.ctx.low \in Int /\ s.ctx.high \in Int
         /\ \A v \in s.ctx.pivots : v.price \in Int
<1>1. ScenarioNumbers(s) BY LifeAssumption
<1>2. PolicyNumbers(s.cfg.policy) /\ s.cfg.minimum \in Nat /\ ContextNumbers(s.ctx, s.cfg.policy)
  BY <1>1 DEF ScenarioNumbers
<1> QED BY <1>1, <1>2 DEF ContextNumbers

LEMMA BestStays ==
  ASSUME NEW d \in {"buy", "sell"}, NEW fav \in Int, NEW mark \in Int, NEW m \in Int,
         m = mark \/ ~Beyond(d, m, fav)
  PROVE  ~Beyond(d, m, IF Beyond(d, mark, fav) THEN mark ELSE fav)
<1>1. CASE d = "buy" BY <1>1 DEF Beyond, Sign
<1>2. CASE d = "sell" BY <1>2 DEF Beyond, Sign
<1> QED BY <1>1, <1>2

(* What a quote does to the open position. *)
LEMMA TickIs ==
  ASSUME LifeInv, NEW bid \in Quoted, Tick(bid)
  PROVE  \E out : /\ Finished(pos, out) \/ Survived(pos, out, last')
                  /\ pos' = out.pos
                  /\ emptied' <=> (emptied \/ (out.row # {} /\ out.pos.st = "open" /\ out.pos.rem = 0))
                  /\ IF out.row = {} THEN rows' = rows ELSE \E row \in out.row : rows' = Append(rows, row)
<1> DEFINE quote == [bid |-> bid, ask |-> bid + Spread]
    out == Manage(pos, quote, scn.cfg, Market)
<1>1. pos.st = "open" /\ Row(pos) /\ RestWaits(pos) /\ (pos.levels # {} => scn.cfg.policy.multi)
  BY DEF LifeInv, OpenInv, Tick
<1>2. PolicyNumbers(scn.cfg.policy) /\ scn.cfg.minimum \in Nat BY ScenarioIs DEF LifeInv
<1>3. MarketNumbers(Market) BY ScenarioIs DEF LifeInv, Market, MarketNumbers
<1>4. MarkOf(pos, quote) \in Nat \ {0} /\ last' = MarkOf(pos, quote) BY MarkIs DEF Tick
<1>5. /\ pos' = out.pos
      /\ emptied' = (emptied \/ (out.row # {} /\ out.pos.st = "open" /\ out.pos.rem = 0))
      /\ IF out.row = {} THEN UNCHANGED rows ELSE \E row \in out.row : rows' = Append(rows, row) BY DEF Tick
<1> HIDE DEF quote
<1>6. Finished(pos, out) \/ Survived(pos, out, last') BY <1>1, <1>2, <1>3, <1>4, ManageIs
<1> HIDE DEF out
<1> QED BY <1>5, <1>6

LEMMA EndedKeeps ==
  ASSUME LifeInv, NEW bid \in Quoted, Tick(bid), NEW out, Finished(pos, out), pos' = out.pos,
         emptied' <=> (emptied \/ (out.row # {} /\ out.pos.st = "open" /\ out.pos.rem = 0)),
         IF out.row = {} THEN rows' = rows ELSE \E row \in out.row : rows' = Append(rows, row)
  PROVE  LifeInv' /\ pos'.st = "closed"
<1>1. PICK r : out.row = {r} /\ r.volume = Active(pos) /\ r.ids = {} BY DEF Finished
<1>2. rows' = Append(rows, r) /\ pos'.st = "closed" /\ pos'.vol = pos.vol /\ (~emptied' <=> ~emptied)
  BY <1>1 DEF Finished
<1>3. pos.st = "open" /\ Row(pos) /\ (~emptied => pos.rem > 0 /\ Sold + pos.rem = pos.vol)
  BY DEF LifeInv, OpenInv, Tick
<1>4. Active(pos) \in Int /\ (pos.rem > 0 => Active(pos) = pos.rem) BY <1>3, ActiveIs
<1>5. RowsInv' /\ Sold' = Sold + r.volume BY <1>1, <1>2, <1>4, RowIsWritten DEF LifeInv
<1>6. ~emptied' => Sold' = pos'.vol BY <1>1, <1>2, <1>3, <1>4, <1>5
<1>7. scn' \in Scenarios /\ ticks' \in Nat /\ seen' \subseteq Nat \ {0}
  <2>1. last' \in Nat \ {0} /\ scn' = scn /\ ticks' \in Nat /\ seen' = seen \cup {last'}
    BY MarkIs DEF LifeInv, Tick
  <2> QED BY <2>1 DEF LifeInv
<1>8. PlanProtects' /\ SurvivorIsProtected' BY <1>2 DEF PlanProtects, SurvivorIsProtected, Open
<1> QED BY <1>2, <1>5, <1>6, <1>7, <1>8 DEF LifeInv

LEMMA SurvivedKeeps ==
  ASSUME LifeInv, NEW bid \in Quoted, Tick(bid), NEW out, Survived(pos, out, last'), pos' = out.pos,
         emptied' <=> (emptied \/ (out.row # {} /\ out.pos.st = "open" /\ out.pos.rem = 0)),
         IF out.row = {} THEN rows' = rows ELSE \E row \in out.row : rows' = Append(rows, row)
  PROVE  LifeInv' /\ ~Beyond(pos.dir, pos.sl, pos'.sl)
<1>1. /\ SameTerms(pos, pos') /\ pos'.st = "open" /\ pos'.fav = Best(pos, last')
      /\ Beyond(pos.dir, last', pos.sl)
      /\ pos'.sl = pos.sl \/ LegalStop(pos, pos'.sl, last')
      /\ \A l \in pos.levels : l.kind # "runner" /\ PastIn(pos.dir, l, last') =>
            ~l.rest /\ (l.percent > 0 => l.id \in pos'.done)
      /\ Untouched(pos, out) \/ ReducedBy(pos, out) BY DEF Survived
<1>2. pos.st = "open" /\ OpenInv /\ Row(pos) BY DEF LifeInv, OpenInv, Tick
<1>3. last' \in Nat \ {0} /\ scn' = scn /\ ticks' \in Nat /\ ticks' > 0 /\ seen' = seen \cup {last'}
  BY MarkIs DEF LifeInv, Tick
(* The stop. *)
<1>4. pos'.sl \in Int /\ pos'.sl > 0 /\ Beyond(pos.dir, last', pos'.sl) /\ ~Beyond(pos.dir, pos.sl, pos'.sl)
  <2>1. pos.sl \in Int /\ pos.sl > 0 /\ pos.dir \in {"buy", "sell"} BY <1>2 DEF Row
  <2>2. CASE pos'.sl = pos.sl BY <1>1, <2>1, <2>2 DEF Beyond, Sign
  <2>3. CASE LegalStop(pos, pos'.sl, last')
    <3>1. CASE pos.dir = "buy" BY <1>3, <2>1, <2>3, <3>1 DEF LegalStop, Tightens, Beyond, Sign
    <3>2. CASE pos.dir = "sell" BY <1>3, <2>1, <2>3, <3>2 DEF LegalStop, Tightens, Beyond, Sign
    <3> QED BY <2>1, <3>1, <3>2
  <2> QED BY <1>1, <2>2, <2>3
(* The rows and what remains. *)
<1>5. /\ RowsInv' /\ pos'.rem \in 0..pos.vol /\ pos.done \subseteq pos'.done
      /\ \A k \in 1..Len(rows') : rows'[k].ids \subseteq pos'.done
      /\ ~emptied' => pos'.rem > 0 /\ Sold' + pos'.rem = pos.vol
      /\ \A l \in pos.levels : l.rest => (l.id \in pos'.done => l.id \in pos.done)
  <2>1. CASE Untouched(pos, out)
    <3>1. rows' = rows /\ pos'.rem = pos.rem /\ pos'.done = pos.done /\ (emptied' <=> emptied)
      BY <2>1 DEF Untouched
    <3>2. Sold' = Sold /\ RowsInv' BY <3>1 DEF Sold, RowsInv, LevelsFireOnce, LifeInv
    <3> QED BY <1>2, <3>1, <3>2 DEF OpenInv, Row
  <2>2. CASE ReducedBy(pos, out)
    <3>1. PICK r : /\ out.row = {r} /\ r.volume \in 0..Active(pos) /\ r.ids \cap pos.done = {}
                   /\ pos'.rem = Active(pos) - r.volume /\ pos'.done = pos.done \cup r.ids
                   /\ \A l \in pos.levels : l.rest => l.id \notin r.ids BY <2>2 DEF ReducedBy
    <3>2. rows' = Append(rows, r) /\ (emptied' <=> emptied \/ pos'.rem = 0) BY <1>1, <3>1
    <3>3. Active(pos) \in Int /\ 0 < Active(pos) /\ Active(pos) <= pos.vol /\ (pos.rem > 0 => Active(pos) = pos.rem)
      BY <1>2, ActiveIs
    <3>4. /\ RowsInv' /\ Sold' = Sold + r.volume
          /\ \A k \in 1..Len(rows') : rows'[k] = r \/ (k \in 1..Len(rows) /\ rows'[k] = rows[k])
      <4>1. \A k \in 1..Len(rows) : rows[k].ids \cap r.ids = {} BY <1>2, <3>1 DEF OpenInv
      <4>2. r.volume \in Int /\ RowsInv BY <3>1, <3>3 DEF LifeInv
      <4> QED BY <3>2, <4>1, <4>2, RowIsWritten
    <3>5. \A k \in 1..Len(rows') : rows'[k].ids \subseteq pos'.done BY <1>2, <3>1, <3>4 DEF OpenInv
    <3>6. pos'.rem \in 0..pos.vol BY <1>2, <3>1, <3>3 DEF Row
    <3>7. ~emptied' => pos'.rem > 0 /\ Sold' + pos'.rem = pos.vol
      BY <1>2, <3>1, <3>2, <3>3, <3>4, <3>6 DEF OpenInv, LifeInv, RowsInv
    <3> QED BY <3>1, <3>4, <3>5, <3>6, <3>7
  <2> QED BY <1>1, <2>1, <2>2
(* The best price. *)
<1>6. WatermarkIsBest'
  <2>1. pos.fav \in seen \cup {pos.entry} /\ \A m \in seen \cup {pos.entry} : ~Beyond(pos.dir, m, pos.fav)
    BY <1>2 DEF OpenInv, WatermarkIsBest, Open
  <2>2. pos.entry \in Int /\ pos.fav \in Int /\ pos.dir \in {"buy", "sell"} /\ \A m \in seen : m \in Int
    BY <1>2 DEF Row, LifeInv
  <2>3. pos'.entry = pos.entry /\ pos'.dir = pos.dir BY <1>1 DEF SameTerms
  <2>4. pos'.fav = IF Beyond(pos.dir, last', pos.fav) THEN last' ELSE pos.fav BY <1>1 DEF Best
  <2>5. pos'.fav \in seen' \cup {pos.entry} BY <1>3, <2>1, <2>4
  <2>6. ASSUME NEW m \in seen' \cup {pos.entry} PROVE ~Beyond(pos.dir, m, pos'.fav)
    <3>1. m = last' \/ m \in seen \cup {pos.entry} BY <1>3
    <3>2. m \in Int /\ last' \in Int BY <1>3, <2>2, <3>1
    <3>3. m = last' \/ ~Beyond(pos.dir, m, pos.fav) BY <2>1, <3>1
    <3> QED BY <2>2, <2>4, <3>2, <3>3, BestStays
  <2> QED BY <2>3, <2>5, <2>6 DEF WatermarkIsBest
(* The levels. *)
<1>7. LevelsAreTaken'
  <2>1. pos'.levels = pos.levels /\ pos'.dir = pos.dir BY <1>1 DEF SameTerms
  <2> SUFFICES ASSUME NEW l \in pos.levels, l.kind # "runner", NEW m \in seen \cup {last'},
                      PastIn(pos.dir, l, m) PROVE ~l.rest /\ (l.percent > 0 => l.id \in pos'.done)
    BY <1>3, <2>1 DEF LevelsAreTaken, Past, PastIn
  <2>2. CASE m = last' BY <1>1, <2>2
  <2>3. CASE m \in seen
    <3>1. Past(l, m) BY DEF Past, PastIn
    <3>2. ~l.rest /\ (l.percent > 0 => l.id \in pos.done) BY <1>2, <2>3, <3>1 DEF OpenInv, LevelsAreTaken, Open
    <3> QED BY <1>5, <3>2
  <2> QED BY <2>2, <2>3
<1>8. Row(pos')
  <2>1. pos'.fav \in Int BY <1>1, <1>2, <1>3, BestIsNumber
  <2> QED BY <1>1, <1>2, <1>4, <1>5, <2>1 DEF Row, SameTerms, RowFields
<1>9. RestWaits(pos') /\ (pos'.levels # {} => scn'.cfg.policy.multi)
  BY <1>1, <1>2, <1>3, <1>5 DEF RestWaits, OpenInv, SameTerms
<1>10. OpenInv' BY <1>1, <1>5, <1>6, <1>7, <1>8, <1>9 DEF OpenInv, SameTerms
<1>11. PlanProtects' /\ SurvivorIsProtected'
  BY <1>1, <1>3, <1>4 DEF PlanProtects, SurvivorIsProtected, Open, SameTerms
<1>12. scn' \in Scenarios /\ seen' \subseteq Nat \ {0} BY <1>3 DEF LifeInv
<1> QED BY <1>1, <1>3, <1>4, <1>5, <1>10, <1>11, <1>12 DEF LifeInv

LEMMA ReverseKeeps ==
  ASSUME LifeInv, ReverseSignal
  PROVE  LifeInv' /\ ~Beyond(pos.dir, pos.sl, pos'.sl)
<1>1. /\ pos.st = "open" /\ pos' = [pos EXCEPT !.why = "reverse_signal"]
      /\ scn' = scn /\ rows' = rows /\ seen' = seen /\ last' = last /\ ticks' = ticks /\ emptied' = emptied
  BY DEF ReverseSignal
<1>2. OpenInv /\ Row(pos) BY <1>1 DEF LifeInv, OpenInv
<1>3. /\ SameTerms(pos, pos') /\ pos'.st = "open" /\ pos'.fav = pos.fav /\ pos'.sl = pos.sl
      /\ pos'.rem = pos.rem /\ pos'.done = pos.done BY <1>1, <1>2 DEF Row, SameTerms, RowFields
<1>4. Row(pos') /\ RestWaits(pos') BY <1>2, <1>3 DEF Row, RestWaits, SameTerms, RowFields, OpenInv
<1>5. Sold' = Sold /\ RowsInv' BY <1>1 DEF Sold, RowsInv, LevelsFireOnce, LifeInv
<1>6. WatermarkIsBest' BY <1>1, <1>2, <1>3 DEF WatermarkIsBest, OpenInv, Open, SameTerms
<1>7. LevelsAreTaken' BY <1>1, <1>2, <1>3 DEF LevelsAreTaken, OpenInv, Open, SameTerms, Past
<1>8. OpenInv' BY <1>1, <1>2, <1>3, <1>4, <1>5, <1>6, <1>7 DEF OpenInv, SameTerms
<1>9. PlanProtects' BY <1>1, <1>3 DEF PlanProtects, LifeInv, Open, SameTerms
<1>10. SurvivorIsProtected' BY <1>1, <1>3 DEF SurvivorIsProtected, LifeInv, Open, SameTerms
<1>11. ~Beyond(pos.dir, pos.sl, pos'.sl) BY <1>2, <1>3 DEF Row, Beyond, Sign
<1> QED BY <1>1, <1>3, <1>5, <1>8, <1>9, <1>10, <1>11 DEF LifeInv

(* A stop is moved by nothing but a quote, and then towards the price. *)
LEMMA LifeStep ==
  ASSUME LifeInv, [LifeNext]_lifeVars
  PROVE  /\ LifeInv'
         /\ [Open /\ pos'.st = "open" => ~Beyond(pos.dir, pos.sl, pos'.sl)]_lifeVars
<1>1. ASSUME NEW bid \in Quoted, Tick(bid)
      PROVE  LifeInv' /\ (pos'.st = "open" => ~Beyond(pos.dir, pos.sl, pos'.sl))
  <2>1. PICK out : /\ Finished(pos, out) \/ Survived(pos, out, last')
                   /\ pos' = out.pos
                   /\ emptied' <=> (emptied \/ (out.row # {} /\ out.pos.st = "open" /\ out.pos.rem = 0))
                   /\ IF out.row = {} THEN rows' = rows ELSE \E row \in out.row : rows' = Append(rows, row)
    BY <1>1, TickIs
  <2> QED BY <1>1, <2>1, EndedKeeps, SurvivedKeeps
<1>2. CASE UNCHANGED lifeVars
  BY <1>2 DEF lifeVars, LifeInv, RowsInv, OpenInv, Row, RestWaits, WatermarkIsBest, LevelsAreTaken,
              LevelsFireOnce, PlanProtects, SurvivorIsProtected, Open, Sold, Past
<1>3. CASE ReverseSignal BY <1>3, ReverseKeeps
<1> QED BY <1>1, <1>2, <1>3 DEF LifeNext


(* A new position: nothing is sold, and no quote has been seen. *)
LEMMA LifeInitially == ASSUME LifeInit PROVE LifeInv
<1>1. PICK s \in Scenarios :
        LET plan == CreatePlan(s.dir, s.entry, s.cfg.policy, s.ctx)
            fill == FillPrice(s)
            accepted == plan.ok /\ ValidExits(s.dir, fill, plan.stop, plan.target)
        IN  /\ scn = s
            /\ pos = IF accepted THEN Opened(s, plan, fill) ELSE NoPosition
            /\ rows = <<>> /\ seen = {} /\ last = fill /\ ticks = 0 /\ emptied = FALSE BY DEF LifeInit
<1> DEFINE plan == CreatePlan(s.dir, s.entry, s.cfg.policy, s.ctx)
    fill == FillPrice(s)
    accepted == plan.ok /\ ValidExits(s.dir, fill, plan.stop, plan.target)
<1>2. /\ scn = s /\ pos = (IF accepted THEN Opened(s, plan, fill) ELSE NoPosition)
      /\ rows = <<>> /\ seen = {} /\ ticks = 0 /\ emptied = FALSE BY <1>1
<1>3. ScenarioNumbers(s) BY LifeAssumption
<1>4. plan.ok => /\ plan.stop \in Int
                 /\ \/ plan.levels = {}
                    \/ s.cfg.policy.multi /\ StagedBehind(plan.levels, s.dir, plan.stop) BY <1>3, CreatePlanIs
<1>5. fill \in Int BY <1>3 DEF FillPrice, ScenarioNumbers, Sign
<1>6. RowsInv /\ Sold = 0
  <2>1. Sold = 0 BY <1>2, VolumeOfNone DEF Sold
  <2>2. rows \in Seq({}) /\ Len(rows) = 0 /\ DOMAIN rows = {} BY <1>2
  <2> QED BY <2>1, <2>2 DEF RowsInv, LevelsFireOnce
<1> HIDE DEF plan, fill
<1>7. CASE ~accepted
  <2>1. pos.st = "refused" BY <1>2, <1>7 DEF NoPosition
  <2> QED BY <1>2, <1>6, <2>1 DEF LifeInv, PlanProtects, SurvivorIsProtected, Open
<1>8. CASE accepted
  <2>1. /\ plan.stop \in Int /\ plan.stop > 0 /\ Beyond(s.dir, fill, plan.stop)
        /\ plan.levels = {} \/ (s.cfg.policy.multi /\ StagedBehind(plan.levels, s.dir, plan.stop))
    BY <1>4, <1>8 DEF ValidExits
  <2>2. /\ pos.st = "open" /\ pos.dir = s.dir /\ pos.vol = s.volume /\ pos.rem = s.volume
        /\ pos.entry = fill /\ pos.sl = plan.stop /\ pos.fav = fill
        /\ pos.risk = Away(fill, plan.stop) /\ pos.done = {} /\ pos.levels = plan.levels
        /\ {"st", "dir", "vol", "rem", "entry", "sl", "tp", "fav", "risk", "done", "why", "levels"} \subseteq DOMAIN pos
    BY <1>2, <1>8 DEF Opened
  <2>3. s.dir \in {"buy", "sell"} /\ s.volume \in Int /\ s.volume >= Step BY <1>3 DEF ScenarioNumbers
  <2>4. pos.risk \in Int /\ pos.risk > 0 BY <1>5, <2>1, <2>2, <2>3 DEF Away, Beyond, Sign
  <2>5. Levels(pos.levels, pos.dir)
    <3>1. CASE plan.levels = {} BY <2>2, <3>1, FS_EmptySet DEF Levels
    <3>2. CASE plan.levels # {} BY <2>1, <2>2, <3>2 DEF StagedBehind
    <3> QED BY <3>1, <3>2
  <2>6. Row(pos) BY <1>5, <2>1, <2>2, <2>3, <2>4, <2>5 DEF Row, Step
  <2>7. RestWaits(pos) /\ (pos.levels # {} => scn.cfg.policy.multi) BY <1>2, <2>1, <2>2 DEF RestWaits
  <2>8. WatermarkIsBest /\ LevelsAreTaken
    <3>1. ~Beyond(pos.dir, fill, fill) BY <1>5, <2>2, <2>3 DEF Beyond, Sign
    <3> QED BY <1>2, <2>2, <3>1 DEF WatermarkIsBest, LevelsAreTaken
  <2>9. OpenInv
    <3>1. \A k \in 1..Len(rows) : rows[k].ids \subseteq pos.done BY <1>2
    <3>2. pos.rem > 0 /\ Sold + pos.rem = pos.vol BY <1>6, <2>2, <2>3 DEF Step
    <3> QED BY <2>6, <2>7, <2>8, <3>1, <3>2 DEF OpenInv
  <2>10. PlanProtects
    <3> DEFINE stopLevels == {l \in pos.levels : l.kind = "stop_loss"}
    <3>1. Beyond(pos.dir, pos.entry, pos.sl) BY <2>1, <2>2
    <3>2. \A l \in stopLevels : ~Beyond(pos.dir, pos.sl, l.price) BY <2>1, <2>2 DEF StagedBehind
    <3>3. pos.levels # {} => /\ Cardinality({l \in stopLevels : l.rest}) = 1
                             /\ Cardinality({l \in pos.levels \ stopLevels : l.rest}) = 1
      BY <2>1, <2>2 DEF StagedBehind
    <3>4. \A l \in stopLevels, t \in pos.levels \ stopLevels : t.kind = "runner" \/ Beyond(pos.dir, t.price, l.price)
      BY <2>5 DEF Levels
    <3> QED BY <2>4, <3>1, <3>2, <3>3, <3>4 DEF PlanProtects
  <2>11. SurvivorIsProtected BY <1>2 DEF SurvivorIsProtected
  <2>12. pos.st \in {"refused", "open", "closed"} /\ pos.st # "refused" /\ pos.st # "closed" BY <2>2
  <2>13. scn \in Scenarios /\ ticks \in Nat /\ seen \subseteq Nat \ {0} BY <1>2
  <2> QED BY <1>6, <2>9, <2>10, <2>11, <2>12, <2>13 DEF LifeInv
<1> QED BY <1>7, <1>8

LEMMA LifeHolds == LifeSpec => []LifeInv
<1>1. LifeInit => LifeInv BY LifeInitially
<1>2. LifeInv /\ [LifeNext]_lifeVars => LifeInv' BY LifeStep
<1> QED BY <1>1, <1>2, PTL DEF LifeSpec

(* More is never sold than was bought. *)
LEMMA LifeIsSound == ASSUME LifeInv PROVE Protected /\ StagedExits
<1>1. pos.st = "refused" => ~Open /\ rows = <<>> BY DEF LifeInv, Open
<1>2. SoldWithinVolume
  <2> SUFFICES ASSUME rows # <<>>, ~emptied PROVE Sold <= pos.vol BY DEF SoldWithinVolume
  <2>1. Sold \in Int BY DEF LifeInv, RowsInv
  <2>2. CASE pos.st = "closed" BY <2>1, <2>2 DEF LifeInv
  <2>3. CASE pos.st = "open"
    <3>1. pos.rem > 0 /\ Sold + pos.rem = pos.vol /\ pos.rem \in 0..pos.vol /\ pos.vol \in Int
      BY <2>3 DEF LifeInv, OpenInv, Row
    <3> QED BY <2>1, <3>1
  <2> QED BY <2>2, <2>3 DEF LifeInv
<1>3. WatermarkIsBest /\ LevelsAreTaken
  <2>1. CASE Open BY <2>1 DEF LifeInv, OpenInv, Open
  <2>2. CASE ~Open BY <2>2 DEF WatermarkIsBest, LevelsAreTaken
  <2> QED BY <2>1, <2>2
<1> QED BY <1>2, <1>3 DEF Protected, StagedExits, LifeInv, RowsInv

(* A position that is open stands behind a stop on its losing side, above
   which every quote since has left it, and as many of its staged levels
   close the rest as are needed: for every policy, market context and quotes. *)
THEOREM PositionsStayProtected == ServicesSpec => []Protected
<1>1. LifeInv => Protected BY LifeIsSound
<1> QED BY <1>1, LifeHolds, PTL DEF ServicesSpec

(* The best price is the best there was, no staged level that a quote reached
   is passed over or executed twice, and no more is sold than was bought. *)
THEOREM ExitsAreTaken == ServicesSpec => []StagedExits
<1>1. LifeInv => StagedExits BY LifeIsSound
<1> QED BY <1>1, LifeHolds, PTL DEF ServicesSpec

(* Whichever rule moves a stop, and under every quote, it moves towards the
   price only. *)
THEOREM StopsOnlyTighten == ServicesSpec => StopOnlyTightens
<1>1. LifeInv /\ [LifeNext]_lifeVars => [Open /\ pos'.st = "open" => ~Beyond(pos.dir, pos.sl, pos'.sl)]_lifeVars
  BY LifeStep
<1> QED BY <1>1, LifeHolds, PTL DEF ServicesSpec, LifeSpec, StopOnlyTightens

----------------------------------------
(* Sums, whatever the order. *)

(* A part of the terms is summed the same way alone. *)
LEMMA SumOfSome ==
  ASSUME NEW S, IsFiniteSet(S), NEW f, NEW s, E!AddsUp(s, f, S), NEW Part \in SUBSET S
  PROVE  SumFunction([x \in Part |-> f[x]]) = s[Part]
<1> DEFINE g == [x \in Part |-> f[x]]
<1>1. IsFiniteSet(Part) /\ DOMAIN g = Part BY FS_Subset
<1>2. PICK t : E!AddsUp(t, g, Part) /\ SumFunction(g) = t[Part]
  <2> HIDE DEF g
  <2> QED BY <1>1, SumTakesOff
<1> DEFINE Good == {W \in SUBSET Part : s[W] = t[W]}
<1>3. {} \in Good BY <1>2 DEF E!AddsUp
<1>4. ASSUME NEW W \in SUBSET Part, W # {}, W \ {CHOOSE x \in W : TRUE} \in Good PROVE W \in Good
  <2> DEFINE x == CHOOSE x \in W : TRUE
  <2>1. x \in W /\ g[x] = f[x] BY <1>4
  <2>2. s[W] = f[x] + s[W \ {x}] BY <1>4 DEF E!AddsUp
  <2>3. t[W] = g[x] + t[W \ {x}] BY <1>2, <1>4 DEF E!AddsUp
  <2>4. s[W \ {x}] = t[W \ {x}] BY <1>4
  <2> QED BY <2>1, <2>2, <2>3, <2>4
<1> HIDE DEF Good
<1>5. Part \in Good BY <1>1, <1>3, <1>4, FiniteIs, E!EverySubset
<1> QED BY <1>2, <1>5 DEF Good

LEMMA SumOfNone == ASSUME NEW f, DOMAIN f = {} PROVE SumFunction(f) = 0
<1>1. IsFiniteSet(DOMAIN f) BY FS_EmptySet
<1>2. PICK s : E!AddsUp(s, f, DOMAIN f) /\ SumFunction(f) = s[DOMAIN f] BY <1>1, SumTakesOff
<1> QED BY <1>2 DEF E!AddsUp

(* What a sum is when one term is set apart. *)
LEMMA SumWithout ==
  ASSUME NEW S, IsFiniteSet(S), NEW f \in [S -> Int]
  PROVE  /\ SumFunction(f) \in Int
         /\ \A x \in S : SumFunction(f) = f[x] + SumFunction([y \in S \ {x} |-> f[y]])
<1>1. PICK s : E!AddsUp(s, f, S) /\ SumFunction(f) = s[S] BY SumTakesOff
<1>2. s[S] \in Int /\ \A x \in S : s[S] = f[x] + s[S \ {x}]
  <2>1. \A W \in SUBSET S : s[W] \in Int /\ \A x \in W : s[W] = f[x] + s[W \ {x}] BY <1>1, FiniteIs, E!AnyTakesOff
  <2>2. S \in SUBSET S OBVIOUS
  <2> QED BY <2>1, <2>2
<1>3. \A x \in S : SumFunction([y \in S \ {x} |-> f[y]]) = s[S \ {x}] BY <1>1, SumOfSome
<1> QED BY <1>1, <1>2, <1>3

(* Sums add up term by term. *)
LEMMA SumsAdd ==
  ASSUME NEW S, IsFiniteSet(S), NEW f \in [S -> Int], NEW g \in [S -> Int]
  PROVE  SumFunction([x \in S |-> f[x] + g[x]]) = SumFunction(f) + SumFunction(g)
<1> DEFINE h == [x \in S |-> f[x] + g[x]]
<1>1. h \in [S -> Int] /\ DOMAIN h = S /\ DOMAIN f = S /\ DOMAIN g = S OBVIOUS
<1>2. \A x \in S : h[x] = f[x] + g[x] /\ f[x] \in Int /\ g[x] \in Int OBVIOUS
<1> HIDE DEF h
<1>3. PICK s : E!AddsUp(s, f, S) /\ SumFunction(f) = s[S] BY <1>1, SumTakesOff
<1>4. PICK t : E!AddsUp(t, g, S) /\ SumFunction(g) = t[S] BY <1>1, SumTakesOff
<1>5. PICK u : E!AddsUp(u, h, S) /\ SumFunction(h) = u[S] BY <1>1, SumTakesOff
<1> DEFINE Good == {W \in SUBSET S : s[W] \in Int /\ t[W] \in Int /\ u[W] = s[W] + t[W]}
<1>6. {} \in Good BY <1>3, <1>4, <1>5 DEF E!AddsUp
<1>7. ASSUME NEW W \in SUBSET S, W # {}, W \ {CHOOSE x \in W : TRUE} \in Good PROVE W \in Good
  <2> DEFINE x == CHOOSE x \in W : TRUE
      rest == W \ {x}
  <2>1. x \in S BY <1>7
  <2>2. s[W] = f[x] + s[rest] BY <1>3, <1>7 DEF E!AddsUp
  <2>3. t[W] = g[x] + t[rest] BY <1>4, <1>7 DEF E!AddsUp
  <2>4. u[W] = h[x] + u[rest] BY <1>5, <1>7 DEF E!AddsUp
  <2>5. s[rest] \in Int /\ t[rest] \in Int /\ u[rest] = s[rest] + t[rest] BY <1>7
  <2> HIDE DEF rest, x
  <2>6. s[W] \in Int /\ t[W] \in Int /\ u[W] = s[W] + t[W] BY <1>2, <2>1, <2>2, <2>3, <2>4, <2>5
  <2> QED BY <2>6
<1> HIDE DEF Good
<1>8. S \in Good BY <1>6, <1>7, FiniteIs, E!EverySubset
<1> QED BY <1>3, <1>4, <1>5, <1>8 DEF Good, h

(* Terms that are zero need not be there. *)
LEMMA SumOfTheRest ==
  ASSUME NEW S, IsFiniteSet(S), NEW f \in [S -> Int], NEW Part \in SUBSET S, \A x \in S \ Part : f[x] = 0
  PROVE  SumFunction(f) = SumFunction([x \in Part |-> f[x]])
<1>1. PICK s : E!AddsUp(s, f, S) /\ SumFunction(f) = s[S] BY SumTakesOff
<1>2. \A W \in SUBSET S : s[W] \in Int /\ \A x \in W : s[W] = f[x] + s[W \ {x}] BY <1>1, FiniteIs, E!AnyTakesOff
<1> DEFINE Good == {W \in SUBSET (S \ Part) : s[Part \union W] = s[Part]}
<1>3. {} \in Good
  <2>1. Part \union {} = Part OBVIOUS
  <2> QED BY <2>1
<1>4. ASSUME NEW W \in SUBSET (S \ Part), W # {}, W \ {CHOOSE x \in W : TRUE} \in Good PROVE W \in Good
  <2> DEFINE x == CHOOSE x \in W : TRUE
  <2>1. x \in W /\ x \in S \ Part BY <1>4
  <2> DEFINE rest == W \ {x}
  <2>2. s[Part \union rest] = s[Part] BY <1>4
  <2> HIDE DEF x
  <2>3. Part \union W \in SUBSET S /\ x \in Part \union W /\ (Part \union W) \ {x} = Part \union rest BY <2>1
  <2>4. s[Part \union W] = f[x] + s[Part \union rest] BY <1>2, <2>3
  <2>5. f[x] = 0 /\ s[Part] \in Int BY <1>2, <2>1
  <2> QED BY <2>2, <2>4, <2>5
<1>5. IsFiniteSet(S \ Part) BY FS_Subset
<1> HIDE DEF Good
<1>6. S \ Part \in Good BY <1>3, <1>4, <1>5, FiniteIs, E!EverySubset
<1>7. Part \union (S \ Part) = S OBVIOUS
<1>8. SumFunction([x \in Part |-> f[x]]) = s[Part] BY <1>1, SumOfSome
<1> QED BY <1>1, <1>6, <1>7, <1>8 DEF Good

----------------------------------------
(* What the replay makes of one position. *)

(* An open position of the replay: no exit levels, and something left of it. *)
Held(p) == Row(p) /\ p.st = "open" /\ p.rem > 0 /\ p.levels = {} /\ p.tp \in Nat

(* What it comes to: the account and the trades differ by the opening
   commission of what was closed. *)
Settles(p, o) ==
  /\ {"pos", "gain", "net"} \subseteq DOMAIN o
  /\ o.gain \in Int /\ o.net \in Int /\ o.pos.rem \in Int
  /\ o.gain - o.net = (p.rem - o.pos.rem) * cfg.perLot
  /\ o.pos.dir = p.dir
  /\ IF o.pos.st = "open" THEN Held(o.pos) ELSE o.pos.rem = 0

(* The same position with another note on it. *)
LEMMA HeldStays ==
  ASSUME NEW p, Held(p), NEW q, DOMAIN q = DOMAIN p, q.st = p.st, q.dir = p.dir, q.vol = p.vol,
         q.rem = p.rem, q.entry = p.entry, q.risk = p.risk, q.levels = p.levels,
         q.sl \in Int, q.sl > 0, q.tp \in Nat, q.fav \in Int
  PROVE  Held(q) BY DEF Held, Row

LEMMA HeldIs ==
  ASSUME NEW p, Held(p)
  PROVE  /\ Row(p) /\ Active(p) = p.rem /\ p.rem \in Nat \ {0} /\ p.entry \in Int /\ p.st = "open"
         /\ p.sl \in Int /\ p.sl > 0 /\ p.tp \in Nat /\ p.fav \in Int /\ p.dir \in {"buy", "sell"}
         /\ {"st", "rem", "sl", "tp", "fav", "done", "why"} \subseteq DOMAIN p BY DEF Held, Row, Active

LEMMA KeptSettles == ASSUME NEW p, Held(p), cfg.perLot \in Int PROVE Settles(p, Kept(p))
<1>1. p.rem \in Int /\ p.rem - p.rem = 0 /\ 0 * cfg.perLot = 0 /\ p.st = "open" BY HeldIs
<1> QED BY <1>1 DEF Settles, Kept

LEMMA CloseSettles ==
  ASSUME NEW p, Held(p), CfgNumbers(cfg), NEW price \in Int, NEW volume \in Nat, NEW why
  PROVE  /\ Settles(p, CloseAtPrice(p, price, volume, why))
         /\ volume >= p.rem => CloseAtPrice(p, price, volume, why).pos.st = "closed"
<1> DEFINE closed == AtMost(volume, Active(p))
    gross == Gross(p, price - Sign(p.dir) * cfg.slip, closed)
    fee == closed * cfg.perLot
    left == Active(p) - closed
    o == CloseAtPrice(p, price, volume, why)
<1>1. /\ cfg.perLot \in Int /\ cfg.slip \in Int
      /\ Active(p) = p.rem /\ p.rem \in Nat \ {0} /\ p.entry \in Int /\ p.st = "open"
      /\ {"st", "rem", "why"} \subseteq DOMAIN p BY HeldIs DEF CfgNumbers
<1>2. /\ closed \in 0..p.rem /\ left \in 0..p.rem /\ p.rem - left = closed
      /\ volume >= p.rem => left = 0 BY <1>1 DEF AtMost
<1>3. fee \in Int /\ (p.rem - left) * cfg.perLot = fee
  <2> HIDE DEF closed, left
  <2> QED BY <1>1, <1>2, Products
<1>4. gross \in Int
  <2> DEFINE exit == price - Sign(p.dir) * cfg.slip
  <2>1. exit \in Int BY <1>1, OutwardIsNumber
  <2> HIDE DEF exit, closed
  <2>2. Sign(p.dir) * (exit - p.entry) \in Int BY <1>1, <2>1, SignedIsNumber
  <2>3. Gross(p, exit, closed) \in Int BY <1>2, <2>2, Products DEF Gross
  <2> QED BY <2>3 DEF exit
<1>5. o = [pos |-> [p EXCEPT !.rem = left, !.st = IF left = 0 THEN "closed" ELSE @,
                            !.why = IF left = 0 THEN why ELSE @],
           gain |-> gross - fee, net |-> gross - fee - fee] BY DEF CloseAtPrice
<1> HIDE DEF left, gross, fee, o
<1> DEFINE q == [p EXCEPT !.rem = left, !.st = IF left = 0 THEN "closed" ELSE @,
                          !.why = IF left = 0 THEN why ELSE @]
<1>0. /\ q.rem = left /\ q.dir = p.dir /\ q.st = IF left = 0 THEN "closed" ELSE "open"
      /\ DOMAIN q = DOMAIN p /\ q.vol = p.vol /\ q.entry = p.entry /\ q.sl = p.sl /\ q.tp = p.tp
      /\ q.fav = p.fav /\ q.risk = p.risk /\ q.levels = p.levels BY <1>1
<1> HIDE DEF q
<1>10. o.pos = q /\ o.gain = gross - fee /\ o.net = gross - fee - fee /\ DOMAIN o = {"pos", "gain", "net"}
  BY <1>5 DEF q
<1>6. /\ o.pos.rem = left /\ o.pos.dir = p.dir /\ o.gain = gross - fee /\ o.net = gross - fee - fee
      /\ o.pos.st = IF left = 0 THEN "closed" ELSE "open"
      /\ {"pos", "gain", "net"} \subseteq DOMAIN o /\ DOMAIN o.pos = DOMAIN p
      /\ o.pos.vol = p.vol /\ o.pos.entry = p.entry /\ o.pos.sl = p.sl /\ o.pos.tp = p.tp
      /\ o.pos.fav = p.fav /\ o.pos.risk = p.risk /\ o.pos.levels = p.levels BY <1>0, <1>10
<1>7. o.gain - o.net = fee /\ o.gain \in Int /\ o.net \in Int BY <1>3, <1>4, <1>6
<1>8. left # 0 => Held(o.pos) BY <1>1, <1>2, <1>6 DEF Held, Row
<1>9. Settles(p, o) BY <1>2, <1>3, <1>6, <1>7, <1>8 DEF Settles
<1> QED BY <1>2, <1>6, <1>9 DEF o

(* What is said of a position with another note on it is said of it. *)
LEMMA SettlesSame ==
  ASSUME NEW p, NEW q, q.rem = p.rem, q.dir = p.dir, NEW o, Settles(q, o)
  PROVE  Settles(p, o) BY DEF Settles

LEMMA PerformedSettles ==
  ASSUME NEW p, Held(p), CfgNumbers(cfg), NEW price \in Nat \ {0}, NEW act, Asks(p, act, price)
  PROVE  Settles(p, Performed(p, act, price))
<1> DEFINE o == Performed(p, act, price)
<1>1. /\ Active(p) = p.rem /\ p.rem \in Nat /\ p.sl \in Int /\ p.sl > 0 /\ p.dir \in {"buy", "sell"}
      /\ p.tp \in Nat /\ p.fav \in Int /\ {"done", "sl"} \subseteq DOMAIN p BY HeldIs
<1>2. \A c : LegalStop(p, c, price) => c \in Int /\ c > 0 BY <1>1 DEF LegalStop, Tightens, Beyond, Sign
<1>3. cfg.perLot \in Int BY DEF CfgNumbers
<1>4. CASE act.kind = "close"
  <2>1. o = CloseAtPrice(p, price, Active(p), act.reason) BY <1>4 DEF Performed
  <2> QED BY <1>1, <2>1, CloseSettles
<1>5. CASE act.kind = "partial" /\ act.volume > 0
  <2> DEFINE moved == IF act.stop = 0 THEN p.sl ELSE act.stop
      q == [p EXCEPT !.done = @ \union act.ids, !.sl = moved]
  <2>1. Slice(p, act, price) BY <1>5, Acts DEF Asks
  <2>2. act.volume \in Nat /\ moved \in Int /\ moved > 0 BY <1>1, <1>2, <1>5, <2>1 DEF Slice
  <2>3. o = CloseAtPrice(q, price, act.volume, "partial_take_profit") BY <1>5 DEF Performed
  <2> HIDE DEF moved
  <2>4. /\ DOMAIN q = DOMAIN p /\ q.st = p.st /\ q.dir = p.dir /\ q.vol = p.vol /\ q.rem = p.rem
        /\ q.entry = p.entry /\ q.risk = p.risk /\ q.levels = p.levels
        /\ q.sl = moved /\ q.tp = p.tp /\ q.fav = p.fav BY <1>1
  <2> HIDE DEF q, o
  <2>5. Held(q) BY <1>1, <2>2, <2>4, HeldStays
  <2>6. Settles(q, o) BY <2>2, <2>3, <2>5, CloseSettles
  <2>7. Settles(p, o) BY <2>4, <2>6, SettlesSame
  <2> QED BY <2>7 DEF o
<1>6. CASE act.kind = "stop"
  <2> DEFINE q == [p EXCEPT !.sl = act.stop]
  <2>1. act.stop \in Int /\ act.stop > 0 BY <1>2, <1>6, Acts DEF Asks, Slice
  <2>2. o = Kept(q) BY <1>6 DEF Performed
  <2>3. /\ DOMAIN q = DOMAIN p /\ q.st = p.st /\ q.dir = p.dir /\ q.vol = p.vol /\ q.rem = p.rem
        /\ q.entry = p.entry /\ q.risk = p.risk /\ q.levels = p.levels
        /\ q.sl = act.stop /\ q.tp = p.tp /\ q.fav = p.fav BY <1>1
  <2> HIDE DEF q, o
  <2>4. Held(q) BY <1>1, <2>1, <2>3, HeldStays
  <2>5. Settles(p, o) BY <1>3, <2>2, <2>3, <2>4, KeptSettles, SettlesSame
  <2> QED BY <2>5 DEF o
<1>7. CASE ~(act.kind = "close") /\ ~(act.kind = "partial" /\ act.volume > 0) /\ ~(act.kind = "stop")
  <2>1. o = Kept(p) BY <1>7 DEF Performed
  <2> QED BY <1>3, <2>1, KeptSettles
<1> QED BY <1>4, <1>5, <1>6, <1>7

LEMMA RuledSettles ==
  ASSUME NEW p, Held(p), CfgNumbers(cfg), NEW price \in Nat \ {0}, NEW time, NEW reverse
  PROVE  Settles(p, Ruled(p, price, time, reverse))
<1> DEFINE act == Evaluate(p, price, cfg.policy, Calm(time), reverse)
<1>1. MarketNumbers(Calm(time)) /\ ManagedNumbers(cfg.policy) BY DEF MarketNumbers, Calm, CfgNumbers
<1>2. Row(p) /\ RestWaits(p) /\ p.levels = {} BY DEF Held, RestWaits
<1>3. Asks(p, act, price)
  <2> DEFINE market == Calm(time)
  <2>1. MarketNumbers(market) BY <1>1
  <2> HIDE DEF market
  <2>2. Asks(p, Evaluate(p, price, cfg.policy, market, reverse), price) BY <1>1, <1>2, <2>1, EvaluateIs
  <2> QED BY <2>2 DEF market
<1> HIDE DEF act
<1>4. Settles(p, Performed(p, act, price)) BY <1>3, PerformedSettles
<1> QED BY <1>4 DEF Ruled, act

LEMMA WatchedIs ==
  ASSUME NEW p, Held(p), NEW price \in Int
  PROVE  LET q == Watched(p, price) IN Held(q) /\ q.rem = p.rem /\ q.dir = p.dir
<1> DEFINE q == Watched(p, price)
<1>1. Best(p, price) \in Int BY HeldIs, BestIsNumber
<1>2. /\ DOMAIN q = DOMAIN p /\ q.st = p.st /\ q.dir = p.dir /\ q.vol = p.vol /\ q.rem = p.rem
      /\ q.entry = p.entry /\ q.risk = p.risk /\ q.levels = p.levels
      /\ q.sl = p.sl /\ q.tp = p.tp /\ q.fav = Best(p, price) BY HeldIs DEF Watched
<1>3. p.sl \in Int /\ p.sl > 0 /\ p.tp \in Nat BY HeldIs
<1> HIDE DEF q
<1>4. Held(q) BY <1>1, <1>2, <1>3, HeldStays
<1> QED BY <1>2, <1>4 DEF q

(* A tick. *)
LEMMA TickSettles ==
  ASSUME NEW p, Held(p), CfgNumbers(cfg), NEW quote,
         quote.bid \in Nat \ {0}, quote.ask \in Nat \ {0}
  PROVE  Settles(p, TickExit(p, quote))
<1> DEFINE mark == MarkOf(p, quote)
    q == Watched(p, mark)
    o == Ruled(q, mark, now.bars - 1, FALSE)
    later == MarkOf(o.pos, quote)
    why == HardExit(o.pos, later)
    c == CloseAtPrice(o.pos, later, Active(o.pos), why)
<1>1. TickExit(p, quote) = IF o.pos.st # "open" \/ why = "hold" THEN o ELSE Then(o, c)
  BY DEF TickExit, AfterRules
<1>2. \A r : MarkOf(r, quote) \in Nat \ {0} BY DEF MarkOf
<1>7. mark \in Nat \ {0} /\ later \in Int
  <2> HIDE DEF o
  <2> QED BY <1>2
<1> HIDE DEF mark
<1>3. Held(q) /\ q.rem = p.rem /\ q.dir = p.dir BY <1>7, WatchedIs
<1> HIDE DEF q
<1>4. Settles(q, o) BY <1>7, <1>3, RuledSettles
<1> HIDE DEF o
<1>5. Settles(p, o) BY <1>3, <1>4, SettlesSame
<1>6. CASE o.pos.st = "open"
  <2>1. Held(o.pos) /\ Active(o.pos) = o.pos.rem /\ o.pos.rem \in Nat BY <1>5, <1>6, HeldIs DEF Settles
  <2> HIDE DEF why, later
  <2>2. Settles(o.pos, c) BY <1>7, <2>1, CloseSettles
  <2> DEFINE t == Then(o, c)
  <2> HIDE DEF c
  <2>3. /\ t.pos = c.pos /\ t.gain = c.gain + o.gain /\ t.net = c.net + o.net
        /\ {"pos", "gain", "net"} \subseteq DOMAIN t BY <2>2 DEF Then, Settles
  <2> HIDE DEF t
  <2> DEFINE first == p.rem - o.pos.rem
      second == o.pos.rem - c.pos.rem
  <2>4. /\ first \in Int /\ second \in Int /\ cfg.perLot \in Int
        /\ first + second = p.rem - c.pos.rem BY <1>5, <2>2, HeldIs DEF Settles, CfgNumbers
  <2>5. o.gain - o.net = first * cfg.perLot /\ c.gain - c.net = second * cfg.perLot BY <1>5, <2>2 DEF Settles
  <2>6. /\ o.gain \in Int /\ o.net \in Int /\ c.gain \in Int /\ c.net \in Int BY <1>5, <2>2 DEF Settles
  <2> HIDE DEF first, second
  <2>7. first * cfg.perLot + second * cfg.perLot = (first + second) * cfg.perLot BY <2>4
  <2>8. t.gain - t.net = (p.rem - c.pos.rem) * cfg.perLot
    <3> DEFINE a == first * cfg.perLot
        b == second * cfg.perLot
    <3>1. a \in Int /\ b \in Int /\ a + b = (p.rem - c.pos.rem) * cfg.perLot BY <2>4, <2>7, Products
    <3>2. o.gain - o.net = a /\ c.gain - c.net = b BY <2>5
    <3> HIDE DEF a, b
    <3> QED BY <2>3, <2>6, <3>1, <3>2
  <2>9. /\ t.gain \in Int /\ t.net \in Int /\ t.pos.rem \in Int /\ t.pos.dir = p.dir
        /\ IF t.pos.st = "open" THEN Held(t.pos) ELSE t.pos.rem = 0 BY <1>5, <2>2, <2>3, <2>6 DEF Settles
  <2>10. Settles(p, t) BY <2>3, <2>8, <2>9 DEF Settles
  <2> QED BY <1>1, <1>5, <2>10 DEF t
<1> QED BY <1>1, <1>5, <1>6

(* A bar, its close, and the end of the test. *)
LEMMA BarSettles ==
  ASSUME NEW p, Held(p), CfgNumbers(cfg)
  PROVE  Settles(p, BarExit(p))
<1> DEFINE o == BarExit(p)
<1>1. /\ Active(p) = p.rem /\ p.rem \in Nat /\ p.sl \in Int /\ p.sl > 0 /\ p.tp \in Nat /\ p.fav \in Int
      /\ {"done", "tp"} \subseteq DOMAIN p /\ cfg.perLot \in Int BY HeldIs DEF CfgNumbers
<1>2. CASE Unstaged(p) /\ AtTarget(p)
  <2> DEFINE q == [p EXCEPT !.done = @ \union {SignalTarget}, !.tp = 0]
      volume == Share(Active(p), cfg.policy.signalShare)
  <2>1. cfg.policy.signalShare \in Nat BY <1>2 DEF Unstaged, CfgNumbers, ManagedNumbers
  <2>2. volume \in Nat BY <1>1, <2>1, ShareIsNatural
  <2>3. o = CloseAtPrice(q, p.tp, volume, "signal_take_profit_partial") BY <1>2 DEF BarExit
  <2>4. /\ DOMAIN q = DOMAIN p /\ q.st = p.st /\ q.dir = p.dir /\ q.vol = p.vol /\ q.rem = p.rem
        /\ q.entry = p.entry /\ q.risk = p.risk /\ q.levels = p.levels
        /\ q.sl = p.sl /\ q.tp = 0 /\ q.fav = p.fav BY <1>1
  <2> HIDE DEF q, o, volume
  <2>5. Held(q) BY <1>1, <2>4, HeldStays
  <2>6. Settles(p, o) BY <1>1, <2>2, <2>3, <2>4, <2>5, CloseSettles, SettlesSame
  <2> QED BY <2>6 DEF o
<1>3. CASE ~(Unstaged(p) /\ AtTarget(p))
  <2>1. \/ o = CloseAtPrice(p, p.sl, Active(p), "stop_loss")
        \/ o = CloseAtPrice(p, p.tp, Active(p), "take_profit")
        \/ o = Kept(p) BY <1>3 DEF BarExit
  <2> QED BY <1>1, <2>1, CloseSettles, KeptSettles
<1> QED BY <1>2, <1>3

LEMMA AtCloseSettles ==
  ASSUME NEW p, Held(p), CfgNumbers(cfg), bar \in BarRecord, NEW reversed
  PROVE  /\ Settles(p, CloseExit(p, reversed))
         /\ Settles(p, LastExit(p)) /\ LastExit(p).pos.st = "closed"
<1> DEFINE best == IF p.dir = "buy" THEN bar.h ELSE bar.l
    q == Watched(p, best)
    reverse == reversed # "none" /\ p.dir # reversed
<1>1. best \in Int /\ bar.c \in Nat \ {0} /\ bar.c \in Int BY DEF BarRecord, Price
<1> HIDE DEF best
<1>2. Held(q) /\ q.rem = p.rem /\ q.dir = p.dir BY <1>1, WatchedIs
<1> HIDE DEF q, reverse
<1>3. Settles(q, Ruled(q, bar.c, now.bars, reverse)) BY <1>1, <1>2, RuledSettles
<1>4. CloseExit(p, reversed) = Ruled(q, bar.c, now.bars, reverse) BY DEF CloseExit, best, q, reverse
<1>5. Settles(p, CloseExit(p, reversed)) BY <1>2, <1>3, <1>4, SettlesSame
<1>6. Active(p) = p.rem /\ p.rem \in Nat BY HeldIs
<1>7. /\ Settles(p, CloseAtPrice(p, bar.c, Active(p), "end_of_test"))
      /\ CloseAtPrice(p, bar.c, Active(p), "end_of_test").pos.st = "closed" BY <1>1, <1>6, CloseSettles
<1> QED BY <1>5, <1>7 DEF LastExit

----------------------------------------
(* What the replay makes of all positions. *)

Positions(list) == IsFiniteSet(DOMAIN list) /\ \A n \in DOMAIN list : Held(list[n])
Commissions(list) == SumFunction([n \in DOMAIN list |-> list[n].rem * cfg.perLot])

LEMMA CommissionsAre ==
  ASSUME NEW list, Positions(list), CfgNumbers(cfg)
  PROVE  /\ [n \in DOMAIN list |-> list[n].rem * cfg.perLot] \in [DOMAIN list -> Int]
         /\ Commissions(list) \in Int
<1>1. \A n \in DOMAIN list : list[n].rem \in Int BY HeldIs DEF Positions
<1>2. cfg.perLot \in Int BY DEF CfgNumbers
<1>3. \A n \in DOMAIN list : list[n].rem * cfg.perLot \in Int BY <1>1, <1>2, Products
<1> DEFINE f == [n \in DOMAIN list |-> list[n].rem * cfg.perLot]
<1>4. f \in [DOMAIN list -> Int] BY <1>3
<1>5. SumFunction(f) \in Int
  <2> HIDE DEF f
  <2> QED BY <1>4, SumWithout DEF Positions
<1> QED BY <1>4, <1>5 DEF Commissions

(* Positions settled one by one leave the account as far apart from the
   trades as the commissions of what is still open. *)
LEMMA ExitAddsUp ==
  ASSUME Positions(open), CfgNumbers(cfg), NEW result, Exit(result), cfg' = cfg,
         \A n \in DOMAIN open : Settles(open[n], result[n]),
         balance \in Int, net \in Int
  PROVE  /\ balance' \in Int /\ net' \in Int
         /\ balance' - net' - (balance - net) = Commissions(open) - Commissions(open')
         /\ Positions(open') /\ DOMAIN open' \subseteq DOMAIN open
         /\ \A n \in DOMAIN open' : open'[n].dir = open[n].dir
         /\ (\A n \in DOMAIN open : result[n].pos.st = "closed") => DOMAIN open' = {}
<1> DEFINE S == DOMAIN open
    left == {n \in S : result[n].pos.st = "open"}
    gains == [n \in S |-> result[n].gain]
    nets == [n \in S |-> result[n].net]
    before == [n \in S |-> open[n].rem * cfg.perLot]
    after == [n \in S |-> result[n].pos.rem * cfg.perLot]
<1>1. /\ open' = [n \in left |-> result[n].pos]
      /\ balance' = balance + SumFunction(gains) /\ net' = net + SumFunction(nets) BY DEF Exit
<1>2. IsFiniteSet(S) /\ left \in SUBSET S /\ IsFiniteSet(left) BY FS_Subset DEF Positions
<1>3. cfg.perLot \in Int /\ \A n \in S : open[n].rem \in Int BY HeldIs DEF CfgNumbers, Positions
<1>4. ASSUME NEW n \in S
      PROVE  /\ result[n].gain \in Int /\ result[n].net \in Int /\ result[n].pos.rem \in Int
             /\ result[n].gain - result[n].net = (open[n].rem - result[n].pos.rem) * cfg.perLot
             /\ result[n].pos.dir = open[n].dir
             /\ result[n].pos.st = "open" => Held(result[n].pos)
             /\ result[n].pos.st # "open" => result[n].pos.rem = 0 BY DEF Settles
<1>5. /\ gains \in [S -> Int] /\ nets \in [S -> Int] BY <1>4
<1>6. before \in [S -> Int] /\ after \in [S -> Int] BY <1>3, <1>4, Products
<1>7. \A n \in S : gains[n] + after[n] = nets[n] + before[n]
  <2> SUFFICES ASSUME NEW n \in S PROVE gains[n] + after[n] = nets[n] + before[n] OBVIOUS
  <2> DEFINE a == open[n].rem
      b == result[n].pos.rem
  <2>1. a \in Int /\ b \in Int BY <1>3, <1>4
  <2>2. before[n] = a * cfg.perLot /\ after[n] = b * cfg.perLot OBVIOUS
  <2>3. gains[n] \in Int /\ nets[n] \in Int /\ gains[n] - nets[n] = (a - b) * cfg.perLot BY <1>4
  <2> HIDE DEF a, b, gains, nets, before, after
  <2>4. (a - b) * cfg.perLot = a * cfg.perLot - b * cfg.perLot BY <1>3, <2>1
  <2>5. before[n] \in Int /\ after[n] \in Int BY <1>6
  <2> QED BY <2>2, <2>3, <2>4, <2>5
<1>8. Commissions(open) = SumFunction(before) BY DEF Commissions
<1>9. Commissions(open') = SumFunction([n \in left |-> after[n]])
  <2>1. [n \in DOMAIN open' |-> open'[n].rem * cfg'.perLot] = [n \in left |-> after[n]] BY <1>1, <1>2
  <2> QED BY <2>1 DEF Commissions
<1>10. \A n \in S \ left : after[n] = 0
  <2> SUFFICES ASSUME NEW n \in S \ left PROVE after[n] = 0 OBVIOUS
  <2>1. result[n].pos.rem = 0 BY <1>4
  <2> QED BY <1>3, <2>1
<1>11. \A n \in left : Held(result[n].pos) /\ result[n].pos.dir = open[n].dir BY <1>4
<1>12. Positions(open') /\ DOMAIN open' = left /\ \A n \in DOMAIN open' : open'[n].dir = open[n].dir
  BY <1>1, <1>2, <1>11 DEF Positions
<1>13. (\A n \in S : result[n].pos.st = "closed") => left = {} OBVIOUS
<1> HIDE DEF gains, nets, before, after, left
<1>14. SumFunction([n \in S |-> gains[n] + after[n]]) = SumFunction(gains) + SumFunction(after)
  BY <1>2, <1>5, <1>6, SumsAdd
<1>15. SumFunction([n \in S |-> nets[n] + before[n]]) = SumFunction(nets) + SumFunction(before)
  BY <1>2, <1>5, <1>6, SumsAdd
<1>16. [n \in S |-> gains[n] + after[n]] = [n \in S |-> nets[n] + before[n]] BY <1>7
<1>17. SumFunction(after) = Commissions(open') BY <1>2, <1>6, <1>9, <1>10, SumOfTheRest
<1>18. /\ SumFunction(gains) \in Int /\ SumFunction(nets) \in Int
       /\ SumFunction(before) \in Int /\ SumFunction(after) \in Int BY <1>2, <1>5, <1>6, SumWithout
<1>19. SumFunction(gains) + Commissions(open') = SumFunction(nets) + Commissions(open)
  BY <1>8, <1>14, <1>15, <1>16, <1>17
<1> HIDE DEF S
<1>20. balance' \in Int /\ net' \in Int
       /\ balance' - net' - (balance - net) = Commissions(open) - Commissions(open')
  <2> DEFINE g == SumFunction(gains)
      m == SumFunction(nets)
      x == Commissions(open)
      y == Commissions(open')
  <2>1. g \in Int /\ m \in Int /\ x \in Int /\ y \in Int /\ g + y = m + x BY <1>8, <1>17, <1>18, <1>19
  <2>2. balance' = balance + g /\ net' = net + m BY <1>1
  <2> HIDE DEF g, m, x, y
  <2>3. balance' \in Int /\ net' \in Int /\ balance' - net' - (balance - net) = x - y BY <2>1, <2>2
  <2> QED BY <2>3 DEF x, y
<1> QED BY <1>2, <1>12, <1>13, <1>20 DEF S

----------------------------------------
(* What waits and is due. *)

(* The limits of strategy and template. *)
WithinLimits(list) ==
  /\ Cardinality(DOMAIN list) <= cfg.total
  /\ \A d \in {"buy", "sell"} : Cardinality(Towards(d, list)) <= cfg.same
  /\ cfg.conflict # "allow_opposite" => \A m, n \in DOMAIN list : list[m].dir = list[n].dir

OrderFields(o) ==
  /\ o.dir \in {"buy", "sell"} /\ o.stop \in Nat \ {0} /\ o.target \in Nat
  /\ o.vol \in Nat /\ o.vol >= Step

LEMMA FewerWithinLimits ==
  ASSUME NEW list, IsFiniteSet(DOMAIN list), WithinLimits(list), CfgNumbers(cfg),
         NEW less, DOMAIN less \subseteq DOMAIN list, \A n \in DOMAIN less : less[n].dir = list[n].dir
  PROVE  WithinLimits(less)
<1>1. \A d : Towards(d, less) \in SUBSET Towards(d, list) /\ Towards(d, list) \in SUBSET DOMAIN list
  BY DEF Towards
<1>2. \A d : IsFiniteSet(Towards(d, list)) BY <1>1, FS_Subset
<1>3. \A d : /\ Cardinality(Towards(d, less)) <= Cardinality(Towards(d, list))
             /\ Cardinality(Towards(d, less)) \in Nat /\ Cardinality(Towards(d, list)) \in Nat
  BY <1>1, <1>2, FS_Subset, FS_CardinalityType
<1>4. /\ Cardinality(DOMAIN less) <= Cardinality(DOMAIN list)
      /\ Cardinality(DOMAIN less) \in Nat /\ Cardinality(DOMAIN list) \in Nat BY FS_Subset, FS_CardinalityType
<1>5. cfg.total \in Nat /\ cfg.same \in Nat BY DEF CfgNumbers
<1> QED BY <1>3, <1>4, <1>5 DEF WithinLimits

(* The position a fill opens. *)
LEMMA PositionIsHeld ==
  ASSUME NEW o, OrderFields(o), CfgNumbers(cfg), NEW price \in Nat \ {0}
  PROVE  LET p == Position(o, EntryPrice(o, price)) IN Held(p) /\ p.rem = o.vol /\ p.dir = o.dir
<1> DEFINE entry == EntryPrice(o, price)
    p == Position(o, entry)
<1>1. entry \in Int
  <2> DEFINE worse == cfg.spread \div 2 + cfg.slip
  <2>1. worse \in Int BY DEF CfgNumbers
  <2> HIDE DEF worse
  <2>2. price + Sign(o.dir) * worse \in Int BY <2>1, OutwardIsNumber
  <2> QED BY <2>2 DEF EntryPrice, worse
<1> HIDE DEF entry
<1>2. Away(entry, o.stop) \in Int
  <2>1. o.stop \in Int BY DEF OrderFields
  <2>2. Away(entry, o.stop) \in Nat BY <1>1, <2>1, AwayIsNatural
  <2> QED BY <2>2
<1>3. Levels({}, o.dir) BY FS_EmptySet DEF Levels
<1>4. Held(p) BY <1>1, <1>2, <1>3 DEF Held, Row, Position, OrderFields, Step
<1> QED BY <1>4 DEF Position, entry

(* One position more: its commission is added, and the limits hold if there
   was room for it. *)
LEMMA AddedIs ==
  ASSUME NEW list, Positions(list), CfgNumbers(cfg), NEW n, n \notin DOMAIN list, NEW p, Held(p)
  PROVE  /\ Positions(Added(list, n, p)) /\ DOMAIN Added(list, n, p) = DOMAIN list \union {n}
         /\ Commissions(Added(list, n, p)) = Commissions(list) + p.rem * cfg.perLot
         /\ WithinLimits(list) /\ ~Limited(p.dir, list) => WithinLimits(Added(list, n, p))
<1> DEFINE more == Added(list, n, p)
    S == DOMAIN list \union {n}
<1>1. /\ DOMAIN more = S /\ more[n] = p /\ \A m \in DOMAIN list : more[m] = list[m]
      /\ \A m \in S : more[m] = p \/ (m \in DOMAIN list /\ more[m] = list[m]) BY DEF Added
<1> HIDE DEF more
<1>2. IsFiniteSet(DOMAIN list) /\ IsFiniteSet(S) /\ Cardinality(S) = Cardinality(DOMAIN list) + 1
      /\ Cardinality(DOMAIN list) \in Nat BY FS_AddElement, FS_CardinalityType DEF Positions
<1>3. Positions(more) BY <1>1, <1>2 DEF Positions
<1>4. Commissions(more) = Commissions(list) + p.rem * cfg.perLot
  <2> DEFINE f == [m \in DOMAIN more |-> more[m].rem * cfg.perLot]
  <2>1. f \in [S -> Int] /\ n \in S BY <1>1, <1>3, CommissionsAre
  <2>2. f[n] = p.rem * cfg.perLot /\ f[n] \in Int BY <1>1, <2>1
  <2>3. [m \in S \ {n} |-> f[m]] = [m \in DOMAIN list |-> list[m].rem * cfg.perLot]
    <3>1. S \ {n} = DOMAIN list OBVIOUS
    <3> QED BY <1>1, <3>1
  <2>4. SumFunction(f) = Commissions(more) BY DEF Commissions
  <2> HIDE DEF f, S
  <2>5. SumFunction(f) = f[n] + SumFunction([m \in S \ {n} |-> f[m]]) BY <1>2, <2>1, SumWithout
  <2>6. SumFunction(f) = f[n] + Commissions(list) BY <2>3, <2>5 DEF Commissions
  <2>7. Commissions(list) \in Int BY CommissionsAre
  <2> QED BY <2>2, <2>4, <2>6, <2>7
<1>5. ASSUME WithinLimits(list), ~Limited(p.dir, list) PROVE WithinLimits(more)
  <2> DEFINE same == Cardinality(Towards(p.dir, list))
      all == Cardinality(DOMAIN list)
  <2>1. /\ ~(all >= cfg.total) /\ ~(same + 1 > cfg.same)
        /\ ~(all > same /\ cfg.conflict \in {"block", "allow_same"}) BY <1>5 DEF Limited
  <2>2. cfg.total \in Nat /\ cfg.same \in Nat /\ cfg.conflict \in {"block", "allow_same", "allow_opposite"}
    BY DEF CfgNumbers
  <2>3. Towards(p.dir, list) \in SUBSET DOMAIN list BY DEF Towards
  <2>4. IsFiniteSet(Towards(p.dir, list)) /\ same \in Nat /\ same <= all
        /\ (all = same => DOMAIN list = Towards(p.dir, list)) BY <1>2, <2>3, FS_Subset, FS_CardinalityType
  <2>5. Towards(p.dir, more) = Towards(p.dir, list) \union {n} BY <1>1 DEF Towards
  <2>6. Cardinality(Towards(p.dir, more)) = same + 1 BY <2>3, <2>4, <2>5, FS_AddElement
  <2>7. \A d : d # p.dir => Towards(d, more) = Towards(d, list) BY <1>1 DEF Towards
  <2>8. \A d \in {"buy", "sell"} : Cardinality(Towards(d, more)) <= cfg.same
    BY <1>5, <2>1, <2>2, <2>4, <2>6, <2>7 DEF WithinLimits
  <2>9. cfg.conflict # "allow_opposite" => \A m, k \in S : more[m].dir = more[k].dir
    <3> SUFFICES ASSUME cfg.conflict # "allow_opposite" PROVE \A m \in S : more[m].dir = p.dir OBVIOUS
    <3>1. all = same BY <1>2, <2>1, <2>2, <2>4
    <3>2. \A m \in DOMAIN list : list[m].dir = p.dir BY <2>4, <3>1 DEF Towards
    <3> QED BY <1>1, <3>2
  <2>10. Cardinality(S) <= cfg.total BY <1>2, <2>1, <2>2
  <2> QED BY <1>1, <2>8, <2>9, <2>10 DEF WithinLimits
<1> QED BY <1>1, <1>3, <1>4, <1>5 DEF more

----------------------------------------
(* Order after order. *)

AfterEach(a, k, ripe, buy, sell) ==
  a = [n \in 0..k |->
         IF n = 0 THEN [open |-> open, filled |-> 0, rejected |-> 0, cost |-> 0]
         ELSE IF n \in DOMAIN ripe
         THEN Filled(a[n - 1], n, ripe[n], IF ripe[n].dir = "buy" THEN buy ELSE sell)
         ELSE a[n - 1]]

LEMMA EachIsDefined ==
  ASSUME NEW ripe, NEW buy, NEW sell, NEW n \in Nat
  PROVE  \E a : AfterEach(a, n, ripe, buy, sell)
<1> DEFINE none == [open |-> open, filled |-> 0, rejected |-> 0, cost |-> 0]
    From(acc, k) == IF k \in DOMAIN ripe
                    THEN Filled(acc, k, ripe[k], IF ripe[k].dir = "buy" THEN buy ELSE sell)
                    ELSE acc
    To(a, k) == a = [j \in 0..k |-> IF j = 0 THEN none ELSE From(a[j - 1], j)]
<1>1. \A a, k : To(a, k) <=> AfterEach(a, k, ripe, buy, sell) BY DEF AfterEach
<1> HIDE DEF From, none
<1> DEFINE Missing == {k \in Nat : ~ \E a : To(a, k)}
<1> SUFFICES ASSUME Missing # {} PROVE FALSE BY <1>1
<1>2. PICK m \in Missing : \A k \in Missing : m <= k
  <2>1. Missing \in SUBSET Nat OBVIOUS
  <2> HIDE DEF Missing
  <2> QED BY <2>1, E!NumbersHaveLeast
<1>3. m \in Nat /\ ~ \E a : To(a, m) OBVIOUS
<1>4. CASE m = 0
  <2> DEFINE g == [j \in 0..m |-> none]
  <2>1. To(g, m) BY <1>4
  <2> QED BY <1>3, <2>1
<1>5. CASE m # 0
  <2>1. m - 1 \in Nat /\ m - 1 \notin Missing
    <3> HIDE DEF Missing
    <3> QED BY <1>2, <1>3, <1>5
  <2>2. PICK a : To(a, m - 1) BY <2>1
  <2> DEFINE g == [j \in 0..m |-> IF j = 0 THEN none ELSE From(a[j - 1], j)]
  <2>3. ASSUME NEW j \in 0..m, j # 0 PROVE g[j - 1] = a[j - 1]
    <3>1. j - 1 \in 0..(m - 1) /\ j - 1 \in 0..m BY <1>3, <2>3
    <3>2. a[j - 1] = IF j - 1 = 0 THEN none ELSE From(a[j - 1 - 1], j - 1) BY <2>2, <3>1
    <3> QED BY <3>1, <3>2
  <2>4. To(g, m)
    <3>1. \A j \in 0..m : (IF j = 0 THEN none ELSE From(a[j - 1], j))
                            = IF j = 0 THEN none ELSE From(g[j - 1], j)
      <4> HIDE DEF g
      <4> QED BY <2>3
    <3> DEFINE h == [j \in 0..m |-> IF j = 0 THEN none ELSE From(g[j - 1], j)]
    <3>2. g = h BY <3>1
    <3> QED BY <3>2
  <2> QED BY <1>3, <2>4
<1> QED BY <1>4, <1>5

(* What there is after the first n. *)
Before(n, ripe) == {m \in DOMAIN ripe : m <= n}
Counted(acc, n, ripe) ==
  /\ {"open", "filled", "rejected", "cost"} \subseteq DOMAIN acc
  /\ Positions(acc.open) /\ DOMAIN acc.open \subseteq DOMAIN open \union Before(n, ripe)
  /\ acc.cost \in Int /\ Commissions(acc.open) = Commissions(open) + acc.cost
  /\ acc.filled \in Nat /\ acc.rejected \in Nat
  /\ acc.filled + acc.rejected = Cardinality(Before(n, ripe))
  /\ WithinLimits(acc.open)

LEMMA OneMore ==
  ASSUME CfgNumbers(cfg), NEW ripe, IsFiniteSet(DOMAIN ripe), DOMAIN ripe \subseteq Nat,
         DOMAIN ripe \cap DOMAIN open = {}, \A n \in DOMAIN ripe : OrderFields(ripe[n]),
         NEW price \in Nat \ {0}, NEW n \in DOMAIN ripe, NEW acc, Counted(acc, n - 1, ripe),
         Commissions(open) \in Int
  PROVE  Counted(Filled(acc, n, ripe[n], price), n, ripe)
<1> DEFINE o == ripe[n]
    entry == EntryPrice(o, price)
    p == Position(o, entry)
<1>1. OrderFields(o) OBVIOUS
<1>2. Held(p) /\ p.rem = o.vol /\ p.dir = o.dir BY <1>1, PositionIsHeld
<1>3. /\ IsFiniteSet(Before(n - 1, ripe)) /\ Before(n, ripe) = Before(n - 1, ripe) \union {n}
      /\ n \notin Before(n - 1, ripe)
  <2>1. Before(n - 1, ripe) \in SUBSET DOMAIN ripe BY DEF Before
  <2>2. IsFiniteSet(Before(n - 1, ripe)) BY <2>1, FS_Subset
  <2>3. n \in Nat /\ n \notin Before(n - 1, ripe) BY DEF Before
  <2>4. \A m \in DOMAIN ripe : m <= n <=> m <= n - 1 \/ m = n BY <2>3
  <2> QED BY <2>2, <2>3, <2>4 DEF Before
<1>4. /\ Cardinality(Before(n, ripe)) = Cardinality(Before(n - 1, ripe)) + 1
      /\ Cardinality(Before(n - 1, ripe)) \in Nat BY <1>3, FS_AddElement, FS_CardinalityType
<1>5. o.vol \in Int /\ cfg.perLot \in Int /\ o.vol * cfg.perLot \in Int
  <2>1. o.vol \in Int /\ cfg.perLot \in Int BY <1>1 DEF CfgNumbers, OrderFields
  <2> QED BY <2>1, Products
<1> DEFINE fee == o.vol * cfg.perLot
<1>6. Filled(acc, n, ripe[n], price) =
        IF Limited(o.dir, acc.open) \/ ~Fillable(o, entry) THEN Declined(acc)
        ELSE Accepted(acc, n, o, entry) BY DEF Filled
<1>7. Accepted(acc, n, o, entry) = [open |-> Added(acc.open, n, p), filled |-> acc.filled + 1,
                                     rejected |-> acc.rejected, cost |-> acc.cost + fee] BY DEF Accepted
<1>8. n \notin DOMAIN acc.open BY <1>3 DEF Counted
<1> HIDE DEF entry, p, fee
<1>9. Counted(Declined(acc), n, ripe)
  <2> DEFINE d == Declined(acc)
  <2>1. /\ {"open", "filled", "rejected", "cost"} \subseteq DOMAIN d /\ d.open = acc.open
        /\ d.filled = acc.filled /\ d.rejected = acc.rejected + 1 /\ d.cost = acc.cost BY DEF Declined, Counted
  <2> HIDE DEF d
  <2>2. Counted(d, n, ripe) BY <1>3, <1>4, <2>1 DEF Counted
  <2> QED BY <2>2 DEF d
<1>10. ASSUME ~Limited(o.dir, acc.open) PROVE Counted(Accepted(acc, n, o, entry), n, ripe)
  <2> DEFINE d == Accepted(acc, n, o, entry)
      more == Added(acc.open, n, p)
  <2>1. /\ {"open", "filled", "rejected", "cost"} \subseteq DOMAIN d /\ d.open = more
        /\ d.filled = acc.filled + 1 /\ d.rejected = acc.rejected /\ d.cost = acc.cost + fee BY <1>7
  <2>2. Positions(acc.open) /\ WithinLimits(acc.open) /\ ~Limited(p.dir, acc.open) BY <1>2, <1>10 DEF Counted
  <2>3. /\ Positions(more) /\ DOMAIN more = DOMAIN acc.open \union {n}
        /\ Commissions(more) = Commissions(acc.open) + p.rem * cfg.perLot
        /\ WithinLimits(more) BY <1>2, <1>8, <2>2, AddedIs
  <2>4. Commissions(more) = Commissions(acc.open) + fee /\ fee \in Int BY <1>2, <1>5, <2>3 DEF fee
  <2> HIDE DEF d, more
  <2>5. Counted(d, n, ripe) BY <1>3, <1>4, <2>1, <2>3, <2>4 DEF Counted
  <2> QED BY <2>5 DEF d
<1> HIDE DEF o
<1> QED BY <1>6, <1>9, <1>10 DEF o

LEMMA CountedAt ==
  ASSUME CfgNumbers(cfg), NEW ripe, IsFiniteSet(DOMAIN ripe), DOMAIN ripe \subseteq Nat \ {0},
         DOMAIN ripe \cap DOMAIN open = {}, \A n \in DOMAIN ripe : OrderFields(ripe[n]),
         NEW buy \in Nat \ {0}, NEW sell \in Nat \ {0}, Positions(open), WithinLimits(open),
         NEW k \in Nat, NEW a, AfterEach(a, k, ripe, buy, sell)
  PROVE  Counted(a[k], k, ripe)
<1> DEFINE none == [open |-> open, filled |-> 0, rejected |-> 0, cost |-> 0]
    Bad == {n \in 0..k : ~Counted(a[n], n, ripe)}
<1> SUFFICES ASSUME Bad # {} PROVE FALSE
  <2>1. k \in 0..k OBVIOUS
  <2> QED BY <2>1
<1>1. PICK n \in Bad : \A m \in Bad : n <= m
  <2>1. Bad \in SUBSET Nat OBVIOUS
  <2> HIDE DEF Bad
  <2> QED BY <2>1, E!NumbersHaveLeast
<1>2. n \in 0..k /\ ~Counted(a[n], n, ripe) OBVIOUS
<1>3. Commissions(open) \in Int BY CommissionsAre
<1>4. CASE n = 0
  <2>1. a[0] = none BY <1>2, <1>4 DEF AfterEach
  <2>2. Before(0, ripe) = {} /\ Cardinality({}) = 0 BY FS_EmptySet DEF Before
  <2>3. Counted(none, 0, ripe) BY <1>3, <2>2 DEF Counted
  <2> QED BY <1>2, <1>4, <2>1, <2>3
<1>5. CASE n # 0
  <2>1. n - 1 \in 0..k /\ n - 1 \notin Bad
    <3> HIDE DEF Bad
    <3> QED BY <1>1, <1>2, <1>5
  <2>2. Counted(a[n - 1], n - 1, ripe) BY <2>1
  <2> HIDE DEF Bad
  <2>3. CASE n \in DOMAIN ripe
    <3> DEFINE price == IF ripe[n].dir = "buy" THEN buy ELSE sell
    <3>1. a[n] = Filled(a[n - 1], n, ripe[n], price) BY <1>2, <1>5, <2>3 DEF AfterEach
    <3>2. price \in Nat \ {0} /\ DOMAIN ripe \subseteq Nat OBVIOUS
    <3> HIDE DEF price
    <3>3. Counted(Filled(a[n - 1], n, ripe[n], price), n, ripe) BY <1>3, <2>2, <2>3, <3>2, OneMore
    <3> QED BY <1>2, <3>1, <3>3
  <2>4. CASE n \notin DOMAIN ripe
    <3>1. a[n] = a[n - 1] BY <1>2, <1>5, <2>4 DEF AfterEach
    <3>2. Before(n, ripe) = Before(n - 1, ripe)
      <4>1. \A m \in DOMAIN ripe : m <= n <=> m <= n - 1 BY <1>2, <2>4
      <4> QED BY <4>1 DEF Before
    <3> QED BY <1>2, <2>2, <3>1, <3>2 DEF Counted
  <2> QED BY <2>3, <2>4
<1> QED BY <1>4, <1>5

LEMMA AllFilledIs ==
  ASSUME CfgNumbers(cfg), NEW ripe, IsFiniteSet(DOMAIN ripe), tally.created \in Nat,
         DOMAIN ripe \subseteq 1..tally.created,
         DOMAIN ripe \cap DOMAIN open = {}, \A n \in DOMAIN ripe : OrderFields(ripe[n]),
         NEW buy \in Nat \ {0}, NEW sell \in Nat \ {0}, Positions(open), WithinLimits(open)
  PROVE  LET acc == AllFilled(ripe, buy, sell)
         IN  /\ Positions(acc.open) /\ DOMAIN acc.open \subseteq DOMAIN open \union DOMAIN ripe
             /\ acc.cost \in Int /\ Commissions(acc.open) = Commissions(open) + acc.cost
             /\ acc.filled \in Nat /\ acc.rejected \in Nat
             /\ acc.filled + acc.rejected = Cardinality(DOMAIN ripe)
             /\ WithinLimits(acc.open)
<1> DEFINE a == CHOOSE a : AfterEach(a, tally.created, ripe, buy, sell)
<1>1. AllFilled(ripe, buy, sell) = a[tally.created] BY DEF AllFilled, AfterEach
<1>2. AfterEach(a, tally.created, ripe, buy, sell) BY EachIsDefined
<1> HIDE DEF a
<1>3. DOMAIN ripe \subseteq Nat \ {0} OBVIOUS
<1>4. Counted(a[tally.created], tally.created, ripe) BY <1>2, <1>3, CountedAt
<1>5. Before(tally.created, ripe) = DOMAIN ripe BY DEF Before
<1> QED BY <1>1, <1>4, <1>5 DEF Counted

(* The orders of a list that wait have numbers of their own. *)
Waiting(list) == \A n \in DOMAIN list : OrderFields(list[n])
Numbered ==
  /\ tally.created \in Nat /\ tally.filled \in Nat /\ tally.rejected \in Nat /\ tally.canceled \in Nat
  /\ {"created", "filled", "rejected", "canceled"} \subseteq DOMAIN tally
  /\ DOMAIN pend \subseteq 1..tally.created /\ DOMAIN open \subseteq 1..tally.created
  /\ DOMAIN pend \cap DOMAIN open = {}
OrdersAddUp ==
  tally.created = tally.filled + tally.rejected + tally.canceled + Cardinality(DOMAIN pend)

LEMMA FillIs ==
  ASSUME CfgNumbers(cfg), Numbered, Waiting(pend), Positions(open), WithinLimits(open), OrdersAddUp,
         NEW ripe \in SUBSET DOMAIN pend, NEW rest \in SUBSET DOMAIN pend, ripe \cap rest = {},
         NEW buy \in Nat \ {0}, NEW sell \in Nat \ {0}, balance \in Int,
         Fill(ripe, rest, buy, sell), cfg' = cfg
  PROVE  /\ Numbered' /\ Waiting(pend)' /\ Positions(open)' /\ WithinLimits(open)' /\ OrdersAddUp'
         /\ balance' \in Int /\ balance' - balance = Commissions(open) - Commissions(open')
<1> DEFINE some == Restrict(pend, ripe)
    acc == AllFilled(some, buy, sell)
    left == DOMAIN pend \ (ripe \union rest)
<1>1. /\ open' = acc.open /\ balance' = balance - acc.cost /\ pend' = Restrict(pend, left)
      /\ tally' = [tally EXCEPT !.filled = @ + acc.filled, !.rejected = @ + acc.rejected,
                                !.canceled = @ + Cardinality(rest)] BY DEF Fill
<1>2. DOMAIN some = ripe /\ \A n \in ripe : some[n] = pend[n] BY DEF Restrict
<1>3. DOMAIN pend' = left /\ \A n \in left : pend'[n] = pend[n] BY <1>1 DEF Restrict
<1>4. IsFiniteSet(DOMAIN pend) /\ tally.created \in Nat
  <2>1. tally.created \in Nat /\ DOMAIN pend \in SUBSET (1..tally.created) BY DEF Numbered
  <2>2. 1 \in Int /\ tally.created \in Int BY <2>1
  <2>3. IsFiniteSet(1..tally.created) BY <2>2, FS_Interval
  <2> QED BY <2>1, <2>3, FS_Subset
<1> HIDE DEF some
<1>5. IsFiniteSet(ripe) /\ IsFiniteSet(rest) BY <1>4, FS_Subset
<1>6. \A n \in DOMAIN some : OrderFields(some[n]) BY <1>2 DEF Waiting
<1>7. DOMAIN some \subseteq 1..tally.created /\ DOMAIN some \cap DOMAIN open = {} BY <1>2 DEF Numbered
<1>8. /\ Positions(acc.open) /\ DOMAIN acc.open \subseteq DOMAIN open \union ripe
      /\ acc.cost \in Int /\ Commissions(acc.open) = Commissions(open) + acc.cost
      /\ acc.filled \in Nat /\ acc.rejected \in Nat
      /\ acc.filled + acc.rejected = Cardinality(ripe)
      /\ WithinLimits(acc.open) BY <1>2, <1>4, <1>5, <1>6, <1>7, AllFilledIs
<1> HIDE DEF acc
<1>9. /\ Cardinality(DOMAIN pend) = Cardinality(left) + Cardinality(ripe) + Cardinality(rest)
      /\ Cardinality(left) \in Nat /\ Cardinality(ripe) \in Nat /\ Cardinality(rest) \in Nat
  <2>1. ripe \union rest \in SUBSET DOMAIN pend /\ IsFiniteSet(left) BY <1>4, FS_Subset
  <2>2. Cardinality(ripe \union rest) = Cardinality(ripe) + Cardinality(rest) - Cardinality(ripe \cap rest)
    BY <1>5, FS_Union
  <2>3. IsFiniteSet(ripe \union rest) /\ left \cap (ripe \union rest) = {}
        /\ left \union (ripe \union rest) = DOMAIN pend BY <1>5, <2>1, FS_Union
  <2>4. Cardinality(left \union (ripe \union rest))
          = Cardinality(left) + Cardinality(ripe \union rest) - Cardinality(left \cap (ripe \union rest))
    BY <2>1, <2>3, FS_Union
  <2>5. Cardinality({}) = 0 BY FS_EmptySet
  <2>6. Cardinality(left) \in Nat /\ Cardinality(ripe) \in Nat /\ Cardinality(rest) \in Nat
        /\ Cardinality(ripe \union rest) \in Nat BY <1>5, <2>1, <2>3, FS_CardinalityType
  <2> DEFINE gone == ripe \union rest
  <2>7. Cardinality(DOMAIN pend) = Cardinality(left) + Cardinality(gone)
    <3>1. left \union gone = DOMAIN pend /\ left \cap gone = {} BY <2>3
    <3>2. Cardinality(left \union gone) = Cardinality(left) + Cardinality(gone) - Cardinality(left \cap gone)
      BY <2>4
    <3>3. Cardinality(left) \in Nat /\ Cardinality(gone) \in Nat BY <2>6
    <3>4. Cardinality(left \cap gone) = 0 /\ Cardinality(left \union gone) = Cardinality(DOMAIN pend)
      <4> HIDE DEF left, gone
      <4> QED BY <2>5, <3>1
    <3> QED BY <3>2, <3>3, <3>4
  <2>8. Cardinality(gone) = Cardinality(ripe) + Cardinality(rest) BY <2>2, <2>5, <2>6
  <2> HIDE DEF left, gone
  <2> QED BY <2>6, <2>7, <2>8
<1>10. /\ {"created", "filled", "rejected", "canceled"} \subseteq DOMAIN tally'
       /\ tally'.created = tally.created /\ tally'.filled = tally.filled + acc.filled
       /\ tally'.rejected = tally.rejected + acc.rejected
       /\ tally'.canceled = tally.canceled + Cardinality(rest) BY <1>1 DEF Numbered
<1>11. Numbered'
  <2>1. /\ tally'.created \in Nat /\ tally'.filled \in Nat /\ tally'.rejected \in Nat
        /\ tally'.canceled \in Nat BY <1>8, <1>9, <1>10 DEF Numbered
  <2>2. DOMAIN pend' \subseteq 1..tally'.created /\ DOMAIN open' \subseteq 1..tally'.created
    BY <1>1, <1>3, <1>8, <1>10 DEF Numbered
  <2>3. DOMAIN pend' \cap DOMAIN open' = {} BY <1>1, <1>3, <1>8 DEF Numbered
  <2> QED BY <1>10, <2>1, <2>2, <2>3 DEF Numbered
<1>12. Waiting(pend)' BY <1>3 DEF Waiting
<1>13. OrdersAddUp' BY <1>3, <1>8, <1>9, <1>10 DEF OrdersAddUp, Numbered
<1>14. Positions(open)' /\ WithinLimits(open)'
  <2>1. Positions(open') /\ WithinLimits(open') BY <1>1, <1>8
  <2> QED BY <2>1 DEF Positions, WithinLimits, Held, Row, Towards
<1>15. balance' \in Int /\ balance' - balance = Commissions(open) - Commissions(open')
  <2>1. Commissions(open) \in Int /\ Commissions(open') = Commissions(open) + acc.cost
    BY <1>1, <1>8, CommissionsAre
  <2> QED BY <1>1, <1>8, <2>1
<1> QED BY <1>11, <1>12, <1>13, <1>14, <1>15

----------------------------------------
(* The replay, step by step. *)

ReplayInv ==
  /\ CfgNumbers(cfg) /\ bar \in BarRecord /\ balance \in Int /\ net \in Int
  /\ Numbered /\ Waiting(pend) /\ Positions(open) /\ WithinLimits(open) /\ OrdersAddUp
  /\ balance - net = Capital - Commissions(open)
  /\ phase = "done" => DOMAIN pend = {} /\ DOMAIN open = {}

LEMMA ReplayInitially == ReplayInit => ReplayInv
<1> SUFFICES ASSUME ReplayInit PROVE ReplayInv OBVIOUS
<1>1. /\ pend = <<>> /\ open = <<>> /\ balance = Capital /\ net = 0 /\ phase = "next"
      /\ tally = [created |-> 0, filled |-> 0, rejected |-> 0, canceled |-> 0]
      /\ bar \in Bars /\ cfg \in Cfgs BY ReplayAssumption DEF ReplayInit
<1>2. DOMAIN pend = {} /\ DOMAIN open = {} /\ IsFiniteSet({}) /\ Cardinality({}) = 0 BY <1>1, FS_EmptySet
<1>3. CfgNumbers(cfg) /\ bar \in BarRecord /\ Capital \in Int BY <1>1, ReplayAssumption
<1>4. Towards("buy", open) = {} /\ Towards("sell", open) = {} BY <1>2 DEF Towards
<1>5. cfg.total \in Nat /\ cfg.same \in Nat BY <1>3 DEF CfgNumbers
<1>6. WithinLimits(open)
  <2>1. Cardinality(DOMAIN open) = 0 /\ \A d \in {"buy", "sell"} : Cardinality(Towards(d, open)) = 0
    BY <1>2, <1>4
  <2> QED BY <1>2, <1>5, <2>1 DEF WithinLimits
<1>7. Positions(open) /\ Waiting(pend) /\ Numbered /\ OrdersAddUp
  BY <1>1, <1>2 DEF Positions, Waiting, Numbered, OrdersAddUp
<1>8. Commissions(open) = 0
  <2> DEFINE f == [n \in DOMAIN open |-> open[n].rem * cfg.perLot]
  <2>1. DOMAIN f = {} BY <1>2
  <2>2. SumFunction(f) = 0
    <3> HIDE DEF f
    <3> QED BY <2>1, SumOfNone
  <2> QED BY <2>2 DEF Commissions
<1> QED BY <1>1, <1>2, <1>3, <1>6, <1>7, <1>8 DEF ReplayInv

(* What an exit of all positions keeps. *)
LEMMA ExitKeeps ==
  ASSUME ReplayInv, NEW result, Exit(result), cfg' = cfg,
         \A n \in DOMAIN open : Settles(open[n], result[n]), tally'.created = tally.created,
         DOMAIN pend' \subseteq DOMAIN pend, \A n \in DOMAIN pend' : pend'[n] = pend[n],
         tally'.filled \in Nat, tally'.rejected \in Nat, tally'.canceled \in Nat,
         {"created", "filled", "rejected", "canceled"} \subseteq DOMAIN tally', OrdersAddUp',
         bar' \in BarRecord,
         phase' = "done" => DOMAIN pend' = {} /\ \A n \in DOMAIN open : result[n].pos.st = "closed"
  PROVE  ReplayInv'
<1>1. Positions(open) /\ CfgNumbers(cfg) /\ balance \in Int /\ net \in Int BY DEF ReplayInv
<1>2. /\ balance' \in Int /\ net' \in Int
      /\ balance' - net' - (balance - net) = Commissions(open) - Commissions(open')
      /\ Positions(open') /\ DOMAIN open' \subseteq DOMAIN open
      /\ \A n \in DOMAIN open' : open'[n].dir = open[n].dir
      /\ (\A n \in DOMAIN open : result[n].pos.st = "closed") => DOMAIN open' = {} BY <1>1, ExitAddsUp
<1>3. WithinLimits(open') BY <1>1, <1>2, FewerWithinLimits DEF ReplayInv, Positions
<1>4. Positions(open)' /\ WithinLimits(open)' /\ CfgNumbers(cfg)' /\ Waiting(pend)'
  <2>1. CfgNumbers(cfg') /\ Waiting(pend') BY <1>1 DEF ReplayInv, Waiting
  <2> QED BY <1>2, <1>3, <2>1 DEF Positions, WithinLimits, Waiting
<1>5. Numbered' BY <1>2 DEF ReplayInv, Numbered
<1>6. Commissions(open)' = Commissions(open') BY DEF Commissions
<1>7. (balance - net = Capital - Commissions(open))'
  <2>1. balance - net = Capital - Commissions(open) /\ Capital \in Int BY ReplayAssumption DEF ReplayInv
  <2>2. Commissions(open) \in Int /\ Commissions(open') \in Int BY <1>1, <1>2, CommissionsAre
  <2>3. balance' - net' = Capital - Commissions(open')
    <3> DEFINE x == Commissions(open)
        y == Commissions(open')
        a == balance'
        b == net'
        c == balance
        d == net
    <3>1. /\ a \in Int /\ b \in Int /\ c \in Int /\ d \in Int /\ Capital \in Int
          /\ x \in Int /\ y \in Int /\ a - b - (c - d) = x - y /\ c - d = Capital - x BY <1>1, <1>2, <2>1, <2>2
    <3> HIDE DEF a, b, c, d, x, y
    <3>2. a - b = Capital - y BY <3>1
    <3> QED BY <3>2 DEF a, b, y
  <2> QED BY <1>6, <2>3
<1>8. (phase = "done" => DOMAIN pend = {} /\ DOMAIN open = {})' BY <1>2
<1> QED BY <1>2, <1>4, <1>5, <1>7, <1>8 DEF ReplayInv

LEMMA ExitInPlace ==
  ASSUME ReplayInv, NEW result, Exit(result), cfg' = cfg, pend' = pend, tally' = tally, bar' = bar,
         \A n \in DOMAIN open : Settles(open[n], result[n]), phase' # "done"
  PROVE  ReplayInv'
<1>1. /\ tally'.filled \in Nat /\ tally'.rejected \in Nat /\ tally'.canceled \in Nat
      /\ {"created", "filled", "rejected", "canceled"} \subseteq DOMAIN tally'
      /\ tally'.created = tally.created /\ bar' \in BarRecord
      /\ DOMAIN pend' \subseteq DOMAIN pend /\ \A n \in DOMAIN pend' : pend'[n] = pend[n]
  BY DEF ReplayInv, Numbered
<1>2. OrdersAddUp' BY DEF ReplayInv, OrdersAddUp
<1> QED BY <1>1, <1>2, ExitKeeps

LEMMA FillKeeps ==
  ASSUME ReplayInv, NEW ripe \in SUBSET DOMAIN pend, NEW rest \in SUBSET DOMAIN pend,
         ripe \cap rest = {}, NEW buy \in Nat \ {0}, NEW sell \in Nat \ {0},
         Fill(ripe, rest, buy, sell), cfg' = cfg, net' = net, bar' \in BarRecord, phase' # "done"
  PROVE  ReplayInv'
<1>1. /\ CfgNumbers(cfg) /\ balance \in Int /\ net \in Int
      /\ Numbered /\ Waiting(pend) /\ Positions(open) /\ WithinLimits(open) /\ OrdersAddUp BY DEF ReplayInv
<1>2. /\ Numbered' /\ Waiting(pend)' /\ Positions(open)' /\ WithinLimits(open)' /\ OrdersAddUp'
      /\ balance' \in Int /\ balance' - balance = Commissions(open) - Commissions(open') BY <1>1, FillIs
<1>3. CfgNumbers(cfg)'
  <2>1. CfgNumbers(cfg') BY <1>1
  <2> QED BY <2>1
<1>4. Positions(open') BY <1>2 DEF Positions
<1>5. (balance - net = Capital - Commissions(open))'
  <2>1. balance - net = Capital - Commissions(open) /\ Capital \in Int BY ReplayAssumption DEF ReplayInv
  <2>2. Commissions(open) \in Int /\ Commissions(open') \in Int BY <1>1, <1>4, CommissionsAre
  <2>3. Commissions(open)' = Commissions(open') BY DEF Commissions
  <2> QED BY <1>1, <1>2, <2>1, <2>2, <2>3
<1> QED BY <1>1, <1>2, <1>3, <1>5 DEF ReplayInv

LEMMA BarsKeepReplay ==
  ASSUME ReplayInv, FillAtOpen \/ ExitInBar
  PROVE  ReplayInv'
<1>1. CASE FillAtOpen
  <2>1. /\ Fill(DOMAIN pend, {}, bar.o, bar.o) /\ cfg' = cfg /\ net' = net /\ bar' = bar
        /\ phase' # "done" BY <1>1 DEF FillAtOpen
  <2>2. bar.o \in Nat \ {0} /\ bar' \in BarRecord BY <2>1 DEF ReplayInv, BarRecord, Price
  <2>3. DOMAIN pend \in SUBSET DOMAIN pend /\ {} \in SUBSET DOMAIN pend /\ DOMAIN pend \cap {} = {} OBVIOUS
  <2> QED BY <2>1, <2>2, <2>3, FillKeeps
<1>2. CASE ExitInBar
  <2> DEFINE result == [n \in DOMAIN open |-> BarExit(open[n])]
  <2>1. /\ Exit(result) /\ cfg' = cfg /\ pend' = pend /\ tally' = tally /\ bar' = bar
        /\ phase' # "done" BY <1>2 DEF ExitInBar
  <2>2. \A n \in DOMAIN open : Settles(open[n], result[n]) BY BarSettles DEF ReplayInv, Positions
  <2> HIDE DEF result
  <2> QED BY <2>1, <2>2, ExitInPlace
<1> QED BY <1>1, <1>2

LEMMA TicksKeepReplay ==
  ASSUME ReplayInv,
         (\E bid \in Quotes, at \in Seconds : FillAtTick(bid, at)) \/ ExitAtTick
  PROVE  ReplayInv'
<1>1. ASSUME NEW bid \in Quotes, NEW at \in Seconds, FillAtTick(bid, at) PROVE ReplayInv'
  <2> DEFINE t == 60 * now.minute + at
      rest == {n \in DOMAIN pend : ~Waits(pend[n], t) /\ Late(pend[n], t)}
      ripe == {n \in DOMAIN pend : ~Waits(pend[n], t) /\ ~Late(pend[n], t)}
  <2>1. /\ Fill(ripe, rest, bid + QuoteSpread, bid) /\ cfg' = cfg /\ net' = net /\ phase' # "done"
        /\ bar' = IF now.at = 0 THEN [o |-> bid, h |-> bid, l |-> bid, c |-> bid]
                  ELSE [bar EXCEPT !.h = AtLeast(@, bid), !.l = AtMost(@, bid), !.c = bid]
    BY <1>1 DEF FillAtTick
  <2>2. ripe \in SUBSET DOMAIN pend /\ rest \in SUBSET DOMAIN pend /\ ripe \cap rest = {} OBVIOUS
  <2>3. bid \in Nat \ {0} /\ bid + QuoteSpread \in Nat \ {0} BY ReplayAssumption DEF Price
  <2>4. bar' \in BarRecord
    <3>1. bar.o \in Nat \ {0} /\ AtLeast(bar.h, bid) \in Nat \ {0} /\ AtMost(bar.l, bid) \in Nat \ {0}
      BY <2>3 DEF ReplayInv, BarRecord, Price, AtLeast, AtMost
    <3>2. DOMAIN bar = {"o", "h", "l", "c"} /\ bar \in BarRecord BY DEF ReplayInv, BarRecord
    <3>3. [bar EXCEPT !.h = AtLeast(@, bid), !.l = AtMost(@, bid), !.c = bid] \in BarRecord
      BY <2>3, <3>1, <3>2 DEF BarRecord, Price
    <3>4. [o |-> bid, h |-> bid, l |-> bid, c |-> bid] \in BarRecord BY <2>3 DEF BarRecord, Price
    <3> QED BY <2>1, <3>3, <3>4
  <2> HIDE DEF ripe, rest
  <2> QED BY <2>1, <2>2, <2>3, <2>4, FillKeeps
<1>2. CASE ExitAtTick
  <2> DEFINE quote == [bid |-> bar.c, ask |-> bar.c + QuoteSpread]
      result == [n \in DOMAIN open |-> TickExit(open[n], quote)]
  <2>1. /\ Exit(result) /\ cfg' = cfg /\ pend' = pend /\ tally' = tally /\ bar' = bar
        /\ phase' # "done" BY <1>2 DEF ExitAtTick
  <2>2. quote.bid \in Nat \ {0} /\ quote.ask \in Nat \ {0} BY ReplayAssumption DEF ReplayInv, BarRecord, Price
  <2> HIDE DEF quote
  <2>3. \A n \in DOMAIN open : Settles(open[n], result[n]) BY <2>2, TickSettles DEF ReplayInv, Positions
  <2> HIDE DEF result
  <2> QED BY <2>1, <2>3, ExitInPlace
<1> QED BY <1>1, <1>2

LEMMA CloseKeepsReplay ==
  ASSUME ReplayInv, (\E d \in {"none", "buy", "sell"} : Manages(d)) \/ Finish
  PROVE  ReplayInv'
<1>1. ASSUME NEW d, Manages(d) PROVE ReplayInv'
  <2> DEFINE result == [n \in DOMAIN open |-> CloseExit(open[n], d)]
  <2>1. /\ Exit(result) /\ cfg' = cfg /\ pend' = pend /\ tally' = tally /\ bar' = bar
        /\ phase' # "done" BY <1>1 DEF Manages
  <2>2. \A n \in DOMAIN open : Settles(open[n], result[n]) BY AtCloseSettles DEF ReplayInv, Positions
  <2> HIDE DEF result
  <2> QED BY <2>1, <2>2, ExitInPlace
<1>2. CASE Finish
  <2> DEFINE result == [n \in DOMAIN open |-> LastExit(open[n])]
  <2>1. /\ Exit(result) /\ cfg' = cfg /\ pend' = <<>> /\ bar' = bar
        /\ tally' = [tally EXCEPT !.canceled = @ + Cardinality(DOMAIN pend)] BY <1>2 DEF Finish
  <2>2. \A n \in DOMAIN open : Settles(open[n], result[n]) /\ result[n].pos.st = "closed"
    BY AtCloseSettles DEF ReplayInv, Positions
  <2>3. /\ tally'.created = tally.created /\ tally'.filled = tally.filled
        /\ tally'.rejected = tally.rejected
        /\ tally'.canceled = tally.canceled + Cardinality(DOMAIN pend)
        /\ {"created", "filled", "rejected", "canceled"} \subseteq DOMAIN tally' BY <2>1 DEF ReplayInv, Numbered
  <2>4. Cardinality(DOMAIN pend) \in Nat
    <3>1. tally.created \in Int /\ DOMAIN pend \in SUBSET (1..tally.created) /\ 1 \in Int
      BY DEF ReplayInv, Numbered
    <3>2. IsFiniteSet(1..tally.created) BY <3>1, FS_Interval
    <3> QED BY <3>1, <3>2, FS_Subset, FS_CardinalityType
  <2>5. /\ tally'.filled \in Nat /\ tally'.rejected \in Nat /\ tally'.canceled \in Nat
    BY <2>3, <2>4 DEF ReplayInv, Numbered
  <2>6. DOMAIN pend' = {} /\ bar' \in BarRecord BY <2>1 DEF ReplayInv
  <2>7. OrdersAddUp'
    <3>1. Cardinality({}) = 0 BY FS_EmptySet
    <3> QED BY <2>3, <2>4, <2>6, <3>1 DEF ReplayInv, Numbered, OrdersAddUp
  <2> HIDE DEF result
  <2> QED BY <2>1, <2>2, <2>3, <2>5, <2>6, <2>7, ExitKeeps
<1> QED BY <1>1, <1>2

LEMMA DecideKeepsReplay ==
  ASSUME ReplayInv, NEW o \in Decisions, Decide(o)
  PROVE  ReplayInv'
<1>1. /\ cfg' = cfg /\ bar' = bar /\ open' = open /\ balance' = balance /\ net' = net
      /\ phase' = "next" BY DEF Decide
<1>2. /\ CfgNumbers(cfg)' /\ Positions(open)' /\ WithinLimits(open)' /\ bar' \in BarRecord
      /\ balance' \in Int /\ net' \in Int /\ (balance - net = Capital - Commissions(open))'
  <2>1. CfgNumbers(cfg') /\ Positions(open) BY <1>1 DEF ReplayInv
  <2>2. Commissions(open)' = Commissions(open) BY <1>1 DEF Commissions
  <2> QED BY <1>1, <2>1, <2>2 DEF ReplayInv, Positions, WithinLimits, Limited, Towards
<1>3. OrderFields(o) BY ReplayAssumption DEF Order, Price, OrderFields
<1> DEFINE n == tally.created + 1
    order == [dir |-> o.dir, stop |-> o.stop, target |-> o.target, vol |-> o.vol,
              at |-> 60 * (now.minute + 1)]
<1>4. OrderFields(order) BY <1>3 DEF OrderFields
<1>5. /\ Numbered /\ Waiting(pend) /\ OrdersAddUp /\ tally.created \in Nat
      /\ DOMAIN pend \in SUBSET (1..tally.created) BY DEF ReplayInv, Numbered
<1>6. IsFiniteSet(DOMAIN pend) /\ Cardinality(DOMAIN pend) \in Nat /\ n \notin DOMAIN pend
  <2>1. 1 \in Int /\ tally.created \in Int BY <1>5
  <2>2. IsFiniteSet(1..tally.created) BY <2>1, FS_Interval
  <2>3. n \notin DOMAIN pend BY <1>5
  <2> QED BY <1>5, <2>2, <2>3, FS_Subset, FS_CardinalityType
<1>7. CASE Limited(o.dir, open)
  <2>1. tally' = [tally EXCEPT !.created = @ + 1, !.rejected = @ + 1] /\ pend' = pend BY <1>7 DEF Decide
  <2>2. /\ tally'.created = n /\ tally'.filled = tally.filled /\ tally'.rejected = tally.rejected + 1
        /\ tally'.canceled = tally.canceled
        /\ {"created", "filled", "rejected", "canceled"} \subseteq DOMAIN tally' BY <1>5, <2>1 DEF Numbered
  <2>3. Numbered' /\ Waiting(pend)' BY <1>1, <1>5, <2>1, <2>2 DEF Numbered, Waiting
  <2>4. OrdersAddUp' BY <1>5, <1>6, <2>1, <2>2 DEF Numbered, OrdersAddUp
  <2> QED BY <1>1, <1>2, <2>3, <2>4 DEF ReplayInv
<1>8. CASE ~Limited(o.dir, open)
  <2>1. tally' = [tally EXCEPT !.created = @ + 1] /\ pend' = Added(pend, n, order) BY <1>8 DEF Decide
  <2>2. /\ tally'.created = n /\ tally'.filled = tally.filled /\ tally'.rejected = tally.rejected
        /\ tally'.canceled = tally.canceled
        /\ {"created", "filled", "rejected", "canceled"} \subseteq DOMAIN tally' BY <1>5, <2>1 DEF Numbered
  <2> HIDE DEF order
  <2>3. /\ DOMAIN pend' = DOMAIN pend \union {n} /\ pend'[n] = order
        /\ \A m \in DOMAIN pend : m # n => pend'[m] = pend[m] BY <2>1 DEF Added
  <2>4. Waiting(pend)' BY <1>4, <1>5, <1>6, <2>3 DEF Waiting
  <2>5. n \in Nat /\ n > tally.created BY <1>5
  <2>6. Numbered'
    <3>1. /\ DOMAIN pend' \subseteq 1..n /\ DOMAIN open' \subseteq 1..n
          /\ DOMAIN pend' \cap DOMAIN open' = {} BY <1>1, <1>5, <2>3, <2>5 DEF Numbered
    <3> QED BY <1>5, <2>2, <2>5, <3>1 DEF Numbered
  <2>7. Cardinality(DOMAIN pend') = Cardinality(DOMAIN pend) + 1
    <3> HIDE DEF n
    <3> QED BY <1>6, <2>3, FS_AddElement
  <2>8. OrdersAddUp' BY <1>5, <1>6, <2>2, <2>7 DEF Numbered, OrdersAddUp
  <2> QED BY <1>1, <1>2, <2>4, <2>6, <2>8 DEF ReplayInv
<1> QED BY <1>7, <1>8

(* Where neither orders nor positions change. *)
LEMMA QuietKeepsReplay ==
  ASSUME ReplayInv, cfg' = cfg, pend' = pend, open' = open, balance' = balance, net' = net,
         tally' = tally, bar' \in BarRecord, phase' = "done" => phase = "done"
  PROVE  ReplayInv'
<1>1. CfgNumbers(cfg') /\ Positions(open') /\ Waiting(pend') /\ Commissions(open)' = Commissions(open)
  BY DEF ReplayInv, Commissions
<1> QED BY <1>1 DEF ReplayInv, Numbered, Waiting, Positions, WithinLimits, Towards, OrdersAddUp

LEMMA ReplayStep == ReplayInv /\ [ReplayNext]_replayVars => ReplayInv'
<1> SUFFICES ASSUME ReplayInv, [ReplayNext]_replayVars PROVE ReplayInv' OBVIOUS
<1>1. ASSUME NEW b \in Bars, NEW skip, NextMinute(b, skip) PROVE ReplayInv'
  <2>1. /\ cfg' = cfg /\ pend' = pend /\ open' = open /\ balance' = balance /\ net' = net
        /\ tally' = tally /\ phase' # "done" /\ (bar' = b \/ bar' = bar) BY <1>1 DEF NextMinute
  <2>2. bar' \in BarRecord BY <2>1, ReplayAssumption DEF ReplayInv
  <2> QED BY <2>1, <2>2, QuietKeepsReplay
<1>2. CASE EndOfTicks \/ NoDecision
  <2>1. /\ cfg' = cfg /\ pend' = pend /\ open' = open /\ balance' = balance /\ net' = net
        /\ tally' = tally /\ phase' # "done" /\ bar' = bar BY <1>2 DEF EndOfTicks, NoDecision
  <2>2. bar' \in BarRecord BY <2>1 DEF ReplayInv
  <2> QED BY <2>1, <2>2, QuietKeepsReplay
<1>3. CASE UNCHANGED replayVars
  <2>1. /\ cfg' = cfg /\ pend' = pend /\ open' = open /\ balance' = balance /\ net' = net
        /\ tally' = tally /\ phase' = phase /\ bar' = bar BY <1>3 DEF replayVars
  <2>2. bar' \in BarRecord BY <2>1 DEF ReplayInv
  <2> QED BY <2>1, <2>2, QuietKeepsReplay
<1> QED BY <1>1, <1>2, <1>3, BarsKeepReplay, TicksKeepReplay, CloseKeepsReplay, DecideKeepsReplay
     DEF ReplayNext, Minute, InTicks, AtClose

LEMMA ReplayAddsUp == ReplayInv => LedgerAddsUp /\ OrdersAccounted
<1> SUFFICES ASSUME ReplayInv PROVE LedgerAddsUp /\ OrdersAccounted OBVIOUS
<1>1. Commissions(open) \in Int /\ Capital \in Int /\ balance \in Int /\ net \in Int
  BY CommissionsAre, ReplayAssumption DEF ReplayInv
<1>2. balance - net = Capital - Commissions(open) BY DEF ReplayInv
<1>3. balance = Capital + net - Commissions(open) BY <1>1, <1>2
<1>4. LedgerAddsUp BY <1>3 DEF LedgerAddsUp, Commissions
<1>5. OrdersAccounted BY DEF ReplayInv, OrdersAddUp, WithinLimits, OrdersAccounted
<1> QED BY <1>4, <1>5

----------------------------------------
(* Pivots. *)

LEMMA QuotientIs ==
  ASSUME NEW t \in Int, NEW n \in Nat \ {0}
  PROVE  t \div n \in Int /\ (t \div n) * n <= t /\ t < (t \div n + 1) * n
<1> DEFINE q == t \div n
    r == t % n
    m == q * n
<1>1. q \in Int /\ r \in 0..(n - 1) /\ t = q * n + r OBVIOUS
<1>2. (q + 1) * n = q * n + n BY <1>1
<1>3. m \in Int BY <1>1
<1> HIDE DEF q, r, m
<1>4. t = m + r /\ (q + 1) * n = m + n BY <1>1, <1>2 DEF m
<1>5. m <= t /\ t < m + n BY <1>1, <1>3, <1>4
<1> QED BY <1>1, <1>4, <1>5 DEF m, q

LEMMA TimesGrows ==
  ASSUME NEW a \in Int, NEW b \in Int, a <= b, NEW n \in Nat \ {0}
  PROVE  a * n \in Int /\ b * n \in Int /\ a * n <= b * n OBVIOUS

(* A bar that has ended is before the one a time is in. *)
LEMMA EndedBefore ==
  ASSUME NEW t \in Int, NEW n \in Nat \ {0}, NEW c \in Int, (c + 1) * n <= t
  PROVE  c < t \div n
<1> DEFINE q == t \div n
<1>1. q \in Int /\ t < (q + 1) * n BY QuotientIs
<1> HIDE DEF q
<1>2. ASSUME q <= c PROVE FALSE
  <2>1. q + 1 \in Int /\ c + 1 \in Int /\ q + 1 <= c + 1 BY <1>1, <1>2
  <2> DEFINE x == (q + 1) * n
      y == (c + 1) * n
  <2>2. x \in Int /\ y \in Int /\ x <= y BY <2>1, TimesGrows
  <2>3. t < x /\ y <= t BY <1>1
  <2> HIDE DEF x, y
  <2> QED BY <2>2, <2>3
<1>3. c < q BY <1>1, <1>2
<1> QED BY <1>3 DEF q

LEMMA QuotientGrows ==
  ASSUME NEW s \in Int, NEW t \in Int, s <= t, NEW n \in Nat \ {0}
  PROVE  s \div n <= t \div n
<1> DEFINE p == s \div n
    q == t \div n
<1>1. p \in Int /\ q \in Int /\ p * n <= s /\ t < (q + 1) * n BY QuotientIs
<1> HIDE DEF p, q
<1>2. ASSUME q < p PROVE FALSE
  <2>1. q + 1 \in Int /\ q + 1 <= p BY <1>1, <1>2
  <2> DEFINE x == (q + 1) * n
      y == p * n
  <2>2. x \in Int /\ y \in Int /\ x <= y BY <1>1, <2>1, TimesGrows
  <2>3. t < x /\ y <= s BY <1>1
  <2> HIDE DEF x, y
  <2> QED BY <2>2, <2>3
<1>3. p <= q BY <1>1, <1>2
<1> QED BY <1>3 DEF p, q

LEMMA PivotsCount == \A S : Pivots!Cardinality(S) = Cardinality(S) BY DEF Pivots!Cardinality, Cardinality

HigherBars(B, b) == {c \in B : c > b}

(* Bars that come after as many as count change nothing for the one in the
   middle. *)
LEMMA LaterBars ==
  ASSUME NEW B, IsFiniteSet(B), B \subseteq Int, NEW N, IsFiniteSet(N), N \subseteq Int,
         \A n \in N, c \in B : c < n, NEW b \in B, Strength \in Nat,
         Cardinality(HigherBars(B, b)) >= Strength
  PROVE  /\ Pivots!Left(B \union N, b) = Pivots!Left(B, b)
         /\ Pivots!Right(B \union N, b) = Pivots!Right(B, b)
<1> DEFINE all == B \union N
    After(c) == {d \in all : b < d /\ d <= c}
<1>1. b \in Int /\ IsFiniteSet(all) /\ IsFiniteSet(HigherBars(B, b))
      /\ Cardinality(HigherBars(B, b)) \in Nat
  <2>1. IsFiniteSet(all) BY FS_Union
  <2>2. HigherBars(B, b) \in SUBSET B BY DEF HigherBars
  <2> HIDE DEF all
  <2> QED BY <2>1, <2>2, FS_Subset, FS_CardinalityType
<1> DEFINE Between(c, S) == {d \in S : c <= d /\ d < b}
<1>2. \A c \in B : c < b => Between(c, all) = Between(c, B)
  <2> SUFFICES ASSUME NEW c \in B, c < b PROVE Between(c, all) = Between(c, B) OBVIOUS
  <2>1. \A d \in N : ~(d < b) BY <1>1
  <2>2. \A d : d \in Between(c, all) <=> d \in Between(c, B) BY <2>1
  <2> QED BY <2>2
<1>3. \A c \in all : c < b => c \in B BY <1>1
<1>4. Pivots!Left(all, b) = Pivots!Left(B, b)
  <2>1. \A c : c \in B => c \in all OBVIOUS
  <2>2. /\ Pivots!Left(all, b) = {c \in all : c < b /\ Cardinality(Between(c, all)) <= Strength}
        /\ Pivots!Left(B, b) = {c \in B : c < b /\ Cardinality(Between(c, B)) <= Strength}
    BY PivotsCount DEF Pivots!Left
  <2> HIDE DEF all, Between
  <2>3. \A c : c \in Pivots!Left(all, b) <=> c \in Pivots!Left(B, b) BY <1>2, <1>3, <2>1, <2>2
  <2> QED BY <2>3
<1>5. \A c \in B : c > b => After(c) = {d \in B : b < d /\ d <= c}
  <2> SUFFICES ASSUME NEW c \in B, c > b PROVE After(c) = {d \in B : b < d /\ d <= c} OBVIOUS
  <2>1. \A d \in N : ~(d <= c) BY <1>1
  <2>2. \A d : d \in After(c) <=> d \in {e \in B : b < e /\ e <= c} BY <2>1
  <2> QED BY <2>2
<1>6. ASSUME NEW c \in N PROVE ~(Cardinality(After(c)) <= Strength)
  <2> DEFINE S == HigherBars(B, b)
  <2>1. S \union {c} \in SUBSET After(c) /\ c \notin S
    <3>1. \A d \in B : d <= c /\ d # c BY <1>1
    <3>0. \A d : d \in S <=> d \in B /\ d > b BY DEF HigherBars
    <3>2. c \in all /\ b < c /\ c <= c /\ \A d \in B : d \in all BY <1>1
    <3>3. \A d : d \in S \union {c} => d \in After(c) BY <3>0, <3>1, <3>2
    <3>4. c \notin S BY <3>0, <3>1
    <3> QED BY <3>3, <3>4
  <2>2. IsFiniteSet(After(c))
    <3>1. After(c) \in SUBSET all OBVIOUS
    <3> HIDE DEF After, all
    <3> QED BY <1>1, <3>1, FS_Subset
  <2>3. IsFiniteSet(S) /\ Cardinality(S) \in Nat /\ Cardinality(S) >= Strength BY <1>1
  <2> HIDE DEF S, After
  <2>4. Cardinality(S \union {c}) = Cardinality(S) + 1 BY <2>1, <2>3, FS_AddElement
  <2>5. Cardinality(S \union {c}) <= Cardinality(After(c)) /\ Cardinality(After(c)) \in Nat
    BY <2>1, <2>2, FS_Subset, FS_CardinalityType
  <2> QED BY <2>3, <2>4, <2>5
<1>7. Pivots!Right(all, b) = Pivots!Right(B, b)
  <2>1. \A c : c \in B => c \in all OBVIOUS
  <2>2. \A c \in all : c \in B \/ c \in N OBVIOUS
  <2>3. Pivots!Right(all, b) = {c \in all : c > b /\ Cardinality(After(c)) <= Strength}
    BY PivotsCount DEF Pivots!Right
  <2>4. Pivots!Right(B, b) = {c \in B : c > b /\ Cardinality({d \in B : b < d /\ d <= c}) <= Strength}
    BY PivotsCount DEF Pivots!Right
  <2> HIDE DEF all, After
  <2>5. \A c : c \in Pivots!Right(all, b) <=> c \in Pivots!Right(B, b) BY <1>5, <1>6, <2>1, <2>2, <2>3, <2>4
  <2> QED BY <2>5
<1> QED BY <1>4, <1>7

(* A stream of minutes, in order of time, and when the next may come. *)
Stream(s) ==
  /\ s \in Seq([t : Nat, h : Highs])
  /\ \A i, j \in 1..Len(s) : i < j => s[i].t < s[j].t
NextTime(s) == IF s = <<>> THEN 0 ELSE s[Len(s)].t + 1

LEMMA StreamIs ==
  ASSUME NEW s, Stream(s)
  PROVE  /\ DOMAIN s = 1..Len(s) /\ Len(s) \in Nat /\ NextTime(s) \in Nat
         /\ \A i \in 1..Len(s) : s[i].t \in Nat /\ s[i].t < NextTime(s)
         /\ IsFiniteSet(Pivots!Buckets(s)) /\ Pivots!Buckets(s) \subseteq Int
         /\ \A c \in Pivots!Buckets(s) : \E i \in 1..Len(s) : c = s[i].t \div Period
<1>1. DOMAIN s = 1..Len(s) /\ Len(s) \in Nat /\ \A i \in 1..Len(s) : s[i] \in [t : Nat, h : Highs]
  <2> DEFINE R == [t : Nat, h : Highs]
  <2>1. s \in Seq(R) BY DEF Stream
  <2> HIDE DEF R
  <2>2. DOMAIN s = 1..Len(s) /\ Len(s) \in Nat /\ \A i \in 1..Len(s) : s[i] \in R BY <2>1
  <2> QED BY <2>2 DEF R
<1>2. \A i \in 1..Len(s) : s[i].t \in Nat BY <1>1
<1>3. NextTime(s) \in Nat /\ \A i \in 1..Len(s) : s[i].t < NextTime(s)
  <2>1. CASE s = <<>> BY <2>1 DEF NextTime
  <2>2. CASE s # <<>>
    <3>1. Len(s) \in 1..Len(s) /\ NextTime(s) = s[Len(s)].t + 1 BY <2>2 DEF Stream, NextTime
    <3>2. s[Len(s)].t \in Nat BY <1>2, <3>1
    <3>3. ASSUME NEW i \in 1..Len(s) PROVE s[i].t < NextTime(s)
      <4>1. i = Len(s) \/ i < Len(s)
        <5>1. Len(s) \in Int /\ i \in 1..Len(s) BY <1>1
        <5> QED BY <5>1
      <4>2. i < Len(s) => s[i].t < s[Len(s)].t BY <3>1 DEF Stream
      <4> QED BY <1>2, <3>1, <3>2, <4>1, <4>2
    <3> QED BY <3>1, <3>2, <3>3
  <2> QED BY <2>1, <2>2
<1>4. Pivots!Buckets(s) = {s[i].t \div Period : i \in 1..Len(s)} BY <1>1 DEF Pivots!Buckets, Pivots!Bucket
<1>5. IsFiniteSet({s[i].t \div Period : i \in 1..Len(s)})
  <2>1. IsFiniteSet(1..Len(s)) BY <1>1, FS_Interval
  <2> DEFINE S == 1..Len(s)
      W == {s[i].t \div Period : i \in S}
      f == [i \in S |-> s[i].t \div Period]
  <2>2. f \in [S -> W] /\ \A w \in W : \E i \in S : f[i] = w OBVIOUS
  <2> HIDE DEF S, W, f
  <2>3. f \in Surjection(S, W) BY <2>2 DEF Surjection
  <2>4. IsFiniteSet(W) BY <2>1, <2>3, FS_Surjection DEF S
  <2> QED BY <2>4 DEF W, S
<1>6. \A i \in 1..Len(s) : s[i].t \div Period \in Int
  <2> SUFFICES ASSUME NEW i \in 1..Len(s) PROVE s[i].t \div Period \in Int OBVIOUS
  <2>1. s[i].t \in Int /\ Period \in Nat \ {0} BY <1>2, ServicesAssumption
  <2> QED BY <2>1, QuotientIs
<1> QED BY <1>1, <1>2, <1>3, <1>4, <1>5, <1>6

(* A minute more. *)
Longer(s, t, h) == Append(s, [t |-> t, h |-> h])

LEMMA MinuteMore ==
  ASSUME NEW s, Stream(s), NEW t \in Nat, NextTime(s) <= t, NEW h \in Highs
  PROVE  LET more == Longer(s, t, h)
         IN  /\ Stream(more) /\ NextTime(more) = t + 1 /\ Len(more) = Len(s) + 1
             /\ \A i \in 1..Len(s) : more[i] = s[i]
             /\ Pivots!Buckets(more) = Pivots!Buckets(s) \union {t \div Period}
             /\ t \div Period \in Int /\ \A c \in Pivots!Buckets(s) : c <= t \div Period
             /\ \A c : c # t \div Period => Pivots!HighOf(more, c) = Pivots!HighOf(s, c)
<1> DEFINE more == Longer(s, t, h)
<1>0. more = Append(s, [t |-> t, h |-> h]) BY DEF Longer
<1> HIDE DEF more
<1> DEFINE n == Len(s)
    k == t \div Period
<1>1. /\ n \in Nat /\ DOMAIN s = 1..n /\ \A i \in 1..n : s[i].t \in Nat /\ s[i].t < NextTime(s)
      /\ NextTime(s) \in Nat /\ \A c \in Pivots!Buckets(s) : \E i \in 1..n : c = s[i].t \div Period BY StreamIs
<1>2. /\ Len(more) = n + 1 /\ DOMAIN more = 1..(n + 1) /\ more[n + 1] = [t |-> t, h |-> h]
      /\ \A i \in 1..n : more[i] = s[i]
      /\ more \in Seq([t : Nat, h : Highs]) BY <1>0 DEF Stream
<1>3. Stream(more)
  <2>1. \A i, j \in 1..(n + 1) : i < j => more[i].t < more[j].t
    <3> SUFFICES ASSUME NEW i \in 1..(n + 1), NEW j \in 1..(n + 1), i < j PROVE more[i].t < more[j].t OBVIOUS
    <3>1. i \in 1..n /\ more[i] = s[i] BY <1>1, <1>2
    <3>2. CASE j = n + 1
      <4>1. more[j].t = t BY <1>2, <3>2
      <4>2. s[i].t \in Nat /\ s[i].t < NextTime(s) BY <1>1, <3>1
      <4> QED BY <1>1, <3>1, <4>1, <4>2
    <3>3. CASE j # n + 1
      <4>1. j \in 1..n
        <5>1. n \in Int /\ j \in 1..(n + 1) /\ j # n + 1 BY <1>1, <3>3
        <5> QED BY <5>1
      <4>2. more[j] = s[j] BY <1>2, <4>1
      <4> QED BY <3>1, <4>1, <4>2 DEF Stream
    <3> QED BY <3>2, <3>3
  <2> QED BY <1>2, <2>1 DEF Stream
<1>4. NextTime(more) = t + 1
  <2>1. more # <<>> BY <1>1, <1>2
  <2> QED BY <1>2, <2>1 DEF NextTime
<1>5. Period \in Nat \ {0} /\ t \in Int BY ServicesAssumption
<1>6. k \in Int BY <1>5, QuotientIs
<1>7. \A c \in Pivots!Buckets(s) : c <= k
  <2> SUFFICES ASSUME NEW c \in Pivots!Buckets(s) PROVE c <= k OBVIOUS
  <2>1. PICK i \in 1..n : c = s[i].t \div Period BY <1>1
  <2>2. s[i].t \in Int /\ s[i].t <= t
    <3>1. s[i].t \in Nat /\ s[i].t < NextTime(s) BY <1>1
    <3> QED BY <1>1, <3>1
  <2> QED BY <1>5, <2>1, <2>2, QuotientGrows
<1>8. Pivots!Buckets(more) = Pivots!Buckets(s) \union {k}
  <2>1. Pivots!Buckets(more) = {more[i].t \div Period : i \in 1..(n + 1)}
    BY <1>2 DEF Pivots!Buckets, Pivots!Bucket
  <2>2. Pivots!Buckets(s) = {s[i].t \div Period : i \in 1..n} BY <1>1 DEF Pivots!Buckets, Pivots!Bucket
  <2>3. more[n + 1].t \div Period = k BY <1>2
  <2> HIDE DEF k, n
  <2>4. \A i : i \in 1..(n + 1) <=> i \in 1..n \/ i = n + 1 BY <1>1
  <2>5. \A c : c \in Pivots!Buckets(more) <=> c \in Pivots!Buckets(s) \union {k}
    <3>1. ASSUME NEW c, c \in Pivots!Buckets(more) PROVE c \in Pivots!Buckets(s) \union {k}
      <4>1. PICK i \in 1..(n + 1) : c = more[i].t \div Period BY <2>1, <3>1
      <4>2. CASE i \in 1..n BY <1>2, <2>2, <4>1, <4>2
      <4>3. CASE i = n + 1 BY <2>3, <4>1, <4>3
      <4> QED BY <2>4, <4>2, <4>3
    <3>2. ASSUME NEW c \in Pivots!Buckets(s) PROVE c \in Pivots!Buckets(more)
      <4>1. PICK i \in 1..n : c = s[i].t \div Period BY <2>2
      <4>2. i \in 1..(n + 1) /\ c = more[i].t \div Period BY <1>2, <2>4, <4>1
      <4> QED BY <2>1, <4>2
    <3>3. k \in Pivots!Buckets(more) BY <2>1, <2>3, <2>4
    <3> QED BY <3>1, <3>2, <3>3
  <2> QED BY <2>5
<1>9. ASSUME NEW c, c # k PROVE Pivots!HighOf(more, c) = Pivots!HighOf(s, c)
  <2> DEFINE I(z) == {j \in DOMAIN z : Pivots!Bucket(z[j]) = c}
  <2>1. I(more) = I(s) /\ I(s) \subseteq 1..n
    <3>1. \A i : i \in 1..(n + 1) <=> i \in 1..n \/ i = n + 1 BY <1>1
    <3>2. Pivots!Bucket(more[n + 1]) = k BY <1>2 DEF Pivots!Bucket
    <3> HIDE DEF k
    <3>3. \A j : j \in I(more) <=> j \in I(s) BY <1>1, <1>2, <1>9, <3>1, <3>2
    <3> QED BY <1>1, <3>3
  <2>2. {more[i].h : i \in I(more)} = {s[i].h : i \in I(s)}
    <3> HIDE DEF I
    <3> QED BY <1>2, <2>1
  <2> QED BY <2>2 DEF Pivots!HighOf
<1> QED BY <1>2, <1>3, <1>4, <1>6, <1>7, <1>8, <1>9 DEF more

(* Who stands out, and what it takes. *)
LEMMA StandsOutHas ==
  ASSUME NEW s, NEW B, IsFiniteSet(B), B \subseteq Int, NEW b \in B, Pivots!StandsOut(s, B, b)
  PROVE  /\ Cardinality(HigherBars(B, b)) >= Strength /\ Cardinality(HigherBars(B, b)) \in Nat
         /\ \E c \in B : c \in Pivots!Right(B, b)
         /\ \A c \in Pivots!Right(B, b) : c \in B /\ c > b
         /\ \A c \in Pivots!Left(B, b) : c \in B /\ c < b
<1> DEFINE right == Pivots!Right(B, b)
    above == HigherBars(B, b)
<1>1. /\ \A c \in right : c \in B /\ c > b
      /\ \A c \in Pivots!Left(B, b) : c \in B /\ c < b BY DEF Pivots!Right, Pivots!Left
<1>2. right \in SUBSET above /\ above \in SUBSET B BY <1>1 DEF HigherBars
<1>3. Cardinality(right) = Strength BY PivotsCount DEF Pivots!StandsOut
<1> HIDE DEF right, above
<1>4. IsFiniteSet(above) /\ IsFiniteSet(right) BY <1>2, FS_Subset
<1>5. Cardinality(right) <= Cardinality(above) /\ Cardinality(above) \in Nat
  BY <1>2, <1>4, FS_Subset, FS_CardinalityType
<1>6. right # {}
  <2>1. Strength # 0 BY ServicesAssumption
  <2> QED BY <1>3, <2>1, FS_EmptySet
<1>7. \E c \in B : c \in right BY <1>1, <1>6
<1> QED BY <1>1, <1>3, <1>5, <1>7 DEF right, above

LEMMA StandsOutStill ==
  ASSUME NEW s, NEW B, NEW more, NEW all, NEW b,
         Pivots!Left(all, b) = Pivots!Left(B, b), Pivots!Right(all, b) = Pivots!Right(B, b),
         \A c \in Pivots!Left(B, b) \union Pivots!Right(B, b) \union {b} :
            Pivots!HighOf(more, c) = Pivots!HighOf(s, c)
  PROVE  Pivots!StandsOut(more, all, b) <=> Pivots!StandsOut(s, B, b)
<1> DEFINE beside == Pivots!Left(B, b) \union Pivots!Right(B, b)
<1>1. (\A c \in beside : Pivots!HighOf(more, c) < Pivots!HighOf(more, b))
        <=> \A c \in beside : Pivots!HighOf(s, c) < Pivots!HighOf(s, b) OBVIOUS
<1> QED BY <1>1 DEF Pivots!StandsOut

(* A pivot as it is known. *)
Stands(s, time, p) ==
  /\ p.bucket \in Pivots!Buckets(s) /\ p.at \in Int /\ p.at <= time
  /\ p.high = Pivots!HighOf(s, p.bucket) /\ Pivots!StandsOut(s, Pivots!Buckets(s), p.bucket)
  /\ \A c \in Pivots!Right(Pivots!Buckets(s), p.bucket) : (c + 1) * Period <= p.at

(* A minute later it still is one. *)
LEMMA StandsStill ==
  ASSUME NEW s, Stream(s), NEW t \in Nat, NextTime(s) <= t, NEW h \in Highs, NEW p, Stands(s, NextTime(s), p)
  PROVE  Stands(Longer(s, t, h), t + 1, p)
<1> DEFINE more == Longer(s, t, h)
    B == Pivots!Buckets(s)
    all == Pivots!Buckets(more)
    b == p.bucket
    k == t \div Period
    beside == Pivots!Left(B, b) \union Pivots!Right(B, b)
<1>1. /\ all = B \union {k} /\ k \in Int /\ \A c \in B : c <= k
      /\ \A c : c # k => Pivots!HighOf(more, c) = Pivots!HighOf(s, c) BY MinuteMore
<1>2. IsFiniteSet(B) /\ B \subseteq Int /\ NextTime(s) \in Nat BY StreamIs
<1>3. b \in B /\ Pivots!StandsOut(s, B, b) /\ p.at \in Int /\ p.at <= t
      /\ \A c \in Pivots!Right(B, b) : (c + 1) * Period <= p.at BY <1>2 DEF Stands
<1>4. Period \in Nat \ {0} /\ Strength \in Nat /\ t \in Int BY ServicesAssumption
<1> HIDE DEF B, all, b, k, more
<1>5. /\ Cardinality(HigherBars(B, b)) >= Strength
      /\ \E c \in B : c \in Pivots!Right(B, b)
      /\ \A c \in Pivots!Right(B, b) : c \in B /\ c > b
      /\ \A c \in Pivots!Left(B, b) : c \in B /\ c < b BY <1>2, <1>3, StandsOutHas
<1>6. \A c \in Pivots!Right(B, b) : c < k
  <2> SUFFICES ASSUME NEW c \in Pivots!Right(B, b) PROVE c < k OBVIOUS
  <2>1. c \in Int /\ c + 1 \in Int BY <1>2, <1>5
  <2> DEFINE x == (c + 1) * Period
  <2>2. x \in Int /\ x <= p.at BY <1>3, <1>4, <2>1, Products
  <2> HIDE DEF x
  <2>3. x <= t BY <1>3, <1>4, <2>2
  <2> QED BY <1>4, <2>1, <2>3, EndedBefore DEF k, x
<1>7. b < k /\ b \in Int BY <1>1, <1>2, <1>3, <1>5, <1>6
<1>8. \A c \in beside \union {b} : c # k
  <2>1. \A c \in Pivots!Left(B, b) : c < k
    <3> SUFFICES ASSUME NEW c \in Pivots!Left(B, b) PROVE c < k OBVIOUS
    <3>1. c \in B /\ c < b BY <1>5
    <3>2. c \in Int BY <1>2, <3>1
    <3> QED BY <1>1, <1>7, <3>1, <3>2
  <2> QED BY <1>1, <1>2, <1>5, <1>6, <1>7, <2>1
<1>9. Pivots!Left(all, b) = Pivots!Left(B, b) /\ Pivots!Right(all, b) = Pivots!Right(B, b)
  <2>1. CASE k \in B
    <3>1. all = B BY <1>1, <2>1
    <3> QED BY <3>1
  <2>2. CASE k \notin B
    <3>1. IsFiniteSet({k}) /\ {k} \subseteq Int BY <1>1, FS_Singleton
    <3>2. \A n \in {k}, c \in B : c < n
      <4>1. \A c \in B : c \in Int /\ c <= k /\ c # k BY <1>1, <1>2, <2>2
      <4> QED BY <1>1, <4>1
    <3> QED BY <1>1, <1>2, <1>3, <1>4, <1>5, <3>1, <3>2, LaterBars
  <2> QED BY <2>1, <2>2
<1>10. \A c \in beside \union {b} : Pivots!HighOf(more, c) = Pivots!HighOf(s, c) BY <1>1, <1>8
<1>11. Pivots!StandsOut(more, all, b) BY <1>3, <1>9, <1>10, StandsOutStill
<1>12. p.high = Pivots!HighOf(more, b) BY <1>10 DEF Stands, b
<1>13. p.at <= t + 1 /\ b \in all BY <1>1, <1>3, <1>4
<1> QED BY <1>3, <1>9, <1>11, <1>12, <1>13 DEF Stands, B, all, b, more

(* And what a minute finds stands. *)
LEMMA FoundStands ==
  ASSUME NEW s, Stream(s), NEW time \in Int, NEW b \in Pivots!Closed(s, time),
         Pivots!StandsOut(s, Pivots!Closed(s, time), b),
         NEW p, p = [bucket |-> b, high |-> Pivots!HighOf(s, b), at |-> time]
  PROVE  Stands(s, time, p)
<1> DEFINE all == Pivots!Buckets(s)
    B == Pivots!Closed(s, time)
    N == all \ B
<1>1. IsFiniteSet(all) /\ all \subseteq Int BY StreamIs
<1>2. B = {c \in all : (c + 1) * Period <= time} BY DEF Pivots!Closed
<1>3. Period \in Nat \ {0} /\ Strength \in Nat BY ServicesAssumption
<1>4. B \in SUBSET all /\ N \in SUBSET all /\ all = B \union N /\ b \in B BY <1>2
<1>5. Pivots!StandsOut(s, B, b) OBVIOUS
<1>6. \A n \in N, c \in B : c < n
  <2> SUFFICES ASSUME NEW n \in N, NEW c \in B PROVE c < n OBVIOUS
  <2>1. n \in Int /\ c \in Int /\ ~((n + 1) * Period <= time) /\ (c + 1) * Period <= time BY <1>1, <1>2, <1>4
  <2>2. ASSUME n <= c PROVE FALSE
    <3> DEFINE x == (n + 1) * Period
        y == (c + 1) * Period
    <3>1. n + 1 \in Int /\ c + 1 \in Int /\ n + 1 <= c + 1 BY <2>1, <2>2
    <3>2. x \in Int /\ y \in Int /\ x <= y BY <1>3, <3>1, TimesGrows
    <3>3. ~(x <= time) /\ y <= time BY <2>1
    <3> HIDE DEF x, y
    <3> QED BY <3>2, <3>3
  <2> QED BY <2>1, <2>2
<1> HIDE DEF all, B, N
<1>7. IsFiniteSet(B) /\ IsFiniteSet(N) /\ B \subseteq Int /\ N \subseteq Int BY <1>1, <1>4, FS_Subset
<1>8. /\ Cardinality(HigherBars(B, b)) >= Strength
      /\ \A c \in Pivots!Right(B, b) : c \in B BY <1>4, <1>5, <1>7, StandsOutHas
<1>9. Pivots!Left(all, b) = Pivots!Left(B, b) /\ Pivots!Right(all, b) = Pivots!Right(B, b)
  BY <1>3, <1>4, <1>6, <1>7, <1>8, LaterBars
<1>10. Pivots!StandsOut(s, all, b) BY <1>5, <1>9, StandsOutStill
<1>11. \A c \in Pivots!Right(all, b) : (c + 1) * Period <= time BY <1>2, <1>8, <1>9
<1> QED BY <1>4, <1>10, <1>11 DEF Stands, all

(* Which bars the minute closes. *)
LEMMA ClosedMore ==
  ASSUME NEW s, Stream(s), NEW t \in Nat, NextTime(s) <= t, NEW h \in Highs
  PROVE  LET B == Pivots!Closed(s, t)
             all == Pivots!Closed(Longer(s, t, h), t + 1)
         IN  /\ B \subseteq all /\ all \subseteq B \union {t \div Period}
             /\ IsFiniteSet(all) /\ all \subseteq Int /\ t \div Period \in Int
             /\ \A c \in B : c < t \div Period
             /\ \A c : c # t \div Period
                         => Pivots!HighOf(Longer(s, t, h), c) = Pivots!HighOf(s, c)
<1> DEFINE more == Longer(s, t, h)
    B == Pivots!Closed(s, t)
    all == Pivots!Closed(more, t + 1)
    k == t \div Period
<1>1. /\ Stream(more)
      /\ Pivots!Buckets(more) = Pivots!Buckets(s) \union {k} /\ k \in Int
      /\ \A c \in Pivots!Buckets(s) : c <= k
      /\ \A c : c # k => Pivots!HighOf(more, c) = Pivots!HighOf(s, c) BY MinuteMore
<1>2. Period \in Nat \ {0} /\ t \in Int BY ServicesAssumption
<1>3. t < (k + 1) * Period /\ k * Period <= t BY <1>2, QuotientIs
<1> HIDE DEF more, k
<1>4. /\ IsFiniteSet(Pivots!Buckets(more)) /\ Pivots!Buckets(more) \subseteq Int
      /\ Pivots!Buckets(s) \subseteq Int BY <1>1, StreamIs
<1>5. /\ B = {c \in Pivots!Buckets(s) : (c + 1) * Period <= t}
      /\ all = {c \in Pivots!Buckets(more) : (c + 1) * Period <= t + 1} BY DEF Pivots!Closed
<1> HIDE DEF B, all
<1>6. \A c \in B : c < k /\ c \in all
  <2> SUFFICES ASSUME NEW c \in B PROVE c < k /\ c \in all OBVIOUS
  <2>1. c \in Int /\ c \in Pivots!Buckets(more) BY <1>1, <1>4, <1>5
  <2> DEFINE x == (c + 1) * Period
  <2>2. x \in Int /\ x <= t
    <3>1. c + 1 \in Int /\ Period \in Int BY <1>2, <2>1
    <3> QED BY <1>5, <3>1, Products
  <2>3. c < k BY <1>2, <2>1, <2>2, EndedBefore DEF k
  <2>4. x <= t + 1
    <3> HIDE DEF x
    <3> QED BY <1>2, <2>2
  <2> QED BY <1>5, <2>1, <2>3, <2>4
<1>7. ASSUME NEW c \in all, c # k PROVE c \in B
  <2>1. c \in Pivots!Buckets(s) /\ c \in Int /\ c <= k BY <1>1, <1>4, <1>5, <1>7
  <2>2. c + 1 \in Int /\ c + 1 <= k BY <1>1, <1>7, <2>1
  <2> DEFINE x == (c + 1) * Period
      y == k * Period
  <2>3. x \in Int /\ y \in Int /\ x <= y BY <1>1, <1>2, <2>2, TimesGrows
  <2>4. y <= t BY <1>3
  <2>5. x <= t
    <3> HIDE DEF x, y
    <3> QED BY <1>2, <2>3, <2>4
  <2> QED BY <1>5, <2>1, <2>5
<1>8. IsFiniteSet(all) /\ all \subseteq Int
  <2>1. all \in SUBSET Pivots!Buckets(more) BY <1>5
  <2> QED BY <1>4, <2>1, FS_Subset
<1> QED BY <1>1, <1>6, <1>7, <1>8 DEF more, B, all, k

(* One with more bars on its right than count was found before. *)
LEMMA FoundBefore ==
  ASSUME NEW s, Stream(s), NEW t \in Nat, NextTime(s) <= t, NEW h \in Highs,
         NEW b \in Pivots!Closed(Longer(s, t, h), t + 1),
         Pivots!StandsOut(Longer(s, t, h), Pivots!Closed(Longer(s, t, h), t + 1), b),
         Cardinality(HigherBars(Pivots!Closed(Longer(s, t, h), t + 1), b)) # Strength
  PROVE  /\ b \in Pivots!Closed(s, t) /\ Pivots!StandsOut(s, Pivots!Closed(s, t), b)
         /\ Pivots!Right(Pivots!Closed(Longer(s, t, h), t + 1), b)
              = Pivots!Right(Pivots!Closed(s, t), b)
<1> DEFINE more == Longer(s, t, h)
    B == Pivots!Closed(s, t)
    all == Pivots!Closed(more, t + 1)
    k == t \div Period
    N == all \ B
<1>1. /\ B \subseteq all /\ all \subseteq B \union {k} /\ IsFiniteSet(all) /\ all \subseteq Int /\ k \in Int
      /\ \A c \in B : c < k
      /\ \A c : c # k => Pivots!HighOf(more, c) = Pivots!HighOf(s, c) BY ClosedMore
<1>2. b \in all /\ Pivots!StandsOut(more, all, b) /\ Cardinality(HigherBars(all, b)) # Strength OBVIOUS
<1>3. Strength \in Nat BY ServicesAssumption
<1>4. B \in SUBSET all /\ N \in SUBSET all /\ N \subseteq {k} /\ all = B \union N BY <1>1
<1> HIDE DEF more, B, all, k, N
<1>5. IsFiniteSet(B) /\ IsFiniteSet(N) /\ B \subseteq Int /\ N \subseteq Int BY <1>1, <1>4, FS_Subset
<1>6. \A n \in N, c \in B : c < n BY <1>1, <1>4
<1>7. /\ Cardinality(HigherBars(all, b)) >= Strength /\ Cardinality(HigherBars(all, b)) \in Nat
      /\ \E c \in all : c \in Pivots!Right(all, b)
      /\ \A c \in Pivots!Right(all, b) : c \in all /\ c > b
      /\ \A c \in Pivots!Left(all, b) : c \in all /\ c < b BY <1>1, <1>2, StandsOutHas
<1>8. b \in B /\ b < k
  <2>1. PICK c \in all : c \in Pivots!Right(all, b) BY <1>7
  <2>2. c > b /\ c \in Int /\ b \in Int BY <1>1, <1>2, <1>7, <2>1
  <2>3. \A e \in all : e \in Int /\ e <= k BY <1>1
  <2>4. b < k BY <1>1, <2>1, <2>2, <2>3
  <2> QED BY <1>1, <1>2, <2>2, <2>4
<1>9. Cardinality(HigherBars(B, b)) >= Strength
  <2>1. HigherBars(all, b) \in SUBSET (HigherBars(B, b) \union {k}) BY <1>1, <1>4 DEF HigherBars
  <2>2. HigherBars(B, b) \in SUBSET B /\ k \notin HigherBars(B, b)
    <3>1. k \notin B BY <1>1
    <3> QED BY <3>1 DEF HigherBars
  <2>3. IsFiniteSet(HigherBars(B, b)) /\ Cardinality(HigherBars(B, b)) \in Nat
    BY <1>5, <2>2, FS_Subset, FS_CardinalityType
  <2>4. /\ IsFiniteSet(HigherBars(B, b) \union {k})
        /\ Cardinality(HigherBars(B, b) \union {k}) = Cardinality(HigherBars(B, b)) + 1
    BY <2>2, <2>3, FS_AddElement
  <2>5. Cardinality(HigherBars(all, b)) <= Cardinality(HigherBars(B, b) \union {k}) BY <2>1, <2>4, FS_Subset
  <2> QED BY <1>2, <1>3, <1>7, <2>3, <2>4, <2>5
<1>10. Pivots!Left(all, b) = Pivots!Left(B, b) /\ Pivots!Right(all, b) = Pivots!Right(B, b)
  BY <1>3, <1>4, <1>5, <1>6, <1>8, <1>9, LaterBars
<1>11. \A c \in Pivots!Left(B, b) \union Pivots!Right(B, b) \union {b} :
          Pivots!HighOf(more, c) = Pivots!HighOf(s, c)
  <2>1. \A c \in Pivots!Left(B, b) : c \in B BY DEF Pivots!Left
  <2>2. \A c \in Pivots!Right(B, b) : c \in B BY DEF Pivots!Right
  <2>3. \A c \in B : c # k BY <1>1
  <2> QED BY <1>1, <1>8, <2>1, <2>2, <2>3
<1>12. Pivots!StandsOut(s, B, b) BY <1>2, <1>10, <1>11, StandsOutStill
<1> QED BY <1>8, <1>10, <1>12 DEF more, B, all

PivotsInv ==
  /\ Stream(minutes)
  /\ \A p \in pivotRows : Stands(minutes, NextTime(minutes), p)
  /\ Pivots!PivotsAreFound

LEMMA PivotsInitially == Pivots!Init => PivotsInv
<1> SUFFICES ASSUME Pivots!Init PROVE PivotsInv OBVIOUS
<1>1. minutes = <<>> /\ pivotRows = {} BY DEF Pivots!Init
<1>2. minutes \in Seq([t : Nat, h : Highs]) /\ Len(minutes) = 0 /\ DOMAIN minutes = {} BY <1>1
<1>3. Stream(minutes) BY <1>2 DEF Stream
<1>4. Pivots!Closed(minutes, Len(minutes)) = {} BY <1>2 DEF Pivots!Closed, Pivots!Buckets
<1>5. Pivots!PivotsAreFound BY <1>4 DEF Pivots!PivotsAreFound
<1> QED BY <1>1, <1>3, <1>5 DEF PivotsInv

(* The last bar on the right is one of the closed. *)
LEMMA LastOnTheRight ==
  ASSUME NEW s, NEW B, IsFiniteSet(B), B \subseteq Int, NEW b \in B, Pivots!StandsOut(s, B, b),
         NEW k \in Int, \A c \in B : c <= k
  PROVE  Pivots!Max(Pivots!Right(B, b)) \in B
<1> DEFINE S == Pivots!Right(B, b)
<1>1. (\E c \in B : c \in S) /\ \A c \in S : c \in B /\ c > b BY StandsOutHas
<1> HIDE DEF S
<1>2. b \in Int /\ \A c \in S : c \in Int /\ b <= c /\ c <= k BY <1>1
<1>3. S \in SUBSET (b..k) /\ S # {} BY <1>1, <1>2
<1>4. Max(S) \in S BY <1>2, <1>3, IntervalHasGreatest
<1>5. Pivots!Max(S) = Max(S) BY DEF Pivots!Max, Max
<1> QED BY <1>1, <1>4, <1>5 DEF S

LEMMA PivotsStep == PivotsInv /\ [Pivots!Next]_(Pivots!vars) => PivotsInv'
<1> SUFFICES ASSUME PivotsInv, [Pivots!Next]_(Pivots!vars) PROVE PivotsInv' OBVIOUS
<1>1. CASE UNCHANGED Pivots!vars
  <2>1. minutes' = minutes /\ pivotRows' = pivotRows BY <1>1 DEF Pivots!vars
  <2>2. Stream(minutes') /\ \A p \in pivotRows' : Stands(minutes', NextTime(minutes'), p) BY <2>1 DEF PivotsInv
  <2>3. Pivots!PivotsAreFound' BY <2>1 DEF PivotsInv, Pivots!PivotsAreFound, Pivots!Whole
  <2> QED BY <2>2, <2>3 DEF PivotsInv
<1>2. ASSUME NEW h \in Highs, NEW skip \in 0..MaxSkip, Pivots!Minute(h, skip) PROVE PivotsInv'
  <2> DEFINE t == NextTime(minutes) + skip
      more == Longer(minutes, t, h)
      all == Pivots!Closed(more, t + 1)
      found == {b \in all : /\ Cardinality(HigherBars(all, b)) = Strength
                            /\ Pivots!StandsOut(more, all, b)}
      new == {[bucket |-> b, high |-> Pivots!HighOf(more, b), at |-> t + 1] : b \in found}
  <2>1. Stream(minutes) /\ NextTime(minutes) \in Nat /\ Len(minutes) \in Nat BY StreamIs DEF PivotsInv
  <2>2. t \in Nat /\ NextTime(minutes) <= t BY <2>1
  <2>3. minutes' = more BY <1>2 DEF Pivots!Minute, NextTime, Longer
  <2>4. pivotRows' = IF t < TestStart THEN pivotRows
                     ELSE {p \in pivotRows : p.bucket \notin found} \union new
    <3>1. pivotRows' = IF t < TestStart THEN pivotRows ELSE Pivots!Update(more, t + 1)
      BY <1>2 DEF Pivots!Minute, NextTime, Longer
    <3>2. Pivots!Update(more, t + 1) = {p \in pivotRows : p.bucket \notin found} \union new
      BY PivotsCount DEF Pivots!Update, HigherBars
    <3> QED BY <3>1, <3>2
  <2> HIDE DEF t
  <2>5. /\ Stream(more) /\ NextTime(more) = t + 1 /\ Len(more) = Len(minutes) + 1
        /\ \A i \in 1..Len(minutes) : more[i] = minutes[i] BY <2>1, <2>2, MinuteMore
  <2>6. \A p \in pivotRows : Stands(more, t + 1, p)
    <3> SUFFICES ASSUME NEW p \in pivotRows PROVE Stands(more, t + 1, p) OBVIOUS
    <3>1. Stands(minutes, NextTime(minutes), p) BY DEF PivotsInv
    <3> QED BY <2>1, <2>2, <3>1, StandsStill
  <2> HIDE DEF more, all
  <2>7. \A p \in new : Stands(more, t + 1, p)
    <3> SUFFICES ASSUME NEW p \in new PROVE Stands(more, t + 1, p) OBVIOUS
    <3>1. PICK b \in found : p = [bucket |-> b, high |-> Pivots!HighOf(more, b), at |-> t + 1] OBVIOUS
    <3>2. b \in Pivots!Closed(more, t + 1) /\ Pivots!StandsOut(more, Pivots!Closed(more, t + 1), b)
      BY <3>1 DEF all
    <3>3. t + 1 \in Int BY <2>2
    <3> HIDE DEF found, new
    <3> QED BY <2>5, <3>1, <3>2, <3>3, FoundStands
  <2>8. \A p \in pivotRows' : Stands(minutes', NextTime(minutes'), p)
    <3> HIDE DEF found, new
    <3> QED BY <2>3, <2>4, <2>5, <2>6, <2>7
  <2>9. Pivots!PivotsAreFound'
    <3> SUFFICES ASSUME Pivots!Whole', NEW b \in Pivots!Closed(minutes', Len(minutes')),
                        Pivots!StandsOut(minutes', Pivots!Closed(minutes', Len(minutes')), b),
                        Pivots!ConfirmedAt(Pivots!Closed(minutes', Len(minutes')), b) > TestStart
                 PROVE  \E p \in pivotRows' : p.bucket = b
      BY DEF Pivots!PivotsAreFound, Pivots!Closed, Pivots!Buckets, Pivots!StandsOut,
             Pivots!ConfirmedAt, Pivots!Left, Pivots!Right, Pivots!HighOf
    <3>1. t = Len(minutes) /\ Pivots!Whole
      <4>1. \A i \in 1..(Len(minutes) + 1) : more[i].t = i - 1
        <5>1. DOMAIN more = 1..Len(more) BY <2>5, StreamIs
        <5> QED BY <2>3, <2>5, <5>1 DEF Pivots!Whole
      <4>2. more[Len(minutes) + 1].t = t
        <5>1. minutes \in Seq([t : Nat, h : Highs]) BY <2>1 DEF Stream
        <5> DEFINE row == [t |-> t, h |-> h]
        <5>2. row.t = t OBVIOUS
        <5> HIDE DEF row
        <5>3. Append(minutes, row)[Len(minutes) + 1] = row BY <5>1
        <5> QED BY <5>2, <5>3 DEF more, Longer, row
      <4>3. t = Len(minutes)
        <5>1. Len(minutes) + 1 \in 1..(Len(minutes) + 1) BY <2>1
        <5> QED BY <2>1, <2>2, <4>1, <4>2, <5>1
      <4>4. \A i \in 1..Len(minutes) : minutes[i].t = i - 1
        <5> SUFFICES ASSUME NEW i \in 1..Len(minutes) PROVE minutes[i].t = i - 1 OBVIOUS
        <5>1. i \in 1..(Len(minutes) + 1) /\ more[i] = minutes[i] BY <2>1, <2>5
        <5> QED BY <4>1, <5>1
      <4>5. DOMAIN minutes = 1..Len(minutes) BY <2>1, StreamIs
      <4> QED BY <4>3, <4>4, <4>5 DEF Pivots!Whole
    <3>2. Len(minutes') = t + 1 BY <2>3, <2>5, <3>1
    <3>3. b \in all /\ Pivots!StandsOut(more, all, b) /\ Pivots!ConfirmedAt(all, b) > TestStart
      BY <2>3, <3>2 DEF all
    <3>4. TestStart \in Nat /\ Strength \in Nat /\ Period \in Nat \ {0} BY ServicesAssumption
    <3>5. ASSUME b \in found, ~(t < TestStart) PROVE \E p \in pivotRows' : p.bucket = b
      <4> DEFINE p == [bucket |-> b, high |-> Pivots!HighOf(more, b), at |-> t + 1]
      <4>1. p \in new /\ p.bucket = b BY <3>5
      <4> HIDE DEF p, new
      <4>2. p \in pivotRows' BY <2>4, <3>5, <4>1
      <4> QED BY <4>1, <4>2
    <3>6. CASE Cardinality(HigherBars(all, b)) = Strength
      <4>1. b \in found BY <3>3, <3>6
      <4>2. Pivots!Max(Pivots!Right(all, b)) \in all
        <5>1. /\ all \subseteq Pivots!Closed(minutes, t) \union {t \div Period}
              /\ IsFiniteSet(all) /\ all \subseteq Int /\ t \div Period \in Int
              /\ \A c \in Pivots!Closed(minutes, t) : c < t \div Period BY <2>1, <2>2, ClosedMore DEF all, more
        <5>2. \A c \in all : c <= t \div Period BY <5>1
        <5> QED BY <3>3, <5>1, <5>2, LastOnTheRight
      <4> DEFINE over == (Pivots!Max(Pivots!Right(all, b)) + 1) * Period
      <4>3. over <= t + 1 /\ over \in Int
        <5> DEFINE m == Pivots!Max(Pivots!Right(all, b))
        <5>1. m \in all BY <4>2
        <5> HIDE DEF m
        <5>2. m \in Int /\ (m + 1) * Period <= t + 1
          <6>1. all \subseteq Int /\ all = {c \in Pivots!Buckets(more) : (c + 1) * Period <= t + 1}
            BY <2>1, <2>2, ClosedMore DEF all, more, Pivots!Closed
          <6> QED BY <5>1, <6>1
        <5>3. m + 1 \in Int /\ Period \in Int BY <3>4, <5>2
        <5> QED BY <5>2, <5>3, Products DEF m
      <4>4. over > TestStart BY <3>3 DEF Pivots!ConfirmedAt
      <4> HIDE DEF over
      <4>5. ~(t < TestStart) BY <2>2, <3>4, <4>3, <4>4
      <4> QED BY <3>5, <4>1, <4>5
    <3>7. CASE Cardinality(HigherBars(all, b)) # Strength
      <4> DEFINE B == Pivots!Closed(minutes, t)
      <4>1. b \in B /\ Pivots!StandsOut(minutes, B, b) /\ Pivots!Right(all, b) = Pivots!Right(B, b)
        BY <2>1, <2>2, <3>3, <3>7, FoundBefore DEF all, more
      <4>2. Pivots!ConfirmedAt(B, b) > TestStart BY <3>3, <4>1 DEF Pivots!ConfirmedAt
      <4>3. PICK p \in pivotRows : p.bucket = b BY <3>1, <4>1, <4>2 DEF PivotsInv, Pivots!PivotsAreFound
      <4>4. b \notin found => p \in pivotRows'
        <5> HIDE DEF found, new
        <5> QED BY <2>4, <4>3
      <4>5. t < TestStart => p \in pivotRows'
        <5> HIDE DEF found, new
        <5> QED BY <2>4, <4>3
      <4> QED BY <3>5, <4>3, <4>4, <4>5
    <3> QED BY <3>6, <3>7
  <2> QED BY <2>3, <2>5, <2>8, <2>9 DEF PivotsInv
<1> QED BY <1>1, <1>2 DEF Pivots!Next

LEMMA PivotsAreRight == PivotsInv => Pivots!PivotsAreFinal /\ Pivots!PivotsAreFound
  BY DEF PivotsInv, Stands, Pivots!PivotsAreFinal

(* The replays: every trade is in the account with its costs, every order in
   one state and within the limits, and the pivots of a strategy are those a
   look back over the whole stream finds too, and none of them is missed. *)
THEOREM ReplayStaysSound == ServicesSpec => []ReplayIsSound
<1>1. ReplaySpec => []ReplayInv BY ReplayInitially, ReplayStep, PTL DEF ReplaySpec
<1>2. Pivots!Spec => []PivotsInv BY PivotsInitially, PivotsStep, PTL DEF Pivots!Spec
<1>3. ReplayInv /\ PivotsInv => ReplayIsSound BY ReplayAddsUp, PivotsAreRight DEF ReplayIsSound
<1> QED BY <1>1, <1>2, <1>3, PTL DEF ServicesSpec

----------------------------------------
(* The engine manager.  Its scheduler's tasks are where TaskScheduler_proofs
   says they are, for every step of the manager is one of the scheduler or
   leaves it alone. *)
LEMMA SchedulerOf ==
    /\ \A k : Manager!Sched!SubmitCheck(k) <=> E!SubmitCheck(k)
    /\ Manager!Sched!SubmitPut <=> E!SubmitPut
    /\ \A w : Manager!Sched!Take(w) <=> E!Take(w)
    /\ \A w : Manager!Sched!Running(w) <=> E!Running(w)
    /\ \A w : Manager!Sched!Attempt(w) <=> E!Attempt(w)
    /\ \A w : Manager!Sched!Succeed(w) <=> E!Succeed(w)
    /\ \A w : Manager!Sched!Fail(w) <=> E!Fail(w)
    /\ \A w : Manager!Sched!Release(w) <=> E!Release(w)
    /\ Manager!Sched!Shutdown <=> E!Shutdown
    /\ Manager!Sched!Drain <=> E!Drain
    /\ Manager!Sched!Cancel <=> E!Cancel
    /\ Manager!sched = E!vars
<1> USE DEF Manager!Sched!Locked, E!Locked, Manager!Sched!NoKey, E!NoKey, Manager!Sched!Refuses,
    E!Refuses, Manager!Sched!Persisted, E!Persisted, Manager!Sched!Pill, E!Pill,
    Manager!Sched!NoTask, E!NoTask, Manager!Sched!Record, E!Record, Manager!Sched!MayRetry,
    E!MayRetry, Manager!Sched!Started, E!Started, Manager!Sched!Cardinality, E!Cardinality
<1>1. \A k : Manager!Sched!SubmitCheck(k) <=> E!SubmitCheck(k) BY DEF Manager!Sched!SubmitCheck, E!SubmitCheck
<1>2. Manager!Sched!SubmitPut <=> E!SubmitPut BY DEF Manager!Sched!SubmitPut, E!SubmitPut
<1>3. \A w : Manager!Sched!Take(w) <=> E!Take(w) BY DEF Manager!Sched!Take, E!Take
<1>4. \A w : Manager!Sched!Running(w) <=> E!Running(w) BY DEF Manager!Sched!Running, E!Running
<1>5. \A w : Manager!Sched!Attempt(w) <=> E!Attempt(w) BY DEF Manager!Sched!Attempt, E!Attempt
<1>6. \A w : Manager!Sched!Succeed(w) <=> E!Succeed(w) BY DEF Manager!Sched!Succeed, E!Succeed
<1>7. \A w : Manager!Sched!Fail(w) <=> E!Fail(w) BY DEF Manager!Sched!Fail, E!Fail
<1>8. \A w : Manager!Sched!Release(w) <=> E!Release(w) BY DEF Manager!Sched!Release, E!Release
<1>9. Manager!Sched!Shutdown <=> E!Shutdown BY DEF Manager!Sched!Shutdown, E!Shutdown
<1>10. Manager!Sched!Drain <=> E!Drain BY DEF Manager!Sched!Drain, E!Drain
<1>11. Manager!Sched!Cancel <=> E!Cancel BY DEF Manager!Sched!Cancel, E!Cancel
<1>12. Manager!sched = E!vars BY DEF Manager!sched, E!vars
<1> QED BY <1>1, <1>2, <1>3, <1>4, <1>5, <1>6, <1>7, <1>8, <1>9, <1>10, <1>11, <1>12

EngineRecord == [account : Accounts \union {0}, source : Nat, open : BOOLEAN, recent : BOOLEAN,
                 clients : Nat, analysing : {"no", "manual"} \union Callers]

EnginesTyped ==
    /\ inst \in Seq(EngineRecord) /\ Len(inst) <= MaxEngines
    /\ table \in [Accounts \union {0} -> Manager!Insts \union {0}]
    /\ request \in [Requests -> [at : {"idle", "using", "submitting", "connected"},
                                 engine : Manager!Insts \union {0}]]
    /\ \A r \in Requests : request[r].at # "idle" => request[r].engine \in Manager!Insts
    /\ tick \in [at : {"asleep", "look", "idle", "evict", "close", "submit"},
                 engine : Manager!Insts \union {0}, todo : SUBSET Manager!Insts]
    /\ tick.at # "asleep" => tick.engine \in Manager!Insts
    /\ callback \in Seq(Nat) /\ Len(callback) = Len(engineTasks)
    /\ \A t \in 1..Len(engineTasks) : callback[t] \in Manager!Insts
    /\ closing \in BOOLEAN

(* The engine of a task is the one its key says. *)
CallbacksFit ==
    \A t \in 1..Len(engineTasks) :
        /\ engineTasks[t].key[1] # "llm" =>
              engineTasks[t].key[2] = inst[callback[t]].account
        /\ \A n \in Nat : engineTasks[t].key = Manager!Manual(n) => callback[t] = n

(* While the tick thread is about to evict an engine, it is an account's and
   nothing is submitted for that account, for nobody else would submit it. *)
Evicting ==
    tick.at \in {"idle", "evict", "close"} =>
        /\ inst[tick.engine].account # 0
        /\ ~Manager!KeyBusy(inst[tick.engine].account)

(* The table holds open engines, the engine in hand and those to come are in
   it until the one in hand is taken out, and an open engine not in it is
   about to be closed. *)
TableHolds ==
    /\ \A a \in Accounts \union {0} : table[a] # 0 =>
          inst[table[a]].account = a /\ inst[table[a]].open
    /\ \A n \in tick.todo : table[inst[n].account] = n
    /\ tick.at \notin {"asleep", "close"} => table[inst[tick.engine].account] = tick.engine
    /\ tick.at = "close" => table[inst[tick.engine].account] # tick.engine
    /\ tick.at # "asleep" => tick.engine \notin tick.todo
SourcesFit == \A n \in Manager!Insts : inst[n].account # 0 => inst[n].source # 0

TablesInv == SourcesFit /\ (~closing => TableHolds /\ Manager!NoOrphans)

(* A task that waits or runs for an engine finds it open. *)
TasksOpen ==
    closing \/ \A t \in 1..Len(engineTasks) :
        engineTasks[t].key[1] # "llm" /\ E!Held(t) => inst[callback[t]].open

(* The lock of an analyzer: a worker that holds it is in that analysis; and
   while the scheduler is not shut down, a manual analysis has its trigger
   or its task, one of them. *)
Triggers(r, n) == request[r] = [at |-> "submitting", engine |-> n]
Pends(t, n) ==
    /\ t \in 1..Len(engineTasks) /\ engineTasks[t].key = Manager!Manual(n)
    /\ engineTasks[t].mem \in {"queued", "running"}

WorkersHold ==
    \A n \in Manager!Insts : inst[n].analysing \in Callers =>
        LET w == inst[n].analysing
        IN  /\ engineWorker[w].at = "calling"
            /\ engineTasks[engineWorker[w].task].key = Manager!Scheduled
            /\ callback[engineWorker[w].task] = n

ManualHeld ==
    \A n \in Manager!Insts :
        /\ inst[n].analysing = "manual" =>
              (\E r \in Requests : Triggers(r, n)) \/ (\E t : Pends(t, n))
        /\ \A r \in Requests : Triggers(r, n) => inst[n].analysing = "manual"
        /\ \A t : Pends(t, n) => inst[n].analysing = "manual"
        /\ \A r, s \in Requests : Triggers(r, n) /\ Triggers(s, n) => r = s
        /\ \A t, u : Pends(t, n) /\ Pends(u, n) => t = u
        /\ \A r \in Requests : \A t : ~(Triggers(r, n) /\ Pends(t, n))

DrainsWhenStopped == engineJanitor.at # "none" => engineStop

LocksInv == DrainsWhenStopped /\ WorkersHold /\ (~engineStop => ManualHeld)

ManagerInv == E!Places /\ EnginesTyped /\ CallbacksFit /\ Evicting /\ TablesInv /\ TasksOpen /\ LocksInv

----------------------------------------
LEMMA KeyKinds ==
    /\ \A n : Manager!Manual(n)[1] = "llm" /\ Manager!Manual(n)[2] = n
    /\ \A a : Manager!Cleanup(a)[1] = "cleanup" /\ Manager!Cleanup(a)[2] = a
    /\ Manager!Scheduled[1] = "analysis" /\ Manager!Scheduled[2] = 0
    /\ \A k \in Manager!Keys : k # <<>>
    /\ \A k \in Manager!Keys : k[1] = "llm" => \E n \in 1..MaxEngines : k = Manager!Manual(n)
<1>1. \A n : Manager!Manual(n)[1] = "llm" /\ Manager!Manual(n)[2] = n BY DEF Manager!Manual
<1>2. \A a : Manager!Cleanup(a)[1] = "cleanup" /\ Manager!Cleanup(a)[2] = a BY DEF Manager!Cleanup
<1>3. Manager!Scheduled[1] = "analysis" /\ Manager!Scheduled[2] = 0 BY DEF Manager!Scheduled, Manager!Market
<1>4. ASSUME NEW k \in Manager!Keys
      PROVE  \/ \E a \in Accounts \union {0} : k = Manager!Cleanup(a)
             \/ k = Manager!Scheduled
             \/ \E n \in 1..MaxEngines : k = Manager!Manual(n) BY DEF Manager!Keys, Manager!Market
<1>5. \A x, y : <<x, y>> # <<>> OBVIOUS
<1>6. \A k \in Manager!Keys : k # <<>> BY <1>4, <1>5 DEF Manager!Manual, Manager!Cleanup, Manager!Scheduled
<1>7. \A k \in Manager!Keys : k[1] = "llm" => \E n \in 1..MaxEngines : k = Manager!Manual(n) BY <1>2, <1>3, <1>4
<1> QED BY <1>1, <1>2, <1>3, <1>6, <1>7

LEMMA EngineParameters == E!Parameters
<1>1. E!NoKey \notin Manager!Keys BY KeyKinds DEF E!NoKey
<1>2. Manager!Retries \in [Manager!Keys -> Nat] BY DEF Manager!Retries
<1>3. E!IsFiniteSet(Callers) BY ServicesAssumption DEF E!IsFiniteSet, IsFiniteSet
<1> QED BY <1>1, <1>2, <1>3, ServicesAssumption DEF E!Parameters

LEMMA InstShape ==
    ASSUME EnginesTyped
    PROVE  /\ Len(inst) \in Nat /\ Manager!Insts = 1..Len(inst)
           /\ \A n \in Manager!Insts : inst[n] \in EngineRecord /\ n \in Nat /\ n # 0
<1>1. inst \in Seq(EngineRecord) BY DEF EnginesTyped
<1>2. Len(inst) \in Nat /\ Manager!Insts = 1..Len(inst) BY <1>1 DEF Manager!Insts
<1> QED BY <1>1, <1>2

(* One engine changes. *)
LEMMA EngineChanges ==
    ASSUME EnginesTyped, NEW n \in Manager!Insts, NEW r \in EngineRecord,
           inst' = [inst EXCEPT ![n] = r]
    PROVE  /\ inst' \in Seq(EngineRecord) /\ Len(inst') = Len(inst)
           /\ Manager!Insts' = Manager!Insts
           /\ inst'[n] = r /\ \A m \in Manager!Insts : m # n => inst'[m] = inst[m]
<1>1. inst \in Seq(EngineRecord) /\ n \in 1..Len(inst) BY InstShape DEF EnginesTyped
<1>2. /\ inst' \in Seq(EngineRecord) /\ Len(inst') = Len(inst)
      /\ \A m \in 1..Len(inst) : inst'[m] = IF m = n THEN r ELSE inst[m] BY <1>1, ExceptSeq
<1> QED BY <1>1, <1>2, InstShape DEF Manager!Insts

(* One is added. *)
LEMMA EngineAdded ==
    ASSUME NEW s \in Seq(EngineRecord), NEW r \in EngineRecord
    PROVE  /\ Append(s, r) \in Seq(EngineRecord) /\ Len(Append(s, r)) = Len(s) + 1
           /\ DOMAIN Append(s, r) = 1..(Len(s) + 1)
           /\ Append(s, r)[Len(s) + 1] = r
           /\ \A m \in 1..Len(s) : Append(s, r)[m] = s[m] BY AppendProperties

(* Every step of the manager is a step of its scheduler or leaves it alone. *)
LEMMA ManagerSchedules ==
    ASSUME EnginesTyped, [Manager!Next]_(Manager!vars)
    PROVE  [E!Next]_(E!vars)
<1>1. CASE UNCHANGED Manager!sched BY <1>1 DEF Manager!sched, E!vars
<1>2. ASSUME NEW r \in Requests, Manager!SubmitManual(r) PROVE E!Next
  <2>1. request[r].engine \in 1..MaxEngines
    BY <1>2, InstShape, ServicesAssumption DEF Manager!SubmitManual, EnginesTyped
  <2>2. Manager!Manual(request[r].engine) \in Manager!Keys BY <2>1 DEF Manager!Keys
  <2>3. E!SubmitCheck(Manager!Manual(request[r].engine))
    BY <1>2, SchedulerOf DEF Manager!SubmitManual, Manager!Submit
  <2> QED BY <2>2, <2>3 DEF E!Next
<1>3. ASSUME NEW k \in Manager!Keys, Manager!TickSubmit(k) PROVE E!Next
  BY <1>3, SchedulerOf DEF Manager!TickSubmit, Manager!Submit, E!Next
<1>4. CASE Manager!SchedulerStep BY <1>4, SchedulerOf DEF Manager!SchedulerStep, E!Next, E!WorkerStep
<1>5. ASSUME NEW w \in Callers, Manager!Attempt(w) \/ Manager!CallbackEnds(w) PROVE E!Next
  BY <1>5, SchedulerOf DEF Manager!Attempt, Manager!CallbackEnds, E!Next, E!WorkerStep
<1>6. CASE Manager!Shutdown BY <1>6, SchedulerOf DEF Manager!Shutdown, E!Next
<1>7. ASSUME \/ \E r \in Requests : \/ \E a \in Accounts \union {Manager!Market} : Manager!GetEngine(r, a)
                                     \/ Manager!Finish(r) \/ Manager!Connect(r) \/ Manager!Disconnect(r)
                                     \/ Manager!Trigger(r) \/ Manager!RefuseManual(r)
             \/ Manager!TickBegin \/ Manager!Look \/ Manager!CanEvict \/ Manager!Evict
             \/ Manager!Close \/ Manager!TickNext \/ Manager!CloseAll
             \/ \E n \in Manager!Insts : Manager!Age(n)
             \/ UNCHANGED Manager!vars PROVE UNCHANGED Manager!sched
  BY <1>7 DEF Manager!GetEngine, Manager!Finish, Manager!Connect, Manager!Disconnect, Manager!Trigger,
     Manager!RefuseManual, Manager!TickBegin, Manager!Look, Manager!CanEvict, Manager!Evict,
     Manager!Close, Manager!TickNext, Manager!CloseAll, Manager!Age, Manager!vars
<1> QED BY <1>1, <1>2, <1>3, <1>4, <1>5, <1>6, <1>7 DEF Manager!Next, Manager!RequestStep, Manager!TickStep

LEMMA PlacesStay ==
    ASSUME EnginesTyped, E!Places, [Manager!Next]_(Manager!vars)
    PROVE  E!Places' BY EngineParameters, ManagerSchedules, E!PlaceStep DEF E!Places

----------------------------------------
(* A step that submits nothing and moves no engine in or out of the table. *)
Rests == CallbacksFit /\ Evicting /\ TablesInv /\ TasksOpen

SameEngines ==
    /\ Len(inst') = Len(inst)
    /\ \A n \in Manager!Insts : /\ inst'[n].account = inst[n].account
                                /\ inst'[n].source = inst[n].source
                                /\ inst'[n].open = inst[n].open

LEMMA NothingMoves ==
    ASSUME EnginesTyped, EnginesTyped', Rests, SameEngines, E!NoMoreKeys,
           UNCHANGED <<table, tick, closing, callback>>
    PROVE  Rests'
<1>0. Manager!Insts' = Manager!Insts
  <2>1. inst' \in Seq(EngineRecord) /\ inst \in Seq(EngineRecord) BY DEF EnginesTyped
  <2> QED BY <2>1 DEF Manager!Insts, SameEngines
<1>1. /\ Manager!Insts' = Manager!Insts
      /\ \A t \in 1..Len(engineTasks) : callback[t] \in Manager!Insts
      /\ tick.at # "asleep" => tick.engine \in Manager!Insts
      /\ tick.todo \subseteq Manager!Insts
      /\ \A a \in Accounts \union {0} : table[a] \in Manager!Insts \union {0}
  BY <1>0, InstShape DEF EnginesTyped
<1>2. CallbacksFit' BY <1>1 DEF Rests, CallbacksFit, SameEngines, E!NoMoreKeys
<1>3. Evicting' BY <1>1 DEF Rests, Evicting, SameEngines, E!NoMoreKeys, Manager!KeyBusy
<1>4. SourcesFit' BY <1>1 DEF Rests, TablesInv, SourcesFit, SameEngines
<1>5. ASSUME ~closing PROVE TableHolds' /\ Manager!NoOrphans'
  <2>1. TableHolds' BY <1>1, <1>5 DEF Rests, TablesInv, TableHolds, SameEngines
  <2>2. Manager!NoOrphans'
    BY <1>1, <1>5 DEF Rests, TablesInv, SameEngines, Manager!NoOrphans, Manager!Current, Manager!Market
  <2> QED BY <2>1, <2>2
<1>6. TasksOpen' BY <1>1 DEF Rests, TasksOpen, SameEngines, E!NoMoreKeys
<1> QED BY <1>2, <1>3, <1>4, <1>5, <1>6 DEF Rests, TablesInv

(* The same of a step that only writes one engine. *)
LEMMA EngineWritten ==
    ASSUME EnginesTyped, NEW n \in Manager!Insts, NEW r \in EngineRecord,
           inst' = [inst EXCEPT ![n] = r],
           r.account = inst[n].account, r.source = inst[n].source, r.open = inst[n].open
    PROVE  /\ SameEngines /\ inst' \in Seq(EngineRecord) /\ Manager!Insts' = Manager!Insts
           /\ inst'[n] = r /\ \A m \in Manager!Insts : m # n => inst'[m] = inst[m]
  BY EngineChanges DEF SameEngines

(* What the steps of requests, workers and the clock do to an engine: at
   most one is written, in what the table does not depend on. *)
Writes(n) ==
    /\ n \in Manager!Insts
    /\ \E r \in EngineRecord :
          /\ inst' = [inst EXCEPT ![n] = r]
          /\ r.account = inst[n].account /\ r.source = inst[n].source /\ r.open = inst[n].open

LEMMA ConnectWrites ==
    ASSUME EnginesTyped, NEW r \in Requests,
           Manager!Connect(r) \/ Manager!Disconnect(r) \/ Manager!Trigger(r) \/ Manager!RefuseManual(r)
    PROVE  Writes(request[r].engine)
<1> DEFINE n == request[r].engine
<1>1. n \in Manager!Insts
  BY DEF Manager!Connect, Manager!Disconnect, Manager!Trigger, Manager!RefuseManual, EnginesTyped
<1>2. inst[n] \in EngineRecord BY <1>1, InstShape
<1> DEFINE more == [inst[n] EXCEPT !.clients = @ + 1]
           less == [inst[n] EXCEPT !.clients = IF @ = 0 THEN 0 ELSE @ - 1]
           taken == [inst[n] EXCEPT !.analysing = "manual"]
           given == [inst[n] EXCEPT !.analysing = "no"]
<1>3. \/ inst' = [inst EXCEPT ![n] = more] \/ inst' = [inst EXCEPT ![n] = less]
      \/ inst' = [inst EXCEPT ![n] = taken] \/ inst' = [inst EXCEPT ![n] = given]
  BY DEF Manager!Connect, Manager!Disconnect, Manager!Trigger, Manager!RefuseManual
<1>4. \A e \in {more, less, taken, given} :
         /\ e \in EngineRecord /\ e.account = inst[n].account /\ e.source = inst[n].source
         /\ e.open = inst[n].open BY <1>2 DEF EngineRecord
<1> HIDE DEF n, more, less, taken, given
<1>5. Writes(n) BY <1>1, <1>3, <1>4 DEF Writes
<1> QED BY <1>5 DEF n

LEMMA AgeWrites ==
    ASSUME EnginesTyped, NEW n \in Manager!Insts, Manager!Age(n)
    PROVE  Writes(n)
<1>1. inst[n] \in EngineRecord BY InstShape
<1> DEFINE old == [inst[n] EXCEPT !.recent = FALSE]
<1>2. inst' = [inst EXCEPT ![n] = old] BY DEF Manager!Age
<1>3. /\ old \in EngineRecord /\ old.account = inst[n].account /\ old.source = inst[n].source
      /\ old.open = inst[n].open BY <1>1 DEF EngineRecord
<1> HIDE DEF old
<1> QED BY <1>2, <1>3 DEF Writes

LEMMA AnalysisWrites ==
    ASSUME EnginesTyped, E!Places, NEW w \in Callers, Manager!Attempt(w) \/ Manager!CallbackEnds(w)
    PROVE  inst' = inst \/ Writes(callback[engineWorker[w].task])
<1> DEFINE n == callback[engineWorker[w].task]
<1>1. engineWorker[w].task \in 1..Len(engineTasks)
  BY E!AttemptIsQuiet, E!ReturnIsQuiet, SchedulerOf, E!TaskIds DEF Manager!Attempt, Manager!CallbackEnds
<1>2. n \in Manager!Insts BY <1>1 DEF EnginesTyped
<1>3. inst[n] \in EngineRecord BY <1>2, InstShape
<1> DEFINE by == [inst[n] EXCEPT !.analysing = w]
           given == [inst[n] EXCEPT !.analysing = "no"]
<1>4. inst' = inst \/ inst' = [inst EXCEPT ![n] = by] \/ inst' = [inst EXCEPT ![n] = given]
  BY DEF Manager!Attempt, Manager!CallbackEnds, Manager!Unlocked, Manager!Task
<1>5. \A e \in {by, given} :
         /\ e \in EngineRecord /\ e.account = inst[n].account /\ e.source = inst[n].source
         /\ e.open = inst[n].open BY <1>3 DEF EngineRecord
<1> HIDE DEF n, by, given
<1>6. inst' = inst \/ Writes(n) BY <1>2, <1>4, <1>5 DEF Writes
<1> QED BY <1>6 DEF n

----------------------------------------
(* Types. *)
RequestRecord(ids) ==
    [at : {"idle", "using", "submitting", "connected"}, engine : ids \union {0}]
RequestsFit(ids) ==
    /\ request \in [Requests -> RequestRecord(ids)]
    /\ \A r \in Requests : request[r].at # "idle" => request[r].engine \in ids

TickFits(ids) ==
    /\ tick \in [at : {"asleep", "look", "idle", "evict", "close", "submit"},
                 engine : ids \union {0}, todo : SUBSET ids]
    /\ tick.at # "asleep" => tick.engine \in ids

CallbacksTyped(ids) ==
    /\ callback \in Seq(Nat) /\ Len(callback) = Len(engineTasks)
    /\ \A t \in 1..Len(engineTasks) : callback[t] \in ids

LEMMA EnginesTypedIs ==
    ASSUME inst \in Seq(EngineRecord), Len(inst) <= MaxEngines,
           table \in [Accounts \union {0} -> Manager!Insts \union {0}],
           RequestsFit(Manager!Insts), TickFits(Manager!Insts), CallbacksTyped(Manager!Insts),
           closing \in BOOLEAN
    PROVE  EnginesTyped BY DEF EnginesTyped, RequestsFit, RequestRecord, TickFits, CallbacksTyped

LEMMA EnginesTypedIsNext ==
    ASSUME inst' \in Seq(EngineRecord), Len(inst') <= MaxEngines,
           table' \in [Accounts \union {0} -> Manager!Insts' \union {0}],
           RequestsFit(Manager!Insts)', TickFits(Manager!Insts)', CallbacksTyped(Manager!Insts)',
           closing' \in BOOLEAN
    PROVE  EnginesTyped' BY DEF EnginesTyped, RequestsFit, RequestRecord, TickFits, CallbacksTyped

LEMMA EnginesTypedSays ==
    ASSUME EnginesTyped
    PROVE  /\ RequestsFit(Manager!Insts) /\ TickFits(Manager!Insts) /\ CallbacksTyped(Manager!Insts)
           /\ inst \in Seq(EngineRecord) /\ Len(inst) <= MaxEngines
           /\ table \in [Accounts \union {0} -> Manager!Insts \union {0}]
           /\ closing \in BOOLEAN BY DEF EnginesTyped, RequestsFit, RequestRecord, TickFits, CallbacksTyped

(* A step that only changes one of them, or none. *)
LEMMA RequestChanges ==
    ASSUME RequestsFit(Manager!Insts), Manager!Insts' = Manager!Insts, NEW r \in Requests,
           NEW rec \in RequestRecord(Manager!Insts), rec.at # "idle" => rec.engine \in Manager!Insts,
           request' = [request EXCEPT ![r] = rec]
    PROVE  RequestsFit(Manager!Insts)'
<1>1. /\ request' \in [Requests -> RequestRecord(Manager!Insts)]
      /\ request'[r] = rec /\ \A s \in Requests : s # r => request'[s] = request[s] BY DEF RequestsFit
<1> QED BY <1>1 DEF RequestsFit, RequestRecord

LEMMA RequestGoesOn ==
    ASSUME RequestsFit(Manager!Insts), Manager!Insts' = Manager!Insts, NEW r \in Requests,
           \/ request' = [request EXCEPT ![r] = Manager!Idle]
           \/ /\ request[r].at # "idle"
              /\ \/ request' = [request EXCEPT ![r].at = "connected"]
                 \/ request' = [request EXCEPT ![r].at = "submitting"]
    PROVE  RequestsFit(Manager!Insts)'
<1>1. CASE request' = [request EXCEPT ![r] = Manager!Idle]
  <2>1. Manager!Idle \in RequestRecord(Manager!Insts) /\ Manager!Idle.at = "idle"
    BY DEF RequestRecord, Manager!Idle, Manager!None
  <2> QED BY <1>1, <2>1, RequestChanges
<1>2. ASSUME NEW at \in {"connected", "submitting"}, request' = [request EXCEPT ![r].at = at],
             request[r].at # "idle" PROVE RequestsFit(Manager!Insts)'
  <2> DEFINE rec == [request[r] EXCEPT !.at = at]
  <2>1. request[r] \in RequestRecord(Manager!Insts) /\ request[r].engine \in Manager!Insts
    BY <1>2 DEF RequestsFit
  <2>2. rec \in RequestRecord(Manager!Insts) /\ rec.engine = request[r].engine BY <2>1 DEF RequestRecord
  <2>3. request' = [request EXCEPT ![r] = rec] BY <1>2
  <2> HIDE DEF rec
  <2> QED BY <2>1, <2>2, <2>3, RequestChanges
<1> QED BY <1>1, <1>2

LEMMA RequestsStand ==
    ASSUME Manager!Insts' = Manager!Insts, RequestsFit(Manager!Insts), UNCHANGED request
    PROVE  RequestsFit(Manager!Insts)' BY DEF RequestsFit, RequestRecord

LEMMA TickStands ==
    ASSUME Manager!Insts' = Manager!Insts, TickFits(Manager!Insts), UNCHANGED tick
    PROVE  TickFits(Manager!Insts)' BY DEF TickFits

LEMMA CallbacksStand ==
    ASSUME Manager!Insts' = Manager!Insts, CallbacksTyped(Manager!Insts), UNCHANGED callback,
           Len(engineTasks') = Len(engineTasks)
    PROVE  CallbacksTyped(Manager!Insts)' BY DEF CallbacksTyped

LEMMA CallbackAdded ==
    ASSUME Manager!Insts' = Manager!Insts, EnginesTyped, NEW n \in Manager!Insts,
           Len(engineTasks') = Len(engineTasks) + 1, callback' = Append(callback, n)
    PROVE  /\ CallbacksTyped(Manager!Insts)' /\ callback'[Len(engineTasks) + 1] = n
           /\ \A t \in 1..Len(engineTasks) : callback'[t] = callback[t]
<1>1. /\ callback \in Seq(Nat) /\ Len(callback) = Len(engineTasks) /\ n \in Nat
      /\ \A t \in 1..Len(engineTasks) : callback[t] \in Manager!Insts BY InstShape DEF EnginesTyped
<1>2. Len(callback) \in Nat BY <1>1
<1>3. /\ callback' \in Seq(Nat) /\ Len(callback') = Len(callback) + 1
      /\ callback'[Len(callback) + 1] = n
      /\ \A t \in 1..Len(callback) : callback'[t] = callback[t] BY <1>1, AppendProperties
<1>4. \A t \in 1..Len(engineTasks') : t \in 1..Len(engineTasks) \/ t = Len(engineTasks) + 1 BY <1>1, <1>2
<1> QED BY <1>1, <1>2, <1>3, <1>4 DEF CallbacksTyped

(* The tick thread goes to the next engine, if there is one. *)
LEMMA TickFollows ==
    ASSUME NEW todo \in SUBSET Manager!Insts, Manager!Following(todo), Manager!Insts' = Manager!Insts
    PROVE  /\ TickFits(Manager!Insts)'
           /\ \/ tick'.at = "asleep" /\ tick'.todo = {}
              \/ /\ tick'.at = "look" /\ tick'.engine \in todo /\ tick'.todo = todo \ {tick'.engine}
<1>1. CASE todo = {}
  <2>1. tick' = [at |-> "asleep", engine |-> 0, todo |-> {}]
    BY <1>1 DEF Manager!Following, Manager!Asleep, Manager!None
  <2> QED BY <2>1 DEF TickFits
<1>2. ASSUME NEW n \in todo, tick' = [at |-> "look", engine |-> n, todo |-> todo \ {n}]
      PROVE  /\ TickFits(Manager!Insts)'
             /\ tick'.at = "look" /\ tick'.engine \in todo /\ tick'.todo = todo \ {tick'.engine}
  BY <1>2 DEF TickFits
<1>3. todo # {} => \E n \in todo : tick' = [at |-> "look", engine |-> n, todo |-> todo \ {n}]
  BY DEF Manager!Following
<1> QED BY <1>1, <1>2, <1>3

LEMMA TickGoesTo ==
    ASSUME TickFits(Manager!Insts), Manager!Insts' = Manager!Insts, tick.at # "asleep",
           NEW at \in {"idle", "evict", "close", "submit"}, tick' = [tick EXCEPT !.at = at]
    PROVE  /\ TickFits(Manager!Insts)' /\ tick'.at = at
           /\ tick'.engine = tick.engine /\ tick'.todo = tick.todo BY DEF TickFits

----------------------------------------
(* Steps of the tick thread. *)
LEMMA HeldIsBusy ==
    ASSUME E!Places, NEW t \in 1..Len(engineTasks), E!Held(t)
    PROVE  engineTasks[t].key \in engineBusy
<1>1. engineTasks[t].key \in Manager!Keys BY E!TaskIds DEF E!TaskRecord
<1> QED BY <1>1, E!TaskIds DEF E!Places, E!PlaceInv, E!BusyIsHeld

(* The scheduler and the engines stay: the tick thread and the table move. *)
LEMMA StandStill ==
    ASSUME UNCHANGED <<Manager!sched, inst, callback, closing>>
    PROVE  /\ Manager!Insts' = Manager!Insts /\ E!NoMoreKeys /\ SameEngines
           /\ \A a : Manager!KeyBusy(a)' <=> Manager!KeyBusy(a)
           /\ engineTasks' = engineTasks /\ engineBusy' = engineBusy
<1>1. UNCHANGED <<engineTasks, engineQueue, engineBusy, engineWorker, engineSubmitter, engineJanitor>>
  BY DEF Manager!sched
<1>2. \A t : E!Held(t)' <=> E!Held(t) BY <1>1 DEF E!Held, E!Submitted, E!Waits, E!Works, E!Drains, E!Locked
<1> QED BY <1>1, <1>2 DEF E!NoMoreKeys, SameEngines, Manager!Insts, Manager!KeyBusy

LEMMA TickRests ==
    ASSUME EnginesTyped, Rests, UNCHANGED <<Manager!sched, inst, callback, closing>>, Evicting',
           ~closing => TableHolds' /\ Manager!NoOrphans'
    PROVE  Rests'
<1>1. CallbacksFit' BY StandStill DEF Rests, CallbacksFit
<1>2. SourcesFit' BY StandStill DEF Rests, TablesInv, SourcesFit
<1>3. TasksOpen' BY StandStill DEF Rests, TasksOpen, E!NoMoreKeys
<1> QED BY <1>1, <1>2, <1>3 DEF Rests, TablesInv

LEMMA EnginesTypedTick ==
    ASSUME EnginesTyped, UNCHANGED <<Manager!sched, inst, callback, closing, request>>,
           TickFits(Manager!Insts)', table' \in [Accounts \union {0} -> Manager!Insts \union {0}]
    PROVE  EnginesTyped'
<1>1. Manager!Insts' = Manager!Insts /\ engineTasks' = engineTasks BY StandStill
<1>2. RequestsFit(Manager!Insts)' /\ CallbacksTyped(Manager!Insts)'
  BY <1>1, EnginesTypedSays, RequestsStand, CallbacksStand
<1> QED BY <1>1, <1>2, EnginesTypedSays, EnginesTypedIsNext

LEMMA OrphansStand ==
    ASSUME UNCHANGED <<inst, table, closing>>, Manager!NoOrphans, ~closing,
           tick.at # "close" \/ (tick'.at = "close" /\ tick'.engine = tick.engine)
    PROVE  Manager!NoOrphans' BY DEF Manager!NoOrphans, Manager!Current, Manager!Insts

LEMMA TickBeginKeeps ==
    ASSUME EnginesTyped, E!Places, Rests, Manager!TickBegin
    PROVE  EnginesTyped' /\ Rests'
<1>1. /\ UNCHANGED <<Manager!sched, inst, callback, closing, request, table>>
      /\ tick.at = "asleep" /\ Manager!Following(Manager!Handed) BY DEF Manager!TickBegin
<1>2. Manager!Handed \in SUBSET Manager!Insts /\ Manager!Insts' = Manager!Insts
  BY <1>1, StandStill DEF Manager!Handed
<1>3. /\ TickFits(Manager!Insts)'
      /\ \/ tick'.at = "asleep" /\ tick'.todo = {}
         \/ /\ tick'.at = "look" /\ tick'.engine \in Manager!Handed
            /\ tick'.todo = Manager!Handed \ {tick'.engine} BY <1>1, <1>2, TickFollows
<1>4. EnginesTyped' BY <1>1, <1>3, EnginesTypedTick, EnginesTypedSays
<1>5. Evicting' BY <1>3 DEF Evicting
<1>6. ASSUME ~closing PROVE TableHolds' /\ Manager!NoOrphans'
  <2>1. TableHolds' BY <1>1, <1>3, <1>6 DEF Rests, TablesInv, TableHolds, Manager!Handed
  <2>2. Manager!NoOrphans' BY <1>1, <1>6, OrphansStand DEF Rests, TablesInv
  <2> QED BY <2>1, <2>2
<1> QED BY <1>1, <1>4, <1>5, <1>6, TickRests

LEMMA LookKeeps ==
    ASSUME EnginesTyped, E!Places, Rests, Manager!Look \/ Manager!CanEvict
    PROVE  EnginesTyped' /\ Rests'
<1>1. /\ UNCHANGED <<Manager!sched, inst, callback, closing, request, table>>
      /\ tick.at \in {"look", "idle"} BY DEF Manager!Look, Manager!CanEvict
<1>2. PICK at \in {"idle", "evict", "submit"} :
         /\ tick' = [tick EXCEPT !.at = at]
         /\ at = "idle" => Manager!SeemsIdle(tick.engine)
         /\ at = "evict" => tick.at = "idle" BY DEF Manager!Look, Manager!CanEvict, Manager!Current
<1>3. /\ TickFits(Manager!Insts)' /\ tick'.at = at
      /\ tick'.engine = tick.engine /\ tick'.todo = tick.todo
  BY <1>1, <1>2, StandStill, TickGoesTo, EnginesTypedSays
<1>4. EnginesTyped' BY <1>1, <1>3, EnginesTypedTick, EnginesTypedSays
<1>5. Evicting'
  <2>1. \A a : Manager!KeyBusy(a)' <=> Manager!KeyBusy(a) BY <1>1, StandStill
  <2>2. at \in {"idle", "evict"} => inst[tick.engine].account # 0 /\ ~Manager!KeyBusy(inst[tick.engine].account)
    BY <1>1, <1>2 DEF Manager!SeemsIdle, Manager!Market, Rests, Evicting
  <2> QED BY <1>1, <1>3, <2>1, <2>2 DEF Evicting
<1>6. ASSUME ~closing PROVE TableHolds' /\ Manager!NoOrphans'
  <2>1. TableHolds' BY <1>1, <1>3, <1>6 DEF Rests, TablesInv, TableHolds
  <2>2. Manager!NoOrphans' BY <1>1, <1>6, OrphansStand DEF Rests, TablesInv
  <2> QED BY <2>1, <2>2
<1> QED BY <1>1, <1>4, <1>5, <1>6, TickRests

LEMMA TickNextKeeps ==
    ASSUME EnginesTyped, E!Places, Rests, Manager!TickNext
    PROVE  EnginesTyped' /\ Rests'
<1>1. /\ UNCHANGED <<Manager!sched, inst, callback, closing, request, table>>
      /\ tick.at = "submit" /\ Manager!Following(tick.todo) BY DEF Manager!TickNext
<1>2. tick.todo \in SUBSET Manager!Insts /\ Manager!Insts' = Manager!Insts BY <1>1, StandStill DEF EnginesTyped
<1>3. /\ TickFits(Manager!Insts)'
      /\ \/ tick'.at = "asleep" /\ tick'.todo = {}
         \/ /\ tick'.at = "look" /\ tick'.engine \in tick.todo
            /\ tick'.todo = tick.todo \ {tick'.engine} BY <1>1, <1>2, TickFollows
<1>4. EnginesTyped' BY <1>1, <1>3, EnginesTypedTick, EnginesTypedSays
<1>5. Evicting' BY <1>3 DEF Evicting
<1>6. ASSUME ~closing PROVE TableHolds' /\ Manager!NoOrphans'
  <2>1. TableHolds' BY <1>1, <1>3, <1>6 DEF Rests, TablesInv, TableHolds
  <2>2. Manager!NoOrphans' BY <1>1, <1>6, OrphansStand DEF Rests, TablesInv
  <2> QED BY <2>1, <2>2
<1> QED BY <1>1, <1>4, <1>5, <1>6, TickRests

LEMMA EvictKeeps ==
    ASSUME EnginesTyped, E!Places, Rests, Manager!Evict
    PROVE  EnginesTyped' /\ Rests'
<1> DEFINE n == tick.engine
           a == inst[n].account
<1>1. /\ UNCHANGED <<Manager!sched, inst, callback, closing, request>>
      /\ tick.at = "evict"
      /\ \/ /\ table[a] = n /\ table' = [table EXCEPT ![a] = 0] /\ tick' = [tick EXCEPT !.at = "close"]
         \/ /\ table[a] # n /\ table' = table /\ tick' = [tick EXCEPT !.at = "submit"]
  BY DEF Manager!Evict, Manager!Account, Manager!Current, Manager!None
<1>2. n \in Manager!Insts /\ a # 0 /\ a \in Accounts \union {0} /\ ~Manager!KeyBusy(a)
  BY <1>1, InstShape DEF EnginesTyped, Rests, Evicting, EngineRecord
<1>3. /\ TickFits(Manager!Insts)' /\ tick'.at \in {"close", "submit"}
      /\ tick'.engine = tick.engine /\ tick'.todo = tick.todo BY <1>1, StandStill, TickGoesTo, EnginesTypedSays
<1>4. /\ table' \in [Accounts \union {0} -> Manager!Insts \union {0}]
      /\ \A b \in Accounts \union {0} : b # a => table'[b] = table[b] BY <1>1, EnginesTypedSays
<1>5. EnginesTyped' BY <1>1, <1>3, <1>4, EnginesTypedTick, EnginesTypedSays
<1>6. Evicting'
  <2>1. \A b : Manager!KeyBusy(b)' <=> Manager!KeyBusy(b) BY <1>1, StandStill
  <2> QED BY <1>1, <1>2, <1>3, <2>1 DEF Evicting
<1>7. ASSUME ~closing PROVE TableHolds' /\ Manager!NoOrphans'
  <2>1. table[a] = n /\ tick' = [tick EXCEPT !.at = "close"] /\ table' = [table EXCEPT ![a] = 0]
    BY <1>1, <1>7 DEF Rests, TablesInv, TableHolds
  <2>2. table'[a] = 0 /\ tick'.at = "close" BY <1>2, <2>1, EnginesTypedSays DEF TickFits
  <2>3. \A m \in Manager!Insts : inst[m].account \in Accounts \union {0} /\ m # 0 BY InstShape DEF EngineRecord
  <2>4. \A m \in tick.todo : m \in Manager!Insts /\ table[inst[m].account] = m /\ m # n
    BY <1>1, <1>7 DEF EnginesTyped, Rests, TablesInv, TableHolds
  <2>5. \A m \in tick.todo : inst[m].account # a BY <2>1, <2>4
  <2>6. TableHolds'
    <3>1. \A b \in Accounts \union {0} : table'[b] # 0 =>
              inst'[table'[b]].account = b /\ inst'[table'[b]].open
      BY <1>1, <1>4, <1>7, <2>2 DEF Rests, TablesInv, TableHolds
    <3>2. \A m \in tick'.todo : table'[inst'[m].account] = m BY <1>1, <1>3, <1>4, <2>3, <2>4, <2>5
    <3> QED BY <1>1, <1>2, <1>3, <1>7, <2>2, <2>4, InstShape, <3>1, <3>2 DEF TableHolds
  <2>7. Manager!NoOrphans'
    <3>1. ASSUME NEW m \in Manager!Insts, inst[m].open, m # n
          PROVE  /\ table'[inst[m].account] = m
                 /\ inst[m].account # 0 => inst[m].source = table'[0]
      <4>1. /\ table[inst[m].account] = m
            /\ inst[m].account # 0 => inst[m].source = table[0]
        BY <1>1, <1>7, <3>1 DEF Rests, TablesInv, Manager!NoOrphans, Manager!Current, Manager!Market
      <4>2. inst[m].account # a BY <2>1, <4>1, <3>1
      <4> QED BY <1>2, <1>4, <2>3, <4>1, <4>2
    <3> QED BY <1>1, <1>3, <2>2, <3>1, StandStill DEF Manager!NoOrphans, Manager!Current, Manager!Market
  <2> QED BY <2>6, <2>7
<1> QED BY <1>1, <1>5, <1>6, <1>7, TickRests

LEMMA CloseKeeps ==
    ASSUME EnginesTyped, E!Places, Rests, Manager!Close
    PROVE  EnginesTyped' /\ Rests'
<1> DEFINE n == tick.engine
           a == inst[n].account
           e == [[inst[n] EXCEPT !.open = FALSE] EXCEPT !.clients = 0]
<1>1. /\ UNCHANGED <<Manager!sched, callback, closing, request, table>>
      /\ tick.at = "close" /\ Manager!Following(tick.todo) /\ inst' = Manager!Closed(n)
  BY DEF Manager!Close, Manager!Current
<1>2. n \in Manager!Insts /\ a # 0 /\ ~Manager!KeyBusy(a) BY <1>1 DEF EnginesTyped, Rests, Evicting
<1>3. inst[n] \in EngineRecord BY <1>2, InstShape
<1>4. /\ e \in EngineRecord /\ e.account = a /\ e.source = inst[n].source /\ ~e.open BY <1>3 DEF EngineRecord
<1>5. inst' = [inst EXCEPT ![n] = e] BY <1>1 DEF Manager!Closed
<1> HIDE DEF e
<1>6. /\ inst' \in Seq(EngineRecord) /\ Len(inst') = Len(inst) /\ Manager!Insts' = Manager!Insts
      /\ inst'[n] = e /\ \A m \in Manager!Insts : m # n => inst'[m] = inst[m] BY <1>2, <1>4, <1>5, EngineChanges
<1>7. \A m \in Manager!Insts : /\ inst'[m].account = inst[m].account /\ inst'[m].source = inst[m].source
                               /\ inst'[m].open <=> (inst[m].open /\ m # n) BY <1>3, <1>4, <1>6
<1>8. tick.todo \in SUBSET Manager!Insts BY DEF EnginesTyped
<1>9. /\ TickFits(Manager!Insts)'
      /\ \/ tick'.at = "asleep" /\ tick'.todo = {}
         \/ /\ tick'.at = "look" /\ tick'.engine \in tick.todo
            /\ tick'.todo = tick.todo \ {tick'.engine} BY <1>1, <1>6, <1>8, TickFollows
<1>10. UNCHANGED <<engineTasks, engineQueue, engineBusy, engineWorker, engineSubmitter, engineJanitor>>
  BY <1>1 DEF Manager!sched
<1>11. EnginesTyped'
  <2>1. RequestsFit(Manager!Insts)' /\ CallbacksTyped(Manager!Insts)'
    BY <1>1, <1>6, <1>10, EnginesTypedSays, RequestsStand, CallbacksStand
  <2> QED BY <1>1, <1>6, <1>9, <2>1, EnginesTypedSays, EnginesTypedIsNext
<1>12. \A t : E!Held(t)' <=> E!Held(t) BY <1>10 DEF E!Held, E!Submitted, E!Waits, E!Works, E!Drains, E!Locked
<1>13. \A t \in 1..Len(engineTasks) : callback[t] \in Manager!Insts BY DEF EnginesTyped
<1>14. CallbacksFit' BY <1>1, <1>7, <1>10, <1>13 DEF Rests, CallbacksFit
<1>15. Evicting' BY <1>9 DEF Evicting
<1>16. SourcesFit' BY <1>6, <1>7 DEF Rests, TablesInv, SourcesFit
<1>17. ASSUME ~closing PROVE TableHolds' /\ Manager!NoOrphans'
  <2>1. /\ \A b \in Accounts \union {0} : table[b] # 0 => inst[table[b]].account = b /\ inst[table[b]].open
        /\ \A m \in tick.todo : table[inst[m].account] = m
        /\ table[a] # n /\ n \notin tick.todo BY <1>1, <1>17 DEF Rests, TablesInv, TableHolds
  <2>2. \A b \in Accounts \union {0} : table[b] # n BY <1>2, <2>1, InstShape
  <2>3. \A b \in Accounts \union {0} : table[b] # 0 => table[b] \in Manager!Insts BY EnginesTypedSays
  <2>4. TableHolds' BY <1>1, <1>7, <1>8, <1>9, <2>1, <2>2, <2>3 DEF TableHolds
  <2>5. Manager!NoOrphans' BY <1>1, <1>6, <1>7, <1>9, <1>17
       DEF Rests, TablesInv, Manager!NoOrphans, Manager!Current, Manager!Market
  <2> QED BY <2>4, <2>5
<1>18. TasksOpen'
  <2>1. ASSUME NEW t \in 1..Len(engineTasks), engineTasks[t].key[1] # "llm", E!Held(t) PROVE callback[t] # n
    <3>1. engineTasks[t].key \in engineBusy BY <2>1, HeldIsBusy
    <3>2. engineTasks[t].key[2] # a BY <1>2, <2>1, <3>1 DEF Manager!KeyBusy
    <3> QED BY <2>1, <3>2 DEF Rests, CallbacksFit
  <2> QED BY <1>1, <1>7, <1>10, <1>12, <1>13, <2>1 DEF Rests, TasksOpen
<1> QED BY <1>1, <1>11, <1>14, <1>15, <1>16, <1>17, <1>18 DEF Rests, TablesInv

LEMMA CloseAllKeeps ==
    ASSUME EnginesTyped, E!Places, Rests, Manager!CloseAll
    PROVE  EnginesTyped' /\ Rests'
<1>1. /\ UNCHANGED <<Manager!sched, callback, request, tick>> /\ closing' = TRUE
      /\ table' = [b \in DOMAIN table |-> 0]
      /\ inst' = [n \in Manager!Insts |->
                     IF table[inst[n].account] = n THEN Manager!Closed(n)[n] ELSE inst[n]]
  BY DEF Manager!CloseAll, Manager!None
<1>2. ASSUME NEW n \in Manager!Insts
      PROVE  /\ inst'[n] \in EngineRecord
             /\ inst'[n].account = inst[n].account /\ inst'[n].source = inst[n].source
  <2> DEFINE e == [[inst[n] EXCEPT !.open = FALSE] EXCEPT !.clients = 0]
  <2>1. inst[n] \in EngineRecord BY InstShape
  <2>2. Manager!Closed(n)[n] = e
    <3>1. inst \in [1..Len(inst) -> EngineRecord] /\ n \in 1..Len(inst) BY InstShape DEF EnginesTyped
    <3> QED BY <3>1 DEF Manager!Closed
  <2>3. /\ e \in EngineRecord /\ e.account = inst[n].account /\ e.source = inst[n].source
    BY <2>1 DEF EngineRecord
  <2>4. inst'[n] = Manager!Closed(n)[n] \/ inst'[n] = inst[n] BY <1>1
  <2> HIDE DEF e
  <2> QED BY <2>1, <2>2, <2>3, <2>4
<1>3. Len(inst) \in Nat /\ Manager!Insts = 1..Len(inst) BY InstShape
<1>4. inst' \in Seq(EngineRecord) /\ Len(inst') = Len(inst) /\ Manager!Insts' = Manager!Insts
  <2>1. inst' \in [1..Len(inst) -> EngineRecord] BY <1>1, <1>2, <1>3
  <2>2. inst' \in Seq(EngineRecord) /\ Len(inst') = Len(inst) BY <1>3, <2>1
  <2> QED BY <1>3, <2>1, <2>2 DEF Manager!Insts
<1>5. UNCHANGED <<engineTasks, engineBusy>> BY <1>1 DEF Manager!sched
<1>6. EnginesTyped'
  <2>1. RequestsFit(Manager!Insts)' /\ CallbacksTyped(Manager!Insts)' /\ TickFits(Manager!Insts)'
    BY <1>1, <1>4, <1>5, EnginesTypedSays, RequestsStand, CallbacksStand, TickStands
  <2>2. table' \in [Accounts \union {0} -> Manager!Insts \union {0}] BY <1>1, EnginesTypedSays
  <2> QED BY <1>1, <1>4, <2>1, <2>2, EnginesTypedSays, EnginesTypedIsNext
<1>7. /\ \A t \in 1..Len(engineTasks) : callback[t] \in Manager!Insts
      /\ tick.at # "asleep" => tick.engine \in Manager!Insts BY DEF EnginesTyped
<1>8. CallbacksFit' BY <1>1, <1>2, <1>5, <1>7 DEF Rests, CallbacksFit
<1>9. Evicting' BY <1>1, <1>2, <1>5, <1>7 DEF Rests, Evicting, Manager!KeyBusy
<1>10. SourcesFit' BY <1>2, <1>4 DEF Rests, TablesInv, SourcesFit
<1> QED BY <1>1, <1>6, <1>8, <1>9, <1>10 DEF Rests, TablesInv, TasksOpen

----------------------------------------
(* Submissions. *)
LEMMA NewTask ==
    ASSUME E!Places, NEW k \in Manager!Keys, E!SubmitCheck(k)
    PROVE  /\ Len(engineTasks') = Len(engineTasks) + 1
           /\ \A t \in 1..Len(engineTasks) : engineTasks'[t] = engineTasks[t]
           /\ engineTasks'[Len(engineTasks) + 1].key = k
           /\ engineTasks'[Len(engineTasks) + 1].mem = "queued"
           /\ \A t \in 1..Len(engineTasks) : E!Held(t)' => E!Held(t)
           /\ engineBusy' = engineBusy \union {k} /\ k \notin engineBusy
           /\ UNCHANGED <<engineWorker, engineStop, engineJanitor>>
           /\ ~engineStop /\ Len(engineTasks) \in Nat
<1>1. PICK row \in E!Persisted("none", "queued") :
         engineTasks' = Append(engineTasks, [key |-> k, mem |-> "queued", row |-> row, attempts |-> 0])
  BY DEF E!SubmitCheck
<1>2. /\ engineBusy' = engineBusy \union {k} /\ k \notin engineBusy /\ ~engineStop
      /\ UNCHANGED <<engineQueue, engineWorker, engineStop, engineJanitor>> BY DEF E!SubmitCheck, E!Refuses
<1> DEFINE new == [key |-> k, mem |-> "queued", row |-> row, attempts |-> 0]
<1>3. new \in E!TaskRecord /\ new.key = k /\ new.mem = "queued"
  BY <1>1 DEF E!TaskRecord, E!MemStatus, E!RowStatus, E!Persisted
<1>4. engineTasks \in Seq(E!TaskRecord) BY DEF E!Places, E!Typed, E!Sequenced
<1>5. engineTasks' = Append(engineTasks, new) BY <1>1
<1> HIDE DEF new
<1>6. /\ Len(engineTasks') = Len(engineTasks) + 1 /\ Len(engineTasks) \in Nat
      /\ \A t \in 1..Len(engineTasks) : engineTasks'[t] = engineTasks[t]
      /\ engineTasks'[Len(engineTasks) + 1] = new BY <1>3, <1>4, <1>5, AppendProperties
<1>7. \A t \in 1..Len(engineTasks) : E!Held(t)' => E!Held(t)
  BY <1>2, <1>6 DEF E!Held, E!Submitted, E!Waits, E!Works, E!Drains
<1> QED BY <1>2, <1>3, <1>6, <1>7

LEMMA SubmitKeeps ==
    ASSUME EnginesTyped, E!Places, Rests, NEW k \in Manager!Keys, NEW n \in Manager!Insts,
           Manager!Submit(k, n), UNCHANGED <<inst, table, tick, closing>>,
           RequestsFit(Manager!Insts)',
           k[1] # "llm" => /\ k[2] = inst[n].account /\ tick.at = "submit"
                           /\ closing \/ inst[n].open,
           \A m \in Nat : k = Manager!Manual(m) => m = n
    PROVE  EnginesTyped' /\ Rests'
<1> DEFINE new == Len(engineTasks) + 1
<1>1. E!SubmitCheck(k) /\ callback' = Append(callback, n) BY SchedulerOf DEF Manager!Submit
<1>2. /\ Len(engineTasks') = new
      /\ \A t \in 1..Len(engineTasks) : engineTasks'[t] = engineTasks[t]
      /\ engineTasks'[new].key = k
      /\ \A t \in 1..Len(engineTasks) : E!Held(t)' => E!Held(t)
      /\ engineBusy' = engineBusy \union {k} /\ Len(engineTasks) \in Nat BY <1>1, NewTask
<1>3. Manager!Insts' = Manager!Insts BY DEF Manager!Insts
<1>4. /\ CallbacksTyped(Manager!Insts)' /\ callback'[new] = n
      /\ \A t \in 1..Len(engineTasks) : callback'[t] = callback[t] BY <1>1, <1>2, <1>3, CallbackAdded
<1>5. \A t \in 1..Len(engineTasks') : t \in 1..Len(engineTasks) \/ t = new BY <1>2
<1> HIDE DEF new
<1>6. EnginesTyped'
  <2>1. TickFits(Manager!Insts)' BY <1>3, EnginesTypedSays, TickStands
  <2> QED BY <1>3, <1>4, <2>1, EnginesTypedSays, EnginesTypedIsNext
<1>7. CallbacksFit' BY <1>2, <1>4, <1>5 DEF Rests, CallbacksFit
<1>8. Evicting' BY <1>2 DEF Rests, Evicting, Manager!KeyBusy
<1>9. TablesInv'
  <2>1. SourcesFit' /\ (TableHolds' <=> TableHolds) BY <1>3 DEF Rests, TablesInv, SourcesFit, TableHolds
  <2>2. ~closing => Manager!NoOrphans' BY <1>3 DEF Rests, TablesInv, Manager!NoOrphans, Manager!Current
  <2> QED BY <2>1, <2>2 DEF Rests, TablesInv
<1>10. TasksOpen' BY <1>2, <1>4, <1>5 DEF Rests, TasksOpen
<1> QED BY <1>6, <1>7, <1>8, <1>9, <1>10 DEF Rests

LEMMA SubmitManualKeeps ==
    ASSUME EnginesTyped, E!Places, Rests, NEW r \in Requests, Manager!SubmitManual(r)
    PROVE  EnginesTyped' /\ Rests'
<1> DEFINE n == request[r].engine
           k == Manager!Manual(n)
<1>1. /\ request[r].at = "submitting" /\ Manager!Submit(k, n)
      /\ request' = [request EXCEPT ![r] = Manager!Idle]
      /\ UNCHANGED <<inst, table, tick, closing>> BY DEF Manager!SubmitManual
<1>2. n \in Manager!Insts /\ n \in 1..MaxEngines BY <1>1, InstShape, ServicesAssumption DEF EnginesTyped
<1>3. k \in Manager!Keys BY <1>2 DEF Manager!Keys
<1>4. k[1] = "llm" /\ \A m \in Nat : k = Manager!Manual(m) => m = n BY KeyKinds
<1>5. RequestsFit(Manager!Insts)'
  <2>1. Manager!Insts' = Manager!Insts BY <1>1 DEF Manager!Insts
  <2> QED BY <1>1, <2>1, RequestGoesOn, EnginesTypedSays
<1> HIDE DEF k, n
<1> QED BY <1>1, <1>2, <1>3, <1>4, <1>5, SubmitKeeps

LEMMA TickSubmitKeeps ==
    ASSUME EnginesTyped, E!Places, Rests, NEW k \in Manager!Keys, Manager!TickSubmit(k)
    PROVE  EnginesTyped' /\ Rests'
<1> DEFINE n == tick.engine
<1>1. /\ tick.at = "submit" /\ k \in Manager!Due(inst[n].account) /\ Manager!Submit(k, n)
      /\ UNCHANGED <<inst, table, request, tick, closing>>
  BY DEF Manager!TickSubmit, Manager!Account, Manager!Current
<1>2. n \in Manager!Insts BY <1>1 DEF EnginesTyped
<1>3. k[1] # "llm" /\ k[2] = inst[n].account
  BY <1>1, KeyKinds DEF Manager!Due, Manager!Market, Manager!Cleanup, Manager!Scheduled
<1>4. \A m \in Nat : k # Manager!Manual(m) BY <1>3, KeyKinds
<1>5. closing \/ inst[n].open BY <1>1, <1>2, InstShape DEF Rests, TablesInv, TableHolds, EngineRecord
<1>6. RequestsFit(Manager!Insts)'
  <2>1. Manager!Insts' = Manager!Insts BY <1>1 DEF Manager!Insts
  <2> QED BY <1>1, <2>1, RequestsStand, EnginesTypedSays
<1> HIDE DEF n
<1> QED BY <1>1, <1>2, <1>3, <1>4, <1>5, <1>6, SubmitKeeps

----------------------------------------
(* A request is given the engine of an account, which is made if there is
   none: the engines there are stay, new ones are open and in the table. *)
GrowsWith(a) ==
    /\ inst' \in Seq(EngineRecord) /\ Len(inst) <= Len(inst')
    /\ \A n \in Manager!Insts :
          /\ inst'[n].account = inst[n].account /\ inst'[n].source = inst[n].source
          /\ inst'[n].open = inst[n].open /\ inst'[n].analysing = inst[n].analysing
    /\ \A n \in Manager!Insts' \ Manager!Insts :
          /\ inst'[n].open /\ inst'[n].account \in Accounts \union {0} /\ inst'[n].analysing = "no"
          /\ table[inst'[n].account] = 0 /\ table'[inst'[n].account] = n
          /\ inst'[n].account # 0 => inst'[n].source # 0 /\ inst'[n].source = table'[0]
    /\ table' \in [Accounts \union {0} -> Manager!Insts' \union {0}]
    /\ \A b \in Accounts \union {0} :
          /\ table[b] # 0 => table'[b] = table[b]
          /\ table'[b] # table[b] =>
                table'[b] \in Manager!Insts' \ Manager!Insts /\ inst'[table'[b]].account = b
    /\ table'[a] # 0

LEMMA Touched ==
    ASSUME EnginesTyped, NEW n \in Manager!Insts
    PROVE  /\ Manager!Touch(inst, n) \in Seq(EngineRecord) /\ Len(Manager!Touch(inst, n)) = Len(inst)
           /\ \A m \in Manager!Insts :
                 /\ Manager!Touch(inst, n)[m].account = inst[m].account
                 /\ Manager!Touch(inst, n)[m].source = inst[m].source
                 /\ Manager!Touch(inst, n)[m].open = inst[m].open
                 /\ Manager!Touch(inst, n)[m].analysing = inst[m].analysing
<1> DEFINE e == [inst[n] EXCEPT !.recent = TRUE]
           s == [inst EXCEPT ![n] = e]
<1>1. inst \in Seq(EngineRecord) /\ n \in 1..Len(inst) /\ Manager!Insts = 1..Len(inst)
      /\ inst[n] \in EngineRecord BY InstShape DEF EnginesTyped
<1>2. /\ e \in EngineRecord /\ e.account = inst[n].account /\ e.source = inst[n].source
      /\ e.open = inst[n].open /\ e.analysing = inst[n].analysing BY <1>1 DEF EngineRecord
<1>3. Manager!Touch(inst, n) = s BY DEF Manager!Touch
<1> HIDE DEF e
<1>4. /\ s \in Seq(EngineRecord) /\ Len(s) = Len(inst)
      /\ \A m \in 1..Len(inst) : s[m] = IF m = n THEN e ELSE inst[m] BY <1>1, <1>2, ExceptSeq
<1> HIDE DEF s
<1> QED BY <1>1, <1>2, <1>3, <1>4

LEMMA NewEngineIs ==
    ASSUME NEW b \in Accounts \union {0}, NEW m \in Nat
    PROVE  /\ Manager!NewEngine(b, m) \in EngineRecord
           /\ Manager!NewEngine(b, m).account = b /\ Manager!NewEngine(b, m).source = m
           /\ Manager!NewEngine(b, m).open /\ Manager!NewEngine(b, m).analysing = "no"
  BY DEF Manager!NewEngine, EngineRecord

LEMMA TableGrows ==
    ASSUME EnginesTyped, NEW a \in Accounts \union {0},
           table[a] = 0, inst' = Manager!Provided(a),
           table' = [[table EXCEPT ![a] = Len(inst')] EXCEPT ![0] = Manager!MarketOf]
    PROVE  GrowsWith(a)
<1>1. /\ inst \in Seq(EngineRecord) /\ Len(inst) \in Nat /\ Manager!Insts = 1..Len(inst)
      /\ table \in [Accounts \union {0} -> Manager!Insts \union {0}]
      /\ \A n \in Manager!Insts : inst[n].account \in Accounts \union {0}
  BY InstShape DEF EnginesTyped, EngineRecord
<1>2. /\ Len(inst') \in Nat => (table'[a] = IF a = 0 THEN Manager!MarketOf ELSE Len(inst'))
      /\ table'[0] = Manager!MarketOf
      /\ \A b \in Accounts \union {0} : b # a /\ b # 0 => table'[b] = table[b]
      /\ DOMAIN table' = Accounts \union {0} BY <1>1
<1>3. table' = [b \in Accounts \union {0} |-> table'[b]] BY <1>1
<1> DEFINE market == Manager!NewEngine(0, 0)
<1>4. market \in EngineRecord /\ market.account = 0 /\ market.open /\ market.analysing = "no" BY NewEngineIs
<1>5. CASE a = 0
  <2>1. inst' = Append(inst, market) /\ Manager!MarketOf = Len(inst) + 1
    BY <1>5 DEF Manager!Provided, Manager!WithMarket, Manager!Market, Manager!None, Manager!MarketOf
  <2> HIDE DEF market
  <2>2. /\ inst' \in Seq(EngineRecord) /\ Len(inst') = Len(inst) + 1
        /\ DOMAIN inst' = 1..(Len(inst) + 1)
        /\ inst'[Len(inst) + 1] = market
        /\ \A m \in 1..Len(inst) : inst'[m] = inst[m] BY <1>1, <1>4, <2>1, EngineAdded
  <2>3. Manager!Insts' = 1..(Len(inst) + 1) BY <2>2 DEF Manager!Insts
  <2>4. Manager!Insts' \ Manager!Insts = {Len(inst) + 1} BY <1>1, <2>3
  <2>5. table' \in [Accounts \union {0} -> Manager!Insts' \union {0}]
    BY <1>1, <1>2, <1>3, <1>5, <2>1, <2>2, <2>3
  <2> QED BY <1>1, <1>2, <1>4, <1>5, <2>1, <2>2, <2>3, <2>4, <2>5 DEF GrowsWith
<1>6. CASE a # 0 /\ table[0] # 0
  <2> DEFINE touched == Manager!Touch(inst, table[0])
             made == Manager!NewEngine(a, table[0])
  <2>1. inst' = Append(touched, made) /\ Manager!MarketOf = table[0]
    BY <1>6 DEF Manager!Provided, Manager!WithMarket, Manager!Market, Manager!None, Manager!MarketOf
  <2>2. table[0] \in Manager!Insts /\ table[0] \in Nat BY <1>1, <1>6
  <2>3. /\ touched \in Seq(EngineRecord) /\ Len(touched) = Len(inst)
        /\ \A m \in Manager!Insts : /\ touched[m].account = inst[m].account
                                    /\ touched[m].source = inst[m].source
                                    /\ touched[m].open = inst[m].open
                                    /\ touched[m].analysing = inst[m].analysing BY <2>2, Touched
  <2>4. /\ made \in EngineRecord /\ made.account = a /\ made.source = table[0] /\ made.open
        /\ made.analysing = "no" BY <2>2, NewEngineIs
  <2> HIDE DEF touched, made
  <2>5. /\ inst' \in Seq(EngineRecord) /\ Len(inst') = Len(inst) + 1
        /\ DOMAIN inst' = 1..(Len(inst) + 1)
        /\ inst'[Len(inst) + 1] = made
        /\ \A m \in 1..Len(inst) : inst'[m] = touched[m] BY <2>1, <2>3, <2>4, EngineAdded
  <2>6. Manager!Insts' = 1..(Len(inst) + 1) BY <2>5 DEF Manager!Insts
  <2>7. Manager!Insts' \ Manager!Insts = {Len(inst) + 1} BY <1>1, <2>6
  <2>8. table' \in [Accounts \union {0} -> Manager!Insts' \union {0}]
    <3>1. \A b \in Accounts \union {0} : table'[b] \in Manager!Insts' \union {0}
      BY <1>1, <1>2, <1>6, <2>1, <2>5, <2>6
    <3> QED BY ONLY <1>3, <3>1
  <2>9. table'[a] = Len(inst) + 1 /\ table'[0] = table[0] BY <1>1, <1>2, <1>6, <2>1, <2>5
  <2>10. \A b \in Accounts \union {0} :
            /\ table[b] # 0 => table'[b] = table[b]
            /\ table'[b] # table[b] =>
                  table'[b] \in Manager!Insts' \ Manager!Insts /\ inst'[table'[b]].account = b
    BY <1>2, <1>6, <2>4, <2>5, <2>7, <2>9
  <2>11. \A n \in Manager!Insts' \ Manager!Insts :
          /\ inst'[n].open /\ inst'[n].account \in Accounts \union {0} /\ inst'[n].analysing = "no"
          /\ table[inst'[n].account] = 0 /\ table'[inst'[n].account] = n
          /\ inst'[n].account # 0 => inst'[n].source # 0 /\ inst'[n].source = table'[0]
    BY <1>6, <2>2, <2>4, <2>5, <2>7, <2>9
  <2>12. \A m \in Manager!Insts : inst'[m] = touched[m] BY <1>1, <2>5
  <2>13. Len(inst) <= Len(inst') /\ table'[a] # 0 BY <1>1, <2>5, <2>9
  <2>14. \A m \in Manager!Insts :
            /\ inst'[m].account = inst[m].account /\ inst'[m].source = inst[m].source
            /\ inst'[m].open = inst[m].open /\ inst'[m].analysing = inst[m].analysing BY <2>3, <2>12
  <2> QED BY ONLY <2>5, <2>8, <2>10, <2>11, <2>13, <2>14 DEF GrowsWith
<1>7. CASE a # 0 /\ table[0] = 0
  <2> DEFINE first == Append(inst, market)
             made == Manager!NewEngine(a, Len(inst) + 1)
  <2>1. inst' = Append(first, made) /\ Manager!MarketOf = Len(inst) + 1
    BY <1>1, <1>7 DEF Manager!Provided, Manager!WithMarket, Manager!Market, Manager!None, Manager!MarketOf
  <2>2. /\ made \in EngineRecord /\ made.account = a /\ made.source = Len(inst) + 1 /\ made.open
        /\ made.analysing = "no" BY <1>1, NewEngineIs
  <2> HIDE DEF market
  <2>3. /\ first \in Seq(EngineRecord) /\ Len(first) = Len(inst) + 1
        /\ first[Len(inst) + 1] = market
        /\ \A m \in 1..Len(inst) : first[m] = inst[m] BY <1>1, <1>4, EngineAdded
  <2> HIDE DEF first, made
  <2>4. /\ inst' \in Seq(EngineRecord) /\ Len(inst') = Len(inst) + 2
        /\ DOMAIN inst' = 1..(Len(inst) + 2)
        /\ inst'[Len(inst) + 2] = made
        /\ \A m \in 1..(Len(inst) + 1) : inst'[m] = first[m]
    <3>1. Len(first) + 1 = Len(inst) + 2 BY <1>1, <2>3
    <3>2. /\ inst' \in Seq(EngineRecord) /\ Len(inst') = Len(first) + 1
          /\ DOMAIN inst' = 1..(Len(first) + 1)
          /\ inst'[Len(first) + 1] = made
          /\ \A m \in 1..Len(first) : inst'[m] = first[m] BY <2>1, <2>2, <2>3, EngineAdded
    <3> QED BY <2>3, <3>1, <3>2
  <2>5. Manager!Insts' = 1..(Len(inst) + 2) BY <2>4 DEF Manager!Insts
  <2>6. Manager!Insts' \ Manager!Insts = {Len(inst) + 1, Len(inst) + 2} BY <1>1, <2>5
  <2>7. /\ \A m \in Manager!Insts : inst'[m] = inst[m]
        /\ inst'[Len(inst) + 1] = market BY <1>1, <2>3, <2>4
  <2>8. table' \in [Accounts \union {0} -> Manager!Insts' \union {0}]
    <3>1. \A b \in Accounts \union {0} : table'[b] \in Manager!Insts' \union {0}
      BY <1>1, <1>2, <1>7, <2>1, <2>4, <2>5
    <3> QED BY ONLY <1>3, <3>1
  <2>9. table'[a] = Len(inst) + 2 /\ table'[0] = Len(inst) + 1 BY <1>1, <1>2, <1>7, <2>1, <2>4
  <2>10. \A b \in Accounts \union {0} :
            /\ table[b] # 0 => table'[b] = table[b]
            /\ table'[b] # table[b] =>
                  table'[b] \in Manager!Insts' \ Manager!Insts /\ inst'[table'[b]].account = b
    BY <1>2, <1>4, <1>7, <2>2, <2>4, <2>6, <2>7, <2>9
  <2>11. \A n \in Manager!Insts' \ Manager!Insts :
          /\ inst'[n].open /\ inst'[n].account \in Accounts \union {0} /\ inst'[n].analysing = "no"
          /\ table[inst'[n].account] = 0 /\ table'[inst'[n].account] = n
          /\ inst'[n].account # 0 => inst'[n].source # 0 /\ inst'[n].source = table'[0]
    BY <1>1, <1>4, <1>7, <2>2, <2>4, <2>6, <2>7, <2>9
  <2>12. Len(inst) <= Len(inst') /\ table'[a] # 0 BY <1>1, <2>4, <2>9
  <2>13. \A m \in Manager!Insts :
            /\ inst'[m].account = inst[m].account /\ inst'[m].source = inst[m].source
            /\ inst'[m].open = inst[m].open /\ inst'[m].analysing = inst[m].analysing BY <2>7
  <2> QED BY ONLY <2>4, <2>8, <2>10, <2>11, <2>12, <2>13 DEF GrowsWith
<1> QED BY <1>5, <1>6, <1>7

LEMMA GetEngineGrows ==
    ASSUME EnginesTyped, NEW r \in Requests, NEW a \in Accounts \union {0}, Manager!GetEngine(r, a)
    PROVE  /\ GrowsWith(a) /\ Len(inst') <= MaxEngines
           /\ request' = [request EXCEPT ![r] = [at |-> "using", engine |-> table'[a]]]
           /\ UNCHANGED <<Manager!sched, tick, callback, closing>> /\ ~closing
           /\ request[r].at = "idle"
<1>1. /\ inst' = Manager!Provided(a) /\ Len(inst') <= MaxEngines
      /\ table' = IF table[a] # 0 THEN table
                  ELSE [table EXCEPT ![a] = Len(inst'), ![0] = Manager!MarketOf]
      /\ request' = [request EXCEPT ![r] = [at |-> "using", engine |-> table'[a]]]
      /\ UNCHANGED <<Manager!sched, tick, callback, closing>> /\ ~closing
      /\ request[r].at = "idle" BY DEF Manager!GetEngine, Manager!None, Manager!Market
<1>2. CASE table[a] # 0
  <2>1. inst' = Manager!Touch(inst, table[a]) /\ table' = table BY <1>1, <1>2 DEF Manager!Provided, Manager!None
  <2>2. table[a] \in Manager!Insts /\ table \in [Accounts \union {0} -> Manager!Insts \union {0}]
    BY <1>2 DEF EnginesTyped
  <2>3. /\ inst' \in Seq(EngineRecord) /\ Len(inst') = Len(inst)
        /\ \A m \in Manager!Insts :
              /\ inst'[m].account = inst[m].account /\ inst'[m].source = inst[m].source
              /\ inst'[m].open = inst[m].open /\ inst'[m].analysing = inst[m].analysing BY <2>1, <2>2, Touched
  <2>4. Manager!Insts' = Manager!Insts /\ Len(inst) \in Nat BY <2>3, InstShape DEF Manager!Insts
  <2>5. GrowsWith(a) BY <1>2, <2>1, <2>2, <2>3, <2>4 DEF GrowsWith
  <2> QED BY <1>1, <2>5
<1>3. CASE table[a] = 0
  <2>1. table' = [[table EXCEPT ![a] = Len(inst')] EXCEPT ![0] = Manager!MarketOf] BY <1>1, <1>3
  <2> QED BY <1>1, <1>3, <2>1, TableGrows
<1> QED BY <1>2, <1>3

LEMMA InstsGrow ==
    ASSUME EnginesTyped, inst' \in Seq(EngineRecord), Len(inst) <= Len(inst')
    PROVE  Manager!Insts \subseteq Manager!Insts' /\ 0 \notin Manager!Insts'
<1>1. Len(inst') \in Nat /\ Manager!Insts' = 1..Len(inst') BY DEF Manager!Insts
<1> QED BY <1>1, InstShape

LEMMA GetEngineKeeps ==
    ASSUME EnginesTyped, E!Places, Rests,
           NEW r \in Requests, NEW a \in Accounts \union {0}, Manager!GetEngine(r, a)
    PROVE  EnginesTyped' /\ Rests'
<1>1. /\ GrowsWith(a) /\ Len(inst') <= MaxEngines
      /\ request' = [request EXCEPT ![r] = [at |-> "using", engine |-> table'[a]]]
      /\ UNCHANGED <<Manager!sched, tick, callback, closing>> /\ ~closing BY GetEngineGrows
<1>2. Manager!Insts \subseteq Manager!Insts' /\ 0 \notin Manager!Insts' BY <1>1, InstsGrow DEF GrowsWith
<1>3. UNCHANGED <<engineTasks, engineQueue, engineBusy, engineWorker, engineSubmitter, engineJanitor>>
  BY <1>1 DEF Manager!sched
<1>4. \A t : E!Held(t)' <=> E!Held(t) BY <1>3 DEF E!Held, E!Submitted, E!Waits, E!Works, E!Drains, E!Locked
<1>5. EnginesTyped'
  <2>1. table'[a] \in Manager!Insts' BY <1>1 DEF GrowsWith
  <2>2. RequestsFit(Manager!Insts)'
    <3>1. /\ request \in [Requests -> RequestRecord(Manager!Insts)]
          /\ \A s \in Requests : request[s].at # "idle" => request[s].engine \in Manager!Insts
      BY EnginesTypedSays DEF RequestsFit
    <3>2. [at |-> "using", engine |-> table'[a]] \in RequestRecord(Manager!Insts') BY <2>1 DEF RequestRecord
    <3>3. request \in [Requests -> RequestRecord(Manager!Insts')] BY <1>2, <3>1 DEF RequestRecord
    <3>4. /\ request' \in [Requests -> RequestRecord(Manager!Insts')]
          /\ request'[r].engine = table'[a] /\ \A s \in Requests : s # r => request'[s] = request[s]
      BY <1>1, <3>2, <3>3
    <3> QED BY <1>2, <2>1, <3>1, <3>4 DEF RequestsFit, RequestRecord
  <2>3. TickFits(Manager!Insts)' BY <1>1, <1>2, EnginesTypedSays DEF TickFits
  <2>4. CallbacksTyped(Manager!Insts)' BY <1>1, <1>2, <1>3, EnginesTypedSays DEF CallbacksTyped
  <2> QED BY <1>1, <2>2, <2>3, <2>4, EnginesTypedSays, EnginesTypedIsNext DEF GrowsWith
<1>6. /\ \A t \in 1..Len(engineTasks) : callback[t] \in Manager!Insts
      /\ tick.at # "asleep" => tick.engine \in Manager!Insts
      /\ tick.todo \subseteq Manager!Insts
      /\ \A b \in Accounts \union {0} : table[b] \in Manager!Insts \union {0}
      /\ \A n \in Manager!Insts : inst[n].account \in Accounts \union {0} /\ n # 0
  BY InstShape DEF EnginesTyped, EngineRecord
<1>7. CallbacksFit' BY <1>1, <1>3, <1>6 DEF Rests, CallbacksFit, GrowsWith
<1>8. Evicting' BY <1>1, <1>3, <1>6 DEF Rests, Evicting, GrowsWith, Manager!KeyBusy
<1>9. SourcesFit' BY <1>1, <1>2 DEF Rests, TablesInv, SourcesFit, GrowsWith
<1>10. TasksOpen' BY <1>1, <1>3, <1>4, <1>6 DEF Rests, TasksOpen, GrowsWith
<1>11. TableHolds'
  <2>1. \A b \in Accounts \union {0} : table'[b] # 0 =>
           inst'[table'[b]].account = b /\ inst'[table'[b]].open
    BY <1>1, <1>6 DEF Rests, TablesInv, TableHolds, GrowsWith
  <2>2. \A n \in tick'.todo : table'[inst'[n].account] = n
    BY <1>1, <1>6 DEF Rests, TablesInv, TableHolds, GrowsWith
  <2>3. tick'.at \notin {"asleep", "close"} => table'[inst'[tick'.engine].account] = tick'.engine
    BY <1>1, <1>6 DEF Rests, TablesInv, TableHolds, GrowsWith
  <2>4. tick'.at = "close" => table'[inst'[tick'.engine].account] # tick'.engine
    BY <1>1, <1>6 DEF Rests, TablesInv, TableHolds, GrowsWith
  <2> QED BY <1>1, <2>1, <2>2, <2>3, <2>4 DEF Rests, TablesInv, TableHolds
<1>12. Manager!NoOrphans'
  <2>1. ASSUME NEW n \in Manager!Insts, inst'[n].open, ~(tick.at = "close" /\ tick.engine = n)
        PROVE  /\ table'[inst'[n].account] = n
               /\ inst'[n].account # 0 => inst'[n].source = table'[0]
    <3>1. /\ table[inst[n].account] = n
          /\ inst[n].account # 0 => inst[n].source = table[0] /\ inst[n].source # 0 BY <1>1, <2>1
         DEF Rests, TablesInv, SourcesFit, Manager!NoOrphans, Manager!Current, Manager!Market, GrowsWith
    <3> QED BY <1>1, <1>6, <3>1 DEF GrowsWith
  <2>2. \A n \in Manager!Insts' \ Manager!Insts :
           /\ table'[inst'[n].account] = n
           /\ inst'[n].account # 0 => inst'[n].source = table'[0] BY <1>1 DEF GrowsWith
  <2> QED BY <1>1, <2>1, <2>2 DEF Manager!NoOrphans, Manager!Current, Manager!Market
<1> QED BY <1>1, <1>5, <1>7, <1>8, <1>9, <1>10, <1>11, <1>12 DEF Rests, TablesInv

----------------------------------------
(* The other steps. *)
LEMMA SchedStands ==
    ASSUME UNCHANGED Manager!sched
    PROVE  E!NoMoreKeys /\ E!SameAlive /\ E!SameCalling /\ UNCHANGED <<engineStop, engineJanitor, engineTasks, engineWorker>>
<1>1. UNCHANGED <<engineTasks, engineQueue, engineBusy, engineWorker, engineSubmitter, engineJanitor,
                  engineStop>> BY DEF Manager!sched
<1>2. \A t : E!Held(t)' <=> E!Held(t) BY <1>1 DEF E!Held, E!Submitted, E!Waits, E!Works, E!Drains, E!Locked
<1> QED BY <1>1, <1>2 DEF E!NoMoreKeys, E!SameAlive, E!Alive, E!SameCalling

LEMMA QuietKeeps ==
    ASSUME EnginesTyped, Rests, E!NoMoreKeys, UNCHANGED <<table, tick, closing, callback>>,
           inst' = inst \/ \E n \in Manager!Insts : Writes(n),
           Manager!Insts' = Manager!Insts => RequestsFit(Manager!Insts)'
    PROVE  EnginesTyped' /\ Rests'
<1>1. SameEngines /\ inst' \in Seq(EngineRecord) /\ Manager!Insts' = Manager!Insts
  <2>1. CASE inst' = inst BY <2>1 DEF SameEngines, EnginesTyped, Manager!Insts
  <2>2. ASSUME NEW n \in Manager!Insts, Writes(n)
        PROVE  SameEngines /\ inst' \in Seq(EngineRecord) /\ Manager!Insts' = Manager!Insts
    BY <2>2, EngineWritten DEF Writes
  <2> QED BY <2>1, <2>2
<1>2. TickFits(Manager!Insts)' /\ CallbacksTyped(Manager!Insts)'
  BY <1>1, EnginesTypedSays, TickStands, CallbacksStand DEF E!NoMoreKeys
<1>3. EnginesTyped' BY <1>1, <1>2, EnginesTypedSays, EnginesTypedIsNext DEF SameEngines
<1> QED BY <1>1, <1>3, NothingMoves

LEMMA RequestKeeps ==
    ASSUME EnginesTyped, E!Places, Rests, NEW r \in Requests,
           \/ Manager!Finish(r) \/ Manager!Connect(r) \/ Manager!Disconnect(r)
           \/ Manager!Trigger(r) \/ Manager!RefuseManual(r)
    PROVE  EnginesTyped' /\ Rests'
<1>1. UNCHANGED <<Manager!sched, table, tick, closing, callback>>
  BY DEF Manager!Finish, Manager!Connect, Manager!Disconnect, Manager!Trigger, Manager!RefuseManual
<1>2. inst' = inst \/ \E n \in Manager!Insts : Writes(n)
  <2>1. CASE Manager!Finish(r) BY <2>1 DEF Manager!Finish
  <2>2. CASE ~Manager!Finish(r) BY <2>2, ConnectWrites DEF Writes
  <2> QED BY <2>1, <2>2
<1>3. Manager!Insts' = Manager!Insts => RequestsFit(Manager!Insts)'
  <2>1. \/ request' = [request EXCEPT ![r] = Manager!Idle]
        \/ /\ request[r].at # "idle"
           /\ \/ request' = [request EXCEPT ![r].at = "connected"]
              \/ request' = [request EXCEPT ![r].at = "submitting"]
    BY DEF Manager!Finish, Manager!Connect, Manager!Disconnect, Manager!Trigger, Manager!RefuseManual
  <2> QED BY <2>1, RequestGoesOn, EnginesTypedSays
<1> QED BY <1>1, <1>2, <1>3, SchedStands, QuietKeeps

LEMMA OtherKeeps ==
    ASSUME EnginesTyped, E!Places, Rests,
           \/ \E n \in Manager!Insts : Manager!Age(n)
           \/ Manager!SchedulerStep \/ Manager!Shutdown
           \/ \E w \in Callers : Manager!Attempt(w) \/ Manager!CallbackEnds(w)
           \/ UNCHANGED Manager!vars
    PROVE  EnginesTyped' /\ Rests'
<1>1. UNCHANGED <<table, tick, closing, callback, request>>
  BY DEF Manager!Age, Manager!SchedulerStep, Manager!Shutdown, Manager!Attempt, Manager!CallbackEnds,
         Manager!vars
<1>2. inst' = inst \/ \E n \in Manager!Insts : Writes(n)
  <2>1. ASSUME NEW n \in Manager!Insts, Manager!Age(n) PROVE Writes(n) BY <2>1, AgeWrites
  <2>2. ASSUME NEW w \in Callers, Manager!Attempt(w) \/ Manager!CallbackEnds(w)
        PROVE  inst' = inst \/ \E n \in Manager!Insts : Writes(n) BY <2>2, AnalysisWrites DEF Writes
  <2>3. CASE Manager!SchedulerStep \/ Manager!Shutdown \/ UNCHANGED Manager!vars
    BY <2>3 DEF Manager!SchedulerStep, Manager!Shutdown, Manager!vars
  <2> QED BY <2>1, <2>2, <2>3
<1>3. Manager!Insts' = Manager!Insts => RequestsFit(Manager!Insts)' BY <1>1, RequestsStand, EnginesTypedSays
<1>4. E!NoMoreKeys
  <2>1. ASSUME NEW n \in Manager!Insts, Manager!Age(n) PROVE UNCHANGED Manager!sched BY <2>1 DEF Manager!Age
  <2>2. ASSUME NEW w \in Callers, Manager!Attempt(w) \/ Manager!CallbackEnds(w) PROVE E!NoMoreKeys
    <3>1. E!Attempt(w) \/ E!Succeed(w) \/ E!Fail(w)
      BY <2>2, SchedulerOf DEF Manager!Attempt, Manager!CallbackEnds
    <3> QED BY <3>1, E!AttemptIsQuiet, E!ReturnIsQuiet
  <2>3. CASE Manager!SchedulerStep
    <3>1. \/ E!SubmitPut \/ E!Drain \/ E!Cancel
          \/ \E w \in Callers : E!Take(w) \/ E!Running(w) \/ E!Release(w)
      BY <2>3, SchedulerOf DEF Manager!SchedulerStep
    <3> QED
      BY <3>1, E!PutIsQuiet, E!DrainIsQuiet, E!CancelIsQuiet, E!TakeIsQuiet, E!RunningIsQuiet, E!ReleaseIsQuiet
  <2>4. CASE Manager!Shutdown BY <2>4, SchedulerOf, E!ShutdownIsQuiet DEF Manager!Shutdown
  <2>5. CASE UNCHANGED Manager!vars BY <2>5, SchedStands DEF Manager!vars
  <2> QED BY <2>1, <2>2, <2>3, <2>4, <2>5, SchedStands
<1> QED BY <1>1, <1>2, <1>3, <1>4, QuietKeeps

LEMMA RestsStep ==
    ASSUME EnginesTyped, E!Places, Rests, [Manager!Next]_(Manager!vars)
    PROVE  EnginesTyped' /\ Rests'
<1>1. ASSUME NEW r \in Requests, Manager!RequestStep(r) PROVE EnginesTyped' /\ Rests'
  <2>1. ASSUME NEW a \in Accounts \union {0}, Manager!GetEngine(r, a) PROVE EnginesTyped' /\ Rests'
    BY <2>1, GetEngineKeeps
  <2> QED BY <1>1, <2>1, RequestKeeps, SubmitManualKeeps DEF Manager!RequestStep, Manager!Market
<1>2. CASE Manager!TickStep
  BY <1>2, TickBeginKeeps, LookKeeps, EvictKeeps, CloseKeeps, TickSubmitKeeps, TickNextKeeps
     DEF Manager!TickStep
<1>3. CASE \/ \E n \in Manager!Insts : Manager!Age(n)
           \/ Manager!SchedulerStep \/ Manager!Shutdown
           \/ \E w \in Callers : Manager!Attempt(w) \/ Manager!CallbackEnds(w)
           \/ UNCHANGED Manager!vars BY <1>3, OtherKeeps
<1> QED BY <1>1, <1>2, <1>3, CloseAllKeeps DEF Manager!Next

----------------------------------------
(* The lock of an analyzer. *)
LEMMA HoldersStand ==
    ASSUME EnginesTyped, E!Places, WorkersHold, E!SameCalling,
           \A t \in 1..Len(engineTasks) : /\ engineTasks'[t].key = engineTasks[t].key
                                          /\ callback'[t] = callback[t],
           \A n \in Manager!Insts' : inst'[n].analysing \in Callers =>
               n \in Manager!Insts /\ inst[n].analysing = inst'[n].analysing
    PROVE  WorkersHold'
<1>1. ASSUME NEW n \in Manager!Insts', inst'[n].analysing \in Callers
      PROVE  LET w == inst'[n].analysing
             IN  /\ engineWorker'[w].at = "calling"
                 /\ engineTasks'[engineWorker'[w].task].key = Manager!Scheduled
                 /\ callback'[engineWorker'[w].task] = n
  <2> DEFINE w == inst'[n].analysing
  <2>1. /\ engineWorker[w].at = "calling"
        /\ engineTasks[engineWorker[w].task].key = Manager!Scheduled
        /\ callback[engineWorker[w].task] = n /\ w \in Callers BY <1>1 DEF WorkersHold
  <2>2. engineWorker[w].task \in 1..Len(engineTasks) BY <2>1, E!TaskIds DEF E!Places, E!PlaceInv, E!Stages
  <2>3. engineWorker'[w] = engineWorker[w] BY <2>1 DEF E!SameCalling
  <2> QED BY <2>1, <2>2, <2>3
<1> QED BY <1>1 DEF WorkersHold

LEMMA ManualStands ==
    ASSUME ManualHeld,
           \A n \in Manager!Insts :
              /\ inst'[n].analysing = "manual" <=> inst[n].analysing = "manual"
              /\ \A r \in Requests : Triggers(r, n)' <=> Triggers(r, n)
              /\ \A t : Pends(t, n)' <=> Pends(t, n),
           \A n \in Manager!Insts' \ Manager!Insts :
              /\ inst'[n].analysing # "manual"
              /\ \A r \in Requests : ~Triggers(r, n)'
              /\ \A t : ~Pends(t, n)'
    PROVE  ManualHeld'
<1>1. ASSUME NEW n \in Manager!Insts', n \in Manager!Insts
      PROVE  /\ inst'[n].analysing = "manual" =>
                   (\E r \in Requests : Triggers(r, n)') \/ (\E t : Pends(t, n)')
             /\ \A r \in Requests : Triggers(r, n)' => inst'[n].analysing = "manual"
             /\ \A t : Pends(t, n)' => inst'[n].analysing = "manual"
             /\ \A r, s \in Requests : Triggers(r, n)' /\ Triggers(s, n)' => r = s
             /\ \A t, u : Pends(t, n)' /\ Pends(u, n)' => t = u
             /\ \A r \in Requests : \A t : ~(Triggers(r, n)' /\ Pends(t, n)') BY <1>1 DEF ManualHeld
<1> QED BY <1>1 DEF ManualHeld

(* Who waits for a manual analysis does so for an engine that is there. *)
LEMMA PendsFits ==
    ASSUME EnginesTyped, CallbacksFit, NEW n \in Nat, NEW t, Pends(t, n)
    PROVE  callback[t] = n /\ n \in Manager!Insts BY DEF EnginesTyped, CallbacksFit, Pends

LEMMA TriggersFits ==
    ASSUME EnginesTyped, NEW r \in Requests, NEW n, Triggers(r, n)
    PROVE  n \in Manager!Insts BY DEF EnginesTyped, Triggers

LEMMA PendsStand ==
    ASSUME E!NoMoreKeys, E!SameAlive, NEW t, NEW n
    PROVE  Pends(t, n)' <=> Pends(t, n) BY DEF E!NoMoreKeys, E!SameAlive, E!Alive, Pends

(* Steps that neither take nor give a lock. *)
SameLocks ==
    \A n \in Manager!Insts : inst'[n].analysing = inst[n].analysing

LEMMA QuietLocks ==
    ASSUME EnginesTyped, E!Places, LocksInv, E!NoMoreKeys, E!SameAlive, E!SameCalling, SameLocks,
           Manager!Insts' = Manager!Insts, UNCHANGED callback,
           \A r \in Requests : \A n : Triggers(r, n)' <=> Triggers(r, n),
           engineStop => engineStop', DrainsWhenStopped'
    PROVE  LocksInv'
<1>1. WorkersHold' BY HoldersStand DEF LocksInv, E!NoMoreKeys, SameLocks
<1>2. ASSUME ~engineStop' PROVE ManualHeld'
  <2>1. ManualHeld BY <1>2 DEF LocksInv
  <2> QED BY <2>1, ManualStands, PendsStand DEF SameLocks
<1> QED BY <1>1, <1>2 DEF LocksInv

LEMMA SameLocksWhen ==
    ASSUME EnginesTyped, NEW n \in Manager!Insts, NEW r \in EngineRecord,
           inst' = [inst EXCEPT ![n] = r], r.analysing = inst[n].analysing
    PROVE  SameLocks /\ Manager!Insts' = Manager!Insts BY EngineChanges DEF SameLocks

LEMMA SchedulerLocks ==
    ASSUME EnginesTyped, E!Places, LocksInv, Manager!SchedulerStep \/ Manager!Shutdown
    PROVE  LocksInv'
<1>1. UNCHANGED <<inst, table, request, tick, callback, closing>> BY DEF Manager!SchedulerStep, Manager!Shutdown
<1>2. \/ E!SubmitPut \/ E!Drain \/ E!Cancel \/ E!Shutdown
      \/ \E w \in Callers : E!Take(w) \/ E!Running(w) \/ E!Release(w)
  BY SchedulerOf DEF Manager!SchedulerStep, Manager!Shutdown
<1>3. /\ E!NoMoreKeys /\ E!SameCalling
      /\ E!SameAlive \/ engineJanitor.at # "none"
  BY <1>2, E!PutIsQuiet, E!DrainIsQuiet, E!CancelIsQuiet, E!TakeIsQuiet, E!RunningIsQuiet, E!ReleaseIsQuiet,
     E!ShutdownIsQuiet
<1>4. (engineStop => engineStop') /\ DrainsWhenStopped'
  BY <1>2 DEF LocksInv, DrainsWhenStopped, E!SubmitPut, E!Drain, E!Cancel, E!Shutdown, E!Take, E!Running,
     E!Release
<1>5. SameLocks /\ Manager!Insts' = Manager!Insts BY <1>1 DEF SameLocks, Manager!Insts
<1>6. \A r \in Requests : \A n : Triggers(r, n)' <=> Triggers(r, n) BY <1>1 DEF Triggers
<1>7. CASE E!SameAlive BY <1>1, <1>3, <1>4, <1>5, <1>6, <1>7, QuietLocks
<1>8. CASE engineJanitor.at # "none"
  <2>1. engineStop' BY <1>4, <1>8 DEF LocksInv, DrainsWhenStopped
  <2>2. WorkersHold' BY <1>1, <1>3, <1>5, HoldersStand DEF LocksInv, E!NoMoreKeys, SameLocks
  <2> QED BY <1>4, <2>1, <2>2 DEF LocksInv
<1> QED BY <1>3, <1>7, <1>8

(* Steps of the tick thread, of the clock and of requests but trigger_analysis. *)
LEMMA OtherLocks ==
    ASSUME EnginesTyped, E!Places, LocksInv,
           \/ \E r \in Requests : Manager!Finish(r) \/ Manager!Connect(r) \/ Manager!Disconnect(r)
           \/ \E n \in Manager!Insts : Manager!Age(n)
           \/ Manager!TickBegin \/ Manager!Look \/ Manager!CanEvict \/ Manager!Evict
           \/ Manager!Close \/ Manager!TickNext \/ UNCHANGED Manager!vars
    PROVE  LocksInv'
<1>1. UNCHANGED <<Manager!sched, callback>>
  BY DEF Manager!Finish, Manager!Connect, Manager!Disconnect, Manager!Age, Manager!TickBegin, Manager!Look,
     Manager!CanEvict, Manager!Evict, Manager!Close, Manager!TickNext, Manager!vars
<1>2. SameLocks /\ Manager!Insts' = Manager!Insts
  <2>1. CASE inst' = inst BY <2>1 DEF SameLocks, Manager!Insts
  <2>2. ASSUME NEW n \in Manager!Insts, NEW e \in EngineRecord, inst' = [inst EXCEPT ![n] = e],
               e.analysing = inst[n].analysing
        PROVE  SameLocks /\ Manager!Insts' = Manager!Insts BY <2>2, SameLocksWhen
  <2>3. ASSUME NEW n \in Manager!Insts
        PROVE  \A e \in {[inst[n] EXCEPT !.clients = @ + 1],
                         [inst[n] EXCEPT !.clients = IF @ = 0 THEN 0 ELSE @ - 1],
                         [inst[n] EXCEPT !.recent = FALSE],
                         [[inst[n] EXCEPT !.open = FALSE] EXCEPT !.clients = 0]} :
                  e \in EngineRecord /\ e.analysing = inst[n].analysing
    <3>1. inst[n] \in EngineRecord BY InstShape
    <3> DEFINE more == [inst[n] EXCEPT !.clients = @ + 1]
               less == [inst[n] EXCEPT !.clients = IF @ = 0 THEN 0 ELSE @ - 1]
               old == [inst[n] EXCEPT !.recent = FALSE]
               shut == [[inst[n] EXCEPT !.open = FALSE] EXCEPT !.clients = 0]
    <3>2. more \in EngineRecord /\ more.analysing = inst[n].analysing BY <3>1 DEF EngineRecord
    <3>3. less \in EngineRecord /\ less.analysing = inst[n].analysing BY <3>1 DEF EngineRecord
    <3>4. old \in EngineRecord /\ old.analysing = inst[n].analysing BY <3>1 DEF EngineRecord
    <3>5. shut \in EngineRecord /\ shut.analysing = inst[n].analysing BY <3>1 DEF EngineRecord
    <3>6. \A e \in {more, less, old, shut} : e \in EngineRecord /\ e.analysing = inst[n].analysing
      <4> HIDE DEF more, less, old, shut
      <4> QED BY <3>2, <3>3, <3>4, <3>5
    <3> QED BY <3>6
  <2>4. ASSUME NEW r \in Requests, Manager!Connect(r) \/ Manager!Disconnect(r)
        PROVE  \E n \in Manager!Insts :
                  \/ inst' = [inst EXCEPT ![n] = [inst[n] EXCEPT !.clients = @ + 1]]
                  \/ inst' = [inst EXCEPT ![n] = [inst[n] EXCEPT !.clients = IF @ = 0 THEN 0 ELSE @ - 1]]
    <3>1. request[r].engine \in Manager!Insts BY <2>4 DEF Manager!Connect, Manager!Disconnect, EnginesTyped
    <3> QED BY <2>4, <3>1 DEF Manager!Connect, Manager!Disconnect
  <2>5. ASSUME NEW n \in Manager!Insts, Manager!Age(n)
        PROVE  inst' = [inst EXCEPT ![n] = [inst[n] EXCEPT !.recent = FALSE]] BY <2>5 DEF Manager!Age
  <2>6. CASE Manager!Close
    <3>1. tick.engine \in Manager!Insts BY <2>6 DEF Manager!Close, EnginesTyped
    <3>2. inst' = [inst EXCEPT ![tick.engine] =
                      [[inst[tick.engine] EXCEPT !.open = FALSE] EXCEPT !.clients = 0]]
      BY <2>6 DEF Manager!Close, Manager!Closed, Manager!Current
    <3> QED BY <2>2, <2>3, <3>1, <3>2
  <2>7. CASE \/ Manager!TickBegin \/ Manager!Look \/ Manager!CanEvict \/ Manager!Evict
             \/ Manager!TickNext \/ UNCHANGED Manager!vars \/ \E r \in Requests : Manager!Finish(r)
    BY <2>1, <2>7 DEF Manager!TickBegin, Manager!Look, Manager!CanEvict, Manager!Evict, Manager!TickNext,
       Manager!vars, Manager!Finish
  <2> QED BY <2>2, <2>3, <2>4, <2>5, <2>6, <2>7
<1>3. \A r \in Requests : \A n : Triggers(r, n)' <=> Triggers(r, n)
  <2>1. CASE request' = request BY <2>1 DEF Triggers
  <2>2. ASSUME NEW r \in Requests, Manager!Finish(r) \/ Manager!Connect(r) \/ Manager!Disconnect(r)
        PROVE  /\ request[r].at # "submitting" /\ request'[r].at # "submitting"
               /\ \A s \in Requests : s # r => request'[s] = request[s]
    <3>1. request \in [Requests -> RequestRecord(Manager!Insts)] BY EnginesTypedSays DEF RequestsFit
    <3>2. request[r] \in RequestRecord(Manager!Insts) /\ request[r].at \in {"using", "connected"}
      BY <2>2, <3>1 DEF Manager!Finish, Manager!Connect, Manager!Disconnect
    <3> DEFINE on == [request[r] EXCEPT !.at = "connected"]
    <3>3. \/ request' = [request EXCEPT ![r] = Manager!Idle]
          \/ request' = [request EXCEPT ![r] = on]
      BY <2>2 DEF Manager!Finish, Manager!Connect, Manager!Disconnect
    <3>4. Manager!Idle.at # "submitting" /\ on.at # "submitting" BY <3>2 DEF Manager!Idle, RequestRecord
    <3> HIDE DEF on
    <3> QED BY <3>1, <3>2, <3>3, <3>4
  <2>3. ASSUME NEW r \in Requests, NEW s \in Requests, NEW n,
               Manager!Finish(r) \/ Manager!Connect(r) \/ Manager!Disconnect(r)
        PROVE  Triggers(s, n)' <=> Triggers(s, n)
    <3>1. request[r] # [at |-> "submitting", engine |-> n] /\ request'[r] # [at |-> "submitting", engine |-> n]
      BY <2>2, <2>3
    <3> QED BY <2>2, <2>3, <3>1 DEF Triggers
  <2>4. \/ request' = request
        \/ \E r \in Requests : Manager!Finish(r) \/ Manager!Connect(r) \/ Manager!Disconnect(r)
    BY DEF Manager!Age, Manager!TickBegin, Manager!Look, Manager!CanEvict, Manager!Evict, Manager!Close,
       Manager!TickNext, Manager!vars
  <2> QED BY <2>1, <2>3, <2>4
<1>4. /\ E!NoMoreKeys /\ E!SameAlive /\ E!SameCalling
      /\ UNCHANGED <<engineStop, engineJanitor>> BY <1>1, SchedStands
<1> QED BY <1>1, <1>2, <1>3, <1>4, QuietLocks DEF LocksInv, DrainsWhenStopped

LEMMA RequestWritten ==
    ASSUME EnginesTyped, NEW r \in Requests, NEW rec,
           request' = [request EXCEPT ![r] = rec]
    PROVE  /\ request'[r] = rec /\ \A s \in Requests : s # r => request'[s] = request[s]
           /\ \A s \in Requests : \A n : s # r => (Triggers(s, n)' <=> Triggers(s, n))
           /\ \A n : Triggers(r, n)' <=> rec = [at |-> "submitting", engine |-> n]
<1>1. request'[r] = rec /\ \A s \in Requests : s # r => request'[s] = request[s]
  BY EnginesTypedSays DEF RequestsFit
<1> QED BY <1>1 DEF Triggers

LEMMA RequestLeaves ==
    ASSUME EnginesTyped, NEW r \in Requests, NEW rec,
           request' = [request EXCEPT ![r] = rec],
           \A n : rec # [at |-> "submitting", engine |-> n]
    PROVE  /\ \A s \in Requests : \A n : s # r => (Triggers(s, n)' <=> Triggers(s, n))
           /\ \A n : ~Triggers(r, n)'
<1>1. /\ \A s \in Requests : \A n : s # r => (Triggers(s, n)' <=> Triggers(s, n))
      /\ \A n : Triggers(r, n)' <=> rec = [at |-> "submitting", engine |-> n] BY RequestWritten
<1> QED BY ONLY <1>1, \A n : rec # [at |-> "submitting", engine |-> n]

LEMMA TriggerLocks ==
    ASSUME EnginesTyped, E!Places, LocksInv, NEW r \in Requests, Manager!Trigger(r)
    PROVE  LocksInv'
<1> DEFINE n == request[r].engine
           e == [inst[n] EXCEPT !.analysing = "manual"]
           rec == [request[r] EXCEPT !.at = "submitting"]
<1>1. /\ request[r].at = "using" /\ inst[n].analysing = "no"
      /\ inst' = [inst EXCEPT ![n] = e] /\ request' = [request EXCEPT ![r] = rec]
      /\ UNCHANGED <<Manager!sched, callback>> BY DEF Manager!Trigger, Manager!LockFree
<1>2. n \in Manager!Insts /\ n # 0 /\ inst[n] \in EngineRecord /\ request[r] \in RequestRecord(Manager!Insts)
  BY <1>1, InstShape, EnginesTypedSays DEF EnginesTyped, RequestsFit
<1>3. e \in EngineRecord /\ e.analysing = "manual" BY <1>2 DEF EngineRecord
<1>4. rec = [at |-> "submitting", engine |-> n] BY <1>2 DEF RequestRecord
<1>5. \A m : ~Triggers(r, m) BY <1>1 DEF Triggers
<1> HIDE DEF e, rec
<1>6. /\ Manager!Insts' = Manager!Insts /\ inst'[n] = e
      /\ \A m \in Manager!Insts : m # n => inst'[m] = inst[m] BY <1>1, <1>2, <1>3, EngineChanges
<1>7. /\ E!NoMoreKeys /\ E!SameAlive /\ E!SameCalling /\ UNCHANGED <<engineStop, engineJanitor>>
  BY <1>1, SchedStands
<1>8. /\ \A s \in Requests : \A m : s # r => (Triggers(s, m)' <=> Triggers(s, m))
      /\ \A m : Triggers(r, m)' <=> m = n
  <2>1. /\ \A s \in Requests : \A m : s # r => (Triggers(s, m)' <=> Triggers(s, m))
        /\ \A m : Triggers(r, m)' <=> rec = [at |-> "submitting", engine |-> m] BY <1>1, RequestWritten
  <2>2. \A m : rec = [at |-> "submitting", engine |-> m] <=> m = n BY <1>4
  <2> QED BY <2>1, <2>2
<1>9. WorkersHold'
  <2>1. \A m \in Manager!Insts' : inst'[m].analysing \in Callers =>
            m \in Manager!Insts /\ inst[m].analysing = inst'[m].analysing BY <1>3, <1>6, ServicesAssumption
  <2> QED BY <1>1, <1>7, <2>1, HoldersStand DEF LocksInv, E!NoMoreKeys
<1>10. ASSUME ~engineStop' PROVE ManualHeld'
  <2>1. ManualHeld BY <1>7, <1>10 DEF LocksInv
  <2>2. (\A s \in Requests : ~Triggers(s, n)) /\ \A t : ~Pends(t, n) BY <1>1, <1>2, <2>1 DEF ManualHeld
  <2>3. \A t, m : Pends(t, m)' <=> Pends(t, m) BY <1>7, PendsStand
  <2>4. ASSUME NEW m \in Manager!Insts
        PROVE  /\ inst'[m].analysing = "manual" =>
                     (\E s \in Requests : Triggers(s, m)') \/ (\E t : Pends(t, m)')
               /\ \A s \in Requests : Triggers(s, m)' => inst'[m].analysing = "manual"
               /\ \A t : Pends(t, m)' => inst'[m].analysing = "manual"
               /\ \A s, u \in Requests : Triggers(s, m)' /\ Triggers(u, m)' => s = u
               /\ \A t, u : Pends(t, m)' /\ Pends(u, m)' => t = u
               /\ \A s \in Requests : \A t : ~(Triggers(s, m)' /\ Pends(t, m)')
    <3>1. CASE m = n BY <1>3, <1>6, <1>8, <2>2, <2>3, <3>1
    <3>2. CASE m # n
      <4>1. /\ inst'[m] = inst[m]
            /\ \A s \in Requests : Triggers(s, m)' <=> Triggers(s, m) BY <1>5, <1>6, <1>8, <3>2
      <4> QED BY <2>1, <2>3, <4>1 DEF ManualHeld
    <3> QED BY <3>1, <3>2
  <2> QED BY <1>6, <2>4 DEF ManualHeld
<1> QED BY <1>7, <1>9, <1>10 DEF LocksInv, DrainsWhenStopped

LEMMA RefuseLocks ==
    ASSUME EnginesTyped, E!Places, LocksInv, NEW r \in Requests, Manager!RefuseManual(r)
    PROVE  LocksInv'
<1> DEFINE n == request[r].engine
           e == [inst[n] EXCEPT !.analysing = "no"]
<1>1. /\ request[r].at = "submitting"
      /\ inst' = [inst EXCEPT ![n] = e] /\ request' = [request EXCEPT ![r] = Manager!Idle]
      /\ UNCHANGED <<Manager!sched, callback>> BY DEF Manager!RefuseManual
<1>2. n \in Manager!Insts /\ inst[n] \in EngineRecord /\ request[r] \in RequestRecord(Manager!Insts)
  BY <1>1, InstShape, EnginesTypedSays DEF EnginesTyped, RequestsFit
<1>3. e \in EngineRecord /\ e.analysing = "no" BY <1>2 DEF EngineRecord
<1>4. \A m : Triggers(r, m) <=> m = n BY <1>1, <1>2 DEF RequestRecord, Triggers
<1> HIDE DEF e
<1>5. /\ Manager!Insts' = Manager!Insts /\ inst'[n] = e
      /\ \A m \in Manager!Insts : m # n => inst'[m] = inst[m] BY <1>1, <1>2, <1>3, EngineChanges
<1>6. /\ E!NoMoreKeys /\ E!SameAlive /\ E!SameCalling /\ UNCHANGED <<engineStop, engineJanitor>>
  BY <1>1, SchedStands
<1>7. /\ \A s \in Requests : \A m : s # r => (Triggers(s, m)' <=> Triggers(s, m))
      /\ \A m : ~Triggers(r, m)'
  <2>1. \A m : Manager!Idle # [at |-> "submitting", engine |-> m] BY DEF Manager!Idle
  <2> QED BY <1>1, <2>1, RequestLeaves
<1>8. WorkersHold'
  <2>1. \A m \in Manager!Insts' : inst'[m].analysing \in Callers =>
            m \in Manager!Insts /\ inst[m].analysing = inst'[m].analysing BY <1>3, <1>5, ServicesAssumption
  <2> QED BY <1>1, <1>6, <2>1, HoldersStand DEF LocksInv, E!NoMoreKeys
<1>9. ASSUME ~engineStop' PROVE ManualHeld'
  <2>1. ManualHeld BY <1>6, <1>9 DEF LocksInv
  <2>2. (\A s \in Requests : s # r => ~Triggers(s, n)) /\ \A t : ~Pends(t, n) BY <1>2, <1>4, <2>1 DEF ManualHeld
  <2>3. \A t, m : Pends(t, m)' <=> Pends(t, m) BY <1>6, PendsStand
  <2>4. ASSUME NEW m \in Manager!Insts
        PROVE  /\ inst'[m].analysing = "manual" =>
                     (\E s \in Requests : Triggers(s, m)') \/ (\E t : Pends(t, m)')
               /\ \A s \in Requests : Triggers(s, m)' => inst'[m].analysing = "manual"
               /\ \A t : Pends(t, m)' => inst'[m].analysing = "manual"
               /\ \A s, u \in Requests : Triggers(s, m)' /\ Triggers(u, m)' => s = u
               /\ \A t, u : Pends(t, m)' /\ Pends(u, m)' => t = u
               /\ \A s \in Requests : \A t : ~(Triggers(s, m)' /\ Pends(t, m)')
    <3>1. CASE m = n BY <1>3, <1>5, <1>7, <2>2, <2>3, <3>1
    <3>2. CASE m # n
      <4>1. /\ inst'[m] = inst[m]
            /\ \A s \in Requests : Triggers(s, m)' <=> Triggers(s, m) BY <1>4, <1>5, <1>7, <3>2
      <4> QED BY <2>1, <2>3, <4>1 DEF ManualHeld
    <3> QED BY <3>1, <3>2
  <2> QED BY <1>5, <2>4 DEF ManualHeld
<1> QED BY <1>6, <1>8, <1>9 DEF LocksInv, DrainsWhenStopped

(* A task is submitted, by a request for its analysis or by the tick thread. *)
LEMMA SubmitLocks ==
    ASSUME EnginesTyped, E!Places, LocksInv, CallbacksFit,
           NEW k \in Manager!Keys, NEW n \in Manager!Insts, Manager!Submit(k, n), UNCHANGED inst,
           \/ k[1] # "llm" /\ UNCHANGED request
           \/ \E r \in Requests :
                 /\ k = Manager!Manual(n) /\ request[r] = [at |-> "submitting", engine |-> n]
                 /\ request' = [request EXCEPT ![r] = Manager!Idle]
    PROVE  LocksInv'
<1> DEFINE new == Len(engineTasks) + 1
<1>1. E!SubmitCheck(k) /\ callback' = Append(callback, n) BY SchedulerOf DEF Manager!Submit
<1>2. /\ Len(engineTasks') = new
      /\ \A t \in 1..Len(engineTasks) : engineTasks'[t] = engineTasks[t]
      /\ engineTasks'[new].key = k /\ engineTasks'[new].mem = "queued"
      /\ UNCHANGED <<engineWorker, engineStop, engineJanitor>>
      /\ Len(engineTasks) \in Nat BY <1>1, NewTask
<1>3. Manager!Insts' = Manager!Insts BY DEF Manager!Insts
<1>4. \A t \in 1..Len(engineTasks) : callback'[t] = callback[t] BY <1>1, <1>2, <1>3, CallbackAdded
<1>5. \A t : t \in 1..Len(engineTasks') <=> t \in 1..Len(engineTasks) \/ t = new BY <1>2
<1>6. new \notin 1..Len(engineTasks) BY <1>2
<1> HIDE DEF new
<1>7. WorkersHold' BY <1>2, <1>3, <1>4, HoldersStand DEF LocksInv, E!SameCalling
<1>8. ASSUME NEW t, NEW m PROVE Pends(t, m)' <=> Pends(t, m) \/ (t = new /\ k = Manager!Manual(m))
  BY <1>2, <1>5, <1>6 DEF Pends
<1>9. ASSUME ~engineStop' PROVE ManualHeld'
  <2>1. ManualHeld BY <1>2, <1>9 DEF LocksInv
  <2>2. CASE k[1] # "llm" /\ UNCHANGED request
    <3>1. \A m : k # Manager!Manual(m) BY <2>2, KeyKinds
    <3>2. \A r \in Requests : \A m : Triggers(r, m)' <=> Triggers(r, m) BY <2>2 DEF Triggers
    <3> QED BY <1>3, <1>8, <2>1, <3>1, <3>2, ManualStands
  <2>3. ASSUME NEW r \in Requests, k = Manager!Manual(n),
               request[r] = [at |-> "submitting", engine |-> n],
               request' = [request EXCEPT ![r] = Manager!Idle] PROVE ManualHeld'
    <3>1. \A m : k = Manager!Manual(m) <=> m = n BY <2>3, KeyKinds
    <3>2. \A m : Triggers(r, m) <=> m = n BY <2>3 DEF Triggers
    <3>3. /\ \A s \in Requests : \A m : s # r => (Triggers(s, m)' <=> Triggers(s, m))
          /\ \A m : ~Triggers(r, m)'
      <4>1. \A m : Manager!Idle # [at |-> "submitting", engine |-> m] BY DEF Manager!Idle
      <4> QED BY <2>3, <4>1, RequestLeaves
    <3>4. /\ inst[n].analysing = "manual" /\ \A s \in Requests : s # r => ~Triggers(s, n)
          /\ \A t : ~Pends(t, n) BY <2>1, <3>2 DEF ManualHeld
    <3>5. ASSUME NEW m \in Manager!Insts
          PROVE  /\ inst'[m].analysing = "manual" =>
                       (\E s \in Requests : Triggers(s, m)') \/ (\E t : Pends(t, m)')
                 /\ \A s \in Requests : Triggers(s, m)' => inst'[m].analysing = "manual"
                 /\ \A t : Pends(t, m)' => inst'[m].analysing = "manual"
                 /\ \A s, u \in Requests : Triggers(s, m)' /\ Triggers(u, m)' => s = u
                 /\ \A t, u : Pends(t, m)' /\ Pends(u, m)' => t = u
                 /\ \A s \in Requests : \A t : ~(Triggers(s, m)' /\ Pends(t, m)')
      <4>1. CASE m = n BY <1>8, <3>1, <3>3, <3>4, <4>1
      <4>2. CASE m # n
        <5>1. /\ \A s \in Requests : Triggers(s, m)' <=> Triggers(s, m)
              /\ \A t : Pends(t, m)' <=> Pends(t, m) BY <1>8, <3>1, <3>2, <3>3, <4>2
        <5> QED BY <2>1, <5>1 DEF ManualHeld
      <4> QED BY <4>1, <4>2
    <3> QED BY <1>3, <3>5 DEF ManualHeld
  <2> QED BY <2>2, <2>3
<1> QED BY <1>2, <1>7, <1>9 DEF LocksInv, DrainsWhenStopped

LEMMA SubmissionLocks ==
    ASSUME EnginesTyped, E!Places, LocksInv, CallbacksFit,
           \/ \E r \in Requests : Manager!SubmitManual(r)
           \/ \E k \in Manager!Keys : Manager!TickSubmit(k)
    PROVE  LocksInv'
<1>1. ASSUME NEW r \in Requests, Manager!SubmitManual(r) PROVE LocksInv'
  <2> DEFINE n == request[r].engine
  <2>1. /\ request[r].at = "submitting" /\ Manager!Submit(Manager!Manual(n), n) /\ inst' = inst
        /\ request' = [request EXCEPT ![r] = Manager!Idle] BY <1>1 DEF Manager!SubmitManual
  <2>2. n \in Manager!Insts /\ n \in 1..MaxEngines /\ request[r] \in RequestRecord(Manager!Insts)
    BY <2>1, InstShape, EnginesTypedSays, ServicesAssumption DEF EnginesTyped, RequestsFit
  <2>3. request[r] = [at |-> "submitting", engine |-> n] BY <2>1, <2>2 DEF RequestRecord
  <2>4. Manager!Manual(n) \in Manager!Keys BY <2>2 DEF Manager!Keys
  <2> HIDE DEF n
  <2> QED BY <2>1, <2>2, <2>3, <2>4, SubmitLocks
<1>2. ASSUME NEW k \in Manager!Keys, Manager!TickSubmit(k) PROVE LocksInv'
  <2>1. /\ tick.engine \in Manager!Insts /\ Manager!Submit(k, tick.engine)
        /\ UNCHANGED <<inst, request>> /\ k \in Manager!Due(inst[tick.engine].account)
    BY <1>2 DEF Manager!TickSubmit, EnginesTyped, Manager!Account, Manager!Current
  <2>2. k[1] # "llm" BY <2>1, KeyKinds DEF Manager!Due
  <2> QED BY <2>1, <2>2, SubmitLocks
<1> QED BY <1>1, <1>2

LEMMA GetEngineLocks ==
    ASSUME EnginesTyped, E!Places, LocksInv, CallbacksFit,
           NEW r \in Requests, NEW a \in Accounts \union {0}, Manager!GetEngine(r, a)
    PROVE  LocksInv'
<1>1. /\ GrowsWith(a)
      /\ request' = [request EXCEPT ![r] = [at |-> "using", engine |-> table'[a]]]
      /\ UNCHANGED <<Manager!sched, callback>> /\ request[r].at = "idle" BY GetEngineGrows
<1>2. /\ E!NoMoreKeys /\ E!SameAlive /\ E!SameCalling /\ UNCHANGED <<engineStop, engineJanitor>>
  BY <1>1, SchedStands
<1>3. \A n \in Manager!Insts : inst'[n].analysing = inst[n].analysing BY <1>1 DEF GrowsWith
<1>4. \A n \in Manager!Insts' \ Manager!Insts : inst'[n].analysing = "no" BY <1>1 DEF GrowsWith
<1>5. Manager!Insts' \subseteq Nat
  <2>1. inst' \in Seq(EngineRecord) BY <1>1 DEF GrowsWith
  <2> QED BY <2>1 DEF Manager!Insts
<1>6. WorkersHold'
  <2>1. \A n \in Manager!Insts' : inst'[n].analysing \in Callers =>
            n \in Manager!Insts /\ inst[n].analysing = inst'[n].analysing BY <1>3, <1>4, ServicesAssumption
  <2> QED BY <1>1, <1>2, <2>1, HoldersStand DEF LocksInv, E!NoMoreKeys
<1>7. \A s \in Requests : \A n : Triggers(s, n)' <=> Triggers(s, n)
  <2> DEFINE rec == [at |-> "using", engine |-> table'[a]]
  <2>1. \A n : rec # [at |-> "submitting", engine |-> n]
    <3>1. rec.at = "using" OBVIOUS
    <3> HIDE DEF rec
    <3> QED BY <3>1
  <2>2. request' = [request EXCEPT ![r] = rec] BY <1>1
  <2> HIDE DEF rec
  <2>3. /\ \A s \in Requests : \A n : s # r => (Triggers(s, n)' <=> Triggers(s, n))
        /\ \A n : ~Triggers(r, n)' BY <2>1, <2>2, RequestLeaves
  <2>4. \A n : ~Triggers(r, n) BY <1>1 DEF Triggers
  <2> QED BY <2>3, <2>4
<1>8. \A t, n : Pends(t, n)' <=> Pends(t, n) BY <1>2, PendsStand
<1>9. ASSUME ~engineStop' PROVE ManualHeld'
  <2>1. ManualHeld BY <1>2, <1>9 DEF LocksInv
  <2>2. ASSUME NEW n \in Manager!Insts' \ Manager!Insts
        PROVE  /\ inst'[n].analysing # "manual"
               /\ \A s \in Requests : ~Triggers(s, n)'
               /\ \A t : ~Pends(t, n)' BY <1>4, <1>5, <1>7, <1>8, <2>2, PendsFits, TriggersFits
  <2> QED BY <1>3, <1>7, <1>8, <2>1, <2>2, ManualStands
<1> QED BY <1>2, <1>6, <1>9 DEF LocksInv, DrainsWhenStopped

LEMMA CloseAllLocks ==
    ASSUME EnginesTyped, E!Places, LocksInv, Manager!CloseAll
    PROVE  LocksInv'
<1>1. /\ UNCHANGED <<Manager!sched, callback, request>>
      /\ inst' = [n \in Manager!Insts |->
                     IF table[inst[n].account] = n THEN Manager!Closed(n)[n] ELSE inst[n]]
  BY DEF Manager!CloseAll
<1>2. Manager!Insts' = Manager!Insts BY <1>1 DEF Manager!Insts
<1>3. ASSUME NEW n \in Manager!Insts PROVE inst'[n].analysing = inst[n].analysing
  <2> DEFINE e == [[inst[n] EXCEPT !.open = FALSE] EXCEPT !.clients = 0]
  <2>1. inst[n] \in EngineRecord /\ inst \in [1..Len(inst) -> EngineRecord] /\ n \in 1..Len(inst)
    BY InstShape DEF EnginesTyped
  <2>2. Manager!Closed(n)[n] = e BY <2>1 DEF Manager!Closed
  <2>3. e.analysing = inst[n].analysing BY <2>1 DEF EngineRecord
  <2>4. inst'[n] = Manager!Closed(n)[n] \/ inst'[n] = inst[n] BY <1>1
  <2> HIDE DEF e
  <2> QED BY <2>2, <2>3, <2>4
<1>4. \A r \in Requests : \A n : Triggers(r, n)' <=> Triggers(r, n) BY <1>1 DEF Triggers
<1>5. /\ E!NoMoreKeys /\ E!SameAlive /\ E!SameCalling /\ UNCHANGED <<engineStop, engineJanitor>>
  BY <1>1, SchedStands
<1> QED BY <1>1, <1>2, <1>3, <1>4, <1>5, QuietLocks DEF LocksInv, DrainsWhenStopped, SameLocks

LEMMA AttemptLocks ==
    ASSUME EnginesTyped, E!Places, LocksInv, NEW w \in Callers, Manager!Attempt(w)
    PROVE  LocksInv'
<1> DEFINE t == engineWorker[w].task
           n == callback[t]
           e == [inst[n] EXCEPT !.analysing = w]
<1>1. /\ E!Attempt(w) /\ UNCHANGED <<callback, request>>
      /\ inst' = IF engineTasks[t].key = Manager!Scheduled /\ inst[n].analysing = "no"
                 THEN [inst EXCEPT ![n] = e] ELSE inst
  BY SchedulerOf DEF Manager!Attempt, Manager!Task, Manager!LockFree
<1>2. /\ E!NoMoreKeys /\ E!SameAlive /\ E!SameCalling
      /\ engineWorker'[w].at = "calling" /\ engineWorker'[w].task = t
      /\ t \in 1..Len(engineTasks) /\ engineWorker[w].at = "ready" BY <1>1, E!AttemptIsQuiet, E!TaskIds
<1>3. UNCHANGED <<engineStop, engineJanitor>> BY <1>1 DEF E!Attempt
<1>4. \A r \in Requests : \A m : Triggers(r, m)' <=> Triggers(r, m) BY <1>1 DEF Triggers
<1>5. CASE inst' = inst
  <2>1. Manager!Insts' = Manager!Insts /\ SameLocks BY <1>5 DEF Manager!Insts, SameLocks
  <2> QED BY <1>1, <1>2, <1>3, <1>4, <2>1, QuietLocks DEF LocksInv, DrainsWhenStopped
<1>6. CASE /\ engineTasks[t].key = Manager!Scheduled /\ inst[n].analysing = "no"
           /\ inst' = [inst EXCEPT ![n] = e]
  <2>1. n \in Manager!Insts /\ inst[n] \in EngineRecord BY <1>2, InstShape DEF EnginesTyped
  <2>2. e \in EngineRecord /\ e.analysing = w BY <2>1 DEF EngineRecord
  <2> HIDE DEF e
  <2>3. /\ Manager!Insts' = Manager!Insts /\ inst'[n] = e
        /\ \A m \in Manager!Insts : m # n => inst'[m] = inst[m] BY <1>6, <2>1, <2>2, EngineChanges
  <2>4. WorkersHold'
    <3>1. ASSUME NEW m \in Manager!Insts, inst'[m].analysing \in Callers
          PROVE  LET v == inst'[m].analysing
                 IN  /\ engineWorker'[v].at = "calling"
                     /\ engineTasks'[engineWorker'[v].task].key = Manager!Scheduled
                     /\ callback'[engineWorker'[v].task] = m
      <4>1. CASE m = n BY <1>1, <1>2, <1>6, <2>2, <2>3, <4>1 DEF E!NoMoreKeys
      <4>2. CASE m # n
        <5>1. inst'[m] = inst[m] BY <2>3, <4>2
        <5> DEFINE v == inst[m].analysing
        <5>2. /\ engineWorker[v].at = "calling" /\ v \in Callers
              /\ engineTasks[engineWorker[v].task].key = Manager!Scheduled
              /\ callback[engineWorker[v].task] = m BY <3>1, <5>1 DEF LocksInv, WorkersHold
        <5>3. engineWorker[v].task \in 1..Len(engineTasks) BY <5>2, E!TaskIds DEF E!Places, E!PlaceInv, E!Stages
        <5> QED BY <1>1, <1>2, <5>1, <5>2, <5>3 DEF E!NoMoreKeys, E!SameCalling
      <4> QED BY <4>1, <4>2
    <3> QED BY <2>3, <3>1 DEF WorkersHold
  <2>5. ASSUME ~engineStop' PROVE ManualHeld'
    <3>1. ManualHeld BY <1>3, <2>5 DEF LocksInv
    <3>2. \A m \in Manager!Insts : inst'[m].analysing = "manual" <=> inst[m].analysing = "manual"
      BY <1>6, <2>2, <2>3, ServicesAssumption
    <3> QED BY <1>2, <1>4, <2>3, <3>1, <3>2, ManualStands, PendsStand
  <2> QED BY <1>3, <2>4, <2>5 DEF LocksInv, DrainsWhenStopped
<1> QED BY <1>1, <1>5, <1>6

LEMMA ReturnLocks ==
    ASSUME EnginesTyped, E!Places, LocksInv, CallbacksFit, NEW w \in Callers, Manager!CallbackEnds(w),
           NEW t, t = engineWorker[w].task, NEW n, n = callback[t]
    PROVE  LocksInv'
<1> DEFINE e == [inst[n] EXCEPT !.analysing = "no"]
<1>1. /\ E!Succeed(w) \/ (engineTasks[t].key[1] # "llm" /\ E!Fail(w))
      /\ UNCHANGED <<callback, request>>
      /\ inst' = IF Manager!Analyses(w) THEN [inst EXCEPT ![n] = e] ELSE inst
  BY SchedulerOf DEF Manager!CallbackEnds, Manager!Task, Manager!Unlocked
<1>2. /\ E!NoMoreKeys /\ engineWorker[w].at = "calling" /\ t \in 1..Len(engineTasks)
      /\ engineTasks[t].mem = "running"
      /\ \A v \in Callers : v # w => engineWorker'[v] = engineWorker[v]
      /\ \A u \in 1..Len(engineTasks) : u # t => (E!Alive(u)' <=> E!Alive(u))
      /\ E!Succeed(w) => ~E!Alive(t)'
      /\ UNCHANGED <<engineStop, engineJanitor>> BY <1>1, E!ReturnIsQuiet, E!TaskIds
<1>3. Manager!Analyses(w) <=>
         engineTasks[t].key[1] = "llm" \/ (engineTasks[t].key = Manager!Scheduled /\ inst[n].analysing = w)
  BY <1>2 DEF Manager!Analyses, Manager!Task
<1>4. n \in Manager!Insts /\ inst[n] \in EngineRecord BY <1>2, InstShape DEF EnginesTyped
<1>5. e \in EngineRecord /\ e.analysing = "no" BY <1>4 DEF EngineRecord
<1> HIDE DEF e
<1>6. /\ Manager!Insts' = Manager!Insts
      /\ \A m \in Manager!Insts : m # n => inst'[m] = inst[m]
      /\ Manager!Analyses(w) => inst'[n] = e
      /\ ~Manager!Analyses(w) => inst'[n] = inst[n]
  <2>1. CASE Manager!Analyses(w)
    <3>1. inst' = [inst EXCEPT ![n] = e] BY <1>1, <2>1
    <3>2. /\ Manager!Insts' = Manager!Insts /\ inst'[n] = e
          /\ \A m \in Manager!Insts : m # n => inst'[m] = inst[m] BY <1>4, <1>5, <3>1, EngineChanges
    <3> QED BY <2>1, <3>2
  <2>2. CASE ~Manager!Analyses(w) BY <1>1, <2>2 DEF Manager!Insts
  <2> QED BY <2>1, <2>2
<1>7. \A r \in Requests : \A m : Triggers(r, m)' <=> Triggers(r, m) BY <1>1 DEF Triggers
(* An engine whose analyzer the worker has locked is the one it gives up. *)
<1>8. \A m \in Manager!Insts : inst'[m].analysing \in Callers =>
         inst'[m].analysing = inst[m].analysing /\ inst[m].analysing # w
  <2>1. ASSUME NEW m \in Manager!Insts, inst[m].analysing = w
        PROVE  m = n /\ Manager!Analyses(w) BY <1>3, <2>1 DEF LocksInv, WorkersHold
  <2> QED BY <1>4, <1>5, <1>6, <2>1, ServicesAssumption
<1>9. WorkersHold'
  <2>1. ASSUME NEW m \in Manager!Insts, inst'[m].analysing \in Callers
        PROVE  LET v == inst'[m].analysing
               IN  /\ engineWorker'[v].at = "calling"
                   /\ engineTasks'[engineWorker'[v].task].key = Manager!Scheduled
                   /\ callback'[engineWorker'[v].task] = m
    <3> DEFINE v == inst[m].analysing
    <3>1. v \in Callers /\ v # w /\ inst'[m].analysing = v BY <1>8, <2>1
    <3>2. /\ engineWorker[v].at = "calling"
          /\ engineTasks[engineWorker[v].task].key = Manager!Scheduled
          /\ callback[engineWorker[v].task] = m BY <3>1 DEF LocksInv, WorkersHold
    <3>3. engineWorker[v].task \in 1..Len(engineTasks)
      BY <3>1, <3>2, E!TaskIds DEF E!Places, E!PlaceInv, E!Stages
    <3> HIDE DEF v
    <3> QED BY <1>1, <1>2, <3>1, <3>2, <3>3 DEF E!NoMoreKeys
  <2> QED BY <1>6, <2>1 DEF WorkersHold
<1>10. ASSUME ~engineStop' PROVE ManualHeld'
  <2>1. ManualHeld BY <1>2, <1>10 DEF LocksInv
  <2>2. \A u, m : u # t => (Pends(u, m)' <=> Pends(u, m)) BY <1>2 DEF Pends, E!NoMoreKeys, E!Alive
  <2>3. CASE engineTasks[t].key[1] = "llm"
    <3>1. engineTasks[t].key = Manager!Manual(n)
      <4>1. engineTasks[t].key \in Manager!Keys BY <1>2, E!TaskIds DEF E!TaskRecord
      <4>2. PICK m \in 1..MaxEngines : engineTasks[t].key = Manager!Manual(m) BY <2>3, <4>1, KeyKinds
      <4>3. m = n BY <1>2, <4>2, ServicesAssumption DEF CallbacksFit
      <4> QED BY <4>2, <4>3
    <3>2. Pends(t, n) /\ \A m : ~Pends(t, m)' /\ (m # n => ~Pends(t, m))
      <4>1. ~E!Alive(t)' BY <1>1, <1>2, <2>3
      <4>2. \A m : Manager!Manual(n) = Manager!Manual(m) => m = n BY KeyKinds
      <4>3. Pends(t, n) /\ \A m : m # n => ~Pends(t, m) BY <1>2, <3>1, <4>2 DEF Pends
      <4>4. \A m : ~Pends(t, m)' BY <4>1 DEF Pends, E!Alive
      <4> QED BY <4>3, <4>4
    <3>3. (\A s \in Requests : ~Triggers(s, n)) /\ \A u : u # t => ~Pends(u, n)
      BY <1>4, <2>1, <3>2 DEF ManualHeld
    <3>4. inst'[n].analysing = "no" BY <1>3, <1>5, <1>6, <2>3
    <3>5. ASSUME NEW m \in Manager!Insts
          PROVE  /\ inst'[m].analysing = "manual" =>
                       (\E s \in Requests : Triggers(s, m)') \/ (\E u : Pends(u, m)')
                 /\ \A s \in Requests : Triggers(s, m)' => inst'[m].analysing = "manual"
                 /\ \A u : Pends(u, m)' => inst'[m].analysing = "manual"
                 /\ \A s, u \in Requests : Triggers(s, m)' /\ Triggers(u, m)' => s = u
                 /\ \A u, x : Pends(u, m)' /\ Pends(x, m)' => u = x
                 /\ \A s \in Requests : \A u : ~(Triggers(s, m)' /\ Pends(u, m)')
      <4>1. CASE m = n BY <1>7, <2>2, <3>2, <3>3, <3>4, <4>1
      <4>2. CASE m # n
        <5>1. /\ inst'[m] = inst[m] /\ \A u : Pends(u, m)' <=> Pends(u, m) BY <1>6, <2>2, <3>2, <4>2
        <5> QED BY <1>7, <2>1, <5>1 DEF ManualHeld
      <4> QED BY <4>1, <4>2
    <3> QED BY <1>6, <3>5 DEF ManualHeld
  <2>4. CASE engineTasks[t].key[1] # "llm"
    <3>1. \A m : engineTasks[t].key # Manager!Manual(m) BY <2>4, KeyKinds
    <3>2. \A m : ~Pends(t, m)' /\ ~Pends(t, m) BY <1>2, <3>1 DEF Pends, E!NoMoreKeys
    <3>3. \A m \in Manager!Insts : inst'[m].analysing = "manual" <=> inst[m].analysing = "manual"
      BY <1>3, <1>5, <1>6, <2>4, ServicesAssumption
    <3> QED BY <1>6, <1>7, <2>1, <2>2, <3>2, <3>3, ManualStands
  <2> QED BY <2>3, <2>4
<1> QED BY <1>2, <1>9, <1>10 DEF LocksInv, DrainsWhenStopped

LEMMA LocksStep ==
    ASSUME EnginesTyped, E!Places, LocksInv, CallbacksFit, [Manager!Next]_(Manager!vars)
    PROVE  LocksInv'
<1>1. ASSUME NEW r \in Requests, Manager!RequestStep(r) PROVE LocksInv'
  <2>1. ASSUME NEW a \in Accounts \union {0}, Manager!GetEngine(r, a) PROVE LocksInv' BY <2>1, GetEngineLocks
  <2>2. CASE Manager!Finish(r) \/ Manager!Connect(r) \/ Manager!Disconnect(r) BY <2>2, OtherLocks
  <2> QED
    BY <1>1, <2>1, <2>2, TriggerLocks, RefuseLocks, SubmissionLocks DEF Manager!RequestStep, Manager!Market
<1>2. CASE Manager!TickStep BY <1>2, OtherLocks, SubmissionLocks DEF Manager!TickStep
<1>3. ASSUME NEW w \in Callers, Manager!CallbackEnds(w) PROVE LocksInv' BY <1>3, ReturnLocks
<1> QED BY <1>1, <1>2, <1>3, OtherLocks, SchedulerLocks, AttemptLocks, CloseAllLocks DEF Manager!Next

----------------------------------------
LEMMA ManagerInit == Manager!Init => ManagerInv
<1> SUFFICES ASSUME Manager!Init PROVE ManagerInv OBVIOUS
<1>1. /\ engineTasks = <<>> /\ engineQueue = <<>> /\ engineBusy = {} /\ engineSubmitter = E!NoKey
      /\ engineWorker = [w \in Callers |-> [at |-> "idle", task |-> 0]]
      /\ engineStop = FALSE /\ engineJanitor = [at |-> "none", task |-> 0] /\ engineCrashes = 0
      /\ inst = <<>> /\ table = [a \in Accounts \union {0} |-> 0]
      /\ request = [r \in Requests |-> [at |-> "idle", engine |-> 0]]
      /\ tick = [at |-> "asleep", engine |-> 0, todo |-> {}]
      /\ callback = <<>> /\ closing = FALSE
  BY DEF Manager!Init, Manager!None, Manager!Market, Manager!Idle, Manager!Asleep,
         Manager!Sched!NoKey, E!NoKey
<1>2. /\ engineTasks \in Seq(E!TaskRecord) /\ Len(engineTasks) = 0 /\ DOMAIN engineTasks = {}
      /\ engineQueue \in Seq(Int) /\ DOMAIN engineQueue = {}
      /\ inst \in Seq(EngineRecord) /\ Len(inst) = 0 /\ DOMAIN inst = {}
      /\ callback \in Seq(Nat) /\ Len(callback) = 0 BY <1>1
<1>3. ~E!Locked BY <1>1 DEF E!Locked
<1>4. E!Places
  <2>1. E!Ids = {} BY <1>2 DEF E!Ids
  <2>2. E!TypeOK
    <3>1. engineWorker \in [Callers -> [at : {"unborn", "idle", "taken", "ready", "calling", "ended", "gone"},
                                        task : {0}]] BY <1>1
    <3>2. engineJanitor \in [at : {"none", "drain", "cancel", "done"}, task : {0}] BY <1>1
    <3>3. engineCrashes \in 0..0 BY <1>1
    <3>4. engineStop \in BOOLEAN BY <1>1
    <3>5. engineBusy \subseteq Manager!Keys /\ engineSubmitter \in Manager!Keys \union {E!NoKey} BY <1>1, Zenon
    <3> QED BY <1>2, <2>1, <3>1, <3>2, <3>3, <3>4, <3>5 DEF E!TypeOK, E!NoTask
  <2>3. E!Typed BY <1>2, <1>3, <2>2 DEF E!Typed, E!Sequenced, E!PillsComeLast
  <2>4. E!OnePlace /\ E!BusyIsHeld BY <1>1, <1>2, <1>3, <2>1 DEF E!OnePlace, E!BusyIsHeld, E!Same
  <2>5. E!Stages BY <1>1, <1>2, <1>3 DEF E!Stages, E!NoTask
  <2>6. E!UnheldHasEnded /\ E!AttemptsBounded /\ E!BornTogether
    BY <1>1, <2>1 DEF E!UnheldHasEnded, E!AttemptsBounded, E!BornTogether, E!Started
  <2> QED BY <2>3, <2>4, <2>5, <2>6 DEF E!Places, E!PlaceInv
<1>5. Manager!Insts = {} BY <1>2 DEF Manager!Insts
<1>6. EnginesTyped
  <2>1. RequestsFit({})
    <3>1. request \in [Requests -> RequestRecord({})] BY <1>1 DEF RequestRecord
    <3> QED BY <1>1, <3>1 DEF RequestsFit
  <2>2. TickFits({}) BY <1>1 DEF TickFits
  <2>3. CallbacksTyped({}) BY <1>2 DEF CallbacksTyped
  <2>4. table \in [Accounts \union {0} -> {} \union {0}] /\ closing \in BOOLEAN BY <1>1
  <2> QED BY <1>2, <1>5, <2>1, <2>2, <2>3, <2>4, ServicesAssumption, EnginesTypedIs
<1>7. CallbacksFit /\ Evicting /\ TasksOpen BY <1>1, <1>2 DEF CallbacksFit, Evicting, TasksOpen
<1>8. TablesInv BY <1>1, <1>5 DEF TablesInv, SourcesFit, TableHolds, Manager!NoOrphans
<1>9. LocksInv BY <1>1, <1>5 DEF LocksInv, DrainsWhenStopped, WorkersHold, ManualHeld
<1> QED BY <1>4, <1>6, <1>7, <1>8, <1>9 DEF ManagerInv

LEMMA ManagerStep == ManagerInv /\ [Manager!Next]_(Manager!vars) => ManagerInv'
  BY PlacesStay, RestsStep, LocksStep DEF ManagerInv, Rests

LEMMA ManagerHolds == Manager!Spec => []ManagerInv BY ManagerInit, ManagerStep, PTL DEF Manager!Spec

LEMMA CardinalityIs == \A S : Manager!Cardinality(S) = Cardinality(S) BY DEF Manager!Cardinality, Cardinality

LEMMA OneOrNone ==
    ASSUME NEW S, \A x, y \in S : x = y
    PROVE  Manager!Cardinality(S) = IF S = {} THEN 0 ELSE 1
<1>1. CASE S = {} BY <1>1, CardinalityIs, FS_EmptySet
<1>2. CASE S # {}
  <2>1. PICK x \in S : TRUE BY <1>2
  <2>2. S = {x} BY <2>1
  <2> QED BY <1>2, <2>2, CardinalityIs, FS_Singleton
<1> QED BY <1>1, <1>2

LEMMA LocksHaveOwners == ManagerInv => Manager!LockHasOwner
<1> SUFFICES ASSUME ManagerInv, ~engineStop, NEW n \in Manager!Insts
             PROVE  LET triggers == {r \in Requests : request[r] = [at |-> "submitting", engine |-> n]}
                        held == {t \in Manager!Ids : /\ engineTasks[t].key = Manager!Manual(n)
                                                     /\ engineTasks[t].mem \in {"queued", "running"}}
                        scheduled == {w \in Callers : Manager!Analyses(w) /\ inst[n].analysing = w}
                    IN  /\ Manager!Cardinality(triggers) + Manager!Cardinality(held)
                              = IF inst[n].analysing = "manual" THEN 1 ELSE 0
                        /\ inst[n].analysing \in Callers => scheduled = {inst[n].analysing}
  BY DEF Manager!LockHasOwner
<1> DEFINE triggers == {r \in Requests : request[r] = [at |-> "submitting", engine |-> n]}
           held == {t \in Manager!Ids : /\ engineTasks[t].key = Manager!Manual(n)
                                        /\ engineTasks[t].mem \in {"queued", "running"}}
           scheduled == {w \in Callers : Manager!Analyses(w) /\ inst[n].analysing = w}
<1>1. ManualHeld /\ WorkersHold /\ E!Places /\ EnginesTyped BY DEF ManagerInv, LocksInv
<1>2. Manager!Ids = 1..Len(engineTasks) BY <1>1, E!TaskIds DEF Manager!Ids, E!Ids
<1>3. /\ \A r : r \in triggers <=> r \in Requests /\ Triggers(r, n)
      /\ \A t : t \in held <=> Pends(t, n) BY <1>2 DEF Triggers, Pends
<1>4. inst[n].analysing \in Callers => scheduled = {inst[n].analysing}
  <2>1. ASSUME inst[n].analysing \in Callers PROVE Manager!Analyses(inst[n].analysing)
    BY <1>1, <2>1 DEF WorkersHold, Manager!Analyses, Manager!Task
  <2> QED BY <2>1
<1> HIDE DEF triggers, held, scheduled
<1>5. (\A r, s \in triggers : r = s) /\ (\A t, u \in held : t = u) BY <1>1, <1>3 DEF ManualHeld
<1>6. /\ Manager!Cardinality(triggers) = IF triggers = {} THEN 0 ELSE 1
      /\ Manager!Cardinality(held) = IF held = {} THEN 0 ELSE 1 BY <1>5, OneOrNone
<1>7. inst[n].analysing = "manual" <=> triggers # {} \/ held # {} BY <1>1, <1>3 DEF ManualHeld
<1>8. triggers = {} \/ held = {} BY <1>1, <1>3 DEF ManualHeld
<1>9. Manager!Cardinality(triggers) + Manager!Cardinality(held)
         = IF inst[n].analysing = "manual" THEN 1 ELSE 0 BY <1>6, <1>7, <1>8
<1> QED BY <1>4, <1>9 DEF triggers, held, scheduled

LEMMA ManagerOwns == ManagerInv => Manager!NoOrphans /\ Manager!TaskEngineOpen /\ Manager!LockHasOwner
<1> SUFFICES ASSUME ManagerInv PROVE Manager!NoOrphans /\ Manager!TaskEngineOpen BY LocksHaveOwners
<1>1. Manager!NoOrphans BY DEF ManagerInv, TablesInv, Manager!NoOrphans
<1>2. Manager!Ids = 1..Len(engineTasks) BY E!TaskIds DEF ManagerInv, Manager!Ids, E!Ids
<1>3. \A t : Manager!Sched!Holders(t) # {} => E!Held(t)
  BY DEF Manager!Sched!Holders, Manager!Sched!Locked, Manager!Sched!NoKey,
         E!Held, E!Submitted, E!Waits, E!Works, E!Drains, E!Locked, E!NoKey
<1>4. Manager!TaskEngineOpen BY <1>2, <1>3 DEF ManagerInv, TasksOpen, Manager!TaskEngineOpen
<1> QED BY <1>1, <1>4

----------------------------------------
(* All of them.  The theorems about the scheduler and the delivery are those
   of their own modules, for the variables they have here. *)
T == INSTANCE TaskScheduler_proofs WITH Keys <- TaskKeys, Retries <- TaskRetries
D == INSTANCE InstructionDelivery_proofs WITH row <- instrRow, posts <- receipts

(* Both instances of a module say the same of the same variables. *)
LEMMA SameDelivery ==
    /\ Delivery!Init <=> D!Init
    /\ [Delivery!Next]_(Delivery!vars) <=> [D!Next]_(D!vars)
    /\ Delivery!SettledRowAgrees <=> D!SettledRowAgrees
<1>1. Delivery!Init <=> D!Init BY DEF Delivery!Absent, D!Absent, Delivery!Job, D!Job, Delivery!Init, D!Init
<1>2. Delivery!Next <=> D!Next
  BY DEF Delivery!Job, D!Job, Delivery!serverVars, D!serverVars, Delivery!eaVars, D!eaVars,
         Delivery!vars, D!vars, Delivery!Active, D!Active, Delivery!Verdict, D!Verdict,
         Delivery!Entry, D!Entry, Delivery!MemStatus, D!MemStatus, Delivery!RowStatus,
         D!RowStatus, Delivery!Absent, D!Absent, Delivery!Init, D!Init, Delivery!InMemory,
         D!InMemory, Delivery!AddInstruction, D!AddInstruction, Delivery!Due, D!Due,
         Delivery!Exhausted, D!Exhausted, Delivery!Sent, D!Sent, Delivery!AfterFetch,
         D!AfterFetch, Delivery!Fetch, D!Fetch, Delivery!GetTrades, D!GetTrades,
         Delivery!GetTradesLost, D!GetTradesLost, Delivery!ClearBySymbol, D!ClearBySymbol,
         Delivery!RetryDelayElapses, D!RetryDelayElapses, Delivery!FinalStatus, D!FinalStatus,
         Delivery!Reported, D!Reported, Delivery!Reconcile, D!Reconcile, Delivery!RecordReceipt,
         D!RecordReceipt, Delivery!SyncInstructionRow, D!SyncInstructionRow,
         Delivery!MarkExecutionReport, D!MarkExecutionReport, Delivery!LosePost, D!LosePost,
         Delivery!ServerRestart, D!ServerRestart, Delivery!Post, D!Post, Delivery!Take, D!Take,
         Delivery!ResendReceipt, D!ResendReceipt, Delivery!DropUnfit, D!DropUnfit,
         Delivery!OrderRefused, D!OrderRefused, Delivery!OrderDealt, D!OrderDealt,
         Delivery!MarkInstructionExecuted, D!MarkInstructionExecuted, Delivery!SendReceipt,
         D!SendReceipt, Delivery!ReceiptTimesOut, D!ReceiptTimesOut, Delivery!EaRestart,
         D!EaRestart, Delivery!Next, D!Next
<1>3. Delivery!vars = D!vars
  BY DEF Delivery!vars, D!vars, Delivery!serverVars, D!serverVars, Delivery!eaVars, D!eaVars
<1>4. Delivery!SettledRowAgrees <=> D!SettledRowAgrees
  BY DEF Delivery!FinalStatus, D!FinalStatus, Delivery!SettledRowAgrees,
         D!SettledRowAgrees
<1> QED BY <1>1, <1>2, <1>3, <1>4 DEF Delivery!vars, Delivery!serverVars, Delivery!eaVars,
                               D!vars, D!serverVars, D!eaVars

LEMMA SameJobs ==
    [Jobs!Next]_(Jobs!vars) <=> [T!Next]_(T!vars)
<1>1. Jobs!Next <=> T!Next
  BY DEF Jobs!vars, T!vars, Jobs!NoTask, T!NoTask, Jobs!NoKey, T!NoKey, Jobs!Pill, T!Pill,
         Jobs!Final, T!Final, Jobs!Ids, T!Ids, Jobs!Init, T!Init, Jobs!Locked, T!Locked,
         Jobs!Started, T!Started, Jobs!Persisted, T!Persisted, Jobs!Record, T!Record, Jobs!Start,
         T!Start, Jobs!Refuses, T!Refuses, Jobs!SubmitCheck, T!SubmitCheck, Jobs!SubmitPut,
         T!SubmitPut, Jobs!Take, T!Take, Jobs!Running, T!Running, Jobs!Attempt, T!Attempt,
         Jobs!Succeed, T!Succeed, Jobs!MayRetry, T!MayRetry, Jobs!Fail, T!Fail, Jobs!Release,
         T!Release, Jobs!Shutdown, T!Shutdown, Jobs!Drain, T!Drain, Jobs!Cancel, T!Cancel,
         Jobs!Recovered, T!Recovered, Jobs!Restart, T!Restart, Jobs!WorkerStep, T!WorkerStep,
         Jobs!Next, T!Next, Jobs!Cardinality, T!Cardinality
<1>2. Jobs!vars = T!vars BY DEF Jobs!vars, T!vars
<1> QED BY <1>1, <1>2 DEF Jobs!vars, T!vars

StudiesInv == UploadInv /\ TasksInv /\ RunsInv

LEMMA StudiesInductive == ServicesSpec => []StudiesInv
<1>1. UploadAssumption /\ TestsAssumption BY ServicesAssumption DEF UploadAssumption, TestsAssumption
<1>2. Upload!Spec => []UploadInv BY <1>1, UploadInitially, UploadStep, PTL DEF Upload!Spec
<1>3. Tests!Spec => []TasksInv BY <1>1, TasksInitially, TasksStep, PTL DEF Tests!Spec
<1>4. Alphas!Spec => []RunsInv BY RunsInitially, RunsStep, PTL DEF Alphas!Spec
<1> QED BY <1>2, <1>3, <1>4, PTL DEF ServicesSpec, StudiesInv

(* The backtesting side agrees with itself, for any number of data sets,
   chunks, tasks, batches, runs, crashes and failing statements. *)
THEOREM StudiesStayInAgreement == ServicesSpec => []StudiesAgree
<1>1. StudiesInv => StudiesAgree
  BY FittingRowsAreWhole DEF StudiesInv, StudiesAgree, UploadInv, TasksInv, RunsInv
<1> QED BY <1>1, StudiesInductive, PTL

LEMMA DecisionHolds == ServicesSpec => [](Pending!TypeOK /\ DecisionInv)
<1>1. OrderFaults \in Nat /\ OrderRestarts \in Nat BY ServicesAssumption
<1>2. Pending!Init => Pending!TypeOK /\ DecisionInv BY <1>1, OrdersTypedInit, DecisionInit
<1>3. Pending!TypeOK /\ DecisionInv /\ [Pending!Next]_(Pending!vars) => Pending!TypeOK' /\ DecisionInv'
  BY <1>1, OrdersTypedStep, DecisionStep
<1> QED BY <1>2, <1>3, PTL DEF ServicesSpec, Pending!Spec

(* An event is published only after its handler has completed, and the one
   dispatcher of the deployment repeats an event only for a batch that was
   abandoned between the handler and the mark. *)
THEOREM EventsStayHandled == ServicesSpec => []EventsAreHandled BY EventsHold

(* An order becomes one instruction at most and has then left the table and
   the rows a restart would load, whoever confirms it, however the rows fail
   to be written and however often the server restarts. *)
THEOREM OrderIsTradedOnce == ServicesSpec => []OneInstruction
<1>1. DecisionInv => OneInstruction
  BY DEF DecisionInv, TradedOnce, Gone, OneInstruction, Pending!OneInstruction, Pending!TradedLeaves
<1> QED BY <1>1, DecisionHolds, PTL

(* The row of a settled instruction says what its receipt says, through polls
   between the handler's writes, repeated and late receipts and orderly
   restarts; only a server that dies between two writes of the handler can
   leave them apart. *)
THEOREM SettledRowsAgree == ServicesSpec => []SettledRowAgrees
<1>1. HandlerCrash = FALSE \/ HandlerCrash = TRUE BY ServicesAssumption
<1>2. CASE HandlerCrash = FALSE
  <2>1. D!Spec => []D!SettledRowAgrees
    <3>1. /\ NoJob \notin D!Job /\ DealCrash \in BOOLEAN /\ HandlerCrash \in BOOLEAN
          /\ PostTries \in Nat \ {0} /\ MaxAttempts \in Nat \ {0} /\ Droppable \subseteq Instr
      BY ServicesAssumption DEF Delivery!Job, D!Job
    <3> QED BY <1>2, <3>1, D!SettledRowsAgree
  <2>2. D!SettledRowAgrees => SettledRowAgrees BY SameDelivery DEF SettledRowAgrees
  <2> QED BY <2>1, <2>2, SameDelivery, PTL DEF ServicesSpec, Delivery!Spec, D!Spec
<1>3. CASE HandlerCrash = TRUE
  <2>1. SettledRowAgrees BY <1>3 DEF SettledRowAgrees
  <2> QED BY <2>1, PTL
<1> QED BY <1>1, <1>2, <1>3

(* What the user was told is rejected is never traded, and the user is never
   told otherwise, though a confirmation may already have been on its way. *)
LEMMA RejectionIsFinal == ServicesSpec => Pending!RejectedStays
<1>1. Pending!TypeOK /\ DecisionInv /\ DecisionInv' /\ [Pending!Next]_(Pending!vars) =>
          [\A o \in Orders : told[o] = "rejected" =>
                issued'[o] = 0 /\ told'[o] = "rejected"]_(Pending!vars)
  <2> SUFFICES ASSUME Pending!TypeOK, DecisionInv, DecisionInv', Pending!Next, NEW o \in Orders,
                      told[o] = "rejected" PROVE issued'[o] = 0 /\ told'[o] = "rejected" OBVIOUS
  <2>1. \A t \in Pending!Threads : ~Decides(t, o) BY DEF DecisionInv, RejectedIsUntraded
  <2>2. ASSUME Pending!MarkConfirmed PROVE told'[o] = "rejected"
    BY <2>1, <2>2 DEF Pending!MarkConfirmed, Decides, Pending!Threads, Pending!TypeOK
  <2>3. ASSUME Pending!MarkRejected PROVE told'[o] = "rejected" BY <2>3 DEF Pending!MarkRejected, Pending!TypeOK
  <2>4. told'[o] = "rejected"
    BY <2>2, <2>3 DEF Pending!Next, Pending!ThreadStep, Pending!CleanerStep, Pending!Create,
       Pending!Ask, Pending!Resume, Pending!Reject, Pending!Expire, Pending!Confirm,
       Pending!Permitted, Pending!Submit, Pending!MarkDecided, Pending!CleanupBegin,
       Pending!Cleanup, Pending!Compare, Pending!MarkExpired, Pending!Suspend,
       Pending!SuspendClear, Pending!Permit, Pending!Poll, Pending!Restart
  <2> QED BY <2>4 DEF DecisionInv, RejectedIsUntraded
<1> QED BY <1>1, DecisionHolds, PTL DEF ServicesSpec, Pending!Spec, Pending!RejectedStays

(* What has ended on the backtesting side stays ended: no late upload revives
   a canceled data set, a backtest that was told to stop ends as canceled, a
   search is not begun again. *)
LEMMA StudiesStayEnded == ServicesSpec => Upload!EndedStays /\ Tests!CancelHolds /\ Alphas!EndedStays
<1>1. UploadAssumption /\ TestsAssumption BY ServicesAssumption DEF UploadAssumption, TestsAssumption
<1>2. UploadInv /\ [Upload!Next]_(Upload!vars) => [VerdictsOfSets]_(Upload!vars) BY <1>1, UploadStep
<1>3. TasksInv /\ [Tests!Next]_(Tests!vars) => [VerdictsOfTasks]_(Tests!vars) BY <1>1, TasksStep
<1>4. RunsInv /\ [Alphas!Next]_(Alphas!vars) => [VerdictsOfRuns]_(Alphas!vars) BY RunsStep
<1>5. /\ ServicesSpec => [][VerdictsOfSets]_(Upload!vars)
      /\ ServicesSpec => [][VerdictsOfTasks]_(Tests!vars)
      /\ ServicesSpec => [][VerdictsOfRuns]_(Alphas!vars) BY <1>2, <1>3, <1>4, StudiesInductive, PTL
     DEF ServicesSpec, StudiesInv, Upload!Spec, Tests!Spec, Alphas!Spec
<1>6. VerdictsOfSets => \A d \in Upload!Ids : sets[d].st \in Upload!Ended =>
          /\ sets'[d].st \in Upload!Ended \union {"deleted"}
          /\ sets[d].st = "ready" /\ sets'[d].st # "deleted" => sets'[d].file = sets[d].file
  BY DEF VerdictsOfSets, VerdictStands
<1>7. VerdictsOfTasks => \A t \in Tasks :
          /\ testRows[t].cancel /\ testRows[t].st \notin Tests!Ended =>
                testRows'[t].st \notin {"completed", "failed"}
          /\ testRows[t].st \in Tests!Ended => testRows'[t].st = testRows[t].st
  BY DEF VerdictsOfTasks, Tests!Ended, Ended
<1>8. VerdictsOfRuns => \A r \in Runs : runs[r].st \in Alphas!Ended => runs'[r].st = runs[r].st
  BY DEF VerdictsOfRuns, Alphas!Ended, Ended
<1> QED BY <1>5, <1>6, <1>7, <1>8, PTL DEF Upload!EndedStays, Tests!CancelHolds, Alphas!EndedStays

(* A verdict is given once, in every one of these services. *)
THEOREM VerdictsStay == ServicesSpec => VerdictStays
<1>1. T!Parameters BY ServicesAssumption DEF T!Parameters, T!NoKey, T!IsFiniteSet, IsFiniteSet
<1>2. Jobs!Spec => Jobs!VerdictStays
  <2>1. T!Spec => T!VerdictStays BY <1>1, T!VerdictIsFinal
  <2>2. Jobs!Init <=> T!Init BY DEF Jobs!Init, T!Init, Jobs!NoTask, T!NoTask, Jobs!NoKey, T!NoKey
  <2>3. Jobs!VerdictStays <=> T!VerdictStays
    BY PTL DEF Jobs!VerdictStays, T!VerdictStays, Jobs!Ids, T!Ids, Jobs!Final, T!Final, Jobs!vars, T!vars
  <2> QED BY <2>1, <2>2, <2>3, SameJobs, PTL DEF Jobs!Spec, T!Spec
<1> QED BY <1>2, RejectionIsFinal, StudiesStayEnded, EventsHold, PTL DEF ServicesSpec, VerdictStays

(* A key of the scheduler is busy exactly while one task of it is in one
   place, and no task is let go without a verdict; the manager hands out
   every engine that is open, no eviction closes an engine under a task, and
   the lock of an analyzer has one owner. *)
THEOREM OwnersAreSingle == ServicesSpec => []OneOwner
<1>1. T!Parameters BY ServicesAssumption DEF T!Parameters, T!NoKey, T!IsFiniteSet, IsFiniteSet
<1>2. Jobs!Spec => [](Jobs!OneTaskPerKey /\ Jobs!AttemptsBounded /\ Jobs!NothingForgotten)
  <2>1. T!Spec => [](T!OneTaskPerKey /\ T!AttemptsBounded /\ T!NothingForgotten)
    BY <1>1, T!OneExecutionPerKey, T!AttemptsAreBounded, T!NoTaskIsForgotten, PTL
  <2>2. Jobs!Init <=> T!Init BY DEF Jobs!Init, T!Init, Jobs!NoTask, T!NoTask, Jobs!NoKey, T!NoKey
  <2>3. /\ Jobs!OneTaskPerKey <=> T!OneTaskPerKey
        /\ Jobs!AttemptsBounded <=> T!AttemptsBounded
        /\ Jobs!NothingForgotten <=> T!NothingForgotten
    BY DEF Jobs!OneTaskPerKey, T!OneTaskPerKey, Jobs!AttemptsBounded, T!AttemptsBounded,
       Jobs!NothingForgotten, T!NothingForgotten, Jobs!Holders, T!Holders, Jobs!Ids, T!Ids,
       Jobs!Locked, T!Locked, Jobs!NoKey, T!NoKey, Jobs!Final, T!Final, Jobs!Cardinality, T!Cardinality
  <2> QED BY <2>1, <2>2, <2>3, SameJobs, PTL DEF Jobs!Spec, T!Spec
<1> QED BY <1>2, ManagerHolds, ManagerOwns, PTL DEF ServicesSpec, OneOwner
============================================================================
