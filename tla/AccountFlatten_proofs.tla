----------------------- MODULE AccountFlatten_proofs -----------------------
(***************************************************************************)
(* For any number of positions, guarded or not, and any number of faults:  *)
(* the variables keep their types, a filled item belongs to a closed       *)
(* position, every close command of the flattening has its item, and the   *)
(* kept receipt is what the item says.                                     *)
(***************************************************************************)
EXTENDS AccountFlatten, TLAPS

(* A successful receipt, on its way or kept, is about a closed position.   *)
ReceiptsAreTrue ==
  /\ \A p \in posts \cup {sent} : p.ok => \A c \in p.cmds : c.ticket \notin open
  /\ \A c \in Command : report[c] = "filled" => c.ticket \notin open

(* The position whose command is queued next has its item.                 *)
QueuedHasItem == \A t \in wk.now : item[t] # "none"

Inv ==
  /\ TypeOK
  /\ ReceiptsAreTrue
  /\ FilledMeansClosed
  /\ QueuedHasItem
  /\ CommandHasItem

(* ReceiptReachesItem, said of the moments inside the handler, too.        *)
ReceiptReachesItemInv ==
  \A t \in Ticket :
    report[Flatten(t)] # "none" /\ ~(srv.at = "item" /\ srv.cmds = {Flatten(t)})
      => item[t] = Settle(Flatten(t))

LEMMA CommandFacts ==
  /\ \A t \in Ticket : Flatten(t) \in Command /\ Flatten(t).ticket = t /\ Flatten(t).kind = "flatten"
  /\ \A c \in Command : c.ticket \in Ticket /\ (c.kind = "flatten" => c = Flatten(c.ticket))
  /\ \A t, u \in Ticket : Flatten(t) = Flatten(u) => t = u
  BY DEF Command, Kind, Flatten

(* Queueing keeps the types, and adds commands of the given set only.      *)
LEMMA AddCloseKeeps ==
  ASSUME NEW C \in SUBSET Command, TypeOK, AddClose(C)
  PROVE  /\ mem' \subseteq mem \cup C /\ mem' \subseteq Command
         /\ crow' \in [Command -> {"none", "pending", "sent", "canceled"}]
         /\ \A c \in Command : c \notin C => crow'[c] = crow[c]
  BY DEF AddClose, Remembered, TypeOK

LEMMA FetchKeeps ==
  ASSUME TypeOK, FetchCloses
  PROVE  /\ Sendable \subseteq mem /\ mem' = {}
         /\ crow' \in [Command -> {"none", "pending", "sent", "canceled"}]
         /\ \A c \in Command : c \notin mem => crow'[c] = crow[c]
         /\ item' \in [Ticket -> Waiting \cup {"none", "filled", "rejected", "timeout"}]
         /\ \A t \in Ticket : item[t] \notin Waiting => item'[t] = item[t]
         /\ \A t \in Ticket : item[t] \in Waiting => item'[t] \in Waiting
  BY DEF FetchCloses, Sendable, Hand, Waiting, TypeOK

LEMMA InitInv == Init => Inv /\ ReceiptReachesItemInv
<1> SUFFICES ASSUME Init PROVE Inv /\ ReceiptReachesItemInv
  OBVIOUS
<1>1. TypeOK
  BY FaultsAssumption DEF Init, TypeOK, WorkerIdle, HandlerIdle, NoReceipt, Waiting
<1>2. ReceiptsAreTrue
  BY DEF Init, ReceiptsAreTrue, NoReceipt
<1>3. FilledMeansClosed /\ QueuedHasItem
  BY DEF Init, FilledMeansClosed, QueuedHasItem, WorkerIdle
<1>4. CommandHasItem /\ ReceiptReachesItemInv
  BY CommandFacts DEF Init, CommandHasItem, ReceiptReachesItemInv
<1> QED
  BY <1>1, <1>2, <1>3, <1>4 DEF Inv

----------------------------------------------------------------------------
(* Types, step by step. *)
Worker == [at : {"idle", "claim", "gate", "item", "queue", "expire", "timeout"},
           todo : SUBSET Ticket, now : SUBSET Ticket, result : {"empty", "asked", "error"}]

LEMMA TypeStep == TypeOK /\ [Next]_vars => TypeOK'
<1> SUFFICES ASSUME TypeOK, [Next]_vars PROVE TypeOK'
  OBVIOUS
<1> USE DEF TypeOK, handlerVars, queueVars, eaVars
<1>1. CASE ClockTicks
  BY <1>1 DEF ClockTicks
<1>2. CASE StartTick \/ Claim
  BY <1>2 DEF StartTick, Claim, StepTo, WorkerIdle
<1>3. CASE GateOpens
  <2>1. wk' \in Worker
    BY <1>3 DEF GateOpens, Worker
  <2> QED
    BY <1>3, <2>1 DEF GateOpens, Worker
<1>3a. CASE GateShut
  BY <1>3a DEF GateShut, WorkerIdle
<1>4. ASSUME NEW t \in Ticket, InsertItem(t) PROVE TypeOK'
  <2>1. wk' \in Worker
    BY <1>4 DEF InsertItem, Worker
  <2>2. item' \in [Ticket -> Waiting \cup {"none", "filled", "rejected", "timeout"}]
    BY <1>4 DEF InsertItem, Waiting
  <2> QED
    BY <1>4, <2>1, <2>2 DEF InsertItem, Worker
<1>4a. ASSUME NEW t \in Ticket, TimeOutItem(t) PROVE TypeOK'
  <2>1. wk' \in Worker
    BY <1>4a DEF TimeOutItem, Worker
  <2>2. item' \in [Ticket -> Waiting \cup {"none", "filled", "rejected", "timeout"}]
    BY <1>4a DEF TimeOutItem, Waiting
  <2> QED
    BY <1>4a, <2>1, <2>2 DEF TimeOutItem, Worker
<1>5. CASE QueueClose
  <2>1. {Flatten(t) : t \in wk.now} \subseteq Command
    BY CommandFacts
  <2>2. wk' \in Worker
    BY <1>5 DEF QueueClose, Tried, Worker
  <2> QED
    BY <1>5, <2>1, <2>2, AddCloseKeeps DEF QueueClose, Worker
<1>6. CASE Finish \/ CloseDay
  BY <1>6 DEF Finish, CloseDay, WorkerIdle
<1>6a. CASE ReadOverdue
  <2>1. wk' \in Worker
    BY <1>6a DEF ReadOverdue, Overdue, Worker
  <2> QED
    BY <1>6a, <2>1 DEF ReadOverdue, Worker
<1>7. ASSUME NEW t \in Ticket, InsertFails(t) PROVE TypeOK'
  <2>1. wk' \in Worker
    BY <1>7 DEF InsertFails, Worker
  <2> QED
    BY <1>7, <2>1, FaultsAssumption DEF InsertFails, Fault, Worker
<1>8. CASE QueueFails
  <2>1. {Flatten(t) : t \in wk.now} \subseteq Command
    BY CommandFacts
  <2>2. wk' \in Worker
    BY <1>8 DEF QueueFails, Tried, Worker
  <2>3. mem' \subseteq Command
    BY <1>8, <2>1 DEF QueueFails, Remembered
  <2>4. faults' \in 0..MaxFaults
    BY <1>8, FaultsAssumption DEF QueueFails, Fault
  <2> QED
    BY <1>8, <2>2, <2>3, <2>4 DEF QueueFails, Worker
<1>9. CASE TickFails
  BY <1>9, FaultsAssumption DEF TickFails, Fault, WorkerIdle
<1>10. CASE GetCloses \/ GetClosesLost
  <2>1. FetchCloses
    BY <1>10 DEF GetCloses, GetClosesLost
  <2>2. inbox' \subseteq Command /\ UNCHANGED <<sent, open>>
    BY <1>10, <2>1, FetchKeeps DEF GetCloses, GetClosesLost
  <2> QED
    BY <2>1, <2>2, FetchKeeps DEF FetchCloses
<1>11. ASSUME NEW broken \in SUBSET Guarded, PositionsReported(broken) PROVE TypeOK'
  <2>1. {[ticket |-> t, kind |-> "guard"] : t \in broken} \subseteq Command
    BY GuardedAssumption DEF Command, Kind
  <2> QED
    BY <1>11, <2>1, AddCloseKeeps DEF PositionsReported
<1>12. ASSUME NEW p \in posts, RecordReceipt(p) PROVE TypeOK'
  <2>1. PICK c \in p.cmds :
          LET news == report[c] = "none" \/ (report[c] = "failed" /\ p.ok) IN
            /\ report' = IF news THEN [report EXCEPT ![c] = IF p.ok THEN "filled" ELSE "failed"]
                                 ELSE report
            /\ srv' = [at |-> IF news /\ c.kind = "flatten" THEN "item" ELSE "answer",
                       cmds |-> {c}, verdict |-> "none"]
    BY <1>12 DEF RecordReceipt
  <2>2. c \in Command
    BY <2>1 DEF Receipt
  <2>3. report' \in [Command -> {"none", "failed", "filled"}]
    BY <2>1, <2>2
  <2>4. srv' \in [at : {"idle", "item", "count", "run", "answer"}, cmds : SUBSET Command,
                  verdict : {"none", "completed", "partial_failed", "waiting_execution"}]
    BY <2>1, <2>2
  <2> QED
    BY <1>12, <2>3, <2>4 DEF RecordReceipt
<1>13. CASE WriteItem
  BY <1>13 DEF WriteItem, Settle, Waiting
<1>14. CASE CountItems \/ WriteRun
  <2>1. srv.at = "run" /\ WriteRun => srv.verdict \in {"completed", "partial_failed", "waiting_execution", "none"}
    OBVIOUS
  <2> QED
    BY <1>14, <2>1, ZenonT(30) DEF CountItems, WriteRun, Counted
<1>15. ASSUME NEW heard \in BOOLEAN, Answer(heard) PROVE TypeOK'
  BY <1>15 DEF Answer, HandlerIdle
<1>16. ASSUME NEW p \in posts, LosePost(p) PROVE TypeOK'
  BY <1>16 DEF LosePost
<1>17. CASE ServerRestart
  BY <1>17, FaultsAssumption DEF ServerRestart, Fault, WorkerIdle, HandlerIdle
<1>18. ASSUME NEW c \in inbox, CloseDone(c) \/ CloseRefused(c) PROVE TypeOK'
  <2>1. [cmds |-> {c}, ok |-> TRUE] \in Receipt /\ [cmds |-> {c}, ok |-> FALSE] \in Receipt
    BY DEF Receipt
  <2>2. /\ sent' = [cmds |-> {c}, ok |-> TRUE] \/ sent' = [cmds |-> {c}, ok |-> FALSE]
        /\ posts' = posts \cup {sent'}
    BY <1>18 DEF CloseDone, CloseRefused, Post
  <2>3. inbox' \subseteq Command /\ open' \subseteq Ticket
    BY <1>18 DEF CloseDone, CloseRefused, Take
  <2>4. sent' \in Receipt
    BY <2>1, <2>2
  <2>5. posts' \subseteq Receipt
    BY <2>2, <2>4
  <2> QED
    BY <1>18, <2>3, <2>4, <2>5 DEF CloseDone, CloseRefused, Take
<1>19. ASSUME NEW c \in inbox, SkipMissing(c) PROVE TypeOK'
  BY <1>19 DEF SkipMissing, Take
<1>20. CASE PostAgain \/ GiveUpPosting
  BY <1>20 DEF PostAgain, GiveUpPosting
<1>21. ASSUME NEW t \in Ticket, PositionCloses(t) PROVE TypeOK'
  BY <1>21 DEF PositionCloses
<1>22. CASE UNCHANGED vars
  BY <1>22 DEF vars
<1> QED
  BY <1>1, <1>2, <1>3, <1>3a, <1>4, <1>4a, <1>5, <1>6, <1>6a, <1>7, <1>8, <1>9, <1>10, <1>11, <1>12, <1>13, <1>14,
     <1>15, <1>16, <1>17, <1>18, <1>19, <1>20, <1>21, <1>22
     DEF Next, WorkerStep, HandlerStep, EaStep

(* Types: status, queue, receipt and EA state of the flattening stay in    *)
(* their sets, whatever fails or is lost.                                  *)
THEOREM TypeCorrect == Spec => []TypeOK
<1>1. Init => TypeOK
  BY InitInv DEF Inv
<1> QED
  BY <1>1, TypeStep, PTL DEF Spec

----------------------------------------------------------------------------
(* The inductive step. *)
Parts == ReceiptsAreTrue /\ FilledMeansClosed /\ QueuedHasItem /\ CommandHasItem

LEMMA InvStep == Inv /\ [Next]_vars => Inv'
<1> SUFFICES ASSUME Inv, [Next]_vars PROVE Parts'
  BY TypeStep DEF Inv, Parts
<1> USE DEF queueVars, handlerVars, eaVars
<1>0. TypeOK /\ ReceiptsAreTrue /\ FilledMeansClosed /\ QueuedHasItem /\ CommandHasItem
  BY DEF Inv
(* Steps that touch neither items, queue, receipts nor positions.          *)
<1>1. CASE UNCHANGED <<item, mem, crow, inbox, open, report, posts, sent>> /\ wk'.now \subseteq wk.now
  BY <1>0, <1>1 DEF Parts, ReceiptsAreTrue, FilledMeansClosed, QueuedHasItem, CommandHasItem
<1>2. CASE ClockTicks \/ CountItems \/ WriteRun \/ UNCHANGED vars
  BY <1>1, <1>2 DEF ClockTicks, CountItems, WriteRun, vars
<1>3. CASE StartTick \/ Claim \/ GateOpens \/ GateShut \/ Finish \/ ReadOverdue \/ CloseDay \/ TickFails
  <2>1. StartTick \/ Claim => wk'.now \subseteq wk.now
    BY <1>0 DEF StartTick, Claim, StepTo, WorkerIdle, TypeOK
  <2>2. GateOpens \/ ReadOverdue => wk'.now \subseteq wk.now
    BY <1>0 DEF GateOpens, ReadOverdue, TypeOK
  <2>3. GateShut \/ Finish \/ CloseDay \/ TickFails => wk'.now \subseteq wk.now
    BY DEF GateShut, Finish, CloseDay, TickFails, WorkerIdle
  <2> QED
    BY <1>1, <1>3, <2>1, <2>2, <2>3
       DEF StartTick, Claim, GateOpens, GateShut, Finish, ReadOverdue, CloseDay, TickFails
<1>4. ASSUME NEW t \in Ticket, InsertFails(t) PROVE Parts'
  BY <1>0, <1>1, <1>4 DEF InsertFails, TypeOK
(* The worker's items and commands. *)
<1>5. ASSUME NEW t \in Ticket, InsertItem(t) PROVE Parts'
  <2>1. item'[t] # "none" /\ \A u \in Ticket : u # t => item'[u] = item[u]
    BY <1>0, <1>5 DEF InsertItem, TypeOK
  <2>2. item'[t] = "filled" => item[t] = "filled"
    BY <1>0, <1>5 DEF InsertItem, TypeOK
  <2>3. wk'.now = {t}
    BY <1>0, <1>5 DEF InsertItem, TypeOK
  <2> QED
    BY <1>0, <1>5, <2>1, <2>2, <2>3
       DEF InsertItem, Parts, ReceiptsAreTrue, FilledMeansClosed, QueuedHasItem, CommandHasItem
<1>6. ASSUME NEW t \in Ticket, TimeOutItem(t) PROVE Parts'
  <2>1. \A u \in Ticket : /\ item'[u] = "filled" => item[u] = "filled"
                          /\ item[u] # "none" => item'[u] # "none"
    BY <1>0, <1>6 DEF TimeOutItem, TypeOK, Waiting
  <2>2. wk'.now = wk.now /\ wk.now \subseteq Ticket
    BY <1>0, <1>6 DEF TimeOutItem, TypeOK
  <2> QED
    BY <1>0, <1>6, <2>1, <2>2
       DEF TimeOutItem, Parts, ReceiptsAreTrue, FilledMeansClosed, QueuedHasItem, CommandHasItem
<1>7. CASE QueueClose \/ QueueFails
  <2>1. wk'.now = {} /\ wk.now \subseteq Ticket
    BY <1>0, <1>7 DEF QueueClose, QueueFails, Tried, TypeOK
  <2>2. mem' \subseteq mem \cup {Flatten(t) : t \in wk.now}
    BY <1>7 DEF QueueClose, QueueFails, AddClose, Remembered
  <2>3. \A c \in Command : c \notin {Flatten(t) : t \in wk.now} => crow'[c] = crow[c]
    BY <1>0, <1>7 DEF QueueClose, QueueFails, AddClose, TypeOK
  <2>4. CommandHasItem'
    BY <1>0, <1>7, <2>1, <2>2, <2>3, CommandFacts
       DEF QueueClose, QueueFails, CommandHasItem, QueuedHasItem
  <2> QED
    BY <1>0, <1>7, <2>1, <2>4
       DEF QueueClose, QueueFails, Parts, ReceiptsAreTrue, FilledMeansClosed, QueuedHasItem
(* Polls and other guards. *)
<1>8. CASE GetCloses \/ GetClosesLost
  <2>1. FetchCloses
    BY <1>8 DEF GetCloses, GetClosesLost
  <2>2. \A u \in Ticket : /\ item'[u] = "filled" => item[u] = "filled"
                          /\ item[u] # "none" => item'[u] # "none"
    BY <1>0, <2>1, FetchKeeps DEF Waiting
  <2>3. inbox' \subseteq inbox \cup mem
    BY <1>0, <1>8, <2>1, FetchKeeps DEF GetCloses, GetClosesLost
  <2>4. CommandHasItem'
    BY <1>0, <2>1, <2>2, <2>3, FetchKeeps, CommandFacts DEF CommandHasItem
  <2>5. UNCHANGED <<wk, open, report, posts, sent>> /\ wk.now \subseteq Ticket
    BY <1>0, <1>8, <2>1 DEF GetCloses, GetClosesLost, FetchCloses, TypeOK
  <2>6. ReceiptsAreTrue'
    BY <1>0, <2>5 DEF ReceiptsAreTrue
  <2>7. FilledMeansClosed'
    <3>1. SUFFICES ASSUME NEW t \in Ticket, item'[t] = "filled" PROVE t \notin open'
      BY DEF FilledMeansClosed
    <3>2. item[t] = "filled"
      BY <2>2, <3>1
    <3> QED
      BY <1>0, <2>5, <3>2 DEF FilledMeansClosed
  <2>8. QueuedHasItem'
    BY <1>0, <2>2, <2>5 DEF QueuedHasItem
  <2> QED
    BY <2>4, <2>6, <2>7, <2>8 DEF Parts
<1>9. ASSUME NEW broken \in SUBSET Guarded, PositionsReported(broken) PROVE Parts'
  <2> DEFINE C == {[ticket |-> t, kind |-> "guard"] : t \in broken}
  <2>0. C \subseteq Command /\ \A c \in C : c.kind = "guard"
    BY GuardedAssumption DEF Command, Kind
  <2>1. C \subseteq Command /\ \A t \in Ticket : Flatten(t) \notin C
    BY <2>0, CommandFacts
  <2>2. AddClose(C)
    BY <1>9 DEF PositionsReported
  <2> HIDE DEF C
  <2>3. /\ mem' \subseteq mem \cup C
        /\ \A c \in Command : c \notin C => crow'[c] = crow[c]
    BY <1>0, <2>1, <2>2, AddCloseKeeps
  <2>4. CommandHasItem'
    BY <1>0, <1>9, <2>1, <2>3, CommandFacts DEF PositionsReported, CommandHasItem
  <2> QED
    BY <1>0, <1>9, <2>4
       DEF PositionsReported, Parts, ReceiptsAreTrue, FilledMeansClosed, QueuedHasItem
(* The receipt handler. *)
<1>10. ASSUME NEW p \in posts, RecordReceipt(p) PROVE Parts'
  <2>1. PICK c \in p.cmds :
          LET news == report[c] = "none" \/ (report[c] = "failed" /\ p.ok) IN
            report' = IF news THEN [report EXCEPT ![c] = IF p.ok THEN "filled" ELSE "failed"]
                              ELSE report
    BY <1>10 DEF RecordReceipt
  <2>2. \A d \in Command : report'[d] = "filled" => report[d] = "filled" \/ (d = c /\ p.ok)
    BY <1>0, <2>1 DEF TypeOK
  <2>3. ReceiptsAreTrue'
    BY <1>0, <1>10, <2>2 DEF RecordReceipt, ReceiptsAreTrue
  <2> QED
    BY <1>0, <1>10, <2>3
       DEF RecordReceipt, Parts, FilledMeansClosed, QueuedHasItem, CommandHasItem
<1>11. CASE WriteItem
  <2>1. \A t \in Ticket : item'[t] = IF Flatten(t) \in srv.cmds THEN Settle(Flatten(t)) ELSE item[t]
    BY <1>11 DEF WriteItem
  <2>2. \A t \in Ticket : Settle(Flatten(t)) = "filled" => t \notin open
    BY <1>0, CommandFacts DEF Settle, ReceiptsAreTrue
  <2>3. FilledMeansClosed'
    BY <1>0, <1>11, <2>1, <2>2 DEF WriteItem, FilledMeansClosed
  <2>4. \A t \in Ticket : item[t] # "none" => item'[t] # "none"
    BY <2>1 DEF Settle
  <2>5. wk.now \subseteq Ticket
    BY <1>0 DEF TypeOK
  <2> QED
    BY <1>0, <1>11, <2>3, <2>4, <2>5
       DEF WriteItem, Parts, ReceiptsAreTrue, QueuedHasItem, CommandHasItem
<1>12. ASSUME NEW heard \in BOOLEAN, Answer(heard) PROVE Parts'
  BY <1>0, <1>12
     DEF Answer, NoReceipt, Parts, ReceiptsAreTrue, FilledMeansClosed, QueuedHasItem, CommandHasItem
<1>13. ASSUME NEW p \in posts, LosePost(p) PROVE Parts'
  BY <1>0, <1>13
     DEF LosePost, Parts, ReceiptsAreTrue, FilledMeansClosed, QueuedHasItem, CommandHasItem
<1>14. CASE ServerRestart
  <2>1. CommandHasItem'
    BY <1>0, <1>14 DEF ServerRestart, CommandHasItem
  <2>2. QueuedHasItem'
    BY <1>14 DEF ServerRestart, WorkerIdle, QueuedHasItem
  <2> QED
    BY <1>0, <1>14, <2>1, <2>2 DEF ServerRestart, Parts, ReceiptsAreTrue, FilledMeansClosed
(* The EA. *)
<1>15. ASSUME NEW c \in inbox, CloseDone(c) PROVE Parts'
  <2>1. /\ sent' = [cmds |-> {c}, ok |-> TRUE] /\ posts' = posts \cup {sent'}
        /\ open' = open \ {c.ticket}
    BY <1>15 DEF CloseDone, Post
  <2>2. ReceiptsAreTrue'
    BY <1>0, <1>15, <2>1 DEF CloseDone, Take, ReceiptsAreTrue
  <2> QED
    BY <1>0, <1>15, <2>1, <2>2
       DEF CloseDone, Take, Parts, FilledMeansClosed, QueuedHasItem, CommandHasItem
<1>16. ASSUME NEW c \in inbox, CloseRefused(c) PROVE Parts'
  BY <1>0, <1>16
     DEF CloseRefused, Take, Post, Parts, ReceiptsAreTrue, FilledMeansClosed, QueuedHasItem, CommandHasItem
<1>17. ASSUME NEW c \in inbox, SkipMissing(c) PROVE Parts'
  BY <1>0, <1>17
     DEF SkipMissing, Take, Parts, ReceiptsAreTrue, FilledMeansClosed, QueuedHasItem, CommandHasItem
<1>18. CASE PostAgain \/ GiveUpPosting
  BY <1>0, <1>18
     DEF PostAgain, GiveUpPosting, NoReceipt, Parts, ReceiptsAreTrue, FilledMeansClosed,
         QueuedHasItem, CommandHasItem
<1>19. ASSUME NEW t \in Ticket, PositionCloses(t) PROVE Parts'
  BY <1>0, <1>19
     DEF PositionCloses, Parts, ReceiptsAreTrue, FilledMeansClosed, QueuedHasItem, CommandHasItem
<1> QED
  BY <1>2, <1>3, <1>4, <1>5, <1>6, <1>7, <1>8, <1>9, <1>10, <1>11, <1>12, <1>13, <1>14, <1>15,
     <1>16, <1>17, <1>18, <1>19
     DEF Next, WorkerStep, HandlerStep, EaStep

(* A filled item belongs to a closed position, however many positions,     *)
(* guards, lost receipts, failed statements and restarts there are.        *)
THEOREM FilledItemIsClosed == Spec => []FilledMeansClosed
<1>1. Init => Inv
  BY InitInv
<1>2. Inv => FilledMeansClosed
  BY DEF Inv
<1> QED
  BY <1>1, <1>2, InvStep, PTL DEF Spec

(* Every close command of the flattening, in memory, at the EA or in the   *)
(* table, has its item, whichever statement of the two fails.              *)
THEOREM FlattenCommandHasItem == Spec => []CommandHasItem
<1>1. Init => Inv
  BY InitInv
<1>2. Inv => CommandHasItem
  BY DEF Inv
<1> QED
  BY <1>1, <1>2, InvStep, PTL DEF Spec

----------------------------------------------------------------------------
(* The receipt and the item. *)
LEMMA ReceiptStep ==
  ASSUME HandlerCrash = FALSE, TypeOK, ReceiptReachesItemInv, [Next]_vars
  PROVE  ReceiptReachesItemInv'
<1> USE DEF queueVars, handlerVars, eaVars
<1> DEFINE Owed(t) == report[Flatten(t)] # "none" /\ ~(srv.at = "item" /\ srv.cmds = {Flatten(t)})
(* Steps of the others write no item with a receipt.                       *)
<1>1. ASSUME UNCHANGED <<report, srv>>,
             \A t \in Ticket : item[t] \in {"filled", "rejected"} => item'[t] = item[t]
      PROVE  ReceiptReachesItemInv'
  BY <1>1 DEF ReceiptReachesItemInv, Settle
<1>2. CASE UNCHANGED <<item, report, srv>>
  BY <1>1, <1>2
<1>3. CASE ClockTicks \/ StartTick \/ Claim \/ GateOpens \/ GateShut \/ Finish \/ ReadOverdue \/ CloseDay
  BY <1>2, <1>3 DEF ClockTicks, StartTick, Claim, GateOpens, GateShut, Finish, ReadOverdue, CloseDay
<1>4. CASE QueueClose \/ QueueFails \/ TickFails \/ PostAgain \/ GiveUpPosting \/ UNCHANGED vars
  BY <1>2, <1>4 DEF QueueClose, QueueFails, TickFails, PostAgain, GiveUpPosting, vars
<1>5. ASSUME NEW t \in Ticket, InsertFails(t) \/ PositionCloses(t) PROVE ReceiptReachesItemInv'
  BY <1>2, <1>5 DEF InsertFails, PositionCloses
<1>6. ASSUME NEW broken \in SUBSET Guarded, PositionsReported(broken) PROVE ReceiptReachesItemInv'
  BY <1>2, <1>6 DEF PositionsReported
<1>7. ASSUME NEW c \in inbox, CloseDone(c) \/ CloseRefused(c) \/ SkipMissing(c)
      PROVE  ReceiptReachesItemInv'
  BY <1>2, <1>7 DEF CloseDone, CloseRefused, SkipMissing, Take
<1>8. ASSUME NEW p \in posts, LosePost(p) PROVE ReceiptReachesItemInv'
  BY <1>2, <1>8 DEF LosePost
<1>9. ASSUME NEW t \in Ticket, InsertItem(t) \/ TimeOutItem(t) PROVE ReceiptReachesItemInv'
  <2>1. \A u \in Ticket : item[u] \in {"filled", "rejected"} => item'[u] = item[u]
    BY <1>9 DEF InsertItem, TimeOutItem, TypeOK, Waiting
  <2> QED
    BY <1>1, <1>9, <2>1 DEF InsertItem, TimeOutItem
<1>10. CASE GetCloses \/ GetClosesLost
  <2>1. FetchCloses
    BY <1>10 DEF GetCloses, GetClosesLost
  <2>2. \A u \in Ticket : item[u] \in {"filled", "rejected"} => item'[u] = item[u]
    BY <2>1, FetchKeeps DEF Waiting
  <2> QED
    BY <1>1, <2>1, <2>2 DEF FetchCloses
(* A new receipt of the flattening waits for its item at "item".           *)
<1>11. ASSUME NEW p \in posts, RecordReceipt(p) PROVE ReceiptReachesItemInv'
  <2>1. PICK c \in p.cmds :
          LET news == report[c] = "none" \/ (report[c] = "failed" /\ p.ok) IN
            /\ report' = IF news THEN [report EXCEPT ![c] = IF p.ok THEN "filled" ELSE "failed"]
                                 ELSE report
            /\ srv' = [at |-> IF news /\ c.kind = "flatten" THEN "item" ELSE "answer",
                       cmds |-> {c}, verdict |-> "none"]
    BY <1>11 DEF RecordReceipt
  <2>2. UNCHANGED item /\ srv.at # "item"
    BY <1>11 DEF RecordReceipt, HandlerIdle
  <2>3. c \in Command
    BY <2>1 DEF TypeOK, Receipt
  <2>4. ASSUME NEW t \in Ticket, Owed(t)' PROVE report'[Flatten(t)] = report[Flatten(t)]
    <3>1. CASE Flatten(t) # c
      BY <2>1, <2>3, <3>1, CommandFacts DEF TypeOK
    <3>2. CASE Flatten(t) = c
      BY <2>1, <2>4, <3>2, CommandFacts
    <3> QED
      BY <3>1, <3>2
  <2> QED
    BY <2>2, <2>4 DEF ReceiptReachesItemInv, Settle
<1>12. CASE WriteItem
  <2>1. \A t \in Ticket : item'[t] = IF Flatten(t) \in srv.cmds THEN Settle(Flatten(t)) ELSE item[t]
    BY <1>12 DEF WriteItem
  <2>2. UNCHANGED report
    BY <1>12 DEF WriteItem
  <2> QED
    BY <2>1, <2>2 DEF ReceiptReachesItemInv, Settle
<1>13. CASE CountItems \/ WriteRun
  <2>1. UNCHANGED <<item, report>> /\ srv.at # "item"
    BY <1>13 DEF CountItems, WriteRun
  <2> QED
    BY <2>1 DEF ReceiptReachesItemInv, Settle
<1>14. ASSUME NEW heard \in BOOLEAN, Answer(heard) PROVE ReceiptReachesItemInv'
  <2>1. UNCHANGED <<item, report>> /\ srv.at # "item"
    BY <1>14 DEF Answer
  <2> QED
    BY <2>1 DEF ReceiptReachesItemInv, Settle
(* Without a crash inside it, the handler is not at "item" in a restart.   *)
<1>15. CASE ServerRestart
  <2>1. UNCHANGED <<item, report>> /\ srv.at # "item"
    BY <1>15 DEF ServerRestart
  <2> QED
    BY <2>1 DEF ReceiptReachesItemInv, Settle
<1> QED
  BY <1>3, <1>4, <1>5, <1>6, <1>7, <1>8, <1>9, <1>10, <1>11, <1>12, <1>13, <1>14, <1>15
     DEF Next, WorkerStep, HandlerStep, EaStep

(* Unless the server stops inside the handler, the receipt that was kept   *)
(* is what the item says: no timeout, delivery or second run hides it.     *)
THEOREM ReceiptIsOnItem ==
  ASSUME HandlerCrash = FALSE
  PROVE  Spec => []ReceiptReachesItem
<1>1. Init => TypeOK /\ ReceiptReachesItemInv
  BY InitInv DEF Inv
<1>2. TypeOK /\ ReceiptReachesItemInv /\ [Next]_vars => TypeOK' /\ ReceiptReachesItemInv'
  BY TypeStep, ReceiptStep
<1>3. ReceiptReachesItemInv => ReceiptReachesItem
  BY DEF ReceiptReachesItemInv, ReceiptReachesItem
<1> QED
  BY <1>1, <1>2, <1>3, PTL DEF Spec
=============================================================================
