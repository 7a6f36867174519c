----------------------- MODULE InstructionDelivery_proofs -----------------------
(* Theorems about InstructionDelivery, for every value of its constants.       *)
EXTENDS InstructionDelivery, TLAPS

USE DEF serverVars, eaVars, vars

(* Every variable keeps its type: in particular attempts never pass            *)
(* MaxAttempts, because a pending entry has used none and a delivered one is   *)
(* sent again only below the limit.                                            *)
PendingIsFresh ==
    \A i \in Instr : /\ mem[i].status = "pending" => mem[i].attempts = 0
                     /\ row[i].status = "pending" => row[i].attempts = 0

Typed == TypeOK /\ PendingIsFresh

LEMMA AbsentType == Absent \in Entry(MemStatus) /\ Absent \in Entry(RowStatus)
  BY AttemptsAssumption DEF Absent, Entry, MemStatus, RowStatus, Active

LEMMA EntryType ==
    ASSUME NEW e \in Entry(RowStatus)
    PROVE  /\ e.status \in RowStatus
           /\ e.attempts \in 0..MaxAttempts
           /\ \A s \in RowStatus : [e EXCEPT !.status = s] \in Entry(RowStatus)
  BY DEF Entry

LEMMA FetchType ==
    ASSUME Typed, NEW priced \in SUBSET Instr, NEW i \in Instr
    PROVE  /\ AfterFetch(i, priced) \in Entry(MemStatus)
           /\ AfterFetch(i, priced).status = "pending" =>
                 AfterFetch(i, priced).attempts = 0
           /\ i \in Sent(priced) =>
                 /\ AfterFetch(i, priced) =
                        [status |-> "delivered", attempts |-> mem[i].attempts + 1]
                 /\ mem[i].status \in Active
                 /\ mem[i].attempts < MaxAttempts
           /\ i \in Exhausted =>
                 /\ AfterFetch(i, priced).status = "timeout"
                 /\ AfterFetch(i, priced).attempts = mem[i].attempts
                 /\ mem[i].status = "delivered"
           /\ i \notin Sent(priced) \cup Exhausted => AfterFetch(i, priced) = mem[i]
  <1>1. mem[i] \in Entry(MemStatus)
    BY DEF Typed, TypeOK
  <1>2. mem[i].attempts \in 0..MaxAttempts
    BY <1>1 DEF Entry
  <1>3. i \in Sent(priced) => /\ mem[i].attempts < MaxAttempts
                              /\ mem[i].status \in Active
                              /\ i \notin Exhausted
    BY <1>2, AttemptsAssumption DEF Sent, Due, Exhausted, Typed, PendingIsFresh, Active
  <1>4. CASE i \in Sent(priced)
    <2>1. AfterFetch(i, priced) = [status |-> "delivered", attempts |-> mem[i].attempts + 1]
      BY <1>4 DEF AfterFetch
    <2>2. mem[i].attempts + 1 \in 0..MaxAttempts
      BY <1>2, <1>3, <1>4, AttemptsAssumption
    <2> QED
      BY <2>1, <2>2, <1>3, <1>4 DEF Entry, MemStatus, Active
  <1>5. CASE i \in Exhausted
    <2>1. AfterFetch(i, priced) = [mem[i] EXCEPT !.status = "timeout"]
      BY <1>3, <1>5 DEF AfterFetch
    <2> QED
      BY <2>1, <1>1, <1>3, <1>5 DEF Entry, MemStatus, Active, Exhausted, Due
  <1>6. CASE i \notin Sent(priced) \cup Exhausted
    <2>1. AfterFetch(i, priced) = mem[i]
      BY <1>6 DEF AfterFetch
    <2> QED
      BY <2>1, <1>1, <1>6 DEF Typed, PendingIsFresh
  <1> QED
    BY <1>4, <1>5, <1>6

(* mem and row after a poll. *)
LEMMA FetchTyped ==
    ASSUME Typed, NEW priced \in SUBSET Instr, Fetch(priced)
    PROVE  /\ mem' \in [Instr -> Entry(MemStatus)]
           /\ row' \in [Instr -> Entry(RowStatus)]
           /\ PendingIsFresh'
           /\ Sent(priced) \subseteq Instr
  <1>1. Entry(MemStatus) \subseteq Entry(RowStatus)
    BY DEF Entry, RowStatus
  <1>2. \A i \in Instr : row[i] \in Entry(RowStatus)
    BY DEF Typed, TypeOK
  <1>3. ASSUME NEW i \in Instr
        PROVE  /\ mem'[i] \in Entry(MemStatus)
               /\ row'[i] \in Entry(RowStatus)
               /\ mem'[i].status = "pending" => mem'[i].attempts = 0
               /\ row'[i].status = "pending" => row'[i].attempts = 0
    BY <1>1, <1>2, FetchType DEF Fetch, Typed, PendingIsFresh
  <1> QED
    BY <1>3 DEF Fetch, PendingIsFresh, Sent, Due

LEMMA TypedInit == Init => Typed
  BY AbsentType, NoJobAssumption DEF Init, Typed, TypeOK, PendingIsFresh, Verdict, Absent

LEMMA TypedStep == Typed /\ [Next]_vars => Typed'
  <1> SUFFICES ASSUME Typed, [Next]_vars PROVE Typed'
    OBVIOUS
  <1> USE DEF Typed
  <1>1. CASE UNCHANGED vars
    BY <1>1 DEF TypeOK, PendingIsFresh
  <1>2. ASSUME NEW i \in Instr, AddInstruction(i) PROVE Typed'
    <2>1. [status |-> "pending", attempts |-> 0] \in Entry(MemStatus) \cap Entry(RowStatus)
      BY AttemptsAssumption DEF Entry, MemStatus, RowStatus, Active
    <2> QED
      BY <1>2, <2>1 DEF AddInstruction, TypeOK, PendingIsFresh
  <1>3. ASSUME NEW priced \in SUBSET Instr, GetTrades(priced) \/ GetTradesLost(priced)
        PROVE  Typed'
    <2>1. Fetch(priced)
      BY <1>3 DEF GetTrades, GetTradesLost
    <2>2. handed' \in [Instr -> Nat]
      BY <2>1 DEF Fetch, TypeOK
    <2> QED
      BY <1>3, <2>1, <2>2, FetchTyped DEF GetTrades, GetTradesLost, Fetch, TypeOK
  <1>4. CASE ClearBySymbol
    BY <1>4, AbsentType DEF ClearBySymbol, TypeOK, PendingIsFresh, Absent
  <1>5. ASSUME NEW i \in Instr, RetryDelayElapses(i) PROVE Typed'
    BY <1>5 DEF RetryDelayElapses, TypeOK, PendingIsFresh
  <1>6. CASE Reconcile
    <2>1. ASSUME NEW i \in Instr
          PROVE  /\ mem'[i] \in Entry(MemStatus)
                 /\ row'[i] \in Entry(RowStatus)
                 /\ mem'[i].status = "pending" => mem'[i].attempts = 0
                 /\ row'[i].status = "pending" => row'[i].attempts = 0
      BY <1>6, AbsentType
         DEF Reconcile, TypeOK, PendingIsFresh, Absent, FinalStatus, Entry, RowStatus
    <2> QED
      BY <1>6, <2>1 DEF Reconcile, TypeOK, PendingIsFresh
  <1>7. ASSUME NEW p \in posts, RecordReceipt(p) PROVE Typed'
    BY <1>7 DEF RecordReceipt, TypeOK, PendingIsFresh, Verdict, Job
  <1>8. CASE SyncInstructionRow
    <2>1. srvJob.instr \in Instr
      BY <1>8 DEF SyncInstructionRow, TypeOK, Job
    <2>2. row[srvJob.instr] \in Entry(RowStatus)
      BY <2>1 DEF TypeOK
    <2> QED
      BY <1>8, <2>1, <2>2
         DEF SyncInstructionRow, TypeOK, PendingIsFresh, FinalStatus, Entry, RowStatus
  <1>9. ASSUME NEW heard \in BOOLEAN, MarkExecutionReport(heard) PROVE Typed'
    <2>1. srvJob.instr \in Instr /\ mem[srvJob.instr] \in Entry(MemStatus)
      BY <1>9 DEF MarkExecutionReport, TypeOK, Job
    <2>2. row' \in [Instr -> Entry(RowStatus)] /\ mem' \in [Instr -> Entry(MemStatus)]
      BY <1>9, <2>1, AbsentType
         DEF MarkExecutionReport, TypeOK, FinalStatus, Entry, RowStatus
    <2>3. PendingIsFresh'
      BY <1>9, <2>1
         DEF MarkExecutionReport, TypeOK, PendingIsFresh, FinalStatus, Absent, Entry
    <2> QED
      BY <1>9, <2>1, <2>2, <2>3 DEF MarkExecutionReport, TypeOK
  <1>10. ASSUME NEW p \in posts, LosePost(p) PROVE Typed'
    BY <1>10 DEF LosePost, TypeOK, PendingIsFresh
  <1>11. CASE ServerRestart
    <2>1. \A i \in Instr : mem'[i] \in Entry(MemStatus)
      BY <1>11, AbsentType DEF ServerRestart, TypeOK, Entry, MemStatus, RowStatus
    <2> QED
      BY <1>11, <2>1 DEF ServerRestart, TypeOK, PendingIsFresh, Absent
  <1>12. ASSUME NEW i \in inbox,
                ResendReceipt(i) \/ DropUnfit(i) \/ OrderRefused(i) \/ OrderDealt(i)
         PROVE  Typed'
    <2>1. /\ [instr |-> i, ok |-> TRUE, try |-> 1] \in Job
          /\ [instr |-> i, ok |-> FALSE, try |-> 1] \in Job
      BY <1>12, TriesAssumption DEF TypeOK, Job
    <2>2. CASE ResendReceipt(i)
      BY <2>1, <2>2 DEF ResendReceipt, Take, Post, TypeOK, PendingIsFresh
    <2>3. CASE DropUnfit(i)
      BY <2>3 DEF DropUnfit, Take, TypeOK, PendingIsFresh
    <2>4. CASE OrderRefused(i)
      BY <2>1, <2>4 DEF OrderRefused, Take, Post, TypeOK, PendingIsFresh
    <2>5. CASE OrderDealt(i)
      BY <2>1, <2>5 DEF OrderDealt, Take, TypeOK, PendingIsFresh
    <2> QED
      BY <1>12, <2>2, <2>3, <2>4, <2>5
  <1>13. CASE MarkInstructionExecuted \/ SendReceipt
    BY <1>13 DEF MarkInstructionExecuted, SendReceipt, TypeOK, PendingIsFresh, Job
  <1>14. CASE ReceiptTimesOut
    <2>1. eaJob.try < PostTries => [eaJob EXCEPT !.try = @ + 1] \in Job
      BY <1>14, TriesAssumption DEF ReceiptTimesOut, TypeOK, Job
    <2> QED
      BY <1>14, <2>1 DEF ReceiptTimesOut, TypeOK, PendingIsFresh
  <1>15. CASE EaRestart
    BY <1>15 DEF EaRestart, TypeOK, PendingIsFresh
  <1> QED
    BY <1>1, <1>2, <1>3, <1>4, <1>5, <1>6, <1>7, <1>8, <1>9, <1>10, <1>11, <1>12, <1>13,
       <1>14, <1>15 DEF Next

THEOREM TypeCorrect == Spec => []TypeOK
  <1>1. Spec => []Typed
    BY TypedInit, TypedStep, PTL DEF Spec
  <1>2. Typed => TypeOK
    BY DEF Typed
  <1> QED
    BY <1>1, <1>2, PTL

-----------------------------------------------------------------------------
(* One deal per instruction.  A deal exists exactly for the ids the terminal *)
(* has recorded and for the one it is about to record.                       *)
Recording(i) == eaPc = "mark" /\ eaJob.instr = i

DealInv ==
    \A i \in Instr : /\ i \in gv => deals[i] = 1 /\ ~Recording(i)
                     /\ Recording(i) => deals[i] = 1
                     /\ i \notin gv /\ ~Recording(i) => deals[i] = 0

LEMMA DealStep ==
    ASSUME DealCrash = FALSE
    PROVE  TypeOK /\ DealInv /\ [Next]_vars => DealInv'
  <1> SUFFICES ASSUME TypeOK, DealInv, [Next]_vars PROVE DealInv'
    OBVIOUS
  <1> USE DEF DealInv, Recording
  <1>1. CASE UNCHANGED eaVars
    BY <1>1
  <1>2. ASSUME NEW priced \in SUBSET Instr, GetTrades(priced) PROVE DealInv'
    BY <1>2 DEF GetTrades
  <1>3. ASSUME NEW heard \in BOOLEAN, MarkExecutionReport(heard) PROVE DealInv'
    BY <1>3 DEF MarkExecutionReport
  <1>4. ASSUME NEW i \in inbox, ResendReceipt(i) PROVE DealInv'
    BY <1>4 DEF ResendReceipt, Take, Post
  <1>5. ASSUME NEW i \in inbox, DropUnfit(i) PROVE DealInv'
    BY <1>5 DEF DropUnfit, Take
  <1>6. ASSUME NEW i \in inbox, OrderRefused(i) PROVE DealInv'
    BY <1>6 DEF OrderRefused, Take, Post
  <1>7. ASSUME NEW i \in inbox, OrderDealt(i) PROVE DealInv'
    BY <1>7 DEF OrderDealt, Take, TypeOK
  <1>8. CASE MarkInstructionExecuted
    BY <1>8 DEF MarkInstructionExecuted, TypeOK, Job
  <1>9. CASE SendReceipt \/ ReceiptTimesOut
    BY <1>9 DEF SendReceipt, ReceiptTimesOut
  <1>10. CASE EaRestart
    BY <1>10 DEF EaRestart
  <1> QED
    BY <1>1, <1>2, <1>3, <1>4, <1>5, <1>6, <1>7, <1>8, <1>9, <1>10
       DEF Next, AddInstruction, GetTradesLost, ClearBySymbol, RetryDelayElapses, Reconcile,
           RecordReceipt, SyncInstructionRow, LosePost, ServerRestart

(* The idempotency record of the EA works: unless the terminal dies between  *)
(* the deal and the record, no loss, delay, redelivery or restart makes a    *)
(* second deal.                                                              *)
THEOREM DealtAtMostOnce ==
    ASSUME DealCrash = FALSE
    PROVE  Spec => []AtMostOneDeal
  <1>1. Init => DealInv
    BY DEF Init, DealInv, Recording
  <1>2. TypeOK /\ DealInv => AtMostOneDeal
    BY DEF TypeOK, DealInv, AtMostOneDeal
  <1> QED
    BY <1>1, <1>2, DealStep, TypeCorrect, PTL DEF Spec

-----------------------------------------------------------------------------
(* A fill the server records is true.  Every message or record that says     *)
(* filled is about an id the terminal recorded after its deal.               *)
FillsAreRecorded ==
    /\ \A p \in posts : p.ok => p.instr \in gv
    /\ eaPc \in {"post", "wait"} /\ eaJob.ok => eaJob.instr \in gv
    /\ \A i \in Instr : report[i] = "filled" => i \in gv
    /\ \A i \in Instr : row[i].status = "filled" => i \in gv

RecordedIsDealt ==
    /\ \A i \in gv : deals[i] >= 1
    /\ eaPc = "mark" => deals[eaJob.instr] >= 1

FillInv == FillsAreRecorded /\ RecordedIsDealt

LEMMA FillStep == Typed /\ FillInv /\ [Next]_vars => FillInv'
  <1> SUFFICES ASSUME Typed, FillInv, [Next]_vars PROVE FillInv'
    OBVIOUS
  <1> USE DEF FillInv, FillsAreRecorded, RecordedIsDealt, Typed
  <1>1. CASE UNCHANGED vars
    BY <1>1
  <1>2. ASSUME NEW i \in Instr, AddInstruction(i) PROVE FillInv'
    BY <1>2 DEF AddInstruction, TypeOK
  <1>3. ASSUME NEW priced \in SUBSET Instr, GetTrades(priced) \/ GetTradesLost(priced)
        PROVE  FillInv'
    <2>1. Fetch(priced) /\ UNCHANGED <<posts, eaPc, eaJob, gv, deals, report>>
      BY <1>3 DEF GetTrades, GetTradesLost, Fetch
    <2>2. ASSUME NEW i \in Instr, row'[i].status = "filled"
          PROVE  row[i].status = "filled"
      BY <2>1, <2>2, FetchType DEF Fetch
    <2> QED
      BY <2>1, <2>2
  <1>4. CASE ClearBySymbol
    BY <1>4 DEF ClearBySymbol, Absent
  <1>5. CASE Reconcile
    <2>1. ASSUME NEW i \in Instr, row'[i].status = "filled"
          PROVE  row[i].status = "filled" \/ report[i] = "filled"
      <3>1. mem[i] \in Entry(MemStatus)
        BY DEF TypeOK
      <3> QED
        BY <1>5, <2>1, <3>1 DEF Reconcile, FinalStatus, Entry
    <2> QED
      BY <1>5, <2>1 DEF Reconcile
  <1>6. ASSUME NEW p \in posts, RecordReceipt(p) PROVE FillInv'
    BY <1>6 DEF RecordReceipt, TypeOK, Job
  <1>7. CASE SyncInstructionRow
    <2>1. srvJob.instr \in Instr /\ row[srvJob.instr] \in Entry(RowStatus)
      BY <1>7 DEF SyncInstructionRow, TypeOK, Job
    <2>2. ASSUME NEW i \in Instr, row'[i].status = "filled"
          PROVE  row[i].status = "filled" \/ report[i] = "filled"
      BY <1>7, <2>1, <2>2 DEF SyncInstructionRow, FinalStatus, TypeOK, Entry
    <2> QED
      BY <1>7, <2>2 DEF SyncInstructionRow
  <1>8. ASSUME NEW heard \in BOOLEAN, MarkExecutionReport(heard) PROVE FillInv'
    <2>1. srvJob.instr \in Instr /\ mem[srvJob.instr] \in Entry(MemStatus)
      BY <1>8 DEF MarkExecutionReport, TypeOK, Job
    <2>2. ASSUME NEW i \in Instr, row'[i].status = "filled"
          PROVE  row[i].status = "filled" \/ report[i] = "filled"
      BY <1>8, <2>1, <2>2 DEF MarkExecutionReport, FinalStatus, TypeOK, Entry
    <2> QED
      BY <1>8, <2>2 DEF MarkExecutionReport
  <1>9. CASE \/ \E i \in Instr : RetryDelayElapses(i)
             \/ \E p \in posts : LosePost(p)
             \/ ServerRestart
    BY <1>9 DEF RetryDelayElapses, LosePost, ServerRestart
  <1>10. ASSUME NEW i \in inbox, ResendReceipt(i) PROVE FillInv'
    BY <1>10 DEF ResendReceipt, Take, Post
  <1>11. ASSUME NEW i \in inbox, DropUnfit(i) \/ OrderRefused(i) PROVE FillInv'
    BY <1>11 DEF DropUnfit, OrderRefused, Take, Post
  <1>12. ASSUME NEW i \in inbox, OrderDealt(i) PROVE FillInv'
    BY <1>12 DEF OrderDealt, Take, TypeOK
  <1>13. CASE MarkInstructionExecuted
    BY <1>13 DEF MarkInstructionExecuted, TypeOK
  <1>14. CASE SendReceipt
    BY <1>14 DEF SendReceipt, TypeOK
  <1>15. CASE ReceiptTimesOut
    BY <1>15 DEF ReceiptTimesOut, TypeOK, Job
  <1>16. CASE EaRestart
    BY <1>16 DEF EaRestart
  <1> QED
    BY <1>1, <1>2, <1>3, <1>4, <1>5, <1>6, <1>7, <1>8, <1>9, <1>10, <1>11, <1>12, <1>13,
       <1>14, <1>15, <1>16 DEF Next

(* The server never records a fill the broker did not make, in the receipt   *)
(* table or in the instruction row, even when the terminal dies between a    *)
(* deal and its record.                                                      *)
THEOREM FillsAreTrue == Spec => []FilledMeansDealt
  <1>1. Init => FillInv
    BY DEF Init, FillInv, FillsAreRecorded, RecordedIsDealt, Absent
  <1>2. FillInv => FilledMeansDealt
    BY DEF FillInv, FillsAreRecorded, RecordedIsDealt, FilledMeansDealt
  <1> QED
    BY <1>1, <1>2, FillStep, TypedInit, TypedStep, PTL DEF Spec

-----------------------------------------------------------------------------
(* An id is only ever in a store, a response or a receipt after              *)
(* add_instruction, so a settled id cannot be added a second time.           *)
OnlyUsedIds ==
    /\ \A i \in Instr : InMemory(i) => i \in used
    /\ inbox \subseteq used
    /\ \A p \in posts : p.instr \in used
    /\ eaPc # "idle" => eaJob.instr \in used
    /\ srvPc # "idle" => srvJob.instr \in used
    /\ \A i \in Instr : row[i].status \in Active => i \in used

(* The row of an id whose receipt handler is about to mark it may still be   *)
(* put back into delivery by a poll, but only while the entry is in memory,  *)
(* and then the handler ends both.                                           *)
AwaitsMark(i) == srvPc = "mark" /\ srvJob.instr = i

SettleInv ==
    /\ OnlyUsedIds
    /\ settled \subseteq used
    /\ SettledIsFinal
    /\ \A i \in Instr : AwaitsMark(i) /\ ~InMemory(i) => row[i].status \notin Active

LEMMA SettleStep == Typed /\ SettleInv /\ [Next]_vars => SettleInv'
  <1> SUFFICES ASSUME Typed, SettleInv, [Next]_vars PROVE SettleInv'
    OBVIOUS
  <1> USE DEF SettleInv, OnlyUsedIds, AwaitsMark, SettledIsFinal, InMemory, Typed
  <1>1. CASE UNCHANGED vars
    BY <1>1
  <1>2. ASSUME NEW i \in Instr, AddInstruction(i) PROVE SettleInv'
    BY <1>2 DEF AddInstruction, TypeOK, Active
  <1>3. ASSUME NEW priced \in SUBSET Instr, GetTrades(priced) \/ GetTradesLost(priced)
        PROVE  SettleInv'
    <2>1. /\ Fetch(priced)
          /\ UNCHANGED <<used, posts, srvPc, srvJob, settled, eaPc, eaJob>>
          /\ inbox' \subseteq inbox \cup Sent(priced)
      BY <1>3 DEF GetTrades, GetTradesLost, Fetch
    <2>2. ASSUME NEW i \in Instr
          PROVE  /\ InMemory(i)' <=> InMemory(i)
                 /\ i \in Sent(priced) => InMemory(i)
                 /\ row'[i].status \in Active => InMemory(i) \/ row[i].status \in Active
      BY <2>1, <2>2, FetchType DEF Fetch, Active
    <2> QED
      BY <2>1, <2>2 DEF Sent, Due, TypeOK
  <1>4. CASE ClearBySymbol
    BY <1>4 DEF ClearBySymbol, Absent, Active, TypeOK
  <1>5. CASE Reconcile
    <2>1. ASSUME NEW i \in Instr
          PROVE  /\ InMemory(i)' => InMemory(i)
                 /\ row'[i].status \in Active => row[i].status \in Active
                 /\ InMemory(i) /\ ~InMemory(i)' => row'[i].status \notin Active
      <3>1. mem[i] \in Entry(MemStatus)
        BY DEF TypeOK
      <3> QED
        BY <1>5, <3>1 DEF Reconcile, FinalStatus, Entry, Active, Absent
    <2> QED
      BY <1>5, <2>1 DEF Reconcile, TypeOK
  <1>6. ASSUME NEW p \in posts, RecordReceipt(p) PROVE SettleInv'
    BY <1>6 DEF RecordReceipt
  <1>7. CASE SyncInstructionRow
    <2>1. srvJob.instr \in Instr /\ row[srvJob.instr] \in Entry(RowStatus)
      BY <1>7 DEF SyncInstructionRow, TypeOK, Job
    <2>2. /\ \A i \in Instr : row'[i].status \in Active => row[i].status \in Active
          /\ row'[srvJob.instr].status \notin Active
      BY <1>7, <2>1 DEF SyncInstructionRow, FinalStatus, TypeOK, Entry, Active
    <2> QED
      BY <1>7, <2>1, <2>2 DEF SyncInstructionRow
  <1>8. ASSUME NEW heard \in BOOLEAN, MarkExecutionReport(heard) PROVE SettleInv'
    <2>1. srvJob.instr \in Instr /\ mem[srvJob.instr] \in Entry(MemStatus)
      BY <1>8 DEF MarkExecutionReport, TypeOK, Job
    <2>2. /\ \A i \in Instr : row'[i].status \in Active => row[i].status \in Active
          /\ row'[srvJob.instr].status \notin Active
          /\ \A i \in Instr : InMemory(i)' => InMemory(i) /\ i # srvJob.instr
      BY <1>8, <2>1 DEF MarkExecutionReport, FinalStatus, TypeOK, Entry, Active, Absent
    <2> QED
      BY <1>8, <2>1, <2>2 DEF MarkExecutionReport
  <1>9. CASE \/ \E i \in Instr : RetryDelayElapses(i)
             \/ \E p \in posts : LosePost(p)
    BY <1>9 DEF RetryDelayElapses, LosePost
  <1>10. CASE ServerRestart
    BY <1>10 DEF ServerRestart, Absent, Active, TypeOK
  <1>11. ASSUME NEW i \in inbox,
                ResendReceipt(i) \/ DropUnfit(i) \/ OrderRefused(i) \/ OrderDealt(i)
         PROVE  SettleInv'
    BY <1>11 DEF ResendReceipt, DropUnfit, OrderRefused, OrderDealt, Take, Post
  <1>12. CASE MarkInstructionExecuted \/ SendReceipt \/ EaRestart
    BY <1>12 DEF MarkInstructionExecuted, SendReceipt, EaRestart
  <1>13. CASE ReceiptTimesOut
    BY <1>13 DEF ReceiptTimesOut, TypeOK, Job
  <1> QED
    BY <1>1, <1>2, <1>3, <1>4, <1>5, <1>6, <1>7, <1>8, <1>9, <1>10, <1>11, <1>12, <1>13
       DEF Next

(* A completed receipt handler ends delivery for ever: no poll between its   *)
(* writes, no lost answer and no restart from the durable rows revives it.   *)
THEOREM SettledStaysSettled == Spec => []SettledIsFinal
  <1>1. Init => SettleInv
    BY DEF Init, SettleInv, OnlyUsedIds, SettledIsFinal, InMemory, AwaitsMark, Absent, Active
  <1>2. SettleInv => SettledIsFinal
    BY DEF SettleInv
  <1> QED
    BY <1>1, <1>2, SettleStep, TypedInit, TypedStep, PTL DEF Spec

-----------------------------------------------------------------------------
(* The row of a settled instruction agrees with its receipt.  A failed       *)
(* receipt may be raised to filled after the instruction is settled; then    *)
(* the row is behind until the same handler has synchronised it.  Between    *)
(* that write and the mark only an entry still in memory can change the row, *)
(* and the mark writes that one again.                                       *)
AwaitsSync(i) == srvPc = "sync" /\ srvJob.instr = i

Agrees(i) == row[i].status \in {"absent", FinalStatus(i)}

AgreeInv ==
    \A i \in Instr :
        (i \in settled /\ ~AwaitsSync(i)) \/ (AwaitsMark(i) /\ ~InMemory(i)) => Agrees(i)

LEMMA AgreeStep ==
    ASSUME HandlerCrash = FALSE
    PROVE  Typed /\ SettleInv /\ AgreeInv /\ [Next]_vars => AgreeInv'
  <1> SUFFICES ASSUME Typed, SettleInv, AgreeInv, [Next]_vars PROVE AgreeInv'
    OBVIOUS
  <1> USE DEF AgreeInv, Agrees, AwaitsSync, AwaitsMark, InMemory, FinalStatus
  <1>s. \A i \in settled : ~InMemory(i) /\ i \in used
    BY DEF SettleInv, SettledIsFinal
  <1>1. CASE UNCHANGED <<mem, row, report, srvPc, srvJob, settled>>
    BY <1>1
  <1>2. ASSUME NEW i \in Instr, AddInstruction(i) PROVE AgreeInv'
    <2>1. i \notin settled /\ ~AwaitsMark(i)
      BY <1>s, <1>2 DEF AddInstruction, SettleInv, OnlyUsedIds
    <2> QED
      BY <1>2, <2>1 DEF AddInstruction, Typed, TypeOK
  <1>3. ASSUME NEW priced \in SUBSET Instr, GetTrades(priced) \/ GetTradesLost(priced)
        PROVE  AgreeInv'
    <2>1. Fetch(priced)
      BY <1>3 DEF GetTrades, GetTradesLost
    <2>2. ASSUME NEW i \in Instr
          PROVE  /\ InMemory(i)' <=> InMemory(i)
                 /\ ~InMemory(i) => row'[i] = row[i]
      BY <2>1, <2>2, FetchType DEF Fetch, Active
    <2> QED
      BY <1>s, <2>1, <2>2 DEF Fetch
  <1>4. CASE ClearBySymbol
    BY <1>4 DEF ClearBySymbol, Absent
  <1>5. CASE Reconcile
    <2>1. ASSUME NEW i \in Instr
          PROVE  /\ InMemory(i) /\ ~InMemory(i)' => Agrees(i)'
                 /\ ~InMemory(i) => row'[i] = row[i] /\ ~InMemory(i)'
      <3>1. mem[i] \in Entry(MemStatus)
        BY DEF Typed, TypeOK
      <3> QED
        BY <1>5, <3>1 DEF Reconcile, Reported, Entry, Active, Absent
    <2> QED
      BY <1>s, <1>5, <2>1 DEF Reconcile
  <1>6. ASSUME NEW p \in posts, RecordReceipt(p) PROVE AgreeInv'
    <2>1. p.instr \in Instr
      BY DEF Typed, TypeOK, Job
    <2> QED
      BY <1>6, <2>1 DEF RecordReceipt, Typed, TypeOK
  <1>7. CASE SyncInstructionRow
    <2>1. PICK j \in Instr : j = srvJob.instr
      BY <1>7 DEF SyncInstructionRow, Typed, TypeOK, Job
    <2>2. row[j] \in Entry(RowStatus)
      BY DEF Typed, TypeOK
    <2>3. Agrees(j)'
      BY <1>7, <2>1, <2>2 DEF SyncInstructionRow, Typed, TypeOK, Entry
    <2>4. \A i \in Instr : i # j => row'[i] = row[i]
      BY <1>7, <2>1 DEF SyncInstructionRow, Typed, TypeOK
    <2> QED
      BY <1>7, <2>1, <2>3, <2>4 DEF SyncInstructionRow
  <1>8. ASSUME NEW heard \in BOOLEAN, MarkExecutionReport(heard) PROVE AgreeInv'
    <2>1. PICK j \in Instr : j = srvJob.instr
      BY <1>8 DEF MarkExecutionReport, Typed, TypeOK, Job
    <2>2. mem[j] \in Entry(MemStatus) /\ row[j] \in Entry(RowStatus)
      BY DEF Typed, TypeOK
    <2>3. CASE InMemory(j)
      <3>1. row' = [row EXCEPT ![j] = [mem[j] EXCEPT !.status = FinalStatus(j)]]
        BY <1>8, <2>1, <2>3 DEF MarkExecutionReport
      <3>2. row'[j].status = FinalStatus(j)
        BY <2>2, <3>1 DEF Typed, TypeOK, Entry
      <3> QED
        BY <1>8, <2>1, <3>1, <3>2 DEF MarkExecutionReport
    <2>4. CASE ~InMemory(j)
      BY <1>8, <2>1, <2>4 DEF MarkExecutionReport
    <2> QED
      BY <2>3, <2>4
  <1>9. CASE ServerRestart
    BY <1>9 DEF ServerRestart, Typed, TypeOK
  <1> QED
    BY <1>1, <1>2, <1>3, <1>4, <1>5, <1>6, <1>7, <1>8, <1>9
       DEF Next, RetryDelayElapses, LosePost, ResendReceipt, DropUnfit, OrderRefused,
           OrderDealt, MarkInstructionExecuted, SendReceipt, ReceiptTimesOut, EaRestart

(* What the durable row says of a settled instruction is what its receipt    *)
(* says, through polls between the handler's writes, repeated and late       *)
(* receipts and orderly restarts; only a server that dies between two        *)
(* writes of the handler can leave them apart.                               *)
THEOREM SettledRowsAgree ==
    ASSUME HandlerCrash = FALSE
    PROVE  Spec => []SettledRowAgrees
  <1>1. Init => AgreeInv /\ SettleInv
    BY DEF Init, AgreeInv, AwaitsMark, SettleInv, OnlyUsedIds, SettledIsFinal, InMemory,
           Absent, Active
  <1>2. Typed /\ AgreeInv => SettledRowAgrees
    BY DEF Typed, TypeOK, AgreeInv, AwaitsSync, Agrees, SettledRowAgrees
  <1> QED
    BY <1>1, <1>2, AgreeStep, SettleStep, TypedInit, TypedStep, PTL DEF Spec

-----------------------------------------------------------------------------
(* The attempts kept with an entry count its handovers, and the durable copy *)
(* a restart would reload counts the same.                                   *)
CountInv ==
    \A i \in Instr :
        /\ handed[i] <= MaxAttempts
        /\ InMemory(i) => mem[i].attempts = handed[i] /\ i \in used
        /\ row[i].status \in Active => row[i].attempts = handed[i] /\ i \in used
        /\ i \notin used => handed[i] = 0

LEMMA CountStep == Typed /\ CountInv /\ [Next]_vars => CountInv'
  <1> SUFFICES ASSUME Typed, CountInv, [Next]_vars PROVE CountInv'
    OBVIOUS
  <1> USE DEF CountInv, InMemory, Typed
  <1>1. CASE UNCHANGED <<used, mem, row, handed>>
    BY <1>1
  <1>2. ASSUME NEW i \in Instr, AddInstruction(i) PROVE CountInv'
    BY <1>2 DEF AddInstruction, TypeOK
  <1>3. ASSUME NEW priced \in SUBSET Instr, GetTrades(priced) \/ GetTradesLost(priced)
        PROVE  CountInv'
    <2>1. Fetch(priced)
      BY <1>3 DEF GetTrades, GetTradesLost
    <2>2. ASSUME NEW i \in Instr PROVE CountInv!(i)'
      <3>1. mem[i].attempts \in 0..MaxAttempts /\ handed[i] \in Nat
        BY DEF TypeOK, Entry
      <3>2. CASE i \in Sent(priced)
        BY <2>1, <3>1, <3>2, FetchType, AttemptsAssumption DEF Fetch, TypeOK, Active
      <3>3. CASE i \notin Sent(priced)
        BY <2>1, <3>1, <3>3, FetchType DEF Fetch, TypeOK, Active
      <3> QED
        BY <3>2, <3>3
    <2> QED
      BY <2>2
  <1>4. CASE ClearBySymbol
    BY <1>4 DEF ClearBySymbol, Absent, Active
  <1>5. CASE Reconcile
    <2>1. ASSUME NEW i \in Instr PROVE CountInv!(i)'
      <3>1. mem[i] \in Entry(MemStatus)
        BY DEF TypeOK
      <3> QED
        BY <1>5, <3>1 DEF Reconcile, FinalStatus, Entry, Active, Absent
    <2> QED
      BY <2>1
  <1>6. CASE SyncInstructionRow
    <2>1. srvJob.instr \in Instr /\ row[srvJob.instr] \in Entry(RowStatus)
      BY <1>6 DEF SyncInstructionRow, TypeOK, Job
    <2> QED
      BY <1>6, <2>1 DEF SyncInstructionRow, FinalStatus, TypeOK, Entry, Active
  <1>7. ASSUME NEW heard \in BOOLEAN, MarkExecutionReport(heard) PROVE CountInv'
    <2>1. srvJob.instr \in Instr /\ mem[srvJob.instr] \in Entry(MemStatus)
      BY <1>7 DEF MarkExecutionReport, TypeOK, Job
    <2> QED
      BY <1>7, <2>1 DEF MarkExecutionReport, FinalStatus, TypeOK, Entry, Active, Absent
  <1>8. CASE ServerRestart
    BY <1>8 DEF ServerRestart, Absent, Active
  <1> QED
    BY <1>1, <1>2, <1>3, <1>4, <1>5, <1>6, <1>7, <1>8
       DEF Next, RetryDelayElapses, RecordReceipt, LosePost, ResendReceipt, DropUnfit,
           OrderRefused, OrderDealt, MarkInstructionExecuted, SendReceipt, ReceiptTimesOut,
           EaRestart

(* The EA is handed an instruction at most MAX_DELIVERY_ATTEMPTS times, over *)
(* every restart: the count is durable before the response leaves.           *)
THEOREM HandoversAreBounded == Spec => []HandoverBounded
  <1>1. Init => CountInv
    BY AttemptsAssumption DEF Init, CountInv, InMemory, Absent, Active
  <1>2. CountInv => HandoverBounded
    BY DEF CountInv, HandoverBounded
  <1> QED
    BY <1>1, <1>2, CountStep, TypedInit, TypedStep, PTL DEF Spec

-----------------------------------------------------------------------------
Promise == INSTANCE OrderExecution

LEMMA PromiseStep ==
    ASSUME DealCrash = FALSE
    PROVE  Typed /\ DealInv /\ FillInv /\ [Next]_vars
             => [Promise!Next]_<<report, deals>>
  <1> SUFFICES ASSUME Typed, DealInv, FillInv, [Next]_vars,
                      ~UNCHANGED <<report, deals>>
               PROVE  Promise!Next
    OBVIOUS
  <1>1. ASSUME NEW p \in posts, RecordReceipt(p) PROVE Promise!Next
    <2>1. p.instr \in Instr /\ p.ok \in BOOLEAN
      BY DEF Typed, TypeOK, Job
    <2>2. CASE p.ok
      <3>1. report' = [report EXCEPT ![p.instr] = "filled"] /\ UNCHANGED deals
        BY <1>1, <2>1, <2>2 DEF RecordReceipt
      <3>2. report[p.instr] # "filled"
        BY <3>1, <2>1 DEF Typed, TypeOK
      <3>3. deals[p.instr] = 1
        BY <2>1, <2>2 DEF FillInv, FillsAreRecorded, DealInv
      <3>4. Promise!Confirm(p.instr)
        BY <3>1, <3>2, <3>3 DEF Promise!Confirm
      <3> QED
        BY <2>1, <3>4 DEF Promise!Next
    <2>3. CASE ~p.ok
      <3>1. report[p.instr] = "none" \/ UNCHANGED report
        BY <1>1, <2>1, <2>3 DEF RecordReceipt, Typed, TypeOK
      <3>2. UNCHANGED deals
        BY <1>1 DEF RecordReceipt
      <3>3. report[p.instr] = "none"
        BY <3>1, <3>2
      <3>4. report' = [report EXCEPT ![p.instr] = "failed"]
        BY <1>1, <2>1, <2>3, <3>3 DEF RecordReceipt
      <3>5. Promise!Refuse(p.instr)
        BY <3>2, <3>3, <3>4 DEF Promise!Refuse
      <3> QED
        BY <2>1, <3>5 DEF Promise!Next
    <2> QED
      BY <2>2, <2>3
  <1>2. ASSUME NEW i \in inbox, OrderDealt(i) PROVE Promise!Next
    <2>1. i \in Instr /\ i \notin gv /\ ~Recording(i)
      BY <1>2 DEF OrderDealt, Take, Recording, Typed, TypeOK
    <2>2. deals[i] = 0
      BY <2>1 DEF DealInv
    <2>3. deals' = [deals EXCEPT ![i] = 1] /\ UNCHANGED report
      BY <1>2, <2>1, <2>2 DEF OrderDealt, Typed, TypeOK
    <2>4. Promise!Deal(i)
      BY <2>2, <2>3 DEF Promise!Deal
    <2> QED
      BY <2>1, <2>4 DEF Promise!Next
  <1> QED
    BY <1>1, <1>2
       DEF Next, AddInstruction, GetTrades, GetTradesLost, Fetch, ClearBySymbol,
           RetryDelayElapses, Reconcile, SyncInstructionRow, MarkExecutionReport, LosePost,
           ServerRestart, ResendReceipt, DropUnfit, OrderRefused,
           MarkInstructionExecuted, SendReceipt, ReceiptTimesOut, EaRestart

(* Delivery keeps the promise of OrderExecution: at most one deal, and a     *)
(* verdict that only becomes filled after the deal and then stays so.        *)
THEOREM DeliveryKeepsPromise ==
    ASSUME DealCrash = FALSE
    PROVE  Spec => Promise!Spec
  <1>1. Init => Promise!Init
    BY DEF Init, Promise!Init
  <1>2. Init => Typed /\ DealInv /\ FillInv
    BY TypedInit DEF Init, DealInv, Recording, FillInv, FillsAreRecorded, RecordedIsDealt, Absent
  <1>3. Typed => TypeOK
    BY DEF Typed
  <1> QED
    BY <1>1, <1>2, <1>3, PromiseStep, TypedStep, DealStep, FillStep, PTL DEF Spec, Promise!Spec

(* A filled receipt is never demoted, whatever order the receipts of an      *)
(* instruction are handled in.                                               *)
THEOREM FilledReceiptStays == Spec => FilledReceiptIsFinal
  <1>1. TypeOK /\ [Next]_vars
          => [\A i \in Instr : report[i] = "filled" => report'[i] = "filled"]_vars
    <2> SUFFICES ASSUME TypeOK, Next, NEW i \in Instr, report[i] = "filled"
                 PROVE  report'[i] = "filled"
      OBVIOUS
    <2>1. ASSUME NEW p \in posts, RecordReceipt(p) PROVE report'[i] = "filled"
      BY <2>1 DEF RecordReceipt, TypeOK
    <2> QED
      BY <2>1
         DEF Next, AddInstruction, GetTrades, GetTradesLost, Fetch, ClearBySymbol,
             RetryDelayElapses, Reconcile, SyncInstructionRow, MarkExecutionReport, LosePost,
             ServerRestart, ResendReceipt, DropUnfit, OrderRefused, OrderDealt,
             MarkInstructionExecuted, SendReceipt, ReceiptTimesOut, EaRestart
  <1> QED
    BY <1>1, TypeCorrect, PTL DEF Spec, FilledReceiptIsFinal
=================================================================================
