-------------------------- MODULE StopUpdate_proofs --------------------------
(***************************************************************************)
(* For any number of stops, with or without losses, restarts and transient *)
(* refusals: the variables keep their types, a command called executed was *)
(* executed, the engine believes only in stops the broker has had, and the *)
(* table has at most one live command of a position, the one the engine    *)
(* waits for.                                                              *)
(***************************************************************************)
EXTENDS StopUpdate, TLAPS

(* A receipt tells the truth: its actual stop is one the broker has had,   *)
(* and the stop of a successful command is one too.                        *)
Truthful(r, had) == r.actual \in had /\ (r.verdict = "done" => r.stop \in had)

(* What every receipt, kept, posted or waiting, and every copy of the stop *)
(* says is backed by what the broker has had.                              *)
ReceiptsAreTrue ==
  /\ \A s \in Stop : report[s] # NoReceipt => Truthful(report[s], reached) /\ report[s].stop = s
  /\ \A p \in posts : Truthful(p, reached)
  /\ sent # NoReceipt => Truthful(sent, reached)
StopsWereHad == view \in reached /\ broker \in reached
HandlerHasReceipt == srvPc # "idle" => srvStop \in Stop /\ report[srvStop] # NoReceipt
PendingIsTarget == managed.pending # None => managed.stop = managed.pending

Inv ==
  /\ TypeOK
  /\ ReceiptsAreTrue
  /\ StopsWereHad
  /\ HandlerHasReceipt
  /\ PendingIsTarget
  /\ ExecutedIsTrue
  /\ BeliefIsBacked

LEMMA StopFacts == Stop \subseteq Nat \ {0} /\ 1 \in Stop /\ None \notin Stop
  BY TopAssumption DEF Stop, None

(* The state the engine derives in a tick has a proper stop, and one that  *)
(* is backed when nothing is pending.                                      *)
LEMMA MergedIsBacked ==
  ASSUME Inv
  PROVE  /\ Merged \in [on : {TRUE}, stop : Stop, pending : Stop \cup {None}]
         /\ Merged.pending # None => Merged.stop = Merged.pending
         /\ Merged.pending = None => Merged.stop \in reached
<1> DEFINE old == IF managed.on THEN managed
                  ELSE [on |-> TRUE, stop |-> view, pending |-> None]
           pending == IF view >= old.pending THEN None ELSE old.pending
           stop == IF pending # None THEN pending ELSE MaxStop(old.stop, view)
<1>1. old \in [on : {TRUE}, stop : Stop, pending : Stop \cup {None}]
  <2>1. CASE managed = Unmanaged
    BY <2>1 DEF Inv, TypeOK, Unmanaged
  <2>2. CASE managed \in [on : {TRUE}, stop : Stop, pending : Stop \cup {None}]
    BY <2>2
  <2> QED
    BY <2>1, <2>2 DEF Inv, TypeOK
<1>2. old.pending # None => old.stop = old.pending
  BY DEF Inv, PendingIsTarget
<1>3. old.pending = None => old.stop \in reached
  BY <1>1 DEF Inv, BeliefIsBacked, StopsWereHad, TypeOK
<1>4. view \in reached /\ view \in Stop
  BY DEF Inv, StopsWereHad, TypeOK
<1>5. pending \in Stop \cup {None}
  BY <1>1
<1>6. stop \in Stop
  BY <1>1, <1>4, <1>5 DEF MaxStop
<1>7. pending = None => stop \in reached
  <2> SUFFICES ASSUME pending = None PROVE MaxStop(old.stop, view) \in reached
    OBVIOUS
  <2>1. CASE old.pending = None
    BY <2>1, <1>3, <1>4 DEF MaxStop
  <2>2. CASE old.pending # None
    <3>1. view >= old.stop
      BY <2>2, <1>2
    <3>2. old.stop \in Nat /\ view \in Nat
      BY <1>1, <1>4, StopFacts
    <3> HIDE DEF old
    <3> QED
      BY <3>1, <3>2, <1>4 DEF MaxStop
  <2> QED
    BY <2>1, <2>2
<1>8. Merged = [on |-> TRUE, pending |-> pending, stop |-> stop]
  BY DEF Merged
<1> HIDE DEF old, pending, stop
<1>9. pending # None => stop = pending
  BY DEF stop
<1> QED
  BY <1>5, <1>6, <1>7, <1>8, <1>9

(* More stops had by the broker only make more receipts true. *)
LEMMA TruthGrows ==
  ASSUME NEW r, NEW had, NEW more, had \subseteq more, Truthful(r, had)
  PROVE  Truthful(r, more)
  BY DEF Truthful

LEMMA InvInit == Init => Inv
  BY StopFacts DEF Init, Inv, TypeOK, ReceiptsAreTrue, StopsWereHad, HandlerHasReceipt,
     PendingIsTarget, ExecutedIsTrue, BeliefIsBacked, Status, Live, Empty, Unmanaged, NoReceipt,
     None

LEMMA InvTick ==
  ASSUME Inv, ManageTick \/ \E s \in Stop : Tighten(s)
  PROVE  Inv'
<1> USE StopFacts
<1>1. CASE ManageTick
  <2>1. managed' = Merged /\ UNCHANGED <<row, queued, cooling, copy, report, srvPc, srvStop, posts, eaVars, asked>>
    BY <1>1 DEF ManageTick
  <2>2. managed'.on /\ TypeOK'
    BY <2>1, MergedIsBacked DEF Inv, TypeOK, copy, eaVars
  <2>3. ReceiptsAreTrue' /\ StopsWereHad' /\ HandlerHasReceipt' /\ ExecutedIsTrue'
    BY <2>1 DEF Inv, ReceiptsAreTrue, StopsWereHad, HandlerHasReceipt, ExecutedIsTrue, copy, eaVars
  <2>4. PendingIsTarget' /\ BeliefIsBacked'
    BY <2>1, MergedIsBacked DEF PendingIsTarget, BeliefIsBacked, eaVars
  <2> QED
    BY <2>2, <2>3, <2>4 DEF Inv
<1>2. ASSUME NEW s \in Stop, Tighten(s) PROVE Inv'
  <2>1. managed' = [on |-> TRUE, stop |-> s, pending |-> s] /\ QueueUpdate(s)
        /\ UNCHANGED <<cooling, copy, report, srvPc, srvStop, posts, eaVars>>
    BY <1>2 DEF Tighten
  <2>2. /\ row' \in [Stop -> Status]
        /\ \A o \in Stop : row'[o] = "executed" => row[o] = "executed"
        /\ queued' \in [stop : Stop, status : Status \ {"absent"}]
    BY <2>1 DEF QueueUpdate, Inv, TypeOK, Status, Live
  <2>3. asked' \in Stop
    BY <1>2 DEF Tighten, MaxStop, Inv, TypeOK
  <2>4. TypeOK'
    BY <2>1, <2>2, <2>3 DEF Inv, TypeOK, copy, eaVars
  <2>5. ReceiptsAreTrue' /\ StopsWereHad' /\ HandlerHasReceipt'
    BY <2>1 DEF Inv, ReceiptsAreTrue, StopsWereHad, HandlerHasReceipt, copy, eaVars
  <2>6. ExecutedIsTrue' /\ PendingIsTarget' /\ BeliefIsBacked'
    BY <2>1, <2>2 DEF Inv, ExecutedIsTrue, PendingIsTarget, BeliefIsBacked, eaVars
  <2> QED
    BY <2>4, <2>5, <2>6 DEF Inv
<1> QED
  BY <1>1, <1>2

(* Delivery: rows only become delivered or canceled. *)
LEMMA DeliverTypes ==
  ASSUME Inv, Deliver
  PROVE  /\ row' \in [Stop -> Status]
         /\ \A s \in Stop : row'[s] = "executed" => row[s] = "executed"
         /\ queued' \in [stop : Stop, status : Status \ {"absent"}] \cup {Empty}
         /\ cooling' \subseteq Stop
         /\ managed' \in {managed, Unmanaged}
         /\ DueUpdates \subseteq Stop
<1> USE StopFacts
<1>1. queued.status \in Live => queued \in [stop : Stop, status : Status \ {"absent"}]
  BY DEF Inv, TypeOK, Empty, Live
<1>2. DueUpdates \subseteq Stop /\ (DueUpdates # {} => queued.status \in Live)
  BY <1>1 DEF DueUpdates
<1>3. CASE queued.status \in Live /\ ~listed
  BY <1>1, <1>2, <1>3 DEF Deliver, Inv, TypeOK, Status, Live
<1>4. CASE ~(queued.status \in Live /\ ~listed)
  BY <1>1, <1>2, <1>4 DEF Deliver, Inv, TypeOK, Status, Live
<1> QED
  BY <1>3, <1>4

LEMMA InvPoll ==
  ASSUME Inv, GetUpdates \/ GetUpdatesLost \/ PositionsReported \/ \E s \in Stop : RetryDelayElapses(s)
  PROVE  Inv'
<1> USE StopFacts
<1>1. CASE GetUpdates \/ GetUpdatesLost
  <2>1. Deliver /\ UNCHANGED <<copy, report, srvPc, srvStop, posts, sent, broker, open, reached, asked>>
    BY <1>1 DEF GetUpdates, GetUpdatesLost, eaVars
  <2>2. inbox' \in {inbox, DueUpdates}
    BY <1>1 DEF GetUpdates, GetUpdatesLost, eaVars
  <2>3. TypeOK'
    BY <2>1, <2>2, DeliverTypes DEF Inv, TypeOK, copy
  <2>4. ReceiptsAreTrue' /\ StopsWereHad' /\ HandlerHasReceipt' /\ ExecutedIsTrue'
    BY <2>1, DeliverTypes DEF Inv, ReceiptsAreTrue, StopsWereHad, HandlerHasReceipt,
       ExecutedIsTrue, copy
  <2>5. PendingIsTarget' /\ BeliefIsBacked'
    BY <2>1, DeliverTypes DEF Inv, PendingIsTarget, BeliefIsBacked, Unmanaged
  <2> QED
    BY <2>3, <2>4, <2>5 DEF Inv
<1>2. CASE PositionsReported
  BY <1>2 DEF PositionsReported, Inv, TypeOK, ReceiptsAreTrue, StopsWereHad, HandlerHasReceipt,
     PendingIsTarget, ExecutedIsTrue, BeliefIsBacked, eaVars
<1>3. ASSUME NEW s \in Stop, RetryDelayElapses(s) PROVE Inv'
  BY <1>3, ZenonT(30) DEF RetryDelayElapses, Inv, TypeOK, ReceiptsAreTrue, StopsWereHad, HandlerHasReceipt,
     PendingIsTarget, ExecutedIsTrue, BeliefIsBacked, eaVars, copy
<1> QED
  BY <1>1, <1>2, <1>3

LEMMA InvReceipt ==
  ASSUME Inv,
         \/ \E p \in posts : RecordReceipt(p) \/ LosePost(p)
         \/ WriteUpdateRow \/ ApplyUpdateReceipt
         \/ \E heard \in BOOLEAN : Answer(heard)
  PROVE  Inv'
<1> USE StopFacts
<1>1. ASSUME NEW p \in posts, RecordReceipt(p) PROVE Inv'
  <2>1. p \in Receipt /\ Truthful(p, reached) /\ p # NoReceipt
    BY DEF Inv, TypeOK, ReceiptsAreTrue, Receipt, NoReceipt, Verdict
  <2>2. p.stop \in Stop
    BY <2>1 DEF Receipt
  <2>3. /\ posts' = posts \ {p} /\ srvPc' = "row" /\ srvStop' = p.stop
        /\ report' = [report EXCEPT ![p.stop] =
                        IF @ = NoReceipt \/ (@.verdict # "done" /\ p.verdict = "done")
                        THEN p ELSE @]
        /\ UNCHANGED <<row, queued, cooling, managed, copy, eaVars, asked>>
    BY <1>1 DEF RecordReceipt
  <2>4. TypeOK'
    BY <2>1, <2>2, <2>3 DEF Inv, TypeOK, copy, eaVars
  <2>5. ReceiptsAreTrue' /\ HandlerHasReceipt'
    BY <2>1, <2>2, <2>3 DEF Inv, TypeOK, ReceiptsAreTrue, HandlerHasReceipt, eaVars
  <2>6. StopsWereHad' /\ PendingIsTarget' /\ ExecutedIsTrue' /\ BeliefIsBacked'
    BY <2>3 DEF Inv, StopsWereHad, PendingIsTarget, ExecutedIsTrue, BeliefIsBacked, copy, eaVars
  <2> QED
    BY <2>4, <2>5, <2>6 DEF Inv
<1>2. ASSUME NEW p \in posts, LosePost(p) PROVE Inv'
  BY <1>2, ZenonT(30) DEF LosePost, Inv, TypeOK, ReceiptsAreTrue, StopsWereHad, HandlerHasReceipt,
     PendingIsTarget, ExecutedIsTrue, BeliefIsBacked, serverVars, eaVars, copy
<1>3. CASE WriteUpdateRow
  <2> DEFINE status == StatusOf(report[srvStop])
  <2>1. srvStop \in Stop /\ report[srvStop] \in Receipt
        /\ Truthful(report[srvStop], reached) /\ report[srvStop].stop = srvStop
    BY <1>3 DEF WriteUpdateRow, Inv, TypeOK, HandlerHasReceipt, ReceiptsAreTrue
  <2>2. status \in Status /\ (status = "executed" => srvStop \in reached)
    BY <2>1 DEF StatusOf, Status, Live, Truthful
  <2>3. /\ row' = [row EXCEPT ![srvStop] = status]
        /\ cooling' \subseteq cooling
        /\ srvPc' \in {"answer", "memory"}
        /\ UNCHANGED <<queued, managed, copy, report, srvStop, posts, eaVars, asked>>
    BY <1>3 DEF WriteUpdateRow
  <2> HIDE DEF status
  <2>4. TypeOK' /\ HandlerHasReceipt'
    <3>1. row' \in [Stop -> Status] /\ cooling' \subseteq Stop
      BY <2>1, <2>2, <2>3 DEF Inv, TypeOK
    <3>2. TypeOK'
      BY <2>3, <3>1 DEF Inv, TypeOK, copy, eaVars
    <3>3. HandlerHasReceipt'
      BY <1>3, <2>1, <2>3 DEF HandlerHasReceipt, Receipt, NoReceipt
    <3> QED
      BY <3>2, <3>3
  <2>5. ExecutedIsTrue'
    BY <2>1, <2>2, <2>3 DEF Inv, TypeOK, ExecutedIsTrue, eaVars
  <2>6. ReceiptsAreTrue' /\ StopsWereHad' /\ PendingIsTarget' /\ BeliefIsBacked'
    BY <2>3 DEF Inv, ReceiptsAreTrue, StopsWereHad, PendingIsTarget, BeliefIsBacked, copy, eaVars
  <2> QED
    BY <2>4, <2>5, <2>6 DEF Inv
<1>4. CASE ApplyUpdateReceipt
  <2>1. srvStop \in Stop /\ report[srvStop] \in Receipt /\ Truthful(report[srvStop], reached)
    BY <1>4 DEF ApplyUpdateReceipt, Inv, TypeOK, HandlerHasReceipt, ReceiptsAreTrue
  <2>2. report[srvStop].actual \in Stop /\ report[srvStop].actual \in reached
    BY <2>1 DEF Receipt, Truthful
  <2>3. managed' = managed \/ (managed.on /\ managed' =
          [on |-> TRUE, stop |-> report[srvStop].actual, pending |-> None])
    BY <1>4 DEF ApplyUpdateReceipt, Settled
  <2>4. queued' \in [stop : Stop, status : Status \ {"absent"}] \cup {Empty}
    BY <1>4, <2>1 DEF ApplyUpdateReceipt, Inv, TypeOK, Status, Live
  <2>5. /\ srvPc' = "answer"
        /\ UNCHANGED <<row, cooling, copy, report, srvStop, posts, eaVars, asked>>
    BY <1>4 DEF ApplyUpdateReceipt
  <2>6. managed' \in [on : {TRUE}, stop : Stop, pending : Stop \cup {None}] \cup {Unmanaged}
    <3>1. CASE managed' = managed
      BY <3>1 DEF Inv, TypeOK
    <3>2. CASE managed' = [on |-> TRUE, stop |-> report[srvStop].actual, pending |-> None]
      BY <2>2, <3>2
    <3> QED
      BY <2>3, <3>1, <3>2
  <2>7. TypeOK'
    BY <2>4, <2>5, <2>6 DEF Inv, TypeOK, copy, eaVars
  <2>8. PendingIsTarget' /\ BeliefIsBacked'
    BY <2>2, <2>3, <2>5 DEF Inv, PendingIsTarget, BeliefIsBacked, eaVars
  <2>9. ReceiptsAreTrue' /\ StopsWereHad' /\ HandlerHasReceipt' /\ ExecutedIsTrue'
    BY <1>4, <2>5 DEF Inv, ReceiptsAreTrue, StopsWereHad, HandlerHasReceipt, ExecutedIsTrue,
       copy, eaVars, ApplyUpdateReceipt
  <2> QED
    BY <2>7, <2>8, <2>9 DEF Inv
<1>5. ASSUME NEW heard \in BOOLEAN, Answer(heard) PROVE Inv'
  BY <1>5 DEF Answer, Inv, TypeOK, ReceiptsAreTrue, StopsWereHad, HandlerHasReceipt,
     PendingIsTarget, ExecutedIsTrue, BeliefIsBacked, copy
<1> QED
  BY <1>1, <1>2, <1>3, <1>4, <1>5

LEMMA InvRestart ==
  ASSUME Inv, NEW s \in Stop \cup {None}, ServerRestart(s)
  PROVE  Inv'
<1> USE StopFacts
<1>1. queued' \in [stop : Stop, status : Status \ {"absent"}] \cup {Empty}
  BY DEF ServerRestart, Inv, TypeOK, Status, Live
<1>2. TypeOK'
  BY <1>1 DEF ServerRestart, Inv, TypeOK, copy, eaVars
<1>3. ReceiptsAreTrue' /\ StopsWereHad' /\ HandlerHasReceipt' /\ ExecutedIsTrue'
  BY DEF ServerRestart, Inv, ReceiptsAreTrue, StopsWereHad, HandlerHasReceipt, ExecutedIsTrue,
     copy, eaVars
<1>4. PendingIsTarget' /\ BeliefIsBacked'
  BY DEF ServerRestart, PendingIsTarget, BeliefIsBacked, Unmanaged
<1> QED
  BY <1>2, <1>3, <1>4 DEF Inv

LEMMA InvModify ==
  ASSUME Inv, NEW s \in inbox,
         \/ ModifyDone(s)
         \/ \E verdict \in {"transient", "refused"} : ModifyRefused(s, verdict)
         \/ SkipClosed(s)
  PROVE  Inv'
<1> USE StopFacts
<1>1. s \in Stop
  BY DEF Inv, TypeOK
<1>2. CASE SkipClosed(s)
  BY <1>2 DEF SkipClosed, Inv, TypeOK, ReceiptsAreTrue, StopsWereHad, HandlerHasReceipt,
     PendingIsTarget, ExecutedIsTrue, BeliefIsBacked, serverVars, copy
<1>3. ASSUME NEW verdict \in Verdict, NEW actual \in Stop, Modify(s, verdict, actual),
             reached \subseteq reached', reached' \subseteq Stop, actual \in reached',
             verdict = "done" => s \in reached',
             broker' \in reached', open' \in BOOLEAN
      PROVE  Inv'
  <2> DEFINE r == [stop |-> s, verdict |-> verdict, actual |-> actual]
  <2>1. r \in Receipt /\ Truthful(r, reached')
    BY <1>1, <1>3 DEF Receipt, Truthful
  <2>2. /\ sent' = r /\ posts' = posts \cup {r} /\ inbox' = inbox \ {s}
        /\ UNCHANGED serverVars
    BY <1>3 DEF Modify
  <2> HIDE DEF r
  <2>3. TypeOK'
    BY <1>3, <2>1, <2>2 DEF Inv, TypeOK, serverVars, copy
  <2>4. ReceiptsAreTrue'
    <3>1. \A o \in Stop : report'[o] # NoReceipt =>
            Truthful(report'[o], reached') /\ report'[o].stop = o
      BY <1>3, <2>2, TruthGrows DEF Inv, ReceiptsAreTrue, serverVars
    <3>2. \A p \in posts' : Truthful(p, reached')
      BY <1>3, <2>1, <2>2, TruthGrows DEF Inv, ReceiptsAreTrue
    <3> QED
      BY <3>1, <3>2, <2>1, <2>2 DEF ReceiptsAreTrue
  <2>5. StopsWereHad' /\ HandlerHasReceipt' /\ PendingIsTarget' /\ ExecutedIsTrue' /\ BeliefIsBacked'
    BY <1>3, <2>2 DEF Inv, StopsWereHad, HandlerHasReceipt, PendingIsTarget, ExecutedIsTrue,
       BeliefIsBacked, serverVars, copy
  <2> QED
    BY <2>3, <2>4, <2>5 DEF Inv
<1>4. CASE ModifyDone(s)
  BY <1>1, <1>3, <1>4 DEF ModifyDone, Inv, TypeOK, Verdict
<1>5. ASSUME NEW verdict \in {"transient", "refused"}, ModifyRefused(s, verdict) PROVE Inv'
  BY <1>3, <1>5 DEF ModifyRefused, Inv, TypeOK, StopsWereHad, Verdict
<1> QED
  BY <1>2, <1>4, <1>5

LEMMA InvPost ==
  ASSUME Inv, PositionCloses \/ PostAgain \/ GiveUpPosting \/ UNCHANGED vars
  PROVE  Inv'
<1>1. CASE PositionCloses
  BY <1>1 DEF PositionCloses, Inv, TypeOK, ReceiptsAreTrue, StopsWereHad, HandlerHasReceipt,
     PendingIsTarget, ExecutedIsTrue, BeliefIsBacked, serverVars, copy
<1>2. CASE PostAgain
  BY <1>2 DEF PostAgain, Inv, TypeOK, ReceiptsAreTrue, StopsWereHad, HandlerHasReceipt,
     PendingIsTarget, ExecutedIsTrue, BeliefIsBacked, serverVars, eaVars, copy
<1>3. CASE GiveUpPosting
  BY <1>3 DEF GiveUpPosting, Inv, TypeOK, ReceiptsAreTrue, StopsWereHad, HandlerHasReceipt,
     PendingIsTarget, ExecutedIsTrue, BeliefIsBacked, serverVars, copy
<1>4. CASE UNCHANGED vars
  BY <1>4, ZenonT(30) DEF Inv, TypeOK, ReceiptsAreTrue, StopsWereHad, HandlerHasReceipt,
     PendingIsTarget, ExecutedIsTrue, BeliefIsBacked, vars, serverVars, eaVars, copy
<1> QED
  BY <1>1, <1>2, <1>3, <1>4

LEMMA InvHolds == Spec => []Inv
<1>1. Inv /\ [Next]_vars => Inv'
  BY InvTick, InvPoll, InvReceipt, InvRestart, InvModify, InvPost DEF Next
<1> QED
  BY <1>1, InvInit, PTL DEF Spec

(* The variables keep their types. *)
THEOREM TypeCorrect == Spec => []TypeOK
<1>1. Inv => TypeOK
  BY DEF Inv
<1> QED
  BY <1>1, InvHolds, PTL

(* A command whose row says executed is one the broker has really carried  *)
(* out, whatever was lost, repeated or overtaken.                          *)
THEOREM ExecutedWasHad == Spec => []ExecutedIsTrue
<1>1. Inv => ExecutedIsTrue
  BY DEF Inv
<1> QED
  BY <1>1, InvHolds, PTL

(* With nothing pending the engine reasons from a stop the broker has had. *)
THEOREM EngineBelievesTheBroker == Spec => []BeliefIsBacked
<1>1. Inv => BeliefIsBacked
  BY DEF Inv
<1> QED
  BY <1>1, InvHolds, PTL

----------------------------------------------------------------------------
(* Which command is the live one.                                          *)

Unanswered(s) == row[s] \in Live /\ report[s] = NoReceipt

(* A live command in memory that has no receipt yet is the only row that   *)
(* is live without one.  A poll writes "delivered" into the row of the     *)
(* command in memory without a look at that row, so without this a poll    *)
(* could revive a superseded row beside the one that superseded it.        *)
QueueLeads ==
  queued.status \in Live /\ report[queued.stop] = NoReceipt =>
    \A s \in Stop : Unanswered(s) => s = queued.stop

OneUnanswered == \A s, o \in Stop : Unanswered(s) /\ Unanswered(o) => s = o

RowsInv == OneUnanswered /\ QueueLeads

(* Receipts are only ever added or replaced. *)
LEMMA ReceiptsStay ==
  ASSUME Inv, [Next]_vars, NEW s \in Stop, report[s] # NoReceipt
  PROVE  report'[s] # NoReceipt
<1>1. CASE \E p \in posts : RecordReceipt(p)
  <2>1. PICK p \in posts : RecordReceipt(p)
    BY <1>1
  <2>2. p \in Receipt /\ p # NoReceipt /\ p.stop \in Stop
    BY StopFacts DEF Inv, TypeOK, Receipt, NoReceipt, Verdict
  <2> QED
    BY <2>1, <2>2 DEF RecordReceipt, Inv, TypeOK
<1>2. CASE ~\E p \in posts : RecordReceipt(p)
  <2>1. UNCHANGED report
    BY <1>2 DEF Next, vars, serverVars, eaVars, ManageTick, Tighten, GetUpdates, GetUpdatesLost,
       RetryDelayElapses, PositionsReported, WriteUpdateRow, ApplyUpdateReceipt, Answer, LosePost,
       ServerRestart, ModifyDone, ModifyRefused, Modify, SkipClosed, PositionCloses, PostAgain,
       GiveUpPosting
  <2> QED
    BY <2>1
<1> QED
  BY <1>1, <1>2

(* A step that revives no row without a receipt, and puts no other live    *)
(* command without a receipt into memory, keeps the two facts.             *)
LEMMA RowsKept ==
  ASSUME Inv, RowsInv, [Next]_vars,
         \A s \in Stop : row'[s] \in Live /\ report'[s] = NoReceipt => row[s] \in Live,
         \/ queued'.status \notin Live
         \/ queued'.stop = queued.stop /\ queued.status \in Live
         \/ report'[queued'.stop] # NoReceipt
  PROVE  RowsInv'
<1>1. \A s \in Stop : Unanswered(s)' => Unanswered(s)
  BY ReceiptsStay DEF Unanswered
<1>2. queued.status \in Live => queued.stop \in Stop
  BY DEF Inv, TypeOK, Empty, Live
<1>3. OneUnanswered'
  BY <1>1 DEF RowsInv, OneUnanswered
<1>4. QueueLeads'
  <2> SUFFICES ASSUME queued'.status \in Live, report'[queued'.stop] = NoReceipt,
                      NEW s \in Stop, Unanswered(s)'
               PROVE  s = queued'.stop
    BY DEF QueueLeads
  <2>1. queued'.stop = queued.stop /\ queued.status \in Live
    OBVIOUS
  <2>2. report[queued.stop] = NoReceipt
    BY <2>1, <1>2, ReceiptsStay
  <2> QED
    BY <1>1, <2>1, <2>2 DEF RowsInv, QueueLeads
<1> QED
  BY <1>3, <1>4 DEF RowsInv

LEMMA RowsInit == Init => RowsInv
  BY DEF Init, RowsInv, OneUnanswered, QueueLeads, Unanswered, Live, Empty

LEMMA RowsTighten ==
  ASSUME Inv, RowsInv, NEW s \in Stop, Tighten(s)
  PROVE  RowsInv'
<1> DEFINE status == IF row[s] = "absent" THEN "pending" ELSE row[s]
<1>1. \A o \in Stop : row'[o] \in Live => o = s
  BY DEF Tighten, QueueUpdate, Live
<1>2. queued' = [stop |-> s, status |-> status]
  BY DEF Tighten, QueueUpdate
<1> QED
  BY <1>1, <1>2 DEF RowsInv, OneUnanswered, QueueLeads, Unanswered

LEMMA RowsDeliver ==
  ASSUME Inv, RowsInv, [Next]_vars, Deliver, UNCHANGED report
  PROVE  RowsInv'
<1>1. queued.status \in Live => queued.stop \in Stop
  BY DEF Inv, TypeOK, Empty, Live
<1>2. CASE queued.status \in Live /\ ~listed
  <2>1. row' = [row EXCEPT ![queued.stop] = "canceled"] /\ queued' = Empty
    BY <1>2 DEF Deliver
  <2>2. \A s \in Stop : row'[s] \in Live => row[s] \in Live
    BY <2>1 DEF Inv, TypeOK, Live
  <2> QED
    BY <2>1, <2>2, RowsKept DEF Empty, Live
<1>3. CASE DueUpdates = {} /\ ~(queued.status \in Live /\ ~listed)
  <2>1. row' = [s \in Stop |-> row[s]] /\ queued' = queued
    BY <1>3 DEF Deliver
  <2> QED
    BY <2>1, RowsKept
<1>4. CASE DueUpdates # {}
  <2>1. DueUpdates = {queued.stop} /\ queued.status \in Live /\ listed
    BY <1>4 DEF DueUpdates
  <2>2. /\ row' = [s \in Stop |-> IF s = queued.stop THEN "delivered" ELSE row[s]]
        /\ queued' = [queued EXCEPT !.status = "delivered"]
    BY <2>1 DEF Deliver
  <2>3. queued'.stop = queued.stop
    BY <2>1, <2>2 DEF Inv, TypeOK, Empty, Live
  <2>4. CASE report[queued.stop] = NoReceipt
    <3>1. \A s \in Stop : Unanswered(s)' => s = queued.stop
      BY <2>1, <2>2, <2>4 DEF RowsInv, QueueLeads, Unanswered
    <3> QED
      BY <3>1, <2>3 DEF RowsInv, OneUnanswered, QueueLeads
  <2>5. CASE report[queued.stop] # NoReceipt
    BY <2>1, <2>2, <2>3, <2>5, RowsKept
  <2> QED
    BY <2>4, <2>5
<1> QED
  BY <1>2, <1>3, <1>4 DEF DueUpdates

LEMMA RowsRestart ==
  ASSUME Inv, RowsInv, NEW s \in Stop \cup {None}, ServerRestart(s)
  PROVE  RowsInv'
<1>1. UNCHANGED <<row, report>>
  BY DEF ServerRestart
<1>2. OneUnanswered'
  BY <1>1 DEF RowsInv, OneUnanswered, Unanswered
<1>3. CASE s = None
  BY <1>2, <1>3 DEF ServerRestart, RowsInv, QueueLeads, Empty, Live
<1>4. CASE s \in Stop /\ row[s] \in Live
  BY <1>1, <1>2, <1>4 DEF ServerRestart, RowsInv, OneUnanswered, QueueLeads, Unanswered, None, Stop
<1> QED
  BY <1>3, <1>4 DEF ServerRestart

LEMMA RowsStep ==
  ASSUME Inv, RowsInv, [Next]_vars
  PROVE  RowsInv'
<1>1. ASSUME NEW s \in Stop, Tighten(s) PROVE RowsInv'
  BY <1>1, RowsTighten
<1>2. CASE GetUpdates \/ GetUpdatesLost
  BY <1>2, RowsDeliver DEF GetUpdates, GetUpdatesLost
<1>3. CASE WriteUpdateRow
  <2>1. srvStop \in Stop /\ report[srvStop] # NoReceipt
    BY <1>3 DEF WriteUpdateRow, Inv, HandlerHasReceipt
  <2>2. /\ row' = [row EXCEPT ![srvStop] = StatusOf(report[srvStop])]
        /\ UNCHANGED <<queued, report>>
    BY <1>3 DEF WriteUpdateRow
  <2> QED
    BY <2>1, <2>2, RowsKept DEF Inv, TypeOK
<1>4. CASE ApplyUpdateReceipt
  <2>1. srvStop \in Stop /\ report[srvStop] # NoReceipt /\ UNCHANGED <<row, report>>
    BY <1>4 DEF ApplyUpdateReceipt, Inv, HandlerHasReceipt
  <2>2. queued' \in {[stop |-> srvStop, status |-> "pending"], Empty, queued}
    BY <1>4 DEF ApplyUpdateReceipt
  <2> QED
    BY <2>1, <2>2, RowsKept DEF Empty, Live
<1>5. ASSUME NEW s \in Stop \cup {None}, ServerRestart(s) PROVE RowsInv'
  BY <1>5, RowsRestart
<1>6. CASE UNCHANGED <<row, queued>>
  BY <1>6, RowsKept
<1>7. \/ \E s \in Stop : Tighten(s)
      \/ GetUpdates \/ GetUpdatesLost \/ WriteUpdateRow \/ ApplyUpdateReceipt
      \/ \E s \in Stop \cup {None} : ServerRestart(s)
      \/ UNCHANGED <<row, queued>>
  BY DEF Next, vars, serverVars, eaVars, ManageTick, RetryDelayElapses, PositionsReported,
     RecordReceipt, Answer, LosePost, ModifyDone, ModifyRefused, Modify, SkipClosed,
     PositionCloses, PostAgain, GiveUpPosting
<1> QED
  BY <1>1, <1>2, <1>3, <1>4, <1>5, <1>6, <1>7

(* Of the commands of the position that nobody has answered at most one is *)
(* live in the durable rows: whatever row a restart reloads, and whatever  *)
(* a poll marks as delivered, an older stop never comes back beside the    *)
(* one that superseded it.                                                 *)
THEOREM OneRowIsLive == Spec => []OneLiveRow
<1>1. Inv /\ RowsInv /\ [Next]_vars => RowsInv'
  BY RowsStep
<1>2. RowsInv => OneLiveRow
  BY DEF RowsInv, OneUnanswered, Unanswered, OneLiveRow
<1> QED
  BY <1>1, <1>2, RowsInit, InvHolds, PTL DEF Spec
=============================================================================
