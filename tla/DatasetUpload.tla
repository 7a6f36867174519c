--------------------------- MODULE DatasetUpload ---------------------------
(***************************************************************************)
(* Price history for backtests (backtest_data.py): a data set is uploaded   *)
(* by the EA of its account in chunks, each written to a file of its own    *)
(* and recorded in a row, and put together when the last one is recorded.   *)
(*                                                                          *)
(* Uploads and the user's requests are async routes: the event loop runs    *)
(* one of them to its end.  The poll for the next chunk runs in a thread    *)
(* beside them, and the process may stop between any two steps.             *)
(***************************************************************************)
EXTENDS Integers, FiniteSets, Sequences

CONSTANTS
    Chunks,       \* chunks of a data set
    Got,          \* what CopyRates may bring of a chunk: "bars", "fewer"
    MaxSets,      \* bound: data sets ever created
    MaxLost,      \* bound: answers that do not reach the EA in time
    MaxCrashes,   \* bound: crashes of the server
    RetryLimit    \* g_historyNotFoundRetryLimit

VARIABLES
    sets,      \* rows of backtest_datasets in order of creation, and their files
    ea,        \* the EA: what it does, the chunk in hand, and how often it found none
    posts,     \* uploads that have reached the server and wait for the event loop
    handler,   \* the upload the event loop is working on
    lost, crashes
vars == <<sets, ea, posts, handler, lost, crashes>>

Ids == DOMAIN sets
Last == Chunks - 1
None == "none"
Active == {"pending", "downloading", "validating"}
Ended == {"ready", "failed", "canceled"}
NoChunks == [c \in 0..Last |-> None]
Idle == [at |-> "idle", set |-> 0, chunk |-> 0, content |-> None, try |-> 0]

(* next is next_chunk_index, atEnd a cursor_time past the requested end; rows
   are the checksums recorded, chunks the files, whole what the final file was
   made of, and file the data set in whose directory file_path lies. *)
NewSet == [st |-> "pending", next |-> 0, atEnd |-> FALSE, rows |-> NoChunks,
           chunks |-> NoChunks, whole |-> NoChunks, file |-> 0, copy |-> FALSE]
Gone(d) == sets[d].st = "deleted"

Init ==
    /\ sets = <<>>
    /\ ea = [at |-> "idle", set |-> 0, chunk |-> 0, content |-> None, misses |-> 0, missed |-> <<0, 0>>]
    /\ posts = {}
    /\ handler = Idle
    /\ lost = 0 /\ crashes = 0

----------------------------------------------------------------------------
(* The EA.  claim_next: one that is downloading before one that is pending, *)
(* the oldest first.                                                        *)
Claimable == {d \in Ids : sets[d].st \in {"pending", "downloading"}}
Preferred == {d \in Claimable : sets[d].st = "downloading"}
OldestOf(S) == CHOOSE d \in S : \A e \in S : d <= e
NextClaim == OldestOf(IF Preferred # {} THEN Preferred ELSE Claimable)

Idled == [ea EXCEPT !.at = "idle"]
(* An upload is told from a later one of the same chunk. *)
Upload(content) == [set |-> ea.set, chunk |-> ea.chunk, content |-> content, try |-> lost]

(* The answer may be lost.  A range that is empty is only reported. *)
Poll ==
    /\ ea.at = "idle" /\ Claimable # {}
    /\ LET d == NextClaim
       IN  /\ sets' = [sets EXCEPT ![d].st = "downloading"]
           /\ \/ /\ ea' = IF sets[d].atEnd THEN Idled
                          ELSE [ea EXCEPT !.at = "reading", !.set = d, !.chunk = sets[d].next]
                 /\ UNCHANGED lost
              \/ /\ lost < MaxLost /\ lost' = lost + 1
                 /\ UNCHANGED ea
    /\ UNCHANGED <<posts, handler, crashes>>

(* CopyRates has the bars, perhaps not all of them yet, or an error; the
   error "no history" is counted and at the limit an empty chunk is sent. *)
Read(content) ==
    /\ ea.at = "reading"
    /\ ea' = [ea EXCEPT !.at = "sending", !.content = content]
    /\ posts' = posts \union {Upload(content)}
    /\ UNCHANGED <<sets, handler, lost, crashes>>

ReadFails(notFound) ==
    /\ ea.at = "reading"
    /\ LET key == <<ea.set, ea.chunk>>
           before == IF ea.missed = key THEN ea.misses ELSE 0
           misses == IF notFound THEN before + 1 ELSE before
           next == [ea EXCEPT !.missed = key, !.misses = misses]
       IN  IF notFound /\ misses >= RetryLimit
           THEN /\ ea' = [next EXCEPT !.at = "sending", !.content = "empty"]
                /\ posts' = posts \union {Upload("empty")}
           ELSE /\ ea' = [next EXCEPT !.at = "idle"]
                /\ UNCHANGED posts
    /\ UNCHANGED <<sets, handler, lost, crashes>>

(* WebRequest gives up after 15 seconds, whether the upload is still waiting,
   is being worked on, or never reached the server. *)
GiveUp ==
    /\ ea.at = "sending" /\ lost < MaxLost
    /\ lost' = lost + 1
    /\ ea' = Idled
    /\ \/ UNCHANGED posts
       \/ posts' = posts \ {Upload(ea.content)}
    /\ UNCHANGED <<sets, handler, crashes>>

(* The answer to an upload; only the EA that still waits for it sees it. *)
Answered(m, ok) ==
    ea' = IF ea.at = "sending" /\ m.try = lost
          THEN IF ok THEN [ea EXCEPT !.at = "idle", !.misses = 0, !.missed = <<0, 0>>] ELSE Idled
          ELSE ea

----------------------------------------------------------------------------
(* accept_chunk.  The file is written before the row is looked at. *)
Free == handler.at = "idle"

Accept(m) ==
    /\ Free /\ m \in posts
    /\ posts' = posts \ {m}
    /\ IF Gone(m.set) \/ (sets[m.set].st = "ready" /\ m.chunk < sets[m.set].next)
       THEN /\ Answered(m, ~Gone(m.set))
            /\ UNCHANGED <<sets, handler>>
       ELSE /\ sets' = [sets EXCEPT ![m.set].chunks[m.chunk] = m.content]
            /\ handler' = [at |-> "written", set |-> m.set, chunk |-> m.chunk, content |-> m.content, try |-> m.try]
            /\ UNCHANGED ea
    /\ UNCHANGED <<lost, crashes>>

\* Mutant: the status of the data set is not looked at.
ReceivingAny == Active \union Ended
Receiving == {"downloading", "validating"}
(* record_chunk, one transaction: the row and the cursor, the status with it. *)
RecordChunk ==
    /\ handler.at = "written"
    /\ LET d == handler.set
           c == handler.chunk
           row == sets[d].rows[c]
           fits == sets[d].st \in Receiving /\ c = sets[d].next /\ ~sets[d].atEnd
       IN  IF row = None /\ fits
           THEN /\ sets' = [sets EXCEPT ![d].rows[c] = handler.content, ![d].next = c + 1,
                                        ![d].st = IF c = Last THEN "validating" ELSE "downloading"]
                /\ handler' = IF c = Last THEN [handler EXCEPT !.at = "recorded"] ELSE Idle
                /\ IF c = Last THEN UNCHANGED ea ELSE Answered(handler, TRUE)
           ELSE IF row = handler.content /\ sets[d].st = "validating"
           THEN /\ handler' = [handler EXCEPT !.at = "recorded"]
                /\ UNCHANGED <<sets, ea>>
           ELSE /\ Answered(handler, row = handler.content)
                /\ handler' = Idle
                /\ UNCHANGED sets
    /\ UNCHANGED <<posts, lost, crashes>>

(* _finalize: a missing file or no bars at all fail the data set. *)
Whole(d) == {c \in 0..Last : sets[d].rows[c] # None}
Usable(d) ==
    /\ \A c \in Whole(d) : sets[d].chunks[c] # None
    /\ \E c \in Whole(d) : sets[d].chunks[c] # "empty"

Finalize ==
    /\ handler.at = "recorded"
    /\ LET d == handler.set
       IN  IF Usable(d)
           THEN /\ sets' = [sets EXCEPT ![d].st = "ready", ![d].file = d, ![d].whole =
                                [c \in 0..Last |-> IF c \in Whole(d) THEN sets[d].chunks[c] ELSE None]]
                /\ handler' = [handler EXCEPT !.at = "cleanup"]
                /\ UNCHANGED ea
           ELSE /\ sets' = [sets EXCEPT ![d].st = "failed"]
                /\ handler' = Idle
                /\ Answered(handler, TRUE)
    /\ UNCHANGED <<posts, lost, crashes>>

Cleanup ==
    /\ handler.at = "cleanup"
    /\ sets' = [sets EXCEPT ![handler.set].rows = NoChunks, ![handler.set].chunks = NoChunks]
    /\ handler' = Idle
    /\ Answered(handler, TRUE)
    /\ UNCHANGED <<posts, lost, crashes>>

----------------------------------------------------------------------------
(* The user. *)
Create ==
    /\ Free /\ Len(sets) < MaxSets
    /\ sets' = Append(sets, NewSet)
    /\ UNCHANGED <<ea, posts, handler, lost, crashes>>

(* The copy takes over status, next chunk and file; its cursor is at the end. *)
Copy(d) ==
    /\ Free /\ ~Gone(d) /\ Len(sets) < MaxSets
    /\ sets' = Append(sets, [NewSet EXCEPT !.st = sets[d].st, !.next = sets[d].next, !.atEnd = TRUE,
                                           !.file = sets[d].file, !.copy = TRUE])
    /\ UNCHANGED <<ea, posts, handler, lost, crashes>>

Cancel(d) ==
    /\ Free /\ sets[d].st \notin {"ready", "deleted"}
    /\ sets' = [sets EXCEPT ![d].st = "canceled"]
    /\ UNCHANGED <<ea, posts, handler, lost, crashes>>

(* A data set no template and no run refers to; its directory goes with it. *)
Delete(d) ==
    /\ Free /\ ~Gone(d)
    /\ sets' = [e \in Ids |->
                  IF e = d THEN [NewSet EXCEPT !.st = "deleted"]
                  ELSE IF sets[e].file = d THEN [sets[e] EXCEPT !.whole = NoChunks] ELSE sets[e]]
    /\ UNCHANGED <<ea, posts, handler, lost, crashes>>

(* What the handler had in memory is gone, and so are the connections. *)
Crash ==
    /\ crashes < MaxCrashes
    /\ crashes' = crashes + 1
    /\ handler' = Idle /\ posts' = {}
    /\ ea' = IF ea.at = "sending" THEN Idled ELSE ea
    /\ UNCHANGED <<sets, lost>>

EAStep == Poll \/ \E b \in Got : Read(b)
Serve == (\E m \in posts : Accept(m)) \/ RecordChunk \/ Finalize \/ Cleanup
User == Create \/ \E d \in Ids : Copy(d) \/ Cancel(d) \/ Delete(d)

Next == EAStep \/ (\E n \in BOOLEAN : ReadFails(n)) \/ GiveUp \/ Serve \/ User \/ Crash

Spec == Init /\ [][Next]_vars
(* The EA polls every five seconds and in the long run has the bars it is asked
   for or finds that there are none; the event loop gets to every upload. *)
Fairness == WF_vars(Poll) /\ SF_vars(\E b \in Got : Read(b)) /\ WF_vars(Serve)
----------------------------------------------------------------------------
(* A data set that is ready has every chunk of its range in its final file, and
   the file is there.  A copy's file lies in the directory of its source, which
   may be deleted: nothing is promised of it. *)
ReadyIsWhole ==
    \A d \in Ids : sets[d].st = "ready" /\ ~sets[d].copy => \A c \in 0..Last : sets[d].whole[c] # None

(* What has ended stays ended: no late upload revives a data set that was
   canceled, or changes one that is ready. *)
EndedStays ==
    [][\A d \in Ids : sets[d].st \in Ended =>
          /\ sets'[d].st \in Ended \union {"deleted"}
          /\ sets[d].st = "ready" /\ sets'[d].st # "deleted" => sets'[d].file = sets[d].file]_vars

(* Every data set ends, unless the server stopped when its last chunk was
   recorded and not yet put together (no one takes it up again), or a copy of
   an unfinished data set stands in the EA's way. *)
Stuck == crashes > 0 \/ \E d \in Ids : sets[d].atEnd /\ sets[d].st \in Active
UploadEnds == \A d \in 1..MaxSets :
    (d \in Ids /\ sets[d].st \in Active) ~> (d \in Ids /\ sets[d].st \notin Active) \/ Stuck
=============================================================================
