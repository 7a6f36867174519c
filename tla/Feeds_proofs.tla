---------------------------- MODULE Feeds_proofs ----------------------------
(***************************************************************************)
(* Proofs about what the analysis is fed with.  The specification is the   *)
(* conjunction of the parts', so each part is proved by an invariant of    *)
(* its own:                                                                 *)
(*                                                                         *)
(*   - SourceInv: an account that was told it is the source, or is about   *)
(*     to be, is the source or was met in the middle of a replacement.     *)
(*   - BarsInv: the cursor of the source is that of the table, so that an  *)
(*     upload goes on where the table ends; the memory Fits the table,     *)
(*     whatever was restored, emptied or added first.                      *)
(*   - AnalysisInv: whoever was answered is kept with that answer, and who *)
(*     is planned is due by the last run the server remembers.             *)
(*   - QuotaInv counts every day's calls.  CatalogInv: an operation works  *)
(*     alone while a repair is claimed, and Follow says what it has made   *)
(*     good so far, statement by statement.                                *)
(***************************************************************************)
EXTENDS Feeds, FiniteSetTheorems, WellFoundedInduction, TLAPS

----------------------------------------------------------------------------
(* The source of a symbol.                                                  *)

Steps == {"idle", "claim", "judge", "take", "again", "promote", "demote", "forget",
          "decide", "keep"}
Roles == {"primary", "reuse", "blocked", NoAccount}
Resolution == [at : Steps, via : Caches \cup {NoAccount}, row : Accounts \cup {NoAccount},
               old : Accounts \cup {NoAccount}, answer : Roles]

SourceTyped ==
  /\ supplier \in Accounts \cup {NoAccount}
  /\ policy \in [Accounts -> Roles]
  /\ quiet \subseteq Accounts /\ met \subseteq Accounts
  /\ cached \in [Caches -> [Accounts -> Roles]]
  /\ ask \in [Accounts -> Resolution]
  /\ \A a \in Accounts : /\ ask[a].at # "idle" => ask[a].via \in Caches
                         /\ ask[a].at \in Steps \ {"idle", "claim", "keep"} =>
                              /\ ask[a].row \in Accounts /\ ask[a].old \in Accounts
                              /\ supplier \in Accounts

(* a replaces another, from its look at the clock on.                       *)
Takes(a) == ask[a].at \in {"take", "again", "promote", "demote", "forget"}

(* a has been told that it is the source, or is about to be.                *)
Told(a) == \/ \E c \in Caches : cached[c][a] = "primary"
           \/ ask[a].at = "keep" /\ ask[a].answer = "primary"
           \/ ask[a].at \in {"judge", "promote", "demote", "forget", "decide"} /\ ask[a].row = a

(* A quiet account is told nothing, an account that is replaced is quiet or *)
(* has come back meanwhile, and an account that replaces another is the     *)
(* source from then on, if nobody has met it.                               *)
Silent == \A a \in quiet : ask[a].at = "idle" /\ \A c \in Caches : cached[c][a] = NoAccount
ReplacedAreGone == \A a \in Accounts : Takes(a) =>
    /\ ask[a].old # a
    /\ ask[a].old \in quiet \cup met
    /\ ask[a].at = "forget" => policy[ask[a].old] # "primary" \/ ask[a].old \in met
TakerIsSource == \A a \in Accounts :
    ask[a].at \in {"again", "promote", "demote", "forget"} => supplier = a \/ a \in met
ToldIsSource == \A a \in Accounts : Told(a) => supplier = a \/ a \in met
Follows == \A a \in Accounts :
    policy[a] = "primary" => supplier = a \/ a \in met \/ Source!Replacing(a)

SourceInv == SourceTyped /\ Silent /\ ReplacedAreGone /\ TakerIsSource /\ ToldIsSource /\ Follows

LEMMA SourceInit == Source!Init => SourceInv
  <1> SUFFICES ASSUME Source!Init PROVE SourceInv
    OBVIOUS
  <1>1. SourceTyped
    BY DEF Source!Init, Source!Idle, SourceTyped, Resolution, Roles, Steps
  <1>2. NoAccount # "primary"
    BY FeedsAssumption
  <1> QED
    BY <1>1, <1>2 DEF SourceInv, Silent, ReplacedAreGone, TakerIsSource, ToldIsSource, Follows,
       Source!Init, Source!Idle, Takes, Told


(* What a step makes of the resolution of a; the others stay as they are.   *)
LEMMA ResolutionMoves ==
  ASSUME SourceTyped, NEW a \in Accounts, NEW r \in Resolution,
         ask' = [ask EXCEPT ![a] = r]
  PROVE  /\ ask' \in [Accounts -> Resolution]
         /\ ask'[a] = r /\ \A b \in Accounts \ {a} : ask'[b] = ask[b]
  BY DEF SourceTyped

(* The shapes of the steps of a resolution.                                 *)
LEMMA ToMoves ==
  ASSUME SourceTyped, NEW a \in Accounts, NEW at \in Steps, Source!To(a, at)
  PROVE  /\ ask' \in [Accounts -> Resolution]
         /\ ask'[a].at = at 
         /\ ask'[a].via = ask[a].via 
         /\ ask'[a].row = ask[a].row 
         /\ ask'[a].old = ask[a].old 
         /\ ask'[a].answer = ask[a].answer
         /\ \A b \in Accounts \ {a} : ask'[b] = ask[b]
  <1> DEFINE r == [ask[a] EXCEPT !.at = at]
  <1>1. ask[a] \in Resolution
    BY DEF SourceTyped
  <1>3. r \in Resolution
    BY <1>1 DEF Resolution, Steps, Roles
  <1>4. ask' = [ask EXCEPT ![a] = r]
    BY DEF Source!To, SourceTyped
  <1>5. r.at = at /\ r.via = ask[a].via /\ r.row = ask[a].row /\ r.old = ask[a].old /\ r.answer = ask[a].answer
    BY <1>1 DEF Resolution
  <1> HIDE DEF r
  <1> QED
    BY <1>3, <1>4, <1>5, ResolutionMoves

LEMMA ClaimMoves ==
  ASSUME SourceTyped, NEW a \in Accounts, Source!Claim(a)
  PROVE  /\ ask' \in [Accounts -> Resolution]
         /\ ask'[a].at = "judge" 
         /\ ask'[a].via = ask[a].via 
         /\ ask'[a].row = supplier' 
         /\ ask'[a].old = supplier' 
         /\ ask'[a].answer = ask[a].answer
         /\ \A b \in Accounts \ {a} : ask'[b] = ask[b]
  <1> DEFINE r == [ask[a] EXCEPT !.at = "judge", !.row = supplier', !.old = supplier']
  <1>1. ask[a] \in Resolution
    BY DEF SourceTyped
  <1>2. supplier' \in Accounts
    BY DEF SourceTyped, Source!Claim
  <1>3. r \in Resolution
    BY <1>1, <1>2 DEF Resolution, Steps, Roles
  <1>4. ask' = [ask EXCEPT ![a] = r]
    BY DEF Source!Claim, SourceTyped
  <1>5. r.at = "judge" /\ r.via = ask[a].via /\ r.row = supplier' /\ r.old = supplier' /\ r.answer = ask[a].answer
    BY <1>1 DEF Resolution
  <1> HIDE DEF r
  <1> QED
    BY <1>3, <1>4, <1>5, ResolutionMoves

LEMMA AgainMoves ==
  ASSUME SourceTyped, NEW a \in Accounts, supplier \in Accounts, Source!Again(a)
  PROVE  /\ ask' \in [Accounts -> Resolution]
         /\ ask'[a].at = "promote" 
         /\ ask'[a].via = ask[a].via 
         /\ ask'[a].row = supplier 
         /\ ask'[a].old = ask[a].old 
         /\ ask'[a].answer = ask[a].answer
         /\ \A b \in Accounts \ {a} : ask'[b] = ask[b]
  <1> DEFINE r == [ask[a] EXCEPT !.at = "promote", !.row = supplier]
  <1>1. ask[a] \in Resolution
    BY DEF SourceTyped
  <1>3. r \in Resolution
    BY <1>1 DEF Resolution, Steps, Roles
  <1>4. ask' = [ask EXCEPT ![a] = r]
    BY DEF Source!Again, SourceTyped
  <1>5. r.at = "promote" /\ r.via = ask[a].via /\ r.row = supplier /\ r.old = ask[a].old /\ r.answer = ask[a].answer
    BY <1>1 DEF Resolution
  <1> HIDE DEF r
  <1> QED
    BY <1>3, <1>4, <1>5, ResolutionMoves

LEMMA DecideMoves ==
  ASSUME SourceTyped, NEW a \in Accounts, ask[a].row \in Accounts, Source!Decide(a)
  PROVE  /\ ask' \in [Accounts -> Resolution]
         /\ ask'[a].at = "keep" 
         /\ ask'[a].via = ask[a].via 
         /\ ask'[a].row = ask[a].row 
         /\ ask'[a].old = ask[a].old 
         /\ ask'[a].answer = policy'[a]
         /\ \A b \in Accounts \ {a} : ask'[b] = ask[b]
  <1> DEFINE r == [ask[a] EXCEPT !.at = "keep", !.answer = policy'[a]]
  <1>1. ask[a] \in Resolution
    BY DEF SourceTyped
  <1>2. policy'[a] \in Roles
    BY DEF SourceTyped, Source!Decide, Source!ModeOf, Roles
  <1>3. r \in Resolution
    BY <1>1, <1>2 DEF Resolution, Steps, Roles
  <1>4. ask' = [ask EXCEPT ![a] = r]
    BY DEF Source!Decide, SourceTyped
  <1>5. r.at = "keep" /\ r.via = ask[a].via /\ r.row = ask[a].row /\ r.old = ask[a].old /\ r.answer = policy'[a]
    BY <1>1 DEF Resolution
  <1> HIDE DEF r
  <1> QED
    BY <1>3, <1>4, <1>5, ResolutionMoves

(* Each step of a resolution keeps the invariant.                           *)
LEMMA SourceClaim ==
  ASSUME SourceInv, NEW a \in Accounts, Source!Claim(a)
  PROVE  SourceInv'
  <1>1. /\ ask[a].at = "claim" /\ ask'[a].at = "judge" /\ ask'[a].via = ask[a].via
        /\ ask'[a].row = supplier' /\ ask'[a].old = supplier' /\ ask' \in [Accounts -> Resolution]
        /\ \A b \in Accounts \ {a} : ask'[b] = ask[b]
    BY ClaimMoves DEF SourceInv, Source!Claim
  <1>2. /\ supplier' = IF supplier = NoAccount THEN a ELSE supplier
        /\ UNCHANGED <<policy, quiet, cached, met>>
    BY DEF Source!Claim
  <1>3. SourceTyped'
    BY <1>1, <1>2 DEF SourceInv, SourceTyped, Resolution, Roles
  <1>4. Silent'
    BY <1>1, <1>2 DEF SourceInv, SourceTyped, Silent
  <1>5. ReplacedAreGone'
    BY <1>1, <1>2 DEF SourceInv, SourceTyped, Silent, ReplacedAreGone, Takes
  <1>6. TakerIsSource'
    BY <1>1, <1>2, FeedsAssumption DEF SourceInv, SourceTyped, Silent, ReplacedAreGone, TakerIsSource, Takes
  <1>7. ToldIsSource'
    BY <1>1, <1>2, FeedsAssumption DEF SourceInv, SourceTyped, Silent, ReplacedAreGone, TakerIsSource, ToldIsSource, Takes, Told
  <1>8. Follows'
    BY <1>1, <1>2, FeedsAssumption DEF SourceInv, SourceTyped, Silent, ReplacedAreGone, TakerIsSource, ToldIsSource, Follows, Takes, Told, Source!Replacing
  <1> QED
    BY <1>3, <1>4, <1>5, <1>6, <1>7, <1>8 DEF SourceInv

LEMMA SourceJudge ==
  ASSUME SourceInv, NEW a \in Accounts, Source!Judge(a)
  PROVE  SourceInv'
  <1>1. /\ ask[a].at = "judge" /\ ask'[a].at = IF Source!Stale(a, ask[a].old) THEN "take" ELSE "decide"
        /\ ask'[a].via = ask[a].via
        /\ ask'[a].row = ask[a].row /\ ask'[a].old = ask[a].old /\ ask' \in [Accounts -> Resolution]
        /\ \A b \in Accounts \ {a} : ask'[b] = ask[b]
    <2>1. (IF Source!Stale(a, ask[a].old) THEN "take" ELSE "decide") \in Steps
      BY DEF Steps
    <2> QED
      BY <2>1, ToMoves DEF SourceInv, Source!Judge
  <1>2. /\ ask'[a].at = "take" => a # ask[a].old /\ ask[a].old \in quiet
        /\ UNCHANGED <<supplier, policy, quiet, cached, met>>
    BY <1>1 DEF Source!Judge, Source!Stale
  <1>3. SourceTyped'
    BY <1>1, <1>2 DEF SourceInv, SourceTyped, Resolution, Roles
  <1>4. Silent'
    BY <1>1, <1>2 DEF SourceInv, SourceTyped, Silent
  <1>5. ReplacedAreGone'
    BY <1>1, <1>2 DEF SourceInv, SourceTyped, Silent, ReplacedAreGone, Takes
  <1>6. TakerIsSource'
    BY <1>1, <1>2 DEF SourceInv, SourceTyped, Silent, ReplacedAreGone, TakerIsSource, Takes
  <1>7. ToldIsSource'
    BY <1>1, <1>2 DEF SourceInv, SourceTyped, Silent, ReplacedAreGone, TakerIsSource, ToldIsSource, Takes, Told
  <1>8. Follows'
    BY <1>1, <1>2 DEF SourceInv, SourceTyped, Silent, ReplacedAreGone, TakerIsSource, ToldIsSource, Follows, Takes, Told, Source!Replacing
  <1> QED
    BY <1>3, <1>4, <1>5, <1>6, <1>7, <1>8 DEF SourceInv

LEMMA SourceTake ==
  ASSUME SourceInv, NEW a \in Accounts, Source!Take(a)
  PROVE  SourceInv'
  <1>1. /\ ask[a].at = "take" /\ ask'[a].at = "again" /\ ask'[a].via = ask[a].via
        /\ ask'[a].row = ask[a].row /\ ask'[a].old = ask[a].old /\ ask' \in [Accounts -> Resolution]
        /\ \A b \in Accounts \ {a} : ask'[b] = ask[b]
    <2>1. "again" \in Steps
      BY DEF Steps
    <2> QED
      BY <2>1, ToMoves DEF SourceInv, Source!Take
  <1>2. /\ supplier' = a /\ met' = IF supplier = ask[a].old THEN met ELSE met \cup {a, supplier}
        /\ UNCHANGED <<policy, quiet, cached>>
    BY DEF Source!Take
  <1>3. SourceTyped'
    BY <1>1, <1>2 DEF SourceInv, SourceTyped, Resolution, Roles
  <1>4. Silent'
    BY <1>1, <1>2 DEF SourceInv, SourceTyped, Silent
  <1>5. ReplacedAreGone'
    BY <1>1, <1>2 DEF SourceInv, SourceTyped, Silent, ReplacedAreGone, Takes
  <1>6. TakerIsSource'
    BY <1>1, <1>2 DEF SourceInv, SourceTyped, Silent, ReplacedAreGone, TakerIsSource, Takes
  <1>7. ToldIsSource'
    BY <1>1, <1>2, FeedsAssumption DEF SourceInv, SourceTyped, Silent, ReplacedAreGone, TakerIsSource, ToldIsSource, Takes, Told
  <1>8. Follows'
    BY <1>1, <1>2 DEF SourceInv, SourceTyped, Silent, ReplacedAreGone, TakerIsSource, ToldIsSource, Follows, Takes, Told, Source!Replacing
  <1> QED
    BY <1>3, <1>4, <1>5, <1>6, <1>7, <1>8 DEF SourceInv

LEMMA SourceAgain ==
  ASSUME SourceInv, NEW a \in Accounts, Source!Again(a)
  PROVE  SourceInv'
  <1>1. /\ ask[a].at = "again" /\ ask'[a].at = "promote" /\ ask'[a].via = ask[a].via
        /\ ask'[a].row = supplier /\ ask'[a].old = ask[a].old /\ ask' \in [Accounts -> Resolution]
        /\ \A b \in Accounts \ {a} : ask'[b] = ask[b]
    <2>1. supplier \in Accounts
      BY DEF SourceInv, SourceTyped, Source!Again, Steps
    <2> QED
      BY <2>1, AgainMoves DEF SourceInv, Source!Again
  <1>2. UNCHANGED <<supplier, policy, quiet, cached, met>>
    BY DEF Source!Again
  <1>3. SourceTyped'
    BY <1>1, <1>2 DEF SourceInv, SourceTyped, Resolution, Roles
  <1>4. Silent'
    BY <1>1, <1>2 DEF SourceInv, SourceTyped, Silent
  <1>5. ReplacedAreGone'
    BY <1>1, <1>2 DEF SourceInv, SourceTyped, Silent, ReplacedAreGone, Takes
  <1>6. TakerIsSource'
    BY <1>1, <1>2 DEF SourceInv, SourceTyped, Silent, ReplacedAreGone, TakerIsSource, Takes
  <1>7. ToldIsSource'
    BY <1>1, <1>2 DEF SourceInv, SourceTyped, Silent, ReplacedAreGone, TakerIsSource, ToldIsSource, Takes, Told
  <1>8. Follows'
    BY <1>1, <1>2 DEF SourceInv, SourceTyped, Silent, ReplacedAreGone, TakerIsSource, ToldIsSource, Follows, Takes, Told, Source!Replacing
  <1> QED
    BY <1>3, <1>4, <1>5, <1>6, <1>7, <1>8 DEF SourceInv

LEMMA SourcePromote ==
  ASSUME SourceInv, NEW a \in Accounts, Source!Promote(a)
  PROVE  SourceInv'
  <1>1. /\ ask[a].at = "promote" /\ ask'[a].at = "demote" /\ ask'[a].via = ask[a].via
        /\ ask'[a].row = ask[a].row /\ ask'[a].old = ask[a].old /\ ask' \in [Accounts -> Resolution]
        /\ \A b \in Accounts \ {a} : ask'[b] = ask[b]
    <2>1. "demote" \in Steps
      BY DEF Steps
    <2> QED
      BY <2>1, ToMoves DEF SourceInv, Source!Promote
  <1>2. /\ policy' = [policy EXCEPT ![a] = "primary"]
        /\ UNCHANGED <<supplier, quiet, cached, met>>
    BY DEF Source!Promote
  <1>3. SourceTyped'
    BY <1>1, <1>2 DEF SourceInv, SourceTyped, Resolution, Roles
  <1>4. Silent'
    BY <1>1, <1>2 DEF SourceInv, SourceTyped, Silent
  <1>5. ReplacedAreGone'
    BY <1>1, <1>2 DEF SourceInv, SourceTyped, Silent, ReplacedAreGone, Takes
  <1>6. TakerIsSource'
    BY <1>1, <1>2 DEF SourceInv, SourceTyped, Silent, ReplacedAreGone, TakerIsSource, Takes
  <1>7. ToldIsSource'
    BY <1>1, <1>2 DEF SourceInv, SourceTyped, Silent, ReplacedAreGone, TakerIsSource, ToldIsSource, Takes, Told
  <1>8. Follows'
    BY <1>1, <1>2 DEF SourceInv, SourceTyped, Silent, ReplacedAreGone, TakerIsSource, ToldIsSource, Follows, Takes, Told, Source!Replacing
  <1> QED
    BY <1>3, <1>4, <1>5, <1>6, <1>7, <1>8 DEF SourceInv

LEMMA SourceDemote ==
  ASSUME SourceInv, NEW a \in Accounts, Source!Demote(a)
  PROVE  SourceInv'
  <1>1. /\ ask[a].at = "demote" /\ ask'[a].at = "forget" /\ ask'[a].via = ask[a].via
        /\ ask'[a].row = ask[a].row /\ ask'[a].old = ask[a].old /\ ask' \in [Accounts -> Resolution]
        /\ \A b \in Accounts \ {a} : ask'[b] = ask[b]
    <2>1. "forget" \in Steps
      BY DEF Steps
    <2> QED
      BY <2>1, ToMoves DEF SourceInv, Source!Demote
  <1>2. /\ policy' = [policy EXCEPT ![ask[a].old] = "reuse"]
        /\ UNCHANGED <<supplier, quiet, cached, met>>
    BY DEF Source!Demote
  <1>3. SourceTyped'
    BY <1>1, <1>2 DEF SourceInv, SourceTyped, Resolution, Roles
  <1>4. Silent'
    BY <1>1, <1>2 DEF SourceInv, SourceTyped, Silent
  <1>5. ReplacedAreGone'
    BY <1>1, <1>2 DEF SourceInv, SourceTyped, Silent, ReplacedAreGone, Takes
  <1>6. TakerIsSource'
    BY <1>1, <1>2 DEF SourceInv, SourceTyped, Silent, ReplacedAreGone, TakerIsSource, Takes
  <1>7. ToldIsSource'
    BY <1>1, <1>2 DEF SourceInv, SourceTyped, Silent, ReplacedAreGone, TakerIsSource, ToldIsSource, Takes, Told
  <1>8. Follows'
    BY <1>1, <1>2 DEF SourceInv, SourceTyped, Silent, ReplacedAreGone, TakerIsSource, ToldIsSource, Follows, Takes, Told, Source!Replacing
  <1> QED
    BY <1>3, <1>4, <1>5, <1>6, <1>7, <1>8 DEF SourceInv

LEMMA SourceForget ==
  ASSUME SourceInv, NEW a \in Accounts, Source!Forget(a)
  PROVE  SourceInv'
  <1>1. /\ ask[a].at = "forget" /\ ask'[a].at = "decide" /\ ask'[a].via = ask[a].via
        /\ ask'[a].row = ask[a].row /\ ask'[a].old = ask[a].old /\ ask' \in [Accounts -> Resolution]
        /\ \A b \in Accounts \ {a} : ask'[b] = ask[b]
    <2>1. "decide" \in Steps
      BY DEF Steps
    <2> QED
      BY <2>1, ToMoves DEF SourceInv, Source!Forget, Source!To
  <1>2. /\ cached' = [cached EXCEPT ![ask[a].via][a] = NoAccount, ![ask[a].via][ask[a].old] = NoAccount]
        /\ UNCHANGED <<supplier, policy, quiet, met>>
    BY DEF Source!Forget
  <1>3. SourceTyped'
    BY <1>1, <1>2 DEF SourceInv, SourceTyped, Resolution, Roles
  <1>4. Silent'
    BY <1>1, <1>2 DEF SourceInv, SourceTyped, Silent
  <1>5. ReplacedAreGone'
    BY <1>1, <1>2 DEF SourceInv, SourceTyped, Silent, ReplacedAreGone, Takes
  <1>6. TakerIsSource'
    BY <1>1, <1>2 DEF SourceInv, SourceTyped, Silent, ReplacedAreGone, TakerIsSource, Takes
  <1>7. ToldIsSource'
    BY <1>1, <1>2 DEF SourceInv, SourceTyped, Silent, ReplacedAreGone, TakerIsSource, ToldIsSource, Takes, Told
  <1>8. Follows'
    BY <1>1, <1>2 DEF SourceInv, SourceTyped, Silent, ReplacedAreGone, TakerIsSource, ToldIsSource, Follows, Takes, Told, Source!Replacing
  <1> QED
    BY <1>3, <1>4, <1>5, <1>6, <1>7, <1>8 DEF SourceInv

LEMMA SourceDecide ==
  ASSUME SourceInv, NEW a \in Accounts, Source!Decide(a)
  PROVE  SourceInv'
  <1>1. /\ ask[a].at = "decide" /\ ask'[a].at = "keep" /\ ask'[a].via = ask[a].via
        /\ ask'[a].answer = policy'[a] /\ ask' \in [Accounts -> Resolution]
        /\ \A b \in Accounts \ {a} : ask'[b] = ask[b]
    <2>1. ask[a].row \in Accounts
      BY DEF SourceInv, SourceTyped, Source!Decide, Steps
    <2> QED
      BY <2>1, DecideMoves DEF SourceInv, Source!Decide
  <1>2. /\ policy' \in [Accounts -> Roles] /\ \A b \in Accounts \ {a} : policy'[b] = policy[b]
        /\ policy'[a] = "primary" => ask[a].row = a
        /\ UNCHANGED <<supplier, quiet, cached, met>>
    BY DEF Source!Decide, Source!ModeOf, SourceInv, SourceTyped, Roles
  <1>3. SourceTyped'
    BY <1>1, <1>2 DEF SourceInv, SourceTyped, Resolution, Roles
  <1>4. Silent'
    BY <1>1, <1>2 DEF SourceInv, SourceTyped, Silent
  <1>5. ReplacedAreGone'
    BY <1>1, <1>2 DEF SourceInv, SourceTyped, Silent, ReplacedAreGone, Takes
  <1>6. TakerIsSource'
    BY <1>1, <1>2 DEF SourceInv, SourceTyped, Silent, ReplacedAreGone, TakerIsSource, Takes
  <1>7. ToldIsSource'
    BY <1>1, <1>2 DEF SourceInv, SourceTyped, Silent, ReplacedAreGone, TakerIsSource, ToldIsSource, Takes, Told
  <1>8. Follows'
    BY <1>1, <1>2 DEF SourceInv, SourceTyped, Silent, ReplacedAreGone, TakerIsSource, ToldIsSource, Follows, Takes, Told, Source!Replacing
  <1> QED
    BY <1>3, <1>4, <1>5, <1>6, <1>7, <1>8 DEF SourceInv

LEMMA SourceKeep ==
  ASSUME SourceInv, NEW a \in Accounts, Source!Keep(a)
  PROVE  SourceInv'
  <1>1. /\ ask[a].at = "keep" /\ ask'[a] = Source!Idle /\ ask' \in [Accounts -> Resolution]
        /\ \A b \in Accounts \ {a} : ask'[b] = ask[b]
    <2>1. Source!Idle \in Resolution
      BY DEF Source!Idle, Resolution, Steps, Roles
    <2> QED
      BY <2>1, ResolutionMoves DEF SourceInv, Source!Keep
  <1>2. /\ ask'[a].at = "idle" /\ ask[a].via \in Caches /\ ask[a].answer \in Roles
        /\ cached' = [cached EXCEPT ![ask[a].via][a] = ask[a].answer]
        /\ UNCHANGED <<supplier, policy, quiet, met>>
    BY <1>1 DEF Source!Keep, Source!Idle, SourceInv, SourceTyped, Resolution
  <1>3. SourceTyped'
    BY <1>1, <1>2 DEF SourceInv, SourceTyped, Resolution, Roles
  <1>4. Silent'
    BY <1>1, <1>2 DEF SourceInv, SourceTyped, Silent
  <1>5. ReplacedAreGone'
    BY <1>1, <1>2 DEF SourceInv, SourceTyped, Silent, ReplacedAreGone, Takes
  <1>6. TakerIsSource'
    BY <1>1, <1>2 DEF SourceInv, SourceTyped, Silent, ReplacedAreGone, TakerIsSource, Takes
  <1>7. ToldIsSource'
    BY <1>1, <1>2 DEF SourceInv, SourceTyped, Silent, ReplacedAreGone, TakerIsSource, ToldIsSource, Takes, Told
  <1>8. Follows'
    BY <1>1, <1>2 DEF SourceInv, SourceTyped, Silent, ReplacedAreGone, TakerIsSource, ToldIsSource, Follows, Takes, Told, Source!Replacing
  <1> QED
    BY <1>3, <1>4, <1>5, <1>6, <1>7, <1>8 DEF SourceInv

LEMMA SourceGoQuiet ==
  ASSUME SourceInv, NEW a \in Accounts, Source!GoQuiet(a)
  PROVE  SourceInv'
  <1>1. /\ ask[a].at = "idle" /\ \A c \in Caches : cached[c][a] = NoAccount
        /\ quiet' = quiet \cup {a}
        /\ UNCHANGED <<supplier, policy, cached, ask, met>>
    BY DEF Source!GoQuiet, Source!Idle
  <1>3. SourceTyped'
    BY <1>1 DEF SourceInv, SourceTyped, Resolution, Roles
  <1>4. Silent'
    BY <1>1 DEF SourceInv, SourceTyped, Silent
  <1>5. ReplacedAreGone'
    BY <1>1 DEF SourceInv, SourceTyped, Silent, ReplacedAreGone, Takes
  <1>6. TakerIsSource'
    BY <1>1 DEF SourceInv, SourceTyped, Silent, ReplacedAreGone, TakerIsSource, Takes
  <1>7. ToldIsSource'
    BY <1>1 DEF SourceInv, SourceTyped, Silent, ReplacedAreGone, TakerIsSource, ToldIsSource, Takes, Told
  <1>8. Follows'
    BY <1>1 DEF SourceInv, SourceTyped, Silent, ReplacedAreGone, TakerIsSource, ToldIsSource, Follows, Takes, Told, Source!Replacing
  <1> QED
    BY <1>3, <1>4, <1>5, <1>6, <1>7, <1>8 DEF SourceInv

LEMMA SourceAsk ==
  ASSUME SourceInv, NEW a \in Accounts, NEW c \in Caches, Source!Ask(a, c)
  PROVE  SourceInv'
  <1>1. /\ ask[a].at = "idle" /\ ask' \in [Accounts -> Resolution] /\ ask'[a].via = c
        /\ \/ ask'[a].at = "keep" /\ ask'[a].answer = "blocked"
           \/ ask'[a].at = "claim"
        /\ \A b \in Accounts \ {a} : ask'[b] = ask[b]
    <2> DEFINE r == IF policy[a] = "blocked"
                    THEN [Source!Idle EXCEPT !.at = "keep", !.via = c, !.answer = "blocked"]
                    ELSE [Source!Idle EXCEPT !.at = "claim", !.via = c]
    <2>1. r \in Resolution /\ r.via = c
          /\ ((r.at = "keep" /\ r.answer = "blocked") \/ r.at = "claim")
      BY DEF Source!Idle, Resolution, Steps, Roles
    <2>2. ask' = [ask EXCEPT ![a] = r] /\ ask[a].at = "idle"
      BY DEF Source!Ask, Source!Idle
    <2> HIDE DEF r
    <2> QED
      BY <2>1, <2>2, ResolutionMoves DEF SourceInv
  <1>2. /\ quiet' = quiet \ {a}
        /\ met' = IF Source!Replacing(a) THEN met \cup {a} ELSE met
        /\ UNCHANGED <<supplier, policy, cached>>
    BY DEF Source!Ask
  <1>3. SourceTyped'
    BY <1>1, <1>2 DEF SourceInv, SourceTyped, Resolution, Roles
  <1>4. Silent'
    BY <1>1, <1>2 DEF SourceInv, SourceTyped, Silent
  <1>5. ReplacedAreGone'
    BY <1>1, <1>2 DEF SourceInv, SourceTyped, Silent, ReplacedAreGone, Takes, Source!Replacing
  <1>6. TakerIsSource'
    BY <1>1, <1>2 DEF SourceInv, SourceTyped, Silent, ReplacedAreGone, TakerIsSource, Takes
  <1>7. ToldIsSource'
    BY <1>1, <1>2 DEF SourceInv, SourceTyped, Silent, ReplacedAreGone, TakerIsSource, ToldIsSource, Takes, Told
  <1>8. Follows'
    BY <1>1, <1>2 DEF SourceInv, SourceTyped, Silent, ReplacedAreGone, TakerIsSource, ToldIsSource, Follows, Takes, Told, Source!Replacing
  <1> QED
    BY <1>3, <1>4, <1>5, <1>6, <1>7, <1>8 DEF SourceInv

LEMMA SourceExpire ==
  ASSUME SourceInv, NEW a \in Accounts, NEW c \in Caches, Source!Expire(c, a)
  PROVE  SourceInv'
  <1>1. /\ cached' = [cached EXCEPT ![c][a] = NoAccount]
        /\ UNCHANGED <<supplier, policy, quiet, ask, met>>
    BY DEF Source!Expire
  <1>3. SourceTyped'
    BY <1>1 DEF SourceInv, SourceTyped, Resolution, Roles
  <1>4. Silent'
    BY <1>1 DEF SourceInv, SourceTyped, Silent
  <1>5. ReplacedAreGone'
    BY <1>1 DEF SourceInv, SourceTyped, Silent, ReplacedAreGone, Takes
  <1>6. TakerIsSource'
    BY <1>1 DEF SourceInv, SourceTyped, Silent, ReplacedAreGone, TakerIsSource, Takes
  <1>7. ToldIsSource'
    BY <1>1, FeedsAssumption DEF SourceInv, SourceTyped, Silent, ReplacedAreGone, TakerIsSource, ToldIsSource, Takes, Told
  <1>8. Follows'
    BY <1>1 DEF SourceInv, SourceTyped, Silent, ReplacedAreGone, TakerIsSource, ToldIsSource, Follows, Takes, Told, Source!Replacing
  <1> QED
    BY <1>3, <1>4, <1>5, <1>6, <1>7, <1>8 DEF SourceInv

LEMMA SourceStep ==
  ASSUME SourceInv, [Source!Next]_(Source!vars)
  PROVE  SourceInv'
  <1>1. CASE Source!Next
    <2>1. ASSUME NEW a \in Accounts, Source!Request(a) PROVE SourceInv'
      BY <2>1, SourceAsk DEF Source!Request
    <2>2. ASSUME NEW a \in Accounts, Source!Resolve(a) PROVE SourceInv'
      BY <2>2, SourceClaim, SourceJudge, SourceTake, SourceAgain, SourcePromote, SourceDemote,
         SourceForget, SourceDecide, SourceKeep DEF Source!Resolve
    <2>3. ASSUME NEW a \in Accounts, Source!Lapse(a) PROVE SourceInv'
      BY <2>3, SourceExpire DEF Source!Lapse
    <2>4. ASSUME NEW a \in Accounts, Source!GoQuiet(a) PROVE SourceInv'
      BY <2>4, SourceGoQuiet
    <2> QED
      BY <1>1, <2>1, <2>2, <2>3, <2>4 DEF Source!Next
  <1>2. CASE UNCHANGED Source!vars
    BY <1>2 DEF Source!vars, SourceInv, SourceTyped, Silent, ReplacedAreGone, TakerIsSource,
       ToldIsSource, Follows, Takes, Told, Source!Replacing
  <1> QED
    BY <1>1, <1>2

(* What the invariant says of the answers and of the stored policies.       *)
LEMMA SourceIsOne == SourceInv => Source!OneSource /\ Source!PolicyFollows
  <1> SUFFICES ASSUME SourceInv PROVE Source!OneSource /\ Source!PolicyFollows
    OBVIOUS
  <1>1. \A a \in Accounts, c \in Caches : cached[c][a] = "primary" => supplier = a \/ a \in met
    BY DEF SourceInv, ToldIsSource, Told
  <1>2. Source!OneSource
    BY <1>1 DEF Source!OneSource
  <1>3. Source!PolicyFollows
    BY DEF SourceInv, Follows, Source!PolicyFollows
  <1> QED
    BY <1>2, <1>3

----------------------------------------------------------------------------
(* Sets of bars: the greatest one, the newest n, and the least.             *)

LEMMA BarsAreNumbers ==
  ASSUME NEW N \in Nat, NEW S \in SUBSET (1..N)
  PROVE  \A d \in S : d \in Int /\ 1 <= d /\ d <= N
  OBVIOUS

(* A bounded set of naturals has a greatest element.                        *)
LEMMA GreatestExists ==
  ASSUME NEW N \in Nat, NEW S \in SUBSET (1..N), S # {}
  PROVE  \E x \in S : \A y \in S : y <= x
<1> DEFINE T == {1..(N - s) : s \in S}
<1>1. T \in SUBSET FiniteSubsetsOf(Nat) /\ T # {}
  <2>1. ASSUME NEW s \in S PROVE 1..(N - s) \in FiniteSubsetsOf(Nat)
    <3>1. 1..(N - s) \subseteq Nat /\ N - s \in Int
      OBVIOUS
    <3> QED
      BY <3>1, FS_Interval DEF FiniteSubsetsOf
  <2> QED
    BY <2>1
<1>2. PICK x \in T : \A y \in T : <<y, x>> \notin StrictSubsetOrdering(Nat)
  <2> HIDE DEF T
  <2> QED
    BY <1>1, FS_StrictSubsetOrderingWellFounded, WFMin
<1>3. PICK e \in S : x = 1..(N - e)
  BY <1>2
<1>4. ASSUME NEW f \in S, f > e PROVE FALSE
  <2>1. 1..(N - f) \subseteq 1..(N - e) /\ 1..(N - f) \in SUBSET Nat /\ 1..(N - e) \in SUBSET Nat
    BY <1>4
  <2>2. N - e \in 1..(N - e) /\ N - e \notin 1..(N - f)
    BY <1>4
  <2>3. <<1..(N - f), 1..(N - e)>> \in StrictSubsetOrdering(Nat)
    BY <2>1, <2>2 DEF StrictSubsetOrdering
  <2> QED
    BY <1>2, <1>3, <2>3
<1>5. \A y \in S : y \in Int
  OBVIOUS
<1> QED
  BY <1>4, <1>5

LEMMA NewestIsGreatest ==
  ASSUME NEW N \in Nat, NEW S \in SUBSET (1..N)
  PROVE  /\ S = {} => Bars!Newest(S) = 0
         /\ S # {} => Bars!Newest(S) \in S /\ \A y \in S : y <= Bars!Newest(S)
<1>1. CASE S = {}
  BY <1>1 DEF Bars!Newest
<1>2. CASE S # {}
  <2>1. PICK x \in S : \A y \in S : x >= y
    BY <1>2, GreatestExists
  <2>2. Bars!Max(S) \in S /\ \A y \in S : Bars!Max(S) >= y
    BY <2>1 DEF Bars!Max
  <2> QED
    BY <1>2, <2>2 DEF Bars!Newest
<1> QED
  BY <1>1, <1>2

(* The newest n bars of a set.                                              *)
LEMMA BarsCount == \A S : Bars!Cardinality(S) = Cardinality(S)
  BY DEF Bars!Cardinality, Cardinality

LEMMA LatestAbove ==
  ASSUME NEW N \in Nat, NEW S \in SUBSET (1..N), NEW n \in Nat,
         NEW b \in Bars!Latest(S, n), NEW c \in S, b <= c
  PROVE  c \in Bars!Latest(S, n)
<1> DEFINE Above(x) == {d \in S : d >= x}
<1>1. IsFiniteSet(S)
  <2>1. IsFiniteSet(1..N)
    BY FS_Interval
  <2> QED
    BY <2>1, FS_Subset
<1>2. Above(c) \in SUBSET Above(b) /\ Above(b) \in SUBSET S
  <2>1. b \in S /\ \A d \in S : d \in Int
    BY BarsAreNumbers DEF Bars!Latest
  <2>2. ASSUME NEW d \in Above(c) PROVE d \in Above(b)
    <3>1. d \in Int /\ c \in Int /\ b \in Int /\ d \in S /\ d >= c
      BY <2>1, <2>2
    <3> QED
      BY <3>1
  <2>3. Above(c) \subseteq Above(b) /\ Above(b) \subseteq S
    <3>1. Above(b) \subseteq S
      OBVIOUS
    <3> HIDE DEF Above
    <3> QED
      BY <2>2, <3>1
  <2> HIDE DEF Above
  <2> QED
    BY <2>3
<1>3. Cardinality(Above(c)) <= Cardinality(Above(b)) /\ Cardinality(Above(b)) \in Nat
      /\ Cardinality(Above(c)) \in Nat
  <2> HIDE DEF Above
  <2> QED
    BY <1>1, <1>2, FS_Subset, FS_CardinalityType
<1>4. Cardinality(Above(b)) <= n
  BY BarsCount DEF Bars!Latest
<1> QED
  BY <1>3, <1>4, BarsCount DEF Bars!Latest

LEMMA LatestIsIn ==
  ASSUME NEW S, NEW n
  PROVE  Bars!Latest(S, n) \subseteq S
  BY DEF Bars!Latest

LEMMA NewestIsLatest ==
  ASSUME NEW N \in Nat, NEW S \in SUBSET (1..N), S # {}, NEW n \in Nat \ {0}
  PROVE  Bars!Newest(S) \in Bars!Latest(S, n)
<1> DEFINE top == Bars!Newest(S)
<1>1. top \in S /\ \A y \in S : y <= top
  <2> HIDE DEF top
  <2>1. Bars!Newest(S) \in S /\ \A y \in S : y <= Bars!Newest(S)
    BY NewestIsGreatest
  <2> QED
    BY <2>1 DEF top
<1>2. \A y \in S : y \in Int
  BY BarsAreNumbers
<1> HIDE DEF top
<1>3. {c \in S : c >= top} = {top}
  <2>1. ASSUME NEW c \in S, c >= top PROVE c = top
    <3>1. c \in Int /\ top \in Int /\ c <= top /\ c >= top
      BY <1>1, <1>2, <2>1
    <3> QED
      BY <3>1
  <2>2. top >= top
    BY <1>1, <1>2
  <2> QED
    BY <1>1, <2>1, <2>2
<1>4. Cardinality({c \in S : c >= top}) = 1
  BY <1>3, FS_Singleton
<1> QED
  BY <1>1, <1>4, BarsCount DEF Bars!Latest, top

(* Unless all of a set are among its newest n, there are n of them.         *)
LEMMA LatestAreMany ==
  ASSUME NEW N \in Nat, NEW S \in SUBSET (1..N), NEW n \in Nat
  PROVE  Bars!Latest(S, n) = S \/ Cardinality(Bars!Latest(S, n)) >= n
<1> SUFFICES ASSUME Bars!Latest(S, n) # S PROVE Cardinality(Bars!Latest(S, n)) >= n
  OBVIOUS
<1> DEFINE L == Bars!Latest(S, n)
<1> DEFINE Above(x) == {c \in S : c >= x}
<1>1. L \in SUBSET S /\ S \ L # {} /\ S \ L \in SUBSET (1..N)
  BY LatestIsIn
<1>2. PICK b \in S \ L : \A c \in S \ L : c <= b
  <2> HIDE DEF L
  <2> QED
    BY <1>1, GreatestExists
<1>3. L = Above(b) \ {b}
  <2>1. ASSUME NEW c \in L PROVE c \in Above(b) \ {b}
    <3>1. c \in S /\ c # b /\ c \in Int /\ b \in Int
      <4> HIDE DEF L
      <4> QED
        BY <1>1, <1>2, <2>1, BarsAreNumbers
    <3>2. CASE c < b
      <4>1. b \in S /\ b \notin Bars!Latest(S, n) /\ c \in Bars!Latest(S, n) /\ c <= b
        BY <3>1, <3>2, <1>2
      <4> QED
        BY <4>1, LatestAbove
    <3> QED
      BY <3>1, <3>2
  <2>2. ASSUME NEW c \in Above(b) \ {b} PROVE c \in L
    BY <1>2, <2>2
  <2> HIDE DEF L, Above
  <2> QED
    BY <2>1, <2>2
<1>4. IsFiniteSet(S)
  <2>1. IsFiniteSet(1..N)
    BY FS_Interval
  <2> QED
    BY <2>1, FS_Subset
<1>5. Above(b) \in SUBSET S /\ b \in Above(b)
  BY <1>2
<1>6. ~(Cardinality(Above(b)) <= n)
  BY <1>2, BarsCount DEF Bars!Latest
<1> HIDE DEF Above, L
<1>7. IsFiniteSet(Above(b)) /\ Cardinality(Above(b)) \in Nat
  BY <1>4, <1>5, FS_Subset, FS_CardinalityType
<1>8. Cardinality(L) = Cardinality(Above(b)) - 1
  BY <1>3, <1>5, <1>7, FS_RemoveElement
<1> QED
  BY <1>6, <1>7, <1>8 DEF L

(* The newest bars of all.                                                  *)
LEMMA LatestOfAll ==
  ASSUME NEW u \in Nat, NEW n \in Nat
  PROVE  Bars!Latest(1..u, n) = {b \in 1..u : b > u - n}
<1>1. ASSUME NEW b \in 1..u PROVE Cardinality({c \in 1..u : c >= b}) = u - b + 1
  <2>1. {c \in 1..u : c >= b} = b..u /\ b \in Int /\ u \in Int /\ b <= u
    OBVIOUS
  <2>2. Cardinality(b..u) = IF b > u THEN 0 ELSE u - b + 1
    BY <2>1, FS_Interval
  <2>3. ~(b > u)
    BY <2>1
  <2> QED
    BY <2>1, <2>2, <2>3, Zenon
<1> QED
  BY <1>1, BarsCount DEF Bars!Latest

----------------------------------------------------------------------------
(* A memory fits the stored bars: it is not behind them, has those of its   *)
(* span, and lacks older ones only when it holds a full upload at least.    *)
Fits(stored, held) ==
  /\ \A b \in stored : \E d \in held : b <= d
  /\ \A b \in stored, d \in held : d <= b => b \in held
  /\ stored \subseteq held \/ FullCount <= Cardinality(held)

LEMMA FitsFewer ==
  ASSUME NEW S, NEW m, Fits(S, m), NEW T \in SUBSET S
  PROVE  Fits(T, m)
  BY DEF Fits

LEMMA KeepsFullUpload == MemoryBars \in Nat \ {0} /\ FullCount \in Nat \ {0} /\ FullCount <= MemoryBars
  BY FeedsAssumption

(* The newest of what is stored, as a restore or a full upload leaves them. *)
LEMMA LatestFits ==
  ASSUME NEW N \in Nat, NEW S \in SUBSET (1..N), S # {}
  PROVE  /\ Bars!Latest(S, MemoryBars) # {}
         /\ Bars!Latest(S, MemoryBars) \in SUBSET (1..N)
         /\ Fits(S, Bars!Latest(S, MemoryBars))
<1> DEFINE L == Bars!Latest(S, MemoryBars)
<1>1. Bars!Newest(S) \in L /\ \A b \in S : b <= Bars!Newest(S)
  BY NewestIsLatest, NewestIsGreatest, KeepsFullUpload
<1>2. L \subseteq S
  BY LatestIsIn
<1>3. \A b \in S, d \in L : d <= b => b \in L
  BY LatestAbove, KeepsFullUpload
<1>4. S \subseteq L \/ FullCount <= Cardinality(L)
  <2>1. CASE L = S
    BY <2>1
  <2>2. CASE Cardinality(L) >= MemoryBars
    <3> HIDE DEF L
    <3>1. IsFiniteSet(L)
      <4>1. IsFiniteSet(1..N)
        BY FS_Interval
      <4> QED
        BY <4>1, <1>2, FS_Subset
    <3>2. Cardinality(L) \in Nat
      BY <3>1, FS_CardinalityType
    <3> QED
      BY <2>2, <3>2, KeepsFullUpload
  <2> QED
    BY <2>1, <2>2, LatestAreMany, KeepsFullUpload
<1> HIDE DEF L
<1>5. L # {} /\ L \in SUBSET (1..N) /\ Fits(S, L)
  BY <1>1, <1>2, <1>3, <1>4 DEF Fits
<1> QED
  BY <1>5 DEF L

(* Newer bars are added to a memory that fits.                              *)
LEMMA SavedFits ==
  ASSUME NEW N \in Nat, NEW S \in SUBSET (1..N), NEW m \in SUBSET (1..N), NEW B \in SUBSET (1..N),
         Fits(S, m), m \cup B # {}, \A b \in B, c \in S : c < b
  PROVE  /\ Bars!Latest(m \cup B, MemoryBars) # {}
         /\ Bars!Latest(m \cup B, MemoryBars) \in SUBSET (1..N)
         /\ Fits(S \cup B, Bars!Latest(m \cup B, MemoryBars))
<1> DEFINE M == m \cup B
<1> DEFINE L == Bars!Latest(M, MemoryBars)
<1>1. M # {} /\ M \in SUBSET (1..N)
  OBVIOUS
<1>2. L # {} /\ L \in SUBSET (1..N) /\ Fits(M, L) /\ L \subseteq M
  <2> HIDE DEF M
  <2> QED
    BY <1>1, LatestFits, LatestIsIn
<1>3. \A x \in M : x \in Int
  <2> HIDE DEF M
  <2> QED
    BY <1>1, BarsAreNumbers
<1>4. \A x \in S : x \in Int
  BY BarsAreNumbers
<1> HIDE DEF L
<1>5. \A b \in S \cup B : \E d \in L : b <= d
  <2>1. ASSUME NEW b \in B PROVE \E d \in L : b <= d
    BY <1>2 DEF Fits
  <2>2. ASSUME NEW b \in S PROVE \E d \in L : b <= d
    <3>1. PICK e \in m : b <= e
      BY DEF Fits
    <3>2. PICK d \in L : e <= d
      BY <1>2 DEF Fits
    <3>3. b \in Int /\ e \in Int /\ d \in Int
      BY <1>2, <1>3, <1>4
    <3> QED
      BY <3>1, <3>2, <3>3
  <2> QED
    BY <2>1, <2>2
<1>6. ASSUME NEW b \in S \cup B, NEW d \in L, d <= b PROVE b \in L
  <2>1. b \in M
    <3>1. CASE b \in B
      BY <3>1
    <3>2. CASE b \in S /\ d \in m
      BY <1>6, <3>2 DEF Fits
    <3>3. CASE b \in S /\ d \in B
      <4>1. b < d /\ b \in Int /\ d \in Int
        BY <1>3, <1>4, <3>3
      <4> QED
        BY <1>6, <4>1
    <3> QED
      BY <1>2, <3>1, <3>2, <3>3
  <2> HIDE DEF M
  <2> QED
    BY <1>2, <1>6, <2>1 DEF Fits
<1>7. S \cup B \subseteq L \/ FullCount <= Cardinality(L)
  <2>1. M \subseteq L \/ FullCount <= Cardinality(L)
    <3> HIDE DEF M
    <3> QED
      BY <1>2 DEF Fits
  <2>2. CASE M \subseteq L /\ S \subseteq m
    BY <2>2
  <2>3. CASE M \subseteq L /\ FullCount <= Cardinality(m)
    <3>1. IsFiniteSet(1..N)
      BY FS_Interval
    <3>2. IsFiniteSet(L) /\ m \in SUBSET L
      BY <1>2, <2>3, <3>1, FS_Subset
    <3>3. Cardinality(m) <= Cardinality(L) /\ Cardinality(m) \in Nat /\ Cardinality(L) \in Nat
      BY <3>2, FS_Subset, FS_CardinalityType
    <3> QED
      BY <2>3, <3>3, KeepsFullUpload
  <2> QED
    BY <2>1, <2>2, <2>3 DEF Fits
<1>8. Fits(S \cup B, L)
  BY <1>5, <1>6, <1>7 DEF Fits
<1> QED
  BY <1>2, <1>8 DEF L

----------------------------------------------------------------------------
(* The bars, their requests, and what is kept of them.                      *)

Terminal == [boot : BOOLEAN, done : 0..MaxBars, at : {"idle", "cursor", "sent"},
             cursor : 0..MaxBars,
             post : [bars : SUBSET (1..MaxBars), full : BOOLEAN, upTo : 0..MaxBars]]
BarsTyped ==
  /\ clock \in 0..MaxBars /\ table \in SUBSET (1..clock) /\ memory \in SUBSET (1..clock)
  /\ ready \in BOOLEAN /\ source \in Terminals
  /\ ea \in [Terminals -> Terminal]

(* What a request carries: everything, or the bars after the cursor.        *)
Sound(e) ==
  /\ e.cursor <= clock
  /\ e.at = "sent" =>
       /\ e.post.upTo \in 1..clock
       /\ e.cursor = 0 => e.post.bars = Bars!Latest(1..e.post.upTo, FullCount)
       /\ e.cursor > 0 => /\ ~e.post.full /\ e.cursor < e.post.upTo
                          /\ e.post.bars = Bars!Gap(e.cursor, e.post.upTo)
RequestsAreSound == \A t \in Terminals : Sound(ea[t])

(* The cursor of the source is still that of the table.                     *)
CursorIsCurrent == ea[source].at # "idle" => ea[source].cursor = Bars!Newest(table)
Whole(S) == \E lo, hi \in Nat : S = lo..hi
MemoryFits == ready => memory # {} /\ Fits(table, memory)

BarsInv == BarsTyped /\ RequestsAreSound /\ CursorIsCurrent /\ Whole(table) /\ MemoryFits

LEMMA BarsInit == Bars!Init => BarsInv
  <1> SUFFICES ASSUME Bars!Init PROVE BarsInv
    OBVIOUS
  <1>1. /\ clock = 0 /\ table = {} /\ memory = {} /\ ready = FALSE /\ source \in Terminals
        /\ ea = [t \in Terminals |-> Bars!Fresh] /\ MaxBars \in Nat
    BY FeedsAssumption DEF Bars!Init
  <1>2. Bars!Fresh \in Terminal /\ Bars!Fresh.at = "idle" /\ Bars!Fresh.cursor = 0
    BY <1>1 DEF Bars!Fresh, Bars!NoPost, Terminal
  <1>3. BarsTyped
    <2>1. ea \in [Terminals -> Terminal]
      BY <1>1, <1>2
    <2>2. clock \in 0..MaxBars
      BY <1>1
    <2>3. table \in SUBSET (1..clock) /\ memory \in SUBSET (1..clock) /\ ready \in BOOLEAN
      BY <1>1
    <2> QED
      BY <1>1, <2>1, <2>2, <2>3 DEF BarsTyped
  <1>4. RequestsAreSound /\ CursorIsCurrent
    BY <1>1, <1>2 DEF RequestsAreSound, Sound, CursorIsCurrent
  <1>5. {} = 1..0
    OBVIOUS
  <1> QED
    BY <1>1, <1>3, <1>4, <1>5 DEF BarsInv, Whole, MemoryFits

LEMMA TerminalMoves ==
  ASSUME BarsTyped, NEW t \in Terminals, NEW e \in Terminal, ea' = [ea EXCEPT ![t] = e]
  PROVE  /\ ea' \in [Terminals -> Terminal]
         /\ ea'[t] = e /\ \A u \in Terminals \ {t} : ea'[u] = ea[u]
  BY DEF BarsTyped

LEMMA RequestEnds ==
  ASSUME NEW e \in Terminal, NEW bar \in 0..MaxBars
  PROVE  /\ Bars!Checked(e, bar) \in Terminal
         /\ Bars!Checked(e, bar).at = "idle" /\ Bars!Checked(e, bar).cursor = 0
         /\ Bars!Again(e) \in Terminal
         /\ Bars!Again(e).at = "idle" /\ Bars!Again(e).cursor = 0
  <1>1. Bars!NoPost \in [bars : SUBSET (1..MaxBars), full : BOOLEAN, upTo : 0..MaxBars] /\ 0 \in 0..MaxBars
    BY FeedsAssumption DEF Bars!NoPost
  <1>2. (IF e.boot THEN bar ELSE e.done) \in 0..MaxBars
    BY DEF Terminal
  <1> HIDE DEF Bars!NoPost
  <1> QED
    BY <1>1, <1>2 DEF Bars!Checked, Bars!Again, Terminal

LEMMA AnswerEnds ==
  ASSUME BarsTyped, NEW t \in Terminals, Bars!Answered(t) \/ Bars!Unanswered(t)
  PROVE  /\ ea' \in [Terminals -> Terminal] /\ ea'[t].at = "idle" /\ ea'[t].cursor = 0
         /\ \A u \in Terminals \ {t} : ea'[u] = ea[u]
  <1>1. ea[t] \in Terminal
    BY DEF BarsTyped
  <1>2. ea[t].post.upTo \in 0..MaxBars
    BY <1>1 DEF Terminal
  <1>3. \/ ea' = [ea EXCEPT ![t] = Bars!Checked(ea[t], ea[t].post.upTo)]
        \/ ea' = [ea EXCEPT ![t] = Bars!Again(ea[t])]
    BY DEF Bars!Answered, Bars!Unanswered, BarsTyped
  <1> QED
    BY <1>1, <1>2, <1>3, RequestEnds, TerminalMoves

(* The end of a request, and of the stores with it.                         *)
LEMMA BarsStepEnds ==
  ASSUME BarsInv, NEW t \in Terminals, clock' = clock, source' = source,
         ea' \in [Terminals -> Terminal], ea'[t].at = "idle", ea'[t].cursor = 0,
         \A u \in Terminals \ {t} : ea'[u] = ea[u],
         table' \in SUBSET (1..clock), Whole(table'), t = source \/ table' = table,
         memory' \in SUBSET (1..clock), ready' \in BOOLEAN,
         ready' => memory' # {} /\ Fits(table', memory')
  PROVE  BarsInv'
  <1>1. BarsTyped'
    BY DEF BarsInv, BarsTyped
  <1>2. RequestsAreSound'
    <2> SUFFICES ASSUME NEW u \in Terminals PROVE Sound(ea[u])'
      BY DEF RequestsAreSound
    <2>1. CASE u = t
      BY <2>1 DEF BarsInv, BarsTyped, Sound
    <2>2. CASE u # t
      BY <2>2 DEF BarsInv, RequestsAreSound, Sound
    <2> QED
      BY <2>1, <2>2
  <1>3. CursorIsCurrent'
    BY DEF BarsInv, BarsTyped, CursorIsCurrent
  <1>4. Whole(table)' /\ MemoryFits'
    BY DEF MemoryFits, Whole, Fits
  <1> QED
    BY <1>1, <1>2, <1>3, <1>4 DEF BarsInv

(* What the memory holds after a restore fits the table.                    *)
LEMMA RestoredFits ==
  ASSUME BarsInv
  PROVE  /\ Bars!Restored \in SUBSET (1..clock) /\ Fits(table, Bars!Restored)
         /\ ready \/ Bars!Restores => Bars!Restored # {}
  <1>1. clock \in Nat /\ table \in SUBSET (1..clock) /\ memory \in SUBSET (1..clock) /\ ready \in BOOLEAN
    BY FeedsAssumption DEF BarsInv, BarsTyped
  <1>2. CASE Bars!Restores
    <2>1. table # {} /\ Bars!Restored = Bars!Latest(table, MemoryBars)
      BY <1>2 DEF Bars!Restored, Bars!Restores
    <2> QED
      BY <1>1, <2>1, LatestFits
  <1>3. CASE ~Bars!Restores
    <2>1. Bars!Restored = memory
      BY <1>3 DEF Bars!Restored
    <2>2. CASE ready
      BY <1>1, <1>3, <2>1, <2>2 DEF BarsInv, MemoryFits
    <2>3. CASE ~ready
      <3>1. table = {}
        BY <1>3, <2>3 DEF Bars!Restores
      <3> QED
        BY <1>1, <1>3, <2>1, <2>3, <3>1 DEF Fits
    <2> QED
      BY <2>2, <2>3
  <1> QED
    BY <1>2, <1>3

(* An upload of the source goes on where the table ends.                    *)
LEMMA UploadExtends ==
  ASSUME BarsInv, ea[source].at = "sent"
  PROVE  /\ ea[source].post.bars \in SUBSET (1..clock) /\ ea[source].post.bars # {}
         /\ \A b \in ea[source].post.bars, c \in table : c < b
         /\ Whole(table \cup ea[source].post.bars)
         /\ ea[source].post.full \in BOOLEAN /\ (ea[source].post.full => table = {})
<1> DEFINE e == ea[source]
<1> DEFINE B == e.post.bars
<1> DEFINE from == e.cursor
<1> DEFINE to == e.post.upTo
<1>1. /\ clock \in Nat /\ table \in SUBSET (1..clock)
      /\ FullCount \in Nat \ {0} /\ BatchSize \in Nat \ {0}
  BY FeedsAssumption DEF BarsInv, BarsTyped
<1>2. e \in Terminal /\ Sound(e) /\ e.at = "sent" /\ from = Bars!Newest(table)
  BY DEF BarsInv, BarsTyped, RequestsAreSound, CursorIsCurrent
<1>3. /\ from \in Nat /\ to \in 1..clock /\ e.post.full \in BOOLEAN
      /\ from = 0 => B = Bars!Latest(1..to, FullCount)
      /\ from > 0 => ~e.post.full /\ from < to /\ B = Bars!Gap(from, to)
  BY <1>2, FeedsAssumption DEF Terminal, Sound
<1> HIDE DEF e, from, to, B
<1>4. /\ table = {} => from = 0
      /\ table # {} => from \in table /\ \A c \in table : c <= from
  BY <1>1, <1>2, NewestIsGreatest
<1>5. \A c \in table : c \in Int /\ 1 <= c /\ c <= clock
  BY <1>1
<1>6. CASE table = {}
  <2>1. B = {b \in 1..to : b > to - FullCount}
    BY <1>1, <1>3, <1>4, <1>6, LatestOfAll
  <2> DEFINE lo == IF to < FullCount THEN 1 ELSE to - FullCount + 1
  <2>2. lo \in Nat /\ to \in Nat /\ to \in B
    BY <1>1, <1>3, <2>1
  <2>3. B = lo..to
    BY <1>1, <1>3, <2>1
  <2>4. B \in SUBSET (1..clock) /\ table \cup B = B
    BY <1>1, <1>3, <1>6, <2>1
  <2> HIDE DEF lo
  <2>5. Whole(table \cup B)
    BY <2>2, <2>3, <2>4 DEF Whole
  <2> QED
    BY <1>3, <1>6, <2>2, <2>4, <2>5 DEF B, e
<1>7. CASE table # {}
  <2>1. PICK lo \in Nat, hi \in Nat : table = lo..hi
    BY DEF BarsInv, Whole
  <2>2. lo <= hi /\ from = hi /\ from > 0 /\ from \in Int
    BY <1>4, <1>5, <1>7, <2>1
  <2>3. ~e.post.full /\ from < to /\ B = {b \in (from + 1)..to : b <= from + BatchSize}
    BY <1>3, <2>2 DEF Bars!Gap
  <2> DEFINE end == IF from + BatchSize < to THEN from + BatchSize ELSE to
  <2>4. end \in Nat /\ from + 1 \in B
    BY <1>1, <1>3, <2>2, <2>3
  <2>5. table \cup B = lo..end
    BY <1>1, <1>3, <2>1, <2>2, <2>3
  <2>6. B \in SUBSET (1..clock)
    BY <1>1, <1>3, <2>3
  <2>7. \A b \in B, c \in table : c < b
    BY <1>1, <1>3, <1>4, <1>5, <1>7, <2>3
  <2> HIDE DEF end
  <2>8. Whole(table \cup B)
    BY <2>1, <2>4, <2>5 DEF Whole
  <2> QED
    BY <1>3, <2>3, <2>4, <2>6, <2>7, <2>8 DEF B, e
<1> QED
  BY <1>6, <1>7

(* ... and what the memory holds after it fits both tables.                 *)
LEMMA UploadFits ==
  ASSUME BarsInv, ea[source].at = "sent"
  PROVE  LET held == Bars!Accepted(ea[source].post) IN
         /\ held # {} /\ held \in SUBSET (1..clock)
         /\ Fits(table, held) /\ Fits(table \cup ea[source].post.bars, held)
<1> DEFINE p == ea[source].post
<1> DEFINE B == p.bars
<1>1. clock \in Nat /\ table \in SUBSET (1..clock)
  BY FeedsAssumption DEF BarsInv, BarsTyped
<1>2. /\ B \in SUBSET (1..clock) /\ B # {} /\ \A b \in B, c \in table : c < b
      /\ p.full \in BOOLEAN /\ (p.full => table = {})
  BY UploadExtends
<1> DEFINE m == IF p.full THEN {} ELSE Bars!Restored
<1>3. m \in SUBSET (1..clock) /\ Fits(table, m)
  BY <1>2, RestoredFits DEF Fits
<1>4. Bars!Accepted(p) = Bars!Latest(m \cup B, MemoryBars)
  BY DEF Bars!Accepted, Bars!Saved
<1> HIDE DEF m, B, p
<1>5. /\ Bars!Accepted(p) # {} /\ Bars!Accepted(p) \in SUBSET (1..clock)
      /\ Fits(table \cup B, Bars!Accepted(p))
  <2>1. m \cup B # {}
    BY <1>2
  <2>2. /\ Bars!Latest(m \cup B, MemoryBars) # {}
        /\ Bars!Latest(m \cup B, MemoryBars) \in SUBSET (1..clock)
        /\ Fits(table \cup B, Bars!Latest(m \cup B, MemoryBars))
    BY <1>1, <1>2, <1>3, <2>1, SavedFits
  <2> QED
    BY <1>4, <2>2
<1>6. Fits(table, Bars!Accepted(p))
  BY <1>5, FitsFewer
<1> QED
  BY <1>5, <1>6 DEF B, p

(* Each step keeps the invariant.                                           *)
LEMMA BarsFacts ==
  ASSUME BarsInv
  PROVE  /\ MaxBars \in Nat /\ clock \in Nat /\ clock \in 0..MaxBars
         /\ table \in SUBSET (1..clock) /\ memory \in SUBSET (1..clock) /\ ready \in BOOLEAN
         /\ source \in Terminals /\ ea \in [Terminals -> Terminal]
         /\ Bars!Newest(table) \in 0..clock
<1>1. /\ MaxBars \in Nat /\ clock \in Nat /\ clock \in 0..MaxBars
      /\ table \in SUBSET (1..clock) /\ memory \in SUBSET (1..clock) /\ ready \in BOOLEAN
      /\ source \in Terminals /\ ea \in [Terminals -> Terminal]
  BY FeedsAssumption DEF BarsInv, BarsTyped
<1>2. Bars!Newest(table) \in 0..clock
  <2>1. CASE table = {}
    BY <1>1, <2>1, NewestIsGreatest
  <2>2. CASE table # {}
    <3>1. Bars!Newest(table) \in table
      BY <1>1, <2>2, NewestIsGreatest
    <3>2. /\ Bars!Newest(table) \in Int
          /\ 1 <= Bars!Newest(table) /\ Bars!Newest(table) <= clock
      BY <1>1, <3>1, BarsAreNumbers
    <3> QED
      BY <1>1, <3>2
  <2> QED
    BY <2>1, <2>2
<1> QED
  BY <1>1, <1>2

LEMMA BarsClose ==
  ASSUME BarsInv, Bars!BarCloses
  PROVE  BarsInv'
<1>1. clock' = clock + 1 /\ clock < MaxBars /\ UNCHANGED <<table, memory, ready, source, ea>>
  BY DEF Bars!BarCloses
<1>2. MaxBars \in Nat /\ clock \in Nat
  BY BarsFacts
<1>3. BarsTyped'
  BY <1>1, <1>2 DEF BarsInv, BarsTyped
<1>4. RequestsAreSound'
  <2> SUFFICES ASSUME NEW t \in Terminals PROVE Sound(ea[t])'
    BY DEF RequestsAreSound
  <2>1. Sound(ea[t]) /\ ea[t].cursor \in Int
    BY FeedsAssumption DEF BarsInv, BarsTyped, Terminal, RequestsAreSound
  <2> QED
    BY <1>1, <1>2, <2>1 DEF Sound
<1> QED
  BY <1>1, <1>3, <1>4 DEF BarsInv, CursorIsCurrent, Whole, MemoryFits, Fits

LEMMA BarsAsk ==
  ASSUME BarsInv, NEW t \in Terminals, Bars!AskCursor(t)
  PROVE  BarsInv'
<1>1. /\ ea[t].at = "idle" /\ memory' = Bars!Restored /\ ready' = (ready \/ Bars!Restores)
      /\ UNCHANGED <<clock, table, source>>
  BY DEF Bars!AskCursor, Bars!Due
<1>2. ready' \in BOOLEAN /\ memory' \in SUBSET (1..clock)
  BY <1>1, RestoredFits DEF Bars!Restores
<1>3. MemoryFits'
  BY <1>1, RestoredFits DEF MemoryFits, Fits
<1>4. CASE ea' = ea
  BY <1>1, <1>2, <1>3, <1>4 DEF BarsInv, BarsTyped, RequestsAreSound, Sound, CursorIsCurrent, Whole
<1>5. CASE ea' = [ea EXCEPT ![t].at = "cursor", ![t].cursor = Bars!Newest(table)]
  <2> DEFINE e == [ea[t] EXCEPT !.at = "cursor", !.cursor = Bars!Newest(table)]
  <2>1. ea[t] \in Terminal /\ Bars!Newest(table) \in 0..clock /\ Bars!Newest(table) \in 0..MaxBars
    BY BarsFacts
  <2>2. e \in Terminal /\ e.at = "cursor" /\ e.cursor = Bars!Newest(table)
    BY <2>1 DEF Terminal
  <2>3. ea' = [ea EXCEPT ![t] = e]
    BY <1>5, BarsFacts
  <2> HIDE DEF e
  <2>4. /\ ea' \in [Terminals -> Terminal] /\ ea'[t] = e
        /\ \A u \in Terminals \ {t} : ea'[u] = ea[u]
    BY <2>2, <2>3, TerminalMoves DEF BarsInv
  <2>5. BarsTyped'
    BY <1>1, <1>2, <2>4 DEF BarsInv, BarsTyped
  <2>6. RequestsAreSound'
    <3> SUFFICES ASSUME NEW u \in Terminals PROVE Sound(ea[u])'
      BY DEF RequestsAreSound
    <3>1. CASE u = t
      BY <1>1, <2>1, <2>2, <2>4, <3>1 DEF Sound
    <3>2. CASE u # t
      BY <1>1, <2>4, <3>2 DEF BarsInv, RequestsAreSound, Sound
    <3> QED
      BY <3>1, <3>2
  <2>7. CursorIsCurrent'
    BY <1>1, <2>2, <2>4, BarsFacts DEF BarsInv, CursorIsCurrent
  <2> QED
    BY <1>1, <1>3, <2>5, <2>6, <2>7 DEF BarsInv, Whole
<1> QED
  BY <1>4, <1>5 DEF Bars!AskCursor

LEMMA BarsSend ==
  ASSUME BarsInv, NEW t \in Terminals, Bars!Send(t)
  PROVE  BarsInv'
<1> DEFINE from == ea[t].cursor
<1>1. /\ ea[t].at = "cursor" /\ UNCHANGED <<clock, table, memory, ready, source>>
      /\ ea[t] \in Terminal /\ from \in Nat /\ from <= clock /\ clock \in 0..MaxBars /\ MaxBars \in Nat
      /\ BarsTyped
  BY BarsFacts DEF Bars!Send, BarsInv, RequestsAreSound, Sound, Terminal
<1>2. CASE from = clock
  <2>1. ea' = [ea EXCEPT ![t] = Bars!Checked(ea[t], clock)]
    BY <1>1, <1>2 DEF Bars!Send, BarsTyped
  <2>2. /\ ea' \in [Terminals -> Terminal] /\ ea'[t].at = "idle" /\ ea'[t].cursor = 0
        /\ \A u \in Terminals \ {t} : ea'[u] = ea[u]
    BY <1>1, <2>1, RequestEnds, TerminalMoves
  <2>3. Whole(table)' /\ (ready' => memory' # {} /\ Fits(table', memory'))
    BY <1>1 DEF BarsInv, Whole, MemoryFits, Fits
  <2> QED
    BY <1>1, <2>2, <2>3, BarsFacts, BarsStepEnds DEF Whole
<1>3. CASE from # clock
  <2> DEFINE p == IF from = 0 \/ from > clock
                  THEN [bars |-> Bars!Latest(1..clock, FullCount), full |-> ~ea[t].boot, upTo |-> clock]
                  ELSE [bars |-> Bars!Gap(from, clock), full |-> FALSE, upTo |-> clock]
  <2> DEFINE e == [ea[t] EXCEPT !.at = "sent", !.post = p]
  <2>1. /\ p \in [bars : SUBSET (1..MaxBars), full : BOOLEAN, upTo : 0..MaxBars] /\ p.upTo = clock
        /\ from = 0 => p.bars = Bars!Latest(1..clock, FullCount)
        /\ from > 0 => ~p.full /\ p.bars = Bars!Gap(from, clock)
    <3>1. ea[t].boot \in BOOLEAN /\ Bars!Gap(from, clock) \in SUBSET (1..MaxBars)
      BY <1>1 DEF Terminal, Bars!Gap
    <3>2. Bars!Latest(1..clock, FullCount) \in SUBSET (1..MaxBars)
      BY <1>1, LatestIsIn
    <3> QED
      BY <1>1, <3>1, <3>2
  <2> HIDE DEF p
  <2>2. e \in Terminal /\ e.at = "sent" /\ e.post = p /\ e.cursor = from
    BY <1>1, <2>1 DEF Terminal
  <2>3. ea' = [ea EXCEPT ![t] = e]
    BY <1>1, <1>3 DEF Bars!Send, BarsTyped, p
  <2> HIDE DEF e
  <2>4. /\ ea' \in [Terminals -> Terminal] /\ ea'[t] = e
        /\ \A u \in Terminals \ {t} : ea'[u] = ea[u]
    BY <1>1, <2>2, <2>3, TerminalMoves
  <2>5. BarsTyped'
    BY <1>1, <2>4 DEF BarsTyped
  <2>6. RequestsAreSound'
    <3> SUFFICES ASSUME NEW u \in Terminals PROVE Sound(ea[u])'
      BY DEF RequestsAreSound
    <3>1. CASE u = t
      <4>1. clock \in 1..clock /\ from < clock
        BY <1>1, <1>3
      <4> HIDE DEF from
      <4> QED
        BY <1>1, <2>1, <2>2, <2>4, <3>1, <4>1 DEF Sound
    <3>2. CASE u # t
      BY <1>1, <2>4, <3>2 DEF BarsInv, RequestsAreSound, Sound
    <3> QED
      BY <3>1, <3>2
  <2>7. CursorIsCurrent'
    BY <1>1, <2>2, <2>4, BarsFacts DEF BarsInv, CursorIsCurrent
  <2> QED
    BY <1>1, <2>5, <2>6, <2>7 DEF BarsInv, Whole, MemoryFits, Fits
<1> QED
  BY <1>2, <1>3

LEMMA BarsIgnore ==
  ASSUME BarsInv, NEW t \in Terminals, Bars!Ignore(t)
  PROVE  BarsInv'
<1>1. Bars!Answered(t) /\ UNCHANGED <<clock, table, memory, ready, source>> /\ BarsTyped
  BY DEF Bars!Ignore, BarsInv
<1>2. Whole(table') /\ (ready' => memory' # {} /\ Fits(table', memory'))
  BY <1>1 DEF BarsInv, Whole, MemoryFits, Fits
<1> QED
  BY <1>1, <1>2, AnswerEnds, BarsFacts, BarsStepEnds

LEMMA BarsNeedFull ==
  ASSUME BarsInv, NEW t \in Terminals, Bars!NeedFull(t)
  PROVE  BarsInv'
<1>1. /\ UNCHANGED <<clock, table, memory, ready, source>> /\ BarsTyped
      /\ ea' = [ea EXCEPT ![t] = [Bars!Again(ea[t]) EXCEPT !.boot = FALSE]]
  BY DEF Bars!NeedFull, BarsInv, BarsTyped
<1>2. Bars!Again(ea[t]) \in Terminal /\ Bars!Again(ea[t]).at = "idle" /\ Bars!Again(ea[t]).cursor = 0
  BY BarsFacts, RequestEnds
<1> DEFINE e == [Bars!Again(ea[t]) EXCEPT !.boot = FALSE]
<1>3. e \in Terminal /\ e.at = "idle" /\ e.cursor = 0
  BY <1>2 DEF Terminal
<1> HIDE DEF e
<1>4. /\ ea' \in [Terminals -> Terminal] /\ ea'[t].at = "idle" /\ ea'[t].cursor = 0
      /\ \A u \in Terminals \ {t} : ea'[u] = ea[u]
  BY <1>1, <1>3, TerminalMoves DEF e
<1>5. Whole(table') /\ (ready' => memory' # {} /\ Fits(table', memory'))
  BY <1>1 DEF BarsInv, Whole, MemoryFits, Fits
<1> QED
  BY <1>1, <1>4, <1>5, BarsFacts, BarsStepEnds

LEMMA BarsReceive ==
  ASSUME BarsInv, NEW t \in Terminals, Bars!Receive(t)
  PROVE  BarsInv'
<1>1. /\ t = source /\ ea[source].at = "sent" /\ Bars!Answered(t) /\ BarsTyped
      /\ memory' = Bars!Accepted(ea[source].post) /\ ready' = TRUE
      /\ table' = table \cup ea[source].post.bars /\ UNCHANGED <<clock, source>>
  BY DEF Bars!Receive, BarsInv
<1>2. /\ table' \in SUBSET (1..clock) /\ Whole(table')
      /\ memory' # {} /\ memory' \in SUBSET (1..clock) /\ Fits(table', memory')
  BY <1>1, UploadExtends, UploadFits, BarsFacts
<1> QED
  BY <1>1, <1>2, AnswerEnds, BarsStepEnds

LEMMA BarsSpoil ==
  ASSUME BarsInv, NEW t \in Terminals, Bars!Spoil(t)
  PROVE  BarsInv'
<1>1. ea[t].at = "sent" /\ Bars!Unanswered(t) /\ BarsTyped /\ UNCHANGED <<clock, source>>
  BY DEF Bars!Spoil, BarsInv
<1>2. /\ table' \in SUBSET (1..clock) /\ Whole(table') /\ (t = source \/ table' = table)
      /\ memory' \in SUBSET (1..clock) /\ ready' \in BOOLEAN
      /\ (ready' => memory' # {} /\ Fits(table', memory'))
  <2>1. CASE UNCHANGED <<table, memory, ready>>
    <3>1. Whole(table') /\ (ready' => memory' # {} /\ Fits(table', memory'))
      BY <2>1 DEF BarsInv, Whole, MemoryFits, Fits
    <3> QED
      BY <2>1, <3>1, BarsFacts
  <2>2. CASE /\ t = source /\ memory' = Bars!Accepted(ea[t].post) /\ ready' = TRUE
             /\ table' \in {table, table \cup ea[t].post.bars}
    <3>1. memory' # {} /\ memory' \in SUBSET (1..clock)
      BY <1>1, <2>2, UploadFits
    <3>2. CASE table' = table
      <4>1. Whole(table') /\ Fits(table', memory')
        BY <1>1, <2>2, <3>2, UploadFits DEF BarsInv
      <4> QED
        BY <2>2, <3>1, <3>2, <4>1, BarsFacts
    <3>3. CASE table' = table \cup ea[t].post.bars
      <4>1. Whole(table') /\ Fits(table', memory') /\ table' \in SUBSET (1..clock)
        BY <1>1, <2>2, <3>3, UploadExtends, UploadFits, BarsFacts
      <4> QED
        BY <2>2, <3>1, <4>1
    <3> QED
      BY <2>2, <3>2, <3>3
  <2> QED
    BY <2>1, <2>2 DEF Bars!Spoil
<1> QED
  BY <1>1, <1>2, AnswerEnds, BarsStepEnds

LEMMA BarsServerRestarts ==
  ASSUME BarsInv, Bars!ServerRestarts
  PROVE  BarsInv'
<1>1. /\ memory' = {} /\ ready' = FALSE /\ UNCHANGED <<clock, table, source>>
      /\ ea' = [t \in Terminals |-> IF ea[t].at = "sent" THEN Bars!Again(ea[t]) ELSE ea[t]]
  BY DEF Bars!ServerRestarts
<1>2. \A t \in Terminals : /\ ea'[t] \in Terminal
                           /\ ea'[t] = ea[t] \/ (ea'[t].at = "idle" /\ ea'[t].cursor = 0)
  <2> SUFFICES ASSUME NEW t \in Terminals
               PROVE  /\ ea'[t] \in Terminal
                      /\ ea'[t] = ea[t] \/ (ea'[t].at = "idle" /\ ea'[t].cursor = 0)
    OBVIOUS
  <2>1. ea[t] \in Terminal /\ 0 \in 0..MaxBars
    BY BarsFacts
  <2>2. Bars!Again(ea[t]) \in Terminal /\ Bars!Again(ea[t]).at = "idle" /\ Bars!Again(ea[t]).cursor = 0
    BY <2>1, RequestEnds
  <2>3. ea'[t] = IF ea[t].at = "sent" THEN Bars!Again(ea[t]) ELSE ea[t]
    BY <1>1
  <2>4. CASE ea[t].at = "sent"
    BY <2>2, <2>3, <2>4
  <2>5. CASE ea[t].at # "sent"
    <3>1. ea'[t] = ea[t]
      BY <2>3, <2>5
    <3> QED
      BY <2>1, <3>1
  <2> QED
    BY <2>4, <2>5
<1>3. ea' \in [Terminals -> Terminal]
  <2>1. ea' = [t \in Terminals |-> ea'[t]]
    BY <1>1
  <2> QED
    BY <1>2, <2>1
<1>4. BarsTyped'
  BY <1>1, <1>3 DEF BarsInv, BarsTyped
<1>5. RequestsAreSound'
  <2> SUFFICES ASSUME NEW t \in Terminals PROVE Sound(ea[t])'
    BY DEF RequestsAreSound
  <2>1. CASE ea'[t] = ea[t]
    BY <1>1, <2>1 DEF BarsInv, RequestsAreSound, Sound
  <2>2. CASE ea'[t].at = "idle" /\ ea'[t].cursor = 0
    BY <1>1, <2>2, BarsFacts DEF Sound
  <2> QED
    BY <1>2, <2>1, <2>2
<1>6. CursorIsCurrent'
  BY <1>1, <1>2, BarsFacts DEF BarsInv, CursorIsCurrent
<1> QED
  BY <1>1, <1>4, <1>5, <1>6 DEF BarsInv, Whole, MemoryFits

LEMMA BarsTerminalRestarts ==
  ASSUME BarsInv, NEW t \in Terminals, Bars!TerminalRestarts(t)
  PROVE  BarsInv'
<1>1. ea' = [ea EXCEPT ![t] = Bars!Fresh] /\ UNCHANGED <<clock, table, memory, ready, source>> /\ BarsTyped
  BY DEF Bars!TerminalRestarts, BarsInv
<1>2. Bars!Fresh \in Terminal /\ Bars!Fresh.at = "idle" /\ Bars!Fresh.cursor = 0
  BY BarsFacts DEF Bars!Fresh, Bars!NoPost, Terminal
<1>3. Whole(table') /\ (ready' => memory' # {} /\ Fits(table', memory'))
  BY <1>1 DEF BarsInv, Whole, MemoryFits, Fits
<1>4. /\ ea' \in [Terminals -> Terminal] /\ ea'[t].at = "idle" /\ ea'[t].cursor = 0
      /\ \A u \in Terminals \ {t} : ea'[u] = ea[u]
  BY <1>1, <1>2, TerminalMoves
<1> QED
  BY <1>1, <1>3, <1>4, BarsFacts, BarsStepEnds

LEMMA BarsSourceMoves ==
  ASSUME BarsInv, NEW t \in Terminals, Bars!SourceMoves(t)
  PROVE  BarsInv'
<1>1. /\ source' = t /\ UNCHANGED <<clock, table, memory, ready, ea>>
      /\ ea[t].at # "idle" => ea[t].cursor = Bars!Newest(table)
  BY DEF Bars!SourceMoves
<1> QED
  BY <1>1 DEF BarsInv, BarsTyped, RequestsAreSound, Sound, CursorIsCurrent, Whole, MemoryFits, Fits

LEMMA BarsCleanup ==
  ASSUME BarsInv, Bars!Cleanup
  PROVE  BarsInv'
<1>1. /\ table' = {b \in table : b > clock - Horizon} /\ UNCHANGED <<clock, memory, ready, source, ea>>
      /\ \A t \in Terminals : ea[t].at = "idle"
  BY DEF Bars!Cleanup
<1>2. BarsTyped'
  BY <1>1 DEF BarsInv, BarsTyped
<1>3. RequestsAreSound' /\ CursorIsCurrent'
  BY <1>1, BarsFacts DEF BarsInv, RequestsAreSound, Sound, CursorIsCurrent
<1>4. Whole(table)'
  <2>1. PICK lo \in Nat, hi \in Nat : table = lo..hi
    BY DEF BarsInv, Whole
  <2>2. clock \in Nat /\ Horizon \in Nat
    BY BarsFacts, FeedsAssumption
  <2> DEFINE low == IF clock - Horizon < lo THEN lo ELSE clock - Horizon + 1
  <2>3. low \in Nat /\ table' = low..hi
    BY <1>1, <2>1, <2>2
  <2> HIDE DEF low
  <2> QED
    BY <2>1, <2>3 DEF Whole
<1>5. MemoryFits'
  <2>1. table' \in SUBSET table
    BY <1>1
  <2>2. ready => memory # {} /\ Fits(table', memory)
    BY <2>1, FitsFewer DEF BarsInv, MemoryFits
  <2> QED
    BY <1>1, <2>2 DEF MemoryFits, Fits
<1> QED
  BY <1>2, <1>3, <1>4, <1>5 DEF BarsInv

LEMMA BarsStep ==
  ASSUME BarsInv, [Bars!Next]_(Bars!vars)
  PROVE  BarsInv'
<1>1. CASE Bars!Next
  <2>1. CASE Bars!BarCloses
    BY <2>1, BarsClose
  <2>2. CASE Bars!ServerRestarts
    BY <2>2, BarsServerRestarts
  <2>3. CASE Bars!Cleanup
    BY <2>3, BarsCleanup
  <2>4. ASSUME NEW t \in Terminals, Bars!Upload(t) PROVE BarsInv'
    BY <2>4, BarsAsk, BarsSend, BarsIgnore, BarsNeedFull, BarsReceive DEF Bars!Upload
  <2>5. ASSUME NEW t \in Terminals, Bars!Spoil(t) PROVE BarsInv'
    BY <2>5, BarsSpoil
  <2>6. ASSUME NEW t \in Terminals, Bars!TerminalRestarts(t) PROVE BarsInv'
    BY <2>6, BarsTerminalRestarts
  <2>7. ASSUME NEW t \in Terminals, Bars!SourceMoves(t) PROVE BarsInv'
    BY <2>7, BarsSourceMoves
  <2> QED
    BY <1>1, <2>1, <2>2, <2>3, <2>4, <2>5, <2>6, <2>7 DEF Bars!Next
<1>2. CASE UNCHANGED Bars!vars
  BY <1>2 DEF Bars!vars, BarsInv, BarsTyped, RequestsAreSound, Sound, CursorIsCurrent, Whole,
     MemoryFits, Fits
<1> QED
  BY <1>1, <1>2

(* What the invariant says of the stored bars and of the memory.            *)
LEMMA LeastIsMin ==
  ASSUME NEW N \in Nat, NEW S \in SUBSET (1..N), S # {}
  PROVE  Bars!Min(S) \in S /\ \A y \in S : Bars!Min(S) <= y
<1> DEFINE T == {N + 1 - s : s \in S}
<1>1. T \in SUBSET (1..N) /\ T # {}
  <2>1. ASSUME NEW s \in S PROVE N + 1 - s \in 1..N
    BY BarsAreNumbers
  <2>2. T \subseteq 1..N
    BY <2>1
  <2>3. T # {}
    OBVIOUS
  <2> HIDE DEF T
  <2> QED
    BY <2>2, <2>3
<1>2. PICK x \in T : \A y \in T : y <= x
  <2> HIDE DEF T
  <2> QED
    BY <1>1, GreatestExists
<1>3. PICK least \in S : x = N + 1 - least
  BY <1>2
<1>4. ASSUME NEW y \in S PROVE least <= y
  <2>1. N + 1 - y <= x /\ y \in Int /\ least \in Int
    BY <1>2
  <2> QED
    BY <1>3, <2>1
<1> QED
  BY <1>4 DEF Bars!Min

LEMMA BarsAreWhole == BarsInv => Bars!TableIsWhole
<1> SUFFICES ASSUME BarsInv, table # {} PROVE table = Bars!Min(table)..Bars!Max(table)
  BY DEF Bars!TableIsWhole
<1>1. PICK lo \in Nat, hi \in Nat : table = lo..hi
  BY DEF BarsInv, Whole
<1>2. /\ Bars!Min(table) \in table /\ \A y \in table : Bars!Min(table) <= y
      /\ Bars!Max(table) \in table /\ \A y \in table : y <= Bars!Max(table)
  BY LeastIsMin, NewestIsGreatest, BarsFacts DEF Bars!Newest
<1>3. lo \in table /\ hi \in table
  BY <1>1
<1>4. /\ Bars!Min(table) \in Int /\ lo <= Bars!Min(table) /\ Bars!Min(table) <= lo
      /\ Bars!Max(table) \in Int /\ hi <= Bars!Max(table) /\ Bars!Max(table) <= hi
  BY <1>1, <1>2, <1>3
<1>5. Bars!Min(table) = lo /\ Bars!Max(table) = hi
  BY <1>4
<1> QED
  BY <1>1, <1>5

LEMMA MemoryIsUpToDate == BarsInv => Bars!MemoryKeepsUp
<1> SUFFICES ASSUME BarsInv, ready
             PROVE  /\ Bars!Newest(memory) >= Bars!Newest(table)
                    /\ {b \in table : b >= Bars!Min(memory)} \subseteq memory
                    /\ Bars!Cardinality(memory) >= Bars!Min({FullCount, Bars!Cardinality(table)})
  BY DEF Bars!MemoryKeepsUp
<1>1. /\ clock \in Nat /\ table \in SUBSET (1..clock) /\ memory \in SUBSET (1..clock)
      /\ memory # {} /\ Fits(table, memory)
  BY BarsFacts DEF BarsInv, MemoryFits
<1>2. IsFiniteSet(table) /\ IsFiniteSet(memory)
  <2>1. IsFiniteSet(1..clock)
    BY <1>1, FS_Interval
  <2> QED
    BY <1>1, <2>1, FS_Subset
<1>3. Cardinality(table) \in Nat /\ Cardinality(memory) \in Nat
  BY <1>2, FS_CardinalityType
<1>4. Bars!Newest(memory) \in memory /\ \A d \in memory : d <= Bars!Newest(memory)
  BY <1>1, NewestIsGreatest
<1>5. Bars!Newest(memory) >= Bars!Newest(table)
  <2>1. Bars!Newest(memory) \in Int /\ 1 <= Bars!Newest(memory)
    BY <1>1, <1>4, BarsAreNumbers
  <2>2. CASE table = {}
    BY <2>1, <2>2, NewestIsGreatest, <1>1
  <2>3. CASE table # {}
    <3>1. Bars!Newest(table) \in table
      BY <1>1, <2>3, NewestIsGreatest
    <3>2. PICK d \in memory : Bars!Newest(table) <= d
      BY <1>1, <3>1 DEF Fits
    <3>3. d \in Int /\ Bars!Newest(table) \in Int /\ d <= Bars!Newest(memory)
      BY <1>1, <1>4, <3>1, BarsAreNumbers
    <3> QED
      BY <2>1, <3>2, <3>3
  <2> QED
    BY <2>2, <2>3
<1>6. {b \in table : b >= Bars!Min(memory)} \subseteq memory
  <2>1. Bars!Min(memory) \in memory
    BY <1>1, LeastIsMin
  <2>2. ASSUME NEW b \in table, b >= Bars!Min(memory) PROVE b \in memory
    <3>1. b \in Int /\ Bars!Min(memory) \in Int
      BY <1>1, <2>1, BarsAreNumbers
    <3>2. Bars!Min(memory) <= b
      BY <2>2, <3>1
    <3> QED
      BY <1>1, <2>1, <3>2 DEF Fits
  <2> QED
    BY <2>2
<1>7. Cardinality(memory) >= Bars!Min({FullCount, Cardinality(table)})
  <2> DEFINE m == Bars!Min({FullCount, Cardinality(table)})
  <2>1. FullCount \in Nat
    BY FeedsAssumption
  <2>2. m \in {FullCount, Cardinality(table)} /\ m <= FullCount /\ m <= Cardinality(table)
    <3>1. \E x \in {FullCount, Cardinality(table)} : \A y \in {FullCount, Cardinality(table)} : x <= y
      BY <1>3, <2>1
    <3> QED
      BY <3>1 DEF Bars!Min
  <2>3. m \in Nat
    BY <1>3, <2>1, <2>2
  <2> HIDE DEF m
  <2>4. CASE FullCount <= Cardinality(memory)
    BY <1>3, <2>1, <2>2, <2>3, <2>4 DEF m
  <2>5. CASE table \subseteq memory
    <3>1. Cardinality(table) <= Cardinality(memory)
      BY <1>2, <2>5, FS_Subset
    <3> QED
      BY <1>3, <2>2, <2>3, <3>1 DEF m
  <2> QED
    BY <1>1, <2>4, <2>5 DEF Fits
<1> QED
  BY <1>5, <1>6, <1>7, BarsCount

----------------------------------------------------------------------------
(* The rounds of analysis.                                                  *)

LEMMA NumbersHaveLeast ==
  ASSUME NEW S \in SUBSET (Nat \ {0}), S # {}
  PROVE  \E x \in S : \A y \in S : x <= y
<1>1. PICK n \in S : TRUE
  OBVIOUS
<1> DEFINE T == {s \in S : s <= n}
<1>2. n \in Nat /\ T \in SUBSET (1..n) /\ n \in T
  <2>1. \A s \in S : s \in Nat /\ 1 <= s
    OBVIOUS
  <2>2. ASSUME NEW s \in T PROVE s \in 1..n
    BY <2>1
  <2>3. n <= n
    BY <2>1
  <2> QED
    BY <2>1, <2>2, <2>3
<1>3. Bars!Min(T) \in T /\ \A y \in T : Bars!Min(T) <= y
  <2> HIDE DEF T
  <2> QED
    BY <1>2, LeastIsMin
<1>4. ASSUME NEW y \in S PROVE Bars!Min(T) <= y
  <2>1. y \in Int /\ n \in Int /\ Bars!Min(T) \in Int /\ Bars!Min(T) <= n
    BY <1>2, <1>3
  <2>2. CASE y <= n
    BY <1>3, <2>2
  <2>3. CASE ~(y <= n)
    BY <2>1, <2>3
  <2> QED
    BY <2>2, <2>3
<1> QED
  BY <1>3, <1>4

Answers == UNION {[S -> Nat] : S \in SUBSET Sources}
Trends == UNION {[P -> Nat] : P \in SUBSET {PeriodOf[s] : s \in Sources}}
Stored == [sources : Answers, trends : Trends, status : {"none", "active", "stale", "closed"}]
Round == [pc : {"idle", "look", "next", "ask", "called"}, todo : SUBSET Sources,
          now : Sources \cup {0}, attempt : Nat, scheduled : BOOLEAN,
          failed : SUBSET Sources, answered : SUBSET Sources]
AnalysisTyped ==
  /\ time \in Nat /\ rounds \in Nat
  /\ lastRun \in UNION {[S -> Int] : S \in SUBSET Sources}
  /\ logged \in [Sources -> Int] /\ \A s \in Sources : logged[s] <= time
  /\ result \in Stored /\ state \in {"active", "stale", "closed"}
  /\ round \in Round
  /\ round.pc \in {"ask", "called"} => round.now \in Sources \ round.todo /\ round.attempt > 0
  /\ round.pc \in {"idle", "look"} => round.failed = {} /\ round.answered = {}
  /\ given \in Answers /\ broken \subseteq Sources

(* The sources the round in progress has asked.                             *)
Asked(s) == \/ s \in round.failed \cup round.answered
            \/ round.pc \in {"ask", "called"} /\ s = round.now

(* The call rows are not newer than what is remembered of a source, unless  *)
(* the round has asked it, or one that was broken off.                      *)
RunsAreRemembered == \A s \in DOMAIN lastRun :
  logged[s] <= lastRun[s] \/ s \in broken \/ Asked(s)

(* What a scheduled round is still to ask is due by the call rows.          *)
Overdue(s) == time - logged[s] >= Interval \/ s \in broken
PlannedAreDue == round.scheduled /\ round.pc # "idle" =>
  /\ \A s \in round.todo : Overdue(s)
  /\ round.pc = "ask" /\ round.attempt = 1 => Overdue(round.now)

(* The newest answer of each period gives its trend.                        *)
AnswersAgree ==
  /\ \A s \in DOMAIN given : given[s] <= rounds
  /\ Analysis!AnswersAreKept

AnalysisInv == AnalysisTyped /\ RunsAreRemembered /\ PlannedAreDue /\ AnswersAgree

LEMMA AnalysisInit == Analysis!Init => AnalysisInv
<1> SUFFICES ASSUME Analysis!Init PROVE AnalysisInv
  OBVIOUS
<1>1. /\ time = 0 /\ rounds = 0 /\ lastRun = [s \in {} |-> 0]
      /\ logged = [s \in Sources |-> Analysis!Never]
      /\ result = Analysis!NoResult /\ state = "active"
      /\ round = Analysis!NoRound /\ given = Analysis!NoResult.sources /\ broken = {}
  BY DEF Analysis!Init
<1>2. Analysis!Never \in Int /\ Analysis!Never <= 0 /\ Interval \in Nat
  BY FeedsAssumption DEF Analysis!Never
<1>3. Analysis!NoRound \in Round /\ Analysis!NoRound.pc = "idle"
      /\ Analysis!NoRound.failed = {} /\ Analysis!NoRound.answered = {}
  BY DEF Analysis!NoRound, Analysis!Nobody, Round
<1>4. /\ Analysis!NoResult.sources = [s \in {} |-> 0] /\ Analysis!NoResult.trends = [p \in {} |-> 0]
      /\ Analysis!NoResult.status = "none"
  BY DEF Analysis!NoResult
<1>5. [s \in {} |-> 0] \in Answers /\ [s \in {} |-> 0] \in UNION {[S -> Int] : S \in SUBSET Sources}
  <2>1. [s \in {} |-> 0] \in [{} -> Nat] /\ [s \in {} |-> 0] \in [{} -> Int]
    OBVIOUS
  <2> QED
    BY <2>1 DEF Answers
<1>6. [p \in {} |-> 0] \in Trends
  <2>1. [p \in {} |-> 0] \in [{} -> Nat]
    OBVIOUS
  <2> QED
    BY <2>1 DEF Trends
<1>7. Analysis!NoResult \in Stored
  BY <1>5, <1>6 DEF Analysis!NoResult, Stored
<1>8. AnalysisTyped
  BY <1>1, <1>2, <1>3, <1>4, <1>5, <1>7 DEF AnalysisTyped
<1>9. RunsAreRemembered /\ PlannedAreDue
  BY <1>1, <1>3 DEF RunsAreRemembered, PlannedAreDue
<1>10. AnswersAgree
  BY <1>1, <1>4 DEF AnswersAgree, Analysis!AnswersAreKept
<1> QED
  BY <1>8, <1>9, <1>10 DEF AnalysisInv

(* A step that leaves what is saved alone, and gives no answer.             *)
LEMMA AnalysisFacts ==
  ASSUME AnalysisInv
  PROVE  /\ time \in Nat /\ round \in Round /\ Interval \in Nat
         /\ logged \in [Sources -> Int] /\ \A s \in Sources : logged[s] <= time
         /\ DOMAIN lastRun \in SUBSET Sources /\ lastRun \in [DOMAIN lastRun -> Int]
         /\ DOMAIN given \in SUBSET Sources /\ given \in [DOMAIN given -> Nat]
         /\ broken \in SUBSET Sources /\ rounds \in Nat /\ result \in Stored
  BY FeedsAssumption DEF AnalysisInv, AnalysisTyped, Answers

LEMMA SavedStays ==
  ASSUME AnalysisInv, UNCHANGED <<result, given>>, rounds' \in Nat, rounds <= rounds'
  PROVE  AnswersAgree'
<1>1. \A s \in DOMAIN given : given[s] \in Nat /\ given[s] <= rounds
  BY AnalysisFacts DEF AnalysisInv, AnswersAgree
<1>2. \A s \in DOMAIN given : given[s] <= rounds'
  BY <1>1, AnalysisFacts
<1>3. Analysis!AnswersAreKept'
  BY DEF AnalysisInv, AnswersAgree, Analysis!AnswersAreKept
<1> QED
  BY <1>2, <1>3 DEF AnswersAgree

LEMMA FirstIsIn ==
  ASSUME NEW S \in SUBSET Sources, S # {}
  PROVE  Analysis!First(S) \in S
<1>1. \E x \in S : \A y \in S : x <= y
  BY FeedsAssumption, NumbersHaveLeast
<1> QED
  BY <1>1 DEF Analysis!First

LEMMA NoRoundIsRound ==
  /\ Analysis!NoRound \in Round /\ Analysis!NoRound.pc = "idle" /\ Analysis!NoRound.todo = {}
  /\ Analysis!NoRound.failed = {} /\ Analysis!NoRound.answered = {}
BY DEF Analysis!NoRound, Analysis!Nobody, Round

LEMMA AnalysisStart ==
  ASSUME AnalysisInv, Analysis!Start
  PROVE  AnalysisInv'
<1>1. /\ round.pc = "idle" /\ rounds' = rounds + 1
      /\ UNCHANGED <<time, logged, blocked, result, state, known, renewals, given, broken>>
  BY DEF Analysis!Start
<1>2. PICK scheduled \in BOOLEAN, running \in (SUBSET Sources) \ {{}} :
        LET plan == IF scheduled THEN {s \in running : Analysis!IsDue(s)} ELSE running
        IN /\ lastRun' = IF scheduled
                         THEN [s \in DOMAIN lastRun \cup running |-> Analysis!LastRun(s)] ELSE lastRun
           /\ round' = IF plan = {} THEN Analysis!NoRound
                       ELSE [Analysis!NoRound EXCEPT !.pc = "look", !.todo = plan, !.scheduled = scheduled]
  BY DEF Analysis!Start
<1> DEFINE plan == IF scheduled THEN {s \in running : Analysis!IsDue(s)} ELSE running
<1>3. plan \in SUBSET Sources
  BY <1>2
<1>4. \A s \in Sources : ~Asked(s)
  BY <1>1 DEF AnalysisInv, AnalysisTyped, Asked
<1>5. \A s \in Sources : /\ Analysis!LastRun(s) \in Int
                         /\ logged[s] <= Analysis!LastRun(s) \/ s \in broken
  BY <1>4, AnalysisFacts DEF AnalysisInv, RunsAreRemembered, Analysis!LastRun
<1>6. scheduled => \A s \in plan : Overdue(s)
  BY <1>5, AnalysisFacts DEF Analysis!IsDue, Overdue
<1>7. /\ round' \in Round /\ round'.pc \in {"idle", "look"}
      /\ round'.failed = {} /\ round'.answered = {}
      /\ round'.pc = "look" => round'.todo = plan /\ round'.scheduled = scheduled
  <2> HIDE DEF plan
  <2>1. CASE plan = {}
    BY <1>2, <2>1, NoRoundIsRound DEF plan
  <2>2. CASE plan # {}
    <3>1. round' = [Analysis!NoRound EXCEPT !.pc = "look", !.todo = plan, !.scheduled = scheduled]
      BY <1>2, <2>2 DEF plan
    <3> QED
      BY <1>3, <3>1, NoRoundIsRound DEF Round
  <2> QED
    BY <2>1, <2>2
<1>8. /\ DOMAIN lastRun' \in SUBSET Sources /\ lastRun' \in [DOMAIN lastRun' -> Int]
      /\ \A s \in DOMAIN lastRun' : logged[s] <= lastRun'[s] \/ s \in broken
  <2>1. CASE scheduled
    <3>1. lastRun' = [s \in DOMAIN lastRun \cup running |-> Analysis!LastRun(s)]
      BY <1>2, <2>1
    <3> QED
      BY <1>2, <1>5, <3>1, AnalysisFacts
  <2>2. CASE ~scheduled
    BY <1>2, <1>4, <2>2, AnalysisFacts DEF AnalysisInv, RunsAreRemembered
  <2> QED
    BY <2>1, <2>2
<1> HIDE DEF plan
<1>9. AnalysisTyped'
  <2>1. lastRun' \in UNION {[S -> Int] : S \in SUBSET Sources}
    BY <1>8
  <2> QED
    BY <1>1, <1>7, <2>1 DEF AnalysisInv, AnalysisTyped
<1>10. RunsAreRemembered'
  BY <1>1, <1>8 DEF RunsAreRemembered
<1>11. PlannedAreDue'
  BY <1>1, <1>6, <1>7 DEF PlannedAreDue, Overdue
<1>12. AnswersAgree'
  BY <1>1, SavedStays, AnalysisFacts
<1> QED
  BY <1>9, <1>10, <1>11, <1>12 DEF AnalysisInv

(* The end of a round that has asked nobody.                                *)
LEMMA AnalysisLook ==
  ASSUME AnalysisInv, Analysis!Look
  PROVE  AnalysisInv'
<1>1. /\ round.pc = "look" /\ UNCHANGED <<time, lastRun, logged, blocked, state, known, rounds, renewals, given, broken>>
      /\ round' = IF state = "active" THEN [round EXCEPT !.pc = "next"] ELSE Analysis!NoRound
      /\ result' = IF state # "active" /\ known /\ result.status # "none"
                   THEN [result EXCEPT !.status = state] ELSE result
  BY DEF Analysis!Look
<1>2. round.failed = {} /\ round.answered = {} /\ round \in Round
  BY <1>1 DEF AnalysisInv, AnalysisTyped
<1>3. /\ round' \in Round /\ round'.failed = {} /\ round'.answered = {}
      /\ \/ round'.pc = "idle"
         \/ round'.pc = "next" /\ round'.todo = round.todo /\ round'.scheduled = round.scheduled
  BY <1>1, <1>2, NoRoundIsRound DEF Round
<1>4. result' \in Stored /\ result'.sources = result.sources /\ result'.trends = result.trends
  BY <1>1, AnalysisFacts DEF AnalysisInv, AnalysisTyped, Stored
<1>5. AnalysisTyped'
  BY <1>1, <1>3, <1>4 DEF AnalysisInv, AnalysisTyped
<1>6. RunsAreRemembered'
  BY <1>1, <1>2 DEF AnalysisInv, RunsAreRemembered, Asked
<1>7. PlannedAreDue'
  BY <1>1, <1>3 DEF AnalysisInv, PlannedAreDue, Overdue
<1>8. AnswersAgree'
  BY <1>1, <1>4 DEF AnalysisInv, AnswersAgree, Analysis!AnswersAreKept
<1> QED
  BY <1>5, <1>6, <1>7, <1>8 DEF AnalysisInv

LEMMA AnalysisNextSource ==
  ASSUME AnalysisInv, Analysis!NextSource
  PROVE  AnalysisInv'
<1> DEFINE s == Analysis!First(round.todo)
<1>1. /\ round.pc = "next" /\ round.todo # {} /\ round \in Round
      /\ UNCHANGED <<time, lastRun, logged, blocked, result, state, known, rounds, renewals, given, broken>>
  BY DEF Analysis!NextSource, AnalysisInv, AnalysisTyped
<1>2. s \in round.todo /\ s \in Sources
  BY <1>1, FirstIsIn DEF Round
<1> DEFINE op == [round EXCEPT !.todo = @ \ {s}]
<1>3. \/ round' = [op EXCEPT !.pc = "ask", !.now = s, !.attempt = 1]
      \/ round' = [op EXCEPT !.failed = @ \cup {s}]
      \/ round' = op
  BY DEF Analysis!NextSource
<1> HIDE DEF s
<1>4. /\ round' \in Round /\ round'.todo = round.todo \ {s} /\ round'.scheduled = round.scheduled
      /\ round'.answered = round.answered /\ round.failed \subseteq round'.failed
      /\ \/ round'.pc = "ask" /\ round'.now = s /\ round'.attempt = 1
         \/ round'.pc = "next"
  <2>1. op \in Round /\ op.todo = round.todo \ {s} /\ op.scheduled = round.scheduled
        /\ op.answered = round.answered /\ op.failed = round.failed /\ op.pc = "next"
    BY <1>1, <1>2 DEF Round
  <2> HIDE DEF op
  <2>2. CASE round' = [op EXCEPT !.pc = "ask", !.now = s, !.attempt = 1]
    BY <1>2, <2>1, <2>2 DEF Round
  <2>3. CASE round' = [op EXCEPT !.failed = @ \cup {s}]
    BY <1>2, <2>1, <2>3 DEF Round
  <2>4. CASE round' = op
    BY <2>1, <2>4
  <2> QED
    BY <1>3, <2>2, <2>3, <2>4
<1>5. AnalysisTyped'
  BY <1>1, <1>2, <1>4 DEF AnalysisInv, AnalysisTyped
<1>6. RunsAreRemembered'
  BY <1>1, <1>4 DEF AnalysisInv, RunsAreRemembered, Asked
<1>7. PlannedAreDue'
  BY <1>1, <1>2, <1>4 DEF AnalysisInv, PlannedAreDue, Overdue
<1>8. AnswersAgree'
  BY <1>1, SavedStays, AnalysisFacts
<1> QED
  BY <1>5, <1>6, <1>7, <1>8 DEF AnalysisInv

LEMMA AnalysisRefused ==
  ASSUME AnalysisInv, Analysis!Refused
  PROVE  AnalysisInv'
<1>1. /\ round' = Analysis!NoRound
      /\ broken' = broken \cup {s \in Sources : s \in round.answered \cup round.failed \cup {round.now}}
      /\ UNCHANGED <<time, lastRun, logged, blocked, result, state, known, rounds, renewals, given>>
  BY DEF Analysis!Refused
<1>2. AnalysisTyped'
  BY <1>1, NoRoundIsRound DEF AnalysisInv, AnalysisTyped
<1>3. RunsAreRemembered'
  BY <1>1, AnalysisFacts DEF AnalysisInv, RunsAreRemembered, Asked
<1>4. PlannedAreDue'
  BY <1>1, NoRoundIsRound DEF PlannedAreDue
<1>5. AnswersAgree'
  BY <1>1, SavedStays, AnalysisFacts
<1> QED
  BY <1>2, <1>3, <1>4, <1>5 DEF AnalysisInv

(* A call of the source that is being asked is written, or ends.            *)
LEMMA AnalysisCall ==
  ASSUME AnalysisInv, round.pc \in {"ask", "called"},
         logged' = [logged EXCEPT ![round.now] = time],
         UNCHANGED <<time, lastRun, result, state, known, rounds, renewals, given, broken>>,
         round' \in Round, round'.todo = round.todo, round'.scheduled = round.scheduled,
         \A s \in Sources : Asked(s) => Asked(s)',
         round'.pc \in {"next", "ask", "called"},
         round'.pc \in {"ask", "called"} => round'.now = round.now /\ round'.attempt > 0,
         round'.pc = "ask" => round'.attempt # 1
  PROVE  AnalysisInv'
<1>1. round.now \in Sources \ round.todo
  BY DEF AnalysisInv, AnalysisTyped
<1>2. logged' \in [Sources -> Int] /\ logged'[round.now] = time
      /\ \A s \in Sources \ {round.now} : logged'[s] = logged[s]
  BY <1>1, AnalysisFacts
<1>3. AnalysisTyped'
  BY <1>1, <1>2 DEF AnalysisInv, AnalysisTyped
<1>4. RunsAreRemembered'
  <2>1. Asked(round.now)
    BY DEF Asked
  <2> QED
    BY <1>1, <1>2, <2>1, AnalysisFacts DEF AnalysisInv, RunsAreRemembered
<1>5. PlannedAreDue'
  <2>1. round.todo \subseteq Sources \ {round.now}
    BY <1>1, AnalysisFacts DEF Round
  <2> QED
    BY <1>2, <2>1 DEF AnalysisInv, PlannedAreDue, Overdue
<1>6. AnswersAgree'
  BY SavedStays, AnalysisFacts
<1> QED
  BY <1>3, <1>4, <1>5, <1>6 DEF AnalysisInv

LEMMA FailedRound ==
  ASSUME AnalysisInv, round.pc \in {"ask", "called"}
  PROVE  LET r == Analysis!Failed(round) IN
         /\ r \in Round /\ r.todo = round.todo /\ r.scheduled = round.scheduled
         /\ r.pc = "next" /\ r.answered = round.answered /\ r.failed = round.failed \cup {round.now}
<1>1. round \in Round /\ round.now \in Sources
  BY DEF AnalysisInv, AnalysisTyped
<1> QED
  BY <1>1 DEF Analysis!Failed, Round

LEMMA AnalysisReserve ==
  ASSUME AnalysisInv, Analysis!Reserve
  PROVE  AnalysisInv'
<1>1. /\ round.pc = "ask" /\ logged' = [logged EXCEPT ![round.now] = time]
      /\ round' = IF time < blocked THEN Analysis!Failed(round) ELSE [round EXCEPT !.pc = "called"]
      /\ UNCHANGED <<time, lastRun, result, state, known, rounds, renewals, given, broken>>
  BY DEF Analysis!Reserve
<1>2. round \in Round /\ round.attempt > 0
  BY <1>1 DEF AnalysisInv, AnalysisTyped
<1>3. CASE round' = Analysis!Failed(round)
  <2>1. /\ round' \in Round /\ round'.todo = round.todo /\ round'.scheduled = round.scheduled
        /\ round'.pc = "next" /\ round'.answered = round.answered
        /\ round'.failed = round.failed \cup {round.now}
    BY <1>1, <1>3, FailedRound
  <2>2. \A s \in Sources : Asked(s) => Asked(s)'
    BY <2>1 DEF Asked
  <2> QED
    BY <1>1, <2>1, <2>2, AnalysisCall
<1>4. CASE round' = [round EXCEPT !.pc = "called"]
  <2>1. /\ round' \in Round /\ round'.todo = round.todo /\ round'.scheduled = round.scheduled
        /\ round'.pc = "called" /\ round'.answered = round.answered /\ round'.failed = round.failed
        /\ round'.now = round.now /\ round'.attempt = round.attempt
    BY <1>2, <1>4 DEF Round
  <2>2. \A s \in Sources : Asked(s) => Asked(s)'
    BY <1>1, <2>1 DEF Asked
  <2> QED
    BY <1>1, <1>2, <2>1, <2>2, AnalysisCall
<1> QED
  BY <1>1, <1>3, <1>4

LEMMA AnalysisAnswered ==
  ASSUME AnalysisInv, Analysis!Answered
  PROVE  AnalysisInv'
<1>1. /\ round.pc = "called" /\ logged' = [logged EXCEPT ![round.now] = time]
      /\ round' = [round EXCEPT !.pc = "next", !.answered = @ \cup {round.now}]
      /\ UNCHANGED <<time, lastRun, result, state, known, rounds, renewals, given, broken>>
  BY DEF Analysis!Answered, Analysis!Stamp
<1>2. round \in Round /\ round.now \in Sources
  BY <1>1 DEF AnalysisInv, AnalysisTyped
<1>3. /\ round' \in Round /\ round'.todo = round.todo /\ round'.scheduled = round.scheduled
      /\ round'.pc = "next" /\ round'.failed = round.failed
      /\ round'.answered = round.answered \cup {round.now}
  BY <1>1, <1>2 DEF Round
<1>4. \A s \in Sources : Asked(s) => Asked(s)'
  BY <1>3 DEF Asked
<1> QED
  BY <1>1, <1>3, <1>4, AnalysisCall

LEMMA AnalysisMalformed ==
  ASSUME AnalysisInv, Analysis!Malformed
  PROVE  AnalysisInv'
<1>1. /\ round.pc = "called" /\ logged' = [logged EXCEPT ![round.now] = time]
      /\ \/ round' = [round EXCEPT !.pc = "ask", !.attempt = @ + 1]
         \/ round' = Analysis!Failed(round)
      /\ UNCHANGED <<time, lastRun, result, state, known, rounds, renewals, given, broken>>
  BY DEF Analysis!Malformed, Analysis!Stamp
<1>2. round \in Round /\ round.attempt \in Nat /\ round.attempt > 0
  BY <1>1 DEF AnalysisInv, AnalysisTyped, Round
<1>3. CASE round' = Analysis!Failed(round)
  <2>1. /\ round' \in Round /\ round'.todo = round.todo /\ round'.scheduled = round.scheduled
        /\ round'.pc = "next" /\ round'.answered = round.answered
        /\ round'.failed = round.failed \cup {round.now}
    BY <1>1, <1>3, FailedRound
  <2>2. \A s \in Sources : Asked(s) => Asked(s)'
    BY <2>1 DEF Asked
  <2> QED
    BY <1>1, <2>1, <2>2, AnalysisCall
<1>4. CASE round' = [round EXCEPT !.pc = "ask", !.attempt = @ + 1]
  <2>1. /\ round' \in Round /\ round'.todo = round.todo /\ round'.scheduled = round.scheduled
        /\ round'.pc = "ask" /\ round'.answered = round.answered /\ round'.failed = round.failed
        /\ round'.now = round.now /\ round'.attempt = round.attempt + 1
    <3> DEFINE n == round.attempt + 1
    <3>1. n \in Nat
      BY <1>2
    <3>2. round' = [round EXCEPT !.pc = "ask", !.attempt = n]
      BY <1>4
    <3> HIDE DEF n
    <3> QED
      BY <1>2, <3>1, <3>2 DEF Round, n
  <2>2. \A s \in Sources : Asked(s) => Asked(s)'
    BY <1>1, <2>1 DEF Asked
  <2>3. round'.attempt > 0 /\ round'.attempt # 1
    BY <1>2, <2>1
  <2> QED
    BY <1>1, <2>1, <2>2, <2>3, AnalysisCall
<1> QED
  BY <1>1, <1>3, <1>4

LEMMA AnalysisProviderFails ==
  ASSUME AnalysisInv, Analysis!ProviderFails
  PROVE  AnalysisInv'
<1>1. /\ round.pc = "called" /\ logged' = [logged EXCEPT ![round.now] = time]
      /\ round' = Analysis!Failed(round)
      /\ UNCHANGED <<time, lastRun, result, state, known, rounds, renewals, given, broken>>
  BY DEF Analysis!ProviderFails, Analysis!Stamp
<1>2. /\ round' \in Round /\ round'.todo = round.todo /\ round'.scheduled = round.scheduled
      /\ round'.pc = "next" /\ round'.answered = round.answered
      /\ round'.failed = round.failed \cup {round.now}
  BY <1>1, FailedRound
<1>3. \A s \in Sources : Asked(s) => Asked(s)'
  BY <1>2 DEF Asked
<1> QED
  BY <1>1, <1>2, <1>3, AnalysisCall

(* The answers of a round are written over those before it.                 *)
LEMMA AnswersAreSaved ==
  ASSUME NEW f \in Answers, NEW S \in SUBSET Sources, NEW n \in Nat
  PROVE  /\ Analysis!Remembered(f, S, n) \in Answers
         /\ DOMAIN Analysis!Remembered(f, S, n) = DOMAIN f \cup S
         /\ \A s \in DOMAIN f \cup S : Analysis!Remembered(f, S, n)[s] = IF s \in S THEN n ELSE f[s]
         /\ S = {} => Analysis!Remembered(f, S, n) = f
<1> DEFINE g == [s \in DOMAIN f \cup S |-> IF s \in S THEN n ELSE f[s]]
<1>1. DOMAIN f \in SUBSET Sources /\ f \in [DOMAIN f -> Nat]
  BY DEF Answers
<1>2. g \in [DOMAIN f \cup S -> Nat] /\ DOMAIN f \cup S \in SUBSET Sources
  BY <1>1
<1>3. g \in Answers
  <2> HIDE DEF g
  <2> QED
    BY <1>2 DEF Answers
<1>4. S = {} => g = f
  BY <1>1
<1> QED
  BY <1>3, <1>4 DEF Analysis!Remembered

LEMMA AnalysisFinish ==
  ASSUME AnalysisInv, Analysis!Finish
  PROVE  AnalysisInv'
<1> DEFINE A == round.answered
<1> DEFINE B == round.failed \cup round.answered
<1>1. /\ round.pc = "next" /\ round' = Analysis!NoRound
      /\ lastRun' = [s \in DOMAIN lastRun \cup B |-> IF s \in B THEN time ELSE lastRun[s]]
      /\ result' = IF A = {} THEN result ELSE Analysis!Merged(result, A, rounds)
      /\ given' = Analysis!Remembered(given, A, rounds)
      /\ broken' = broken \ B
      /\ UNCHANGED <<time, logged, state, known, rounds, renewals>>
  BY DEF Analysis!Finish, Analysis!Remembered
<1>2. A \in SUBSET Sources /\ B \in SUBSET Sources
  BY AnalysisFacts DEF Round
<1>3. \A s \in Sources : Asked(s) <=> s \in B
  BY <1>1 DEF Asked
<1> HIDE DEF A, B
<1>4. /\ DOMAIN lastRun' \in SUBSET Sources /\ lastRun' \in [DOMAIN lastRun' -> Int]
      /\ \A s \in DOMAIN lastRun' : logged[s] <= lastRun'[s] \/ s \in broken'
  <2>1. \A s \in DOMAIN lastRun \ B : logged[s] <= lastRun[s] \/ s \in broken
    BY <1>3, AnalysisFacts DEF AnalysisInv, RunsAreRemembered
  <2> QED
    BY <1>1, <1>2, <2>1, AnalysisFacts
<1>5. /\ given' \in Answers /\ DOMAIN given' = DOMAIN given \cup A
      /\ \A s \in DOMAIN given \cup A : given'[s] = IF s \in A THEN rounds ELSE given[s]
      /\ A = {} => given' = given
  <2>1. given \in Answers /\ rounds \in Nat
    BY DEF AnalysisInv, AnalysisTyped
  <2> DEFINE g == Analysis!Remembered(given, A, rounds)
  <2>2. /\ g \in Answers /\ DOMAIN g = DOMAIN given \cup A
        /\ \A s \in DOMAIN given \cup A : g[s] = IF s \in A THEN rounds ELSE given[s]
        /\ A = {} => g = given
    BY <1>2, <2>1, AnswersAreSaved
  <2>3. given' = g
    BY <1>1
  <2> HIDE DEF g
  <2> QED
    BY <2>2, <2>3
<1>6. \A s \in DOMAIN given : given[s] \in Nat /\ given[s] <= rounds
  BY AnalysisFacts DEF AnalysisInv, AnswersAgree
<1>7. ASSUME A # {}
      PROVE  /\ result'.sources = given' /\ result' \in Stored
             /\ \A p \in DOMAIN result'.trends : \E s \in DOMAIN given' :
                   /\ PeriodOf[s] = p /\ result'.trends[p] = given'[s]
                   /\ \A t \in DOMAIN given' : PeriodOf[t] = p => given'[t] <= given'[s]
  <2> DEFINE periods == {PeriodOf[s] : s \in A}
  <2>1. result' = Analysis!Merged(result, A, rounds)
    BY <1>1, <1>7
  <2>2. /\ result'.sources = Analysis!Remembered(result.sources, A, rounds)
        /\ result'.trends = [p \in DOMAIN result.trends \cup periods |->
                                IF p \in periods THEN rounds ELSE result.trends[p]]
        /\ result' = [sources |-> result'.sources, trends |-> result'.trends, status |-> "active"]
    BY <2>1 DEF Analysis!Merged, Analysis!Remembered
  <2>3. result.sources = given /\ result.sources \in Answers /\ result.trends \in Trends
    BY DEF AnalysisInv, AnalysisTyped, AnswersAgree, Analysis!AnswersAreKept, Stored
  <2>4. result'.sources = given'
    BY <1>1, <2>2, <2>3
  <2>5. DOMAIN result.trends \in SUBSET {PeriodOf[s] : s \in Sources}
        /\ result.trends \in [DOMAIN result.trends -> Nat]
    BY <2>3 DEF Trends
  <2>6. result'.trends \in Trends
    <3>1. result'.trends \in [DOMAIN result.trends \cup periods -> Nat]
      BY <2>2, <2>5, AnalysisFacts
    <3>2. DOMAIN result.trends \cup periods \in SUBSET {PeriodOf[s] : s \in Sources}
      BY <1>2, <2>5
    <3> HIDE DEF periods
    <3> QED
      BY <3>1, <3>2 DEF Trends
  <2>7. result' \in Stored
    BY <1>5, <2>2, <2>4, <2>6 DEF Stored
  <2>8. ASSUME NEW p \in DOMAIN result'.trends
        PROVE  \E s \in DOMAIN given' :
                 /\ PeriodOf[s] = p /\ result'.trends[p] = given'[s]
                 /\ \A t \in DOMAIN given' : PeriodOf[t] = p => given'[t] <= given'[s]
    <3>1. CASE p \in periods
      <4>1. PICK s \in A : PeriodOf[s] = p
        BY <3>1
      <4>2. s \in DOMAIN given' /\ given'[s] = rounds /\ result'.trends[p] = rounds
        BY <1>5, <2>2, <3>1, <4>1
      <4>3. \A t \in DOMAIN given' : given'[t] <= rounds
        BY <1>5, <1>6, AnalysisFacts
      <4> QED
        BY <4>1, <4>2, <4>3
    <3>2. CASE p \notin periods
      <4>1. p \in DOMAIN result.trends /\ result'.trends[p] = result.trends[p]
        BY <2>2, <2>8, <3>2
      <4>2. PICK s \in DOMAIN given :
               /\ PeriodOf[s] = p /\ result.trends[p] = given[s]
               /\ \A t \in DOMAIN given : PeriodOf[t] = p => given[t] <= given[s]
        BY <4>1 DEF AnalysisInv, AnswersAgree, Analysis!AnswersAreKept
      <4>3. \A t \in Sources : PeriodOf[t] = p => t \notin A
        BY <3>2
      <4> QED
        BY <1>2, <1>5, <4>1, <4>2, <4>3, AnalysisFacts
    <3> QED
      BY <3>1, <3>2
  <2> QED
    BY <2>4, <2>7, <2>8
<1>8. A = {} => result' = result /\ given' = given
  BY <1>1, <1>5
<1>9. AnalysisTyped'
  <2>1. lastRun' \in UNION {[S -> Int] : S \in SUBSET Sources}
    BY <1>4
  <2>2. result' \in Stored
    BY <1>7, <1>8, AnalysisFacts
  <2> QED
    BY <1>1, <1>5, <2>1, <2>2, NoRoundIsRound DEF AnalysisInv, AnalysisTyped
<1>10. RunsAreRemembered'
  BY <1>1, <1>4 DEF RunsAreRemembered
<1>11. PlannedAreDue'
  BY <1>1, NoRoundIsRound DEF PlannedAreDue
<1>12. AnswersAgree'
  <2>1. \A s \in DOMAIN given' : given'[s] <= rounds'
    BY <1>1, <1>5, <1>6, AnalysisFacts
  <2>2. Analysis!AnswersAreKept'
    BY <1>1, <1>5, <1>7, <1>8 DEF AnalysisInv, AnswersAgree, Analysis!AnswersAreKept
  <2> QED
    BY <2>1, <2>2 DEF AnswersAgree
<1> QED
  BY <1>9, <1>10, <1>11, <1>12 DEF AnalysisInv

LEMMA AnalysisTick ==
  ASSUME AnalysisInv, Analysis!Tick
  PROVE  AnalysisInv'
<1>1. time' = time + 1 /\ UNCHANGED <<lastRun, logged, result, state, round, rounds, given, broken>>
  BY DEF Analysis!Tick
<1>2. AnalysisTyped'
  BY <1>1, AnalysisFacts DEF AnalysisInv, AnalysisTyped
<1>3. RunsAreRemembered'
  BY <1>1 DEF AnalysisInv, RunsAreRemembered, Asked
<1>4. \A s \in Sources : Overdue(s) => Overdue(s)'
  BY <1>1, AnalysisFacts DEF Overdue
<1>5. PlannedAreDue'
  <2>1. round.todo \subseteq Sources /\ (round.pc = "ask" => round.now \in Sources)
    BY DEF AnalysisInv, AnalysisTyped, Round
  <2> QED
    BY <1>1, <1>4, <2>1 DEF AnalysisInv, PlannedAreDue
<1>6. AnswersAgree'
  BY <1>1, SavedStays, AnalysisFacts
<1> QED
  BY <1>2, <1>3, <1>5, <1>6 DEF AnalysisInv

LEMMA AnalysisRestart ==
  ASSUME AnalysisInv, Analysis!Restart
  PROVE  AnalysisInv'
<1>1. /\ round' = Analysis!NoRound /\ lastRun' = [s \in {} |-> 0] /\ state' = "closed"
      /\ UNCHANGED <<time, logged, result, rounds, given, broken>>
  BY DEF Analysis!Restart
<1>2. lastRun' \in UNION {[S -> Int] : S \in SUBSET Sources}
  <2>1. lastRun' \in [{} -> Int]
    BY <1>1
  <2> QED
    BY <2>1
<1>3. AnalysisTyped'
  BY <1>1, <1>2, NoRoundIsRound DEF AnalysisInv, AnalysisTyped
<1>4. RunsAreRemembered' /\ PlannedAreDue'
  BY <1>1, NoRoundIsRound DEF RunsAreRemembered, PlannedAreDue
<1>5. AnswersAgree'
  BY <1>1, SavedStays, AnalysisFacts
<1> QED
  BY <1>3, <1>4, <1>5 DEF AnalysisInv

LEMMA AnalysisStep ==
  ASSUME AnalysisInv, [Analysis!Next]_(Analysis!vars)
  PROVE  AnalysisInv'
<1>1. CASE Analysis!Market
  <2>1. UNCHANGED <<time, lastRun, logged, result, round, rounds, given, broken>>
        /\ state' \in {"active", "stale", "closed"}
    BY <1>1 DEF Analysis!Market
  <2> QED
    BY <2>1 DEF AnalysisInv, AnalysisTyped, RunsAreRemembered, Asked, PlannedAreDue, Overdue,
       AnswersAgree, Analysis!AnswersAreKept
<1>2. CASE Analysis!Configure \/ UNCHANGED Analysis!vars
  <2>1. UNCHANGED <<time, lastRun, logged, result, state, round, rounds, given, broken>>
    BY <1>2 DEF Analysis!Configure, Analysis!vars
  <2> QED
    BY <2>1 DEF AnalysisInv, AnalysisTyped, RunsAreRemembered, Asked, PlannedAreDue, Overdue,
       AnswersAgree, Analysis!AnswersAreKept
<1> QED
  BY <1>1, <1>2, AnalysisStart, AnalysisLook, AnalysisNextSource, AnalysisRefused, AnalysisReserve,
     AnalysisAnswered, AnalysisMalformed, AnalysisProviderFails, AnalysisFinish, AnalysisTick,
     AnalysisRestart DEF Analysis!Next

(* What the invariant says of the answers and of the schedule.              *)
LEMMA AnalysisIsSound == AnalysisInv => Analysis!AnswersAreKept /\ Analysis!AskedInInterval
<1> SUFFICES ASSUME AnalysisInv PROVE Analysis!AnswersAreKept /\ Analysis!AskedInInterval
  OBVIOUS
<1>1. Analysis!AnswersAreKept
  BY DEF AnalysisInv, AnswersAgree
<1>2. Analysis!AskedInInterval
  BY DEF AnalysisInv, PlannedAreDue, Overdue, Analysis!AskedInInterval
<1> QED
  BY <1>1, <1>2

----------------------------------------------------------------------------
(* Calls against the quota.                                                 *)

Spent(u, d) == {c \in calls : c.user = u /\ c.scene \in Catalog!Low /\ c.day = d}
Logged(c) == c = [id |-> c.id, user |-> c.user, scene |-> c.scene, model |-> c.model,
                  day |-> c.day, status |-> c.status]
QuotaInv ==
  /\ IsFiniteSet(calls) /\ day \in Nat /\ \A c \in calls : Logged(c)
  /\ \A r \in Requests, d \in Nat : Cardinality(Spent(UserOf[r], d)) <= DailyLimit

LEMMA CatalogCount == \A S : Catalog!Cardinality(S) = Cardinality(S)
  BY DEF Catalog!Cardinality, Cardinality

LEMMA SpentIsFinite ==
  ASSUME QuotaInv, NEW u, NEW d
  PROVE  IsFiniteSet(Spent(u, d)) /\ Cardinality(Spent(u, d)) \in Nat
<1>1. IsFiniteSet(Spent(u, d))
  <2>1. Spent(u, d) \in SUBSET calls
    BY DEF Spent
  <2> QED
    BY <2>1, FS_Subset DEF QuotaInv
<1> QED
  BY <1>1, FS_CardinalityType

LEMMA QuotaInit == Catalog!Init => QuotaInv
<1> SUFFICES ASSUME Catalog!Init PROVE QuotaInv
  OBVIOUS
<1>1. calls = {} /\ day = 1
  BY DEF Catalog!Init
<1>2. \A u, d : Spent(u, d) = {}
  BY <1>1 DEF Spent
<1> QED
  BY <1>1, <1>2, FS_EmptySet, FeedsAssumption DEF QuotaInv

LEMMA QuotaReserve ==
  ASSUME QuotaInv, NEW r \in Requests, Catalog!Reserve(r)
  PROVE  QuotaInv'
<1> DEFINE row == Catalog!Row(r)
<1>1. day' = day
  BY DEF Catalog!Reserve, Catalog!Asking
<1>2. CASE UNCHANGED calls
  BY <1>1, <1>2 DEF QuotaInv, Spent, Logged
<1>3. CASE /\ calls' = calls \cup {row}
           /\ ~(row.scene \in Catalog!Low /\ Cardinality(Spent(UserOf[r], day)) >= DailyLimit)
  <2>1. Logged(row) /\ row.user = UserOf[r] /\ row.day = day
    BY DEF Catalog!Row, Logged
  <2> HIDE DEF row
  <2>2. IsFiniteSet(calls')
    BY <1>3, FS_AddElement DEF QuotaInv
  <2>3. \A c \in calls' : Logged(c)
    BY <1>3, <2>1 DEF QuotaInv
  <2>4. ASSUME NEW q \in Requests, NEW d \in Nat
        PROVE  Cardinality(Spent(UserOf[q], d)') <= DailyLimit
    <3> DEFINE old == Spent(UserOf[q], d)
    <3>1. IsFiniteSet(old) /\ Cardinality(old) \in Nat /\ Cardinality(old) <= DailyLimit
      BY SpentIsFinite DEF QuotaInv
    <3>2. CASE row.user = UserOf[q] /\ row.scene \in Catalog!Low /\ row.day = d
      <4>1. Spent(UserOf[q], d)' = old \cup {row}
        BY <1>3, <3>2 DEF Spent
      <4>2. old = Spent(UserOf[r], day)
        BY <2>1, <3>2
      <4>3. ~(Cardinality(old) >= DailyLimit)
        BY <1>3, <3>2, <4>2
      <4> HIDE DEF old
      <4>4. Cardinality(old \cup {row}) <= Cardinality(old) + 1
        BY <3>1, FS_AddElement
      <4>5. Cardinality(old \cup {row}) \in Nat
        BY <3>1, FS_AddElement, FS_CardinalityType
      <4> QED
        BY <3>1, <4>1, <4>3, <4>4, <4>5, FeedsAssumption
    <3>3. CASE ~(row.user = UserOf[q] /\ row.scene \in Catalog!Low /\ row.day = d)
      <4>1. Spent(UserOf[q], d)' = old
        BY <1>3, <3>3 DEF Spent
      <4> QED
        BY <3>1, <4>1
    <3> QED
      BY <3>2, <3>3
  <2> QED
    BY <1>1, <2>2, <2>3, <2>4 DEF QuotaInv
<1> QED
  <2>1. Catalog!CallsToday(UserOf[r]) = Spent(UserOf[r], day) /\ row.scene = caller[r].scene
    BY DEF Catalog!CallsToday, Spent, Catalog!Row
  <2> QED
    BY <1>2, <1>3, <2>1, CatalogCount DEF Catalog!Reserve

LEMMA QuotaFinish ==
  ASSUME QuotaInv, NEW r \in Requests, Catalog!Finish(r)
  PROVE  QuotaInv'
<1>1. PICK status : calls' = {IF c.id = caller[r].id THEN [c EXCEPT !.status = status] ELSE c : c \in calls}
  BY DEF Catalog!Finish
<1>2. day' = day
  BY DEF Catalog!Finish, Catalog!Asking
<1> DEFINE f == [c \in calls |-> IF c.id = caller[r].id THEN [c EXCEPT !.status = status] ELSE c]
<1>3. \A c \in calls : /\ Logged(f[c]) /\ f[c].user = c.user /\ f[c].scene = c.scene /\ f[c].day = c.day
                       /\ f[c] \in calls'
  BY <1>1 DEF QuotaInv, Logged
<1>4. \A e \in calls' : \E c \in calls : e = f[c]
  BY <1>1
<1>5. DOMAIN f = calls
  OBVIOUS
<1> HIDE DEF f
<1>6. ASSUME NEW u, NEW d PROVE Cardinality(Spent(u, d)') <= Cardinality(Spent(u, d))
  <2> DEFINE S == Spent(u, d)
  <2> DEFINE T == Spent(u, d)'
  <2> DEFINE g == [c \in S |-> f[c]]
  <2>1. g \in Surjection(S, T)
    <3>1. \A c \in S : f[c] \in T
      BY <1>3 DEF Spent
    <3>2. \A e \in T : \E c \in S : e = f[c]
      BY <1>3, <1>4 DEF Spent
    <3> HIDE DEF S, T
    <3> QED
      BY <3>1, <3>2 DEF Surjection
  <2>2. IsFiniteSet(S)
    BY SpentIsFinite
  <2> HIDE DEF S, T, g
  <2>3. Cardinality(T) <= Cardinality(S)
    BY <2>1, <2>2, FS_Surjection
  <2> QED
    BY <2>3 DEF S, T
<1>7. IsFiniteSet(calls')
  <2>1. f \in Surjection(calls, calls')
    BY <1>3, <1>4, <1>5 DEF Surjection, f
  <2> QED
    BY <2>1, FS_Surjection DEF QuotaInv
<1>8. \A c \in calls' : Logged(c)
  BY <1>3, <1>4
<1>9. ASSUME NEW q \in Requests, NEW d \in Nat
      PROVE  Cardinality(Spent(UserOf[q], d)') <= DailyLimit
  <2>1. IsFiniteSet(Spent(UserOf[q], d)')
    <3>1. Spent(UserOf[q], d)' \in SUBSET calls'
      BY DEF Spent
    <3> QED
      BY <1>7, <3>1, FS_Subset
  <2>2. Cardinality(Spent(UserOf[q], d)') \in Nat
    BY <2>1, FS_CardinalityType
  <2>3. Cardinality(Spent(UserOf[q], d)) \in Nat /\ Cardinality(Spent(UserOf[q], d)) <= DailyLimit
    BY SpentIsFinite DEF QuotaInv
  <2>4. Cardinality(Spent(UserOf[q], d)') <= Cardinality(Spent(UserOf[q], d))
    BY <1>6
  <2> QED
    BY <2>2, <2>3, <2>4, FeedsAssumption
<1> QED
  BY <1>2, <1>7, <1>8, <1>9 DEF QuotaInv

LEMMA QuotaIsKept == QuotaInv => Catalog!QuotaKept
<1> SUFFICES ASSUME QuotaInv PROVE Catalog!QuotaKept
  OBVIOUS
<1>1. ASSUME NEW r \in Requests, NEW d \in 1..MaxDays
      PROVE  Catalog!Cardinality({c \in calls : c.user = UserOf[r] /\ c.scene \in Catalog!Low /\ c.day = d})
               <= DailyLimit
  <2>1. d \in Nat
    OBVIOUS
  <2> QED
    BY <2>1, CatalogCount DEF QuotaInv, Spent
<1> QED
  BY <1>1 DEF Catalog!QuotaKept

----------------------------------------------------------------------------
(* The references to models.                                                *)

SceneNames == {"signal", "prompt"}
SceneRow == [open : BOOLEAN, models : SUBSET Models, default : Models \cup {0}]
Works == UNION {[D -> SceneRow] : D \in SUBSET SceneNames}
Synchronising == {"announce", "compare", "enable", "config", "scenes", "bindings"}
Writing == {"update", "delete", "insert"}
Operation == [pc : Synchronising \cup Writing \cup {"idle", "on", "off"}, ids : SUBSET Models,
              todo : SUBSET Models, valid : SUBSET Models, fallback : Models \cup {0}, work : Works]

(* What an operation knows at each of its statements.                       *)
Formed(op) ==
  /\ op.pc \in {"idle", "on", "off"} => op.ids = {}
  /\ op.pc \in Synchronising => op.ids # {}
  /\ op.pc = "announce" => op.todo # {}
  /\ op.pc \in {"on", "off"} => op.fallback \in Models
  /\ op.ids # {} /\ op.pc \notin {"announce", "compare"} => op.fallback \in Models
  /\ op.pc \in {"delete", "insert"} => DOMAIN op.work # {}

CatalogTyped ==
  /\ rows \in [Models -> [available : BOOLEAN, enabled : BOOLEAN]]
  /\ config \in Models /\ binding \in Models
  /\ scenes \in [SceneNames -> SceneRow]
  /\ admin \in [Admins -> Operation] /\ \A a \in Admins : Formed(admin[a])
  /\ repair \in {"none", "begun", "whole"}

(* A list of models one may use, with its default.                          *)
SoundScene(row) == row.models # {} /\ row.models \subseteq Catalog!Valid /\ row.default \in row.models

(* The rows of the scenes are being written: those that are left to write   *)
(* will be sound, the others are, and the one in hand is half written.      *)
Writes(op) ==
  LET s == Catalog!Current(op) IN
  /\ \A t \in SceneNames : IF t \in DOMAIN op.work THEN SoundScene(op.work[t]) ELSE SoundScene(scenes[t])
  /\ op.pc \in {"delete", "insert"} => scenes[s].default = op.work[s].default
  /\ op.pc = "insert" => op.todo \subseteq op.work[s].models /\ scenes[s].models = op.work[s].models \ op.todo

(* How far an operation that nothing disturbs has come.                     *)
Follow(op) ==
  /\ op.pc = "announce" => \A m \in op.ids \ op.todo : rows[m].available
  /\ op.pc = "compare" => \A m \in op.ids : rows[m].available
  /\ op.pc = "enable" => op.valid \subseteq Catalog!Valid /\ rows[op.fallback].available
  /\ op.ids # {} /\ op.pc \notin {"announce", "compare", "enable"} =>
       op.valid \subseteq Catalog!Valid /\ op.fallback \in Catalog!Valid
  /\ op.pc \in {"scenes", "bindings"} \cup Writing => config \in Catalog!Valid
  /\ op.pc \in {"on", "bindings"} => \A s \in SceneNames : SoundScene(scenes[s])
  /\ op.pc \in Writing => Writes(op)
Undisturbed(op) == op.pc # "idle" /\ (repair = "whole" \/ (repair = "begun" /\ op.ids # {}))

OneAdmin == repair # "none" => \A a, b \in Admins : admin[a].pc # "idle" /\ admin[b].pc # "idle" => a = b
RepairFollows == \A a \in Admins : Undisturbed(admin[a]) => Follow(admin[a])
WholeIsSound == repair = "whole" =>
  /\ config \in Catalog!Valid /\ binding \in Catalog!Valid
  /\ \A a \in Admins : admin[a].ids = {} /\ admin[a].pc \in {"idle", "on"} \cup Writing
  /\ (\A a \in Admins : admin[a].pc = "idle") => \A s \in SceneNames : SoundScene(scenes[s])

CatalogInv == CatalogTyped /\ OneAdmin /\ RepairFollows /\ WholeIsSound

LEMMA IdleOperation ==
  /\ Catalog!Idle \in Operation /\ Catalog!Idle.pc = "idle" /\ Catalog!Idle.ids = {}
  /\ Catalog!Idle.todo = {} /\ Catalog!Idle.valid = {} /\ Catalog!Idle.fallback = 0
  /\ DOMAIN Catalog!Idle.work = {} /\ Formed(Catalog!Idle)
<1>1. <<>> \in [{} -> SceneRow] /\ DOMAIN <<>> = {}
  OBVIOUS
<1>2. <<>> \in Works
  BY <1>1 DEF Works
<1>3. /\ Catalog!Idle \in Operation /\ Catalog!Idle.pc = "idle" /\ Catalog!Idle.ids = {}
      /\ Catalog!Idle.todo = {} /\ Catalog!Idle.valid = {} /\ Catalog!Idle.fallback = 0
      /\ Catalog!Idle.work = <<>>
  BY <1>2 DEF Catalog!Idle, Catalog!NoModel, Operation
<1> QED
  BY <1>1, <1>3 DEF Formed, Synchronising

LEMMA CatalogInit == Catalog!Init => CatalogInv
<1> SUFFICES ASSUME Catalog!Init PROVE CatalogInv
  OBVIOUS
<1>1. /\ rows = [m \in Models |-> [available |-> TRUE, enabled |-> m = 1]]
      /\ config = 1 /\ binding = 1 /\ admin = [a \in Admins |-> Catalog!Idle] /\ repair = "none"
      /\ scenes = [s \in SceneNames |-> [open |-> TRUE, models |-> IF s = "signal" THEN {1} ELSE {},
                                         default |-> IF s = "signal" THEN 1 ELSE 0]]
  BY DEF Catalog!Init, Catalog!Scenes, Catalog!NoModel, SceneNames
<1>2. 1 \in Models
  BY FeedsAssumption
<1>3. CatalogTyped
  <2>1. scenes \in [SceneNames -> SceneRow]
    BY <1>1, <1>2 DEF SceneRow
  <2>2. rows \in [Models -> [available : BOOLEAN, enabled : BOOLEAN]]
    BY <1>1
  <2> QED
    BY <1>1, <1>2, <2>1, <2>2, IdleOperation DEF CatalogTyped
<1> QED
  BY <1>1, <1>3, IdleOperation DEF CatalogInv, OneAdmin, RepairFollows, Undisturbed, WholeIsSound

LEMMA OperationMoves ==
  ASSUME CatalogTyped, NEW a \in Admins, NEW op \in Operation, Catalog!Op(a, op)
  PROVE  /\ admin' \in [Admins -> Operation]
         /\ admin'[a] = op /\ \A b \in Admins \ {a} : admin'[b] = admin[b]
  BY DEF CatalogTyped, Catalog!Op

(* A step of an operation: it is alone, or nothing is repaired.             *)
LEMMA OperationStep ==
  ASSUME CatalogInv, NEW a \in Admins,
         \A b \in Admins \ {a} : admin'[b] = admin[b],
         rows' \in [Models -> [available : BOOLEAN, enabled : BOOLEAN]],
         config' \in Models, binding' \in Models, scenes' \in [SceneNames -> SceneRow],
         admin' \in [Admins -> Operation], Formed(admin'[a]),
         repair' \in {"none", "begun", "whole"},
         repair' # "none" => \A b \in Admins \ {a} : admin[b].pc = "idle",
         Undisturbed(admin[a])' => Follow(admin[a])',
         repair' = "whole" =>
           /\ config' \in Catalog!Valid' /\ binding' \in Catalog!Valid'
           /\ admin'[a].ids = {} /\ admin'[a].pc \in {"idle", "on"} \cup Writing
           /\ admin'[a].pc = "idle" => \A s \in SceneNames : SoundScene(scenes[s])'
  PROVE  CatalogInv'
<1>1. CatalogTyped'
  <2>1. \A b \in Admins : Formed(admin'[b])
    BY DEF CatalogInv, CatalogTyped
  <2> QED
    BY <2>1 DEF CatalogTyped, Formed
<1>2. repair' # "none" => \A b \in Admins \ {a} : admin'[b].pc = "idle" /\ admin'[b].ids = {}
  BY DEF CatalogInv, CatalogTyped, Formed
<1>3. OneAdmin'
  BY <1>2 DEF OneAdmin
<1>4. RepairFollows'
  <2> SUFFICES ASSUME NEW b \in Admins, Undisturbed(admin[b])' PROVE Follow(admin[b])'
    BY DEF RepairFollows
  <2>1. b = a
    BY <1>2 DEF Undisturbed
  <2> QED
    BY <2>1
<1>5. WholeIsSound'
  BY <1>2 DEF WholeIsSound
<1> QED
  BY <1>1, <1>3, <1>4, <1>5 DEF CatalogInv

(* An operation that is not the first statement of one.                     *)
LEMMA OperationIsAlone ==
  ASSUME CatalogInv, NEW a \in Admins, admin[a].pc # "idle", repair # "none"
  PROVE  \A b \in Admins \ {a} : admin[b].pc = "idle"
  BY DEF CatalogInv, OneAdmin

LEMMA FirstModelIsIn ==
  ASSUME NEW S \in SUBSET Models, S # {}
  PROVE  Catalog!First(S) \in S
<1>1. \E x \in S : \A y \in S : x <= y
  BY FeedsAssumption, NumbersHaveLeast
<1> QED
  BY <1>1 DEF Catalog!First

LEMMA CurrentIsIn ==
  ASSUME NEW op \in Operation, DOMAIN op.work # {}
  PROVE  /\ Catalog!Current(op) \in DOMAIN op.work /\ Catalog!Current(op) \in SceneNames
         /\ op.work[Catalog!Current(op)] \in SceneRow
<1>1. DOMAIN op.work \in SUBSET SceneNames /\ op.work \in [DOMAIN op.work -> SceneRow]
  BY DEF Operation, Works
<1>2. Catalog!Current(op) \in DOMAIN op.work
  BY <1>1 DEF Catalog!Current, SceneNames
<1> QED
  BY <1>1, <1>2

LEMMA RepairedIsSound ==
  ASSUME NEW row \in SceneRow, NEW op \in Operation, op.fallback \in Models
  PROVE  LET new == Catalog!Repaired(row, op) IN
         /\ new \in SceneRow /\ new.models # {} /\ new.default \in new.models
         /\ new.models \subseteq op.valid \cup {op.fallback}
<1> DEFINE list == {Catalog!Pick(m, op) : m \in row.models} \cup (IF row.models = {} THEN {op.fallback} ELSE {})
<1> DEFINE default == Catalog!Pick(row.default, op)
<1> DEFINE chosen == IF default \in list THEN default ELSE Catalog!First(list)
<1>1. list # {} /\ list \subseteq op.valid \cup {op.fallback} /\ list \in SUBSET Models
  BY DEF Catalog!Pick, Operation
<1>2. chosen \in list
  <2> HIDE DEF list
  <2> QED
    BY <1>1, FirstModelIsIn
<1>3. Catalog!Repaired(row, op) = [row EXCEPT !.models = list, !.default = chosen]
  BY DEF Catalog!Repaired
<1>4. list \in SUBSET Models /\ chosen \in Models \cup {0}
  BY <1>1, <1>2
<1> HIDE DEF list, default, chosen
<1> DEFINE new == [row EXCEPT !.models = list, !.default = chosen]
<1>5. new \in SceneRow /\ new.models = list /\ new.default = chosen
  BY <1>4 DEF SceneRow
<1> QED
  BY <1>1, <1>2, <1>3, <1>5

LEMMA FallbackIsIn ==
  ASSUME NEW preferred \in Models, NEW ids \in SUBSET Models, ids # {}, NEW valid \in SUBSET ids
  PROVE  Catalog!Fallback(preferred, ids, valid) \in ids
  BY FirstModelIsIn DEF Catalog!Fallback

(* The first statements: what an operation is when it begins.               *)
LEMMA BeginningAlone ==
  ASSUME CatalogInv, NEW a \in Admins, NEW then, Catalog!Begin(a, then)
  PROVE  /\ repair' = then \/ repair' = "none"
         /\ repair' # "none" => \A b \in Admins : admin[b].pc = "idle"
  BY DEF Catalog!Begin, Catalog!Alone

LEMMA WithdrawKeeps ==
  ASSUME CatalogInv, NEW a \in Admins, Catalog!Withdraw(a)
  PROVE  CatalogInv'
<1>1. PICK ids \in (SUBSET Models) \ {{}} :
        Catalog!Op(a, [Catalog!Idle EXCEPT !.pc = "announce", !.ids = ids, !.todo = ids])
  BY DEF Catalog!Withdraw
<1> DEFINE op == [Catalog!Idle EXCEPT !.pc = "announce", !.ids = ids, !.todo = ids]
<1>2. op \in Operation /\ op.pc = "announce" /\ op.ids = ids /\ op.todo = ids
  BY IdleOperation DEF Operation, Synchronising
<1>3. Catalog!Op(a, op)
  BY <1>1
<1> HIDE DEF op
<1>4. /\ admin' \in [Admins -> Operation] /\ admin'[a] = op
      /\ \A b \in Admins \ {a} : admin'[b] = admin[b]
  BY <1>2, <1>3, OperationMoves DEF CatalogInv
<1>5. /\ rows' \in [Models -> [available : BOOLEAN, enabled : BOOLEAN]]
      /\ config' = config /\ binding' = binding /\ scenes' = scenes
  BY DEF Catalog!Withdraw, CatalogInv, CatalogTyped
<1>6. /\ repair' = "begun" \/ repair' = "none"
      /\ repair' # "none" => \A b \in Admins : admin[b].pc = "idle"
  BY BeginningAlone DEF Catalog!Withdraw
<1>7. Formed(admin'[a])
  BY <1>2, <1>4 DEF Formed, Synchronising, Writing
<1>8. Follow(admin[a])'
  BY <1>2, <1>4 DEF Follow, Writing
<1> QED
  BY <1>4, <1>5, <1>6, <1>7, <1>8, OperationStep DEF CatalogInv, CatalogTyped

(* Where an operation that is under way stands.                             *)
LEMMA UnderWay ==
  ASSUME CatalogInv, NEW a \in Admins, admin[a].pc # "idle"
  PROVE  /\ admin[a] \in Operation /\ Formed(admin[a])
         /\ repair # "none" => \A b \in Admins \ {a} : admin[b].pc = "idle"
         /\ repair = "whole" => admin[a].ids = {} /\ admin[a].pc \in {"on"} \cup Writing
         /\ repair = "whole" => config \in Catalog!Valid /\ binding \in Catalog!Valid
         /\ repair = "whole" \/ (repair = "begun" /\ admin[a].ids # {}) => Follow(admin[a])
         /\ repair \in {"none", "begun", "whole"}
  BY OperationIsAlone DEF CatalogInv, CatalogTyped, WholeIsSound, RepairFollows, Undisturbed

LEMMA AnnounceKeeps ==
  ASSUME CatalogInv, NEW a \in Admins, Catalog!Announce(a)
  PROVE  CatalogInv'
<1> DEFINE op == admin[a]
<1> DEFINE m == Catalog!First(op.todo)
<1> DEFINE new == [op EXCEPT !.todo = @ \ {m}, !.pc = IF op.todo = {m} THEN "compare" ELSE "announce"]
<1>1. op.pc = "announce" /\ rows' = [rows EXCEPT ![m].available = TRUE] /\ Catalog!Op(a, new)
      /\ config' = config /\ binding' = binding /\ scenes' = scenes /\ repair' = repair
  BY DEF Catalog!Announce, Catalog!On
<1>2. op \in Operation /\ Formed(op)
  BY <1>1, UnderWay
<1>3. m \in op.todo /\ op.todo \in SUBSET Models /\ op.ids # {}
  <2>1. op.todo # {} /\ op.todo \in SUBSET Models /\ op.ids # {}
    BY <1>1, <1>2 DEF Formed, Operation, Synchronising
  <2> QED
    BY <2>1, FirstModelIsIn
<1> HIDE DEF m
<1>4. /\ new \in Operation /\ new.ids = op.ids /\ new.todo = op.todo \ {m}
      /\ new.pc = IF op.todo = {m} THEN "compare" ELSE "announce"
  BY <1>2, <1>3 DEF Operation, Synchronising
<1> HIDE DEF new
<1>5. /\ admin' \in [Admins -> Operation] /\ admin'[a] = new
      /\ \A b \in Admins \ {a} : admin'[b] = admin[b]
  BY <1>1, <1>4, OperationMoves DEF CatalogInv
<1>6. /\ rows' \in [Models -> [available : BOOLEAN, enabled : BOOLEAN]]
      /\ rows'[m].available /\ \A n \in Models : rows[n].available => rows'[n].available
  BY <1>1, <1>3 DEF CatalogInv, CatalogTyped
<1>7. new.pc \in {"compare", "announce"} /\ (new.pc = "announce" => new.todo # {})
  BY <1>3, <1>4
<1>8. Formed(admin'[a])
  BY <1>3, <1>4, <1>5, <1>7 DEF Formed, Synchronising, Writing
<1>9. Undisturbed(admin[a])' => Follow(admin[a])'
  <2> SUFFICES ASSUME repair = "begun" PROVE Follow(admin[a])'
    BY <1>1, UnderWay DEF Undisturbed, Writing
  <2>1. \A n \in op.ids \ op.todo : rows[n].available
    BY <1>1, <1>3, UnderWay DEF Follow
  <2>2. op.ids \in SUBSET Models
    BY <1>2 DEF Operation
  <2>3. \A n \in new.ids \ new.todo : rows'[n].available
    BY <1>4, <1>6, <2>1, <2>2
  <2>4. new.pc = "compare" => new.todo = {}
    BY <1>4
  <2> QED
    BY <1>5, <1>7, <2>3, <2>4 DEF Follow, Writing
<1> QED
  BY <1>1, <1>5, <1>6, <1>8, <1>9, UnderWay, OperationStep DEF CatalogInv, CatalogTyped, Writing

LEMMA CompareKeeps ==
  ASSUME CatalogInv, NEW a \in Admins, Catalog!Compare(a)
  PROVE  CatalogInv'
<1> DEFINE op == admin[a]
<1> DEFINE valid == op.ids \cap Catalog!Valid
<1> DEFINE fallback == Catalog!Fallback(config, op.ids, valid)
<1> DEFINE new == [op EXCEPT !.valid = valid, !.pc = "enable", !.fallback = fallback]
<1>1. op.pc = "compare" /\ Catalog!Op(a, new) /\ repair' = repair
      /\ rows' = rows /\ config' = config /\ binding' = binding /\ scenes' = scenes
  BY DEF Catalog!Compare, Catalog!On, Catalog!catalogVars
<1>2. op \in Operation /\ Formed(op)
  BY <1>1, UnderWay
<1>3. op.ids \in SUBSET Models /\ op.ids # {} /\ config \in Models
  BY <1>1, <1>2 DEF Formed, Operation, Synchronising, CatalogInv, CatalogTyped
<1>4. valid \in SUBSET op.ids /\ valid \subseteq Catalog!Valid /\ valid \in SUBSET Models
  BY <1>3
<1> HIDE DEF valid
<1>5. fallback \in op.ids /\ fallback \in Models
  BY <1>3, <1>4, FallbackIsIn
<1> HIDE DEF fallback
<1>6. /\ new \in Operation /\ new.ids = op.ids /\ new.pc = "enable" /\ new.valid = valid
      /\ new.fallback = fallback
  BY <1>2, <1>4, <1>5 DEF Operation, Synchronising
<1> HIDE DEF new
<1>7. /\ admin' \in [Admins -> Operation] /\ admin'[a] = new
      /\ \A b \in Admins \ {a} : admin'[b] = admin[b]
  BY <1>1, <1>6, OperationMoves DEF CatalogInv
<1>8. Formed(admin'[a])
  BY <1>3, <1>5, <1>6, <1>7 DEF Formed, Synchronising, Writing
<1>9. Undisturbed(admin[a])' => Follow(admin[a])'
  <2> SUFFICES ASSUME repair = "begun" PROVE Follow(admin[a])'
    BY <1>1, UnderWay DEF Undisturbed, Writing
  <2>1. \A n \in op.ids : rows[n].available
    BY <1>1, <1>3, UnderWay DEF Follow
  <2>2. Catalog!Valid' = Catalog!Valid
    BY <1>1 DEF Catalog!Valid
  <2> QED
    BY <1>1, <1>4, <1>5, <1>6, <1>7, <2>1, <2>2 DEF Follow, Writing
<1> QED
  BY <1>1, <1>7, <1>8, <1>9, UnderWay, OperationStep DEF CatalogInv, CatalogTyped, Writing

(* A model that is enabled disturbs no reference.                           *)
LEMMA EnablingGrows ==
  ASSUME CatalogInv, NEW m \in Models, rows' = [rows EXCEPT ![m].enabled = TRUE]
  PROVE  /\ rows' \in [Models -> [available : BOOLEAN, enabled : BOOLEAN]]
         /\ Catalog!Valid \subseteq Catalog!Valid' /\ (rows[m].available => m \in Catalog!Valid')
<1>1. /\ rows' \in [Models -> [available : BOOLEAN, enabled : BOOLEAN]]
      /\ rows'[m].enabled /\ \A n \in Models : /\ rows'[n].available = rows[n].available
                                                /\ rows[n].enabled => rows'[n].enabled
  BY DEF CatalogInv, CatalogTyped
<1> QED
  BY <1>1 DEF Catalog!Valid

LEMMA EnableFallbackKeeps ==
  ASSUME CatalogInv, NEW a \in Admins, Catalog!EnableFallback(a)
  PROVE  CatalogInv'
<1> DEFINE op == admin[a]
<1> DEFINE new == [op EXCEPT !.pc = "config"]
<1>1. op.pc = "enable" /\ Catalog!Op(a, new) /\ repair' = repair
      /\ rows' = [rows EXCEPT ![op.fallback].enabled = TRUE]
      /\ config' = config /\ binding' = binding /\ scenes' = scenes
  BY DEF Catalog!EnableFallback, Catalog!On, Catalog!Goto
<1>2. op \in Operation /\ Formed(op)
  BY <1>1, UnderWay
<1>3. op.fallback \in Models /\ op.ids # {}
  BY <1>1, <1>2 DEF Formed, Synchronising
<1>4. /\ new \in Operation /\ new.ids = op.ids /\ new.pc = "config" /\ new.valid = op.valid
      /\ new.fallback = op.fallback
  BY <1>2 DEF Operation, Synchronising
<1> HIDE DEF new
<1>5. /\ admin' \in [Admins -> Operation] /\ admin'[a] = new
      /\ \A b \in Admins \ {a} : admin'[b] = admin[b]
  BY <1>1, <1>4, OperationMoves DEF CatalogInv
<1>6. /\ rows' \in [Models -> [available : BOOLEAN, enabled : BOOLEAN]]
      /\ Catalog!Valid \subseteq Catalog!Valid'
      /\ (rows[op.fallback].available => op.fallback \in Catalog!Valid')
  BY <1>1, <1>3, EnablingGrows
<1>7. Formed(admin'[a])
  BY <1>3, <1>4, <1>5 DEF Formed, Synchronising, Writing
<1>8. Undisturbed(admin[a])' => Follow(admin[a])'
  <2> SUFFICES ASSUME repair = "begun" PROVE Follow(admin[a])'
    BY <1>1, UnderWay DEF Undisturbed, Writing
  <2>1. op.valid \subseteq Catalog!Valid /\ rows[op.fallback].available
    BY <1>1, <1>3, UnderWay DEF Follow
  <2> QED
    BY <1>4, <1>5, <1>6, <2>1 DEF Follow, Writing
<1> QED
  BY <1>1, <1>5, <1>6, <1>7, <1>8, UnderWay, OperationStep DEF CatalogInv, CatalogTyped, Writing

LEMMA RepairConfigKeeps ==
  ASSUME CatalogInv, NEW a \in Admins, Catalog!RepairConfig(a)
  PROVE  CatalogInv'
<1> DEFINE op == admin[a]
<1> DEFINE new == [op EXCEPT !.pc = "scenes"]
<1>1. op.pc = "config" /\ Catalog!Op(a, new) /\ repair' = repair
      /\ config' = Catalog!Pick(config, op)
      /\ rows' = rows /\ binding' = binding /\ scenes' = scenes
  BY DEF Catalog!RepairConfig, Catalog!On, Catalog!Goto
<1>2. op \in Operation /\ Formed(op)
  BY <1>1, UnderWay
<1>3. op.fallback \in Models /\ op.ids # {} /\ op.valid \in SUBSET Models
  BY <1>1, <1>2 DEF Formed, Synchronising, Operation
<1>4. /\ new \in Operation /\ new.ids = op.ids /\ new.pc = "scenes" /\ new.valid = op.valid
      /\ new.fallback = op.fallback
  BY <1>2 DEF Operation, Synchronising
<1> HIDE DEF new
<1>5. /\ admin' \in [Admins -> Operation] /\ admin'[a] = new
      /\ \A b \in Admins \ {a} : admin'[b] = admin[b]
  BY <1>1, <1>4, OperationMoves DEF CatalogInv
<1>6. config' \in Models /\ config' \in op.valid \cup {op.fallback}
  BY <1>1, <1>3 DEF Catalog!Pick
<1>7. Formed(admin'[a])
  BY <1>3, <1>4, <1>5 DEF Formed, Synchronising, Writing
<1>8. Undisturbed(admin[a])' => Follow(admin[a])'
  <2> SUFFICES ASSUME repair = "begun" PROVE Follow(admin[a])'
    BY <1>1, UnderWay DEF Undisturbed, Writing
  <2>1. op.valid \subseteq Catalog!Valid /\ op.fallback \in Catalog!Valid
    BY <1>1, <1>3, UnderWay DEF Follow
  <2>2. Catalog!Valid' = Catalog!Valid
    BY <1>1 DEF Catalog!Valid
  <2> QED
    BY <1>4, <1>5, <1>6, <2>1, <2>2 DEF Follow, Writing
<1> QED
  BY <1>1, <1>5, <1>6, <1>7, <1>8, UnderWay, OperationStep DEF CatalogInv, CatalogTyped, Writing

LEMMA ReadScenesKeeps ==
  ASSUME CatalogInv, NEW a \in Admins, Catalog!ReadScenes(a)
  PROVE  CatalogInv'
<1> DEFINE op == admin[a]
<1> DEFINE wrong == {s \in SceneNames : Catalog!Repaired(scenes[s], op) # scenes[s]}
<1> DEFINE work == [s \in wrong |-> Catalog!Repaired(scenes[s], op)]
<1> DEFINE new == [op EXCEPT !.pc = "update", !.work = work]
<1>1. op.pc = "scenes" /\ Catalog!Op(a, new) /\ repair' = repair
      /\ rows' = rows /\ config' = config /\ binding' = binding /\ scenes' = scenes
  BY DEF Catalog!ReadScenes, Catalog!On, Catalog!catalogVars, Catalog!Scenes, SceneNames
<1>2. op \in Operation /\ Formed(op)
  BY <1>1, UnderWay
<1>3. op.fallback \in Models /\ op.ids # {} /\ op.valid \in SUBSET Models
  BY <1>1, <1>2 DEF Formed, Synchronising, Operation
<1>4. ASSUME NEW s \in SceneNames
      PROVE  LET fixed == Catalog!Repaired(scenes[s], op) IN
             /\ fixed \in SceneRow /\ fixed.models # {} /\ fixed.default \in fixed.models
             /\ fixed.models \subseteq op.valid \cup {op.fallback}
  <2>1. scenes[s] \in SceneRow
    BY DEF CatalogInv, CatalogTyped
  <2> QED
    BY <1>2, <1>3, <2>1, RepairedIsSound
<1>5. work \in [wrong -> SceneRow] /\ wrong \in SUBSET SceneNames
  BY <1>4
<1>6. work \in Works /\ DOMAIN work = wrong
  BY <1>5 DEF Works
<1>7. \A t \in SceneNames : IF t \in wrong THEN work[t] = Catalog!Repaired(scenes[t], op)
                                             ELSE scenes[t] = Catalog!Repaired(scenes[t], op)
  OBVIOUS
<1> HIDE DEF wrong, work
<1>8. /\ new \in Operation /\ new.ids = op.ids /\ new.pc = "update" /\ new.valid = op.valid
      /\ new.fallback = op.fallback /\ new.work = work
  BY <1>2, <1>6 DEF Operation, Writing
<1> HIDE DEF new
<1>9. /\ admin' \in [Admins -> Operation] /\ admin'[a] = new
      /\ \A b \in Admins \ {a} : admin'[b] = admin[b]
  BY <1>1, <1>8, OperationMoves DEF CatalogInv
<1>10. Formed(admin'[a])
  BY <1>3, <1>8, <1>9 DEF Formed, Synchronising, Writing
<1>11. Undisturbed(admin[a])' => Follow(admin[a])'
  <2> SUFFICES ASSUME repair = "begun" PROVE Follow(admin[a])'
    BY <1>1, UnderWay DEF Undisturbed, Writing
  <2>1. op.valid \subseteq Catalog!Valid /\ op.fallback \in Catalog!Valid /\ config \in Catalog!Valid
    BY <1>1, <1>3, UnderWay DEF Follow
  <2>2. Catalog!Valid' = Catalog!Valid
    BY <1>1 DEF Catalog!Valid
  <2>3. \A t \in SceneNames : SoundScene(Catalog!Repaired(scenes[t], op))
    BY <1>4, <2>1 DEF SoundScene
  <2>4. \A t \in SceneNames : IF t \in wrong THEN SoundScene(work[t]) ELSE SoundScene(scenes[t])
    BY <1>7, <2>3
  <2>5. Writes(admin[a])'
    BY <1>1, <1>6, <1>8, <1>9, <2>2, <2>4 DEF Writes, SoundScene
  <2> QED
    BY <1>1, <1>8, <1>9, <2>1, <2>2, <2>5 DEF Follow, Writing
<1> QED
  BY <1>1, <1>9, <1>10, <1>11, UnderWay, OperationStep DEF CatalogInv, CatalogTyped, Writing

LEMMA RepairBindingsKeeps ==
  ASSUME CatalogInv, NEW a \in Admins, Catalog!RepairBindings(a)
  PROVE  CatalogInv'
<1> DEFINE op == admin[a]
<1>1. op.pc = "bindings" /\ Catalog!Op(a, Catalog!Idle)
      /\ repair' = (IF repair = "begun" THEN "whole" ELSE repair)
      /\ binding' = Catalog!Pick(binding, op)
      /\ rows' = rows /\ config' = config /\ scenes' = scenes
  BY DEF Catalog!RepairBindings, Catalog!On
<1>2. op \in Operation /\ Formed(op)
  BY <1>1, UnderWay
<1>3. op.fallback \in Models /\ op.ids # {} /\ op.valid \in SUBSET Models
  BY <1>1, <1>2 DEF Formed, Synchronising, Operation
<1>4. /\ admin' \in [Admins -> Operation] /\ admin'[a] = Catalog!Idle
      /\ \A b \in Admins \ {a} : admin'[b] = admin[b]
  BY <1>1, IdleOperation, OperationMoves DEF CatalogInv
<1>5. binding' \in Models /\ binding' \in op.valid \cup {op.fallback}
  BY <1>1, <1>3 DEF Catalog!Pick, CatalogInv, CatalogTyped
<1>6. Formed(admin'[a]) /\ ~ Undisturbed(admin[a])'
  BY <1>4, IdleOperation DEF Undisturbed
<1>7. repair' = "whole" => /\ config' \in Catalog!Valid' /\ binding' \in Catalog!Valid'
                           /\ \A s \in SceneNames : SoundScene(scenes[s])'
  <2> SUFFICES ASSUME repair = "begun"
               PROVE  /\ config' \in Catalog!Valid' /\ binding' \in Catalog!Valid'
                      /\ \A s \in SceneNames : SoundScene(scenes[s])'
    BY <1>1, UnderWay DEF Writing
  <2>1. /\ op.valid \subseteq Catalog!Valid /\ op.fallback \in Catalog!Valid /\ config \in Catalog!Valid
        /\ \A s \in SceneNames : SoundScene(scenes[s])
    BY <1>1, <1>3, UnderWay DEF Follow
  <2>2. Catalog!Valid' = Catalog!Valid
    BY <1>1 DEF Catalog!Valid
  <2> QED
    BY <1>1, <1>5, <2>1, <2>2 DEF SoundScene
<1>8. /\ repair' \in {"none", "begun", "whole"}
      /\ repair' # "none" => \A b \in Admins \ {a} : admin[b].pc = "idle"
  BY <1>1, UnderWay
<1> QED
  BY <1>1, <1>4, <1>5, <1>6, <1>7, <1>8, IdleOperation, OperationStep DEF CatalogInv, CatalogTyped

LEMMA UpdateSceneKeeps ==
  ASSUME CatalogInv, NEW a \in Admins, Catalog!UpdateScene(a)
  PROVE  CatalogInv'
<1> DEFINE op == admin[a]
<1> DEFINE s == Catalog!Current(op)
<1> DEFINE new == [op EXCEPT !.pc = "delete"]
<1>1. op.pc = "update" /\ DOMAIN op.work # {} /\ Catalog!Op(a, new) /\ repair' = repair
      /\ scenes' = [scenes EXCEPT ![s].open = op.work[s].open, ![s].default = op.work[s].default]
      /\ rows' = rows /\ config' = config /\ binding' = binding
  BY DEF Catalog!UpdateScene, Catalog!On, Catalog!Goto
<1>2. op \in Operation /\ Formed(op)
  BY <1>1, UnderWay
<1>3. s \in DOMAIN op.work /\ s \in SceneNames /\ op.work[s] \in SceneRow
  BY <1>1, <1>2, CurrentIsIn
<1>4. /\ new \in Operation /\ new.ids = op.ids /\ new.pc = "delete" /\ new.valid = op.valid
      /\ new.fallback = op.fallback /\ new.work = op.work
  BY <1>2 DEF Operation, Writing
<1> HIDE DEF new
<1>5. /\ admin' \in [Admins -> Operation] /\ admin'[a] = new
      /\ \A b \in Admins \ {a} : admin'[b] = admin[b]
  BY <1>1, <1>4, OperationMoves DEF CatalogInv
<1>6. Catalog!Current(admin'[a]) = s
  BY <1>4, <1>5 DEF Catalog!Current
<1> HIDE DEF s
<1>7. /\ scenes' \in [SceneNames -> SceneRow] /\ scenes'[s].default = op.work[s].default
      /\ \A t \in SceneNames \ {s} : scenes'[t] = scenes[t]
  BY <1>1, <1>3 DEF CatalogInv, CatalogTyped, SceneRow
<1>8. Formed(admin'[a])
  BY <1>1, <1>2, <1>4, <1>5 DEF Formed, Synchronising, Writing
<1>9. Undisturbed(admin[a])' => Follow(admin[a])'
  <2> SUFFICES ASSUME Undisturbed(admin[a])' PROVE Follow(admin[a])'
    OBVIOUS
  <2>1. Follow(op) /\ Writes(op)
    BY <1>1, <1>4, <1>5, UnderWay DEF Undisturbed, Follow, Writing
  <2>2. Catalog!Valid' = Catalog!Valid
    BY <1>1 DEF Catalog!Valid
  <2>3. Writes(admin[a])'
    BY <1>1, <1>3, <1>4, <1>5, <1>6, <1>7, <2>1, <2>2 DEF Writes, SoundScene
  <2> QED
    BY <1>1, <1>4, <1>5, <2>1, <2>2, <2>3 DEF Follow, Writing
<1>10. repair' = "whole" => /\ config' \in Catalog!Valid' /\ binding' \in Catalog!Valid'
                            /\ admin'[a].ids = {} /\ admin'[a].pc \in Writing /\ admin'[a].pc # "idle"
  BY <1>1, <1>4, <1>5, UnderWay DEF Catalog!Valid, Writing
<1> QED
  BY <1>1, <1>5, <1>7, <1>8, <1>9, <1>10, UnderWay, OperationStep DEF CatalogInv, CatalogTyped

LEMMA ScenesWrittenKeeps ==
  ASSUME CatalogInv, NEW a \in Admins, Catalog!ScenesWritten(a)
  PROVE  CatalogInv'
<1> DEFINE op == admin[a]
<1> DEFINE new == IF op.ids = {} THEN Catalog!Idle ELSE [op EXCEPT !.pc = "bindings"]
<1>1. op.pc = "update" /\ DOMAIN op.work = {} /\ Catalog!Op(a, new) /\ repair' = repair
      /\ rows' = rows /\ config' = config /\ binding' = binding /\ scenes' = scenes
  BY DEF Catalog!ScenesWritten, Catalog!On, Catalog!Goto, Catalog!catalogVars
<1>2. op \in Operation /\ Formed(op)
  BY <1>1, UnderWay
<1>3. /\ new \in Operation /\ new.ids = op.ids
      /\ IF op.ids = {} THEN new = Catalog!Idle
                        ELSE new.pc = "bindings" /\ new.valid = op.valid /\ new.fallback = op.fallback
  BY <1>2, IdleOperation DEF Operation, Synchronising
<1> HIDE DEF new
<1>4. /\ admin' \in [Admins -> Operation] /\ admin'[a] = new
      /\ \A b \in Admins \ {a} : admin'[b] = admin[b]
  BY <1>1, <1>3, OperationMoves DEF CatalogInv
<1>5. Catalog!Valid' = Catalog!Valid
  BY <1>1 DEF Catalog!Valid
<1>6. repair = "whole" \/ (repair = "begun" /\ op.ids # {}) =>
        Follow(op) /\ \A t \in SceneNames : SoundScene(scenes[t])
  BY <1>1, UnderWay DEF Follow, Writes, Writing
<1>7. CASE op.ids = {}
  <2>1. Formed(admin'[a]) /\ ~ Undisturbed(admin[a])'
    BY <1>3, <1>4, <1>7, IdleOperation DEF Undisturbed
  <2>2. repair' = "whole" => /\ config' \in Catalog!Valid' /\ binding' \in Catalog!Valid'
                             /\ admin'[a].ids = {} /\ admin'[a].pc = "idle"
                             /\ \A s \in SceneNames : SoundScene(scenes[s])'
    BY <1>1, <1>3, <1>4, <1>5, <1>6, <1>7, IdleOperation, UnderWay DEF SoundScene
  <2> QED
    BY <1>1, <1>4, <2>1, <2>2, UnderWay, OperationStep DEF CatalogInv, CatalogTyped
<1>8. CASE op.ids # {}
  <2>1. Formed(admin'[a])
    BY <1>1, <1>2, <1>3, <1>4, <1>8 DEF Formed, Synchronising, Writing
  <2>2. repair' # "whole"
    BY <1>1, <1>8, UnderWay
  <2>3. Undisturbed(admin[a])' => Follow(admin[a])'
    <3> SUFFICES ASSUME repair = "begun" PROVE Follow(admin[a])'
      BY <1>1, <2>2, UnderWay DEF Undisturbed
    <3>1. /\ op.valid \subseteq Catalog!Valid /\ op.fallback \in Catalog!Valid /\ config \in Catalog!Valid
          /\ \A t \in SceneNames : SoundScene(scenes[t])
      BY <1>1, <1>6, <1>8 DEF Follow, Writing
    <3> QED
      BY <1>1, <1>3, <1>4, <1>5, <1>8, <3>1 DEF Follow, SoundScene, Writing
  <2> QED
    BY <1>1, <1>4, <2>1, <2>2, <2>3, UnderWay, OperationStep DEF CatalogInv, CatalogTyped
<1> QED
  BY <1>7, <1>8

LEMMA DeleteListKeeps ==
  ASSUME CatalogInv, NEW a \in Admins, Catalog!DeleteList(a)
  PROVE  CatalogInv'
<1> DEFINE op == admin[a]
<1> DEFINE s == Catalog!Current(op)
<1> DEFINE new == [op EXCEPT !.pc = "insert", !.todo = op.work[s].models]
<1>1. op.pc = "delete" /\ Catalog!Op(a, new) /\ repair' = repair
      /\ scenes' = [scenes EXCEPT ![s].models = {}]
      /\ rows' = rows /\ config' = config /\ binding' = binding
  BY DEF Catalog!DeleteList, Catalog!On
<1>2. op \in Operation /\ Formed(op)
  BY <1>1, UnderWay
<1>3. s \in DOMAIN op.work /\ s \in SceneNames /\ op.work[s] \in SceneRow /\ DOMAIN op.work # {}
  BY <1>1, <1>2, CurrentIsIn DEF Formed
<1>4. op.work[s].models \in SUBSET Models
  BY <1>3 DEF SceneRow
<1>5. /\ new \in Operation /\ new.ids = op.ids /\ new.pc = "insert" /\ new.valid = op.valid
      /\ new.fallback = op.fallback /\ new.work = op.work /\ new.todo = op.work[s].models
  BY <1>2, <1>4 DEF Operation, Writing
<1> HIDE DEF new
<1>6. /\ admin' \in [Admins -> Operation] /\ admin'[a] = new
      /\ \A b \in Admins \ {a} : admin'[b] = admin[b]
  BY <1>1, <1>5, OperationMoves DEF CatalogInv
<1>7. Catalog!Current(admin'[a]) = s
  BY <1>5, <1>6 DEF Catalog!Current
<1>8. op.pc \in {"delete", "insert"} /\ Writes(op) => scenes[s].default = op.work[s].default
  BY DEF Writes
<1> HIDE DEF s
<1>9. /\ scenes' \in [SceneNames -> SceneRow] /\ scenes'[s].default = scenes[s].default
      /\ scenes'[s].models = {} /\ \A t \in SceneNames \ {s} : scenes'[t] = scenes[t]
  BY <1>1, <1>3 DEF CatalogInv, CatalogTyped, SceneRow
<1>10. Formed(admin'[a])
  BY <1>1, <1>2, <1>3, <1>5, <1>6 DEF Formed, Synchronising, Writing
<1>11. Undisturbed(admin[a])' => Follow(admin[a])'
  <2> SUFFICES ASSUME Undisturbed(admin[a])' PROVE Follow(admin[a])'
    OBVIOUS
  <2>1. Follow(op) /\ Writes(op)
    BY <1>1, <1>5, <1>6, UnderWay DEF Undisturbed, Follow, Writing
  <2>2. Catalog!Valid' = Catalog!Valid
    BY <1>1 DEF Catalog!Valid
  <2>3. Writes(admin[a])'
    BY <1>1, <1>3, <1>5, <1>6, <1>7, <1>8, <1>9, <2>1, <2>2 DEF Writes, SoundScene
  <2> QED
    BY <1>1, <1>5, <1>6, <2>1, <2>2, <2>3 DEF Follow, Writing
<1>12. repair' = "whole" => /\ config' \in Catalog!Valid' /\ binding' \in Catalog!Valid'
                            /\ admin'[a].ids = {} /\ admin'[a].pc \in Writing /\ admin'[a].pc # "idle"
  BY <1>1, <1>5, <1>6, UnderWay DEF Catalog!Valid, Writing
<1> QED
  BY <1>1, <1>6, <1>9, <1>10, <1>11, <1>12, UnderWay, OperationStep DEF CatalogInv, CatalogTyped

(* An operation that ends early: nothing is said of what it left.           *)
LEMMA EndingEarly ==
  ASSUME CatalogInv, NEW a \in Admins, admin[a].pc # "idle", repair # "whole",
         Catalog!Op(a, Catalog!Idle), UNCHANGED <<rows, config, scenes, binding, repair>>
  PROVE  CatalogInv'
<1>1. /\ admin' \in [Admins -> Operation] /\ admin'[a] = Catalog!Idle
      /\ \A b \in Admins \ {a} : admin'[b] = admin[b]
  BY IdleOperation, OperationMoves DEF CatalogInv
<1>2. Formed(admin'[a]) /\ ~ Undisturbed(admin[a])'
  BY <1>1, IdleOperation DEF Undisturbed
<1> QED
  BY <1>1, <1>2, UnderWay, OperationStep DEF CatalogInv, CatalogTyped

LEMMA WorkWithout ==
  ASSUME NEW work \in Works, NEW s \in DOMAIN work
  PROVE  LET rest == [t \in DOMAIN work \ {s} |-> work[t]] IN
         /\ rest \in Works /\ DOMAIN rest = DOMAIN work \ {s}
         /\ \A t \in DOMAIN rest : rest[t] = work[t]
<1>1. DOMAIN work \in SUBSET SceneNames /\ work \in [DOMAIN work -> SceneRow]
  BY DEF Works
<1>2. [t \in DOMAIN work \ {s} |-> work[t]] \in [DOMAIN work \ {s} -> SceneRow]
  BY <1>1
<1>3. DOMAIN work \ {s} \in SUBSET SceneNames
  BY <1>1
<1>4. [t \in DOMAIN work \ {s} |-> work[t]] \in Works
  BY <1>2, <1>3 DEF Works
<1> QED
  BY <1>4

LEMMA InsertModelKeeps ==
  ASSUME CatalogInv, NEW a \in Admins, Catalog!InsertModel(a)
  PROVE  CatalogInv'
<1> DEFINE op == admin[a]
<1> DEFINE s == Catalog!Current(op)
<1>1. /\ op.pc = "insert" /\ repair' = repair
      /\ rows' = rows /\ config' = config /\ binding' = binding
  BY DEF Catalog!InsertModel, Catalog!On
<1>2. op \in Operation /\ Formed(op)
  BY <1>1, UnderWay
<1>3. s \in DOMAIN op.work /\ s \in SceneNames /\ op.work[s] \in SceneRow /\ DOMAIN op.work # {}
  BY <1>1, <1>2, CurrentIsIn DEF Formed
<1>4. Writes(op) => /\ scenes[s].default = op.work[s].default /\ op.todo \subseteq op.work[s].models
                    /\ scenes[s].models = op.work[s].models \ op.todo
  BY <1>1 DEF Writes
<1>5. repair = "whole" \/ (repair = "begun" /\ op.ids # {}) => Follow(op) /\ Writes(op)
  BY <1>1, UnderWay DEF Follow, Writing
<1>6. PICK m \in op.todo :
        LET rest == op.todo \ {m}
        IN \/ /\ scenes' = [scenes EXCEPT ![s].models = @ \cup {m}]
              /\ Catalog!Op(a, [op EXCEPT
                   !.todo = rest, !.pc = IF rest = {} THEN "update" ELSE "insert",
                   !.work = IF rest = {} THEN [t \in DOMAIN @ \ {s} |-> @[t]] ELSE @])
           \/ m \in scenes[s].models /\ Catalog!Op(a, Catalog!Idle) /\ UNCHANGED scenes
  BY DEF Catalog!InsertModel
<1> DEFINE rest == op.todo \ {m}
<1> DEFINE work == IF rest = {} THEN [t \in DOMAIN op.work \ {s} |-> op.work[t]] ELSE op.work
<1> DEFINE pc == IF rest = {} THEN "update" ELSE "insert"
<1>7. CASE m \in scenes[s].models /\ Catalog!Op(a, Catalog!Idle) /\ UNCHANGED scenes
  <2>1. repair # "whole"
    BY <1>4, <1>5, <1>7
  <2> QED
    BY <1>1, <1>7, <2>1, EndingEarly
<1>8. CASE /\ scenes' = [scenes EXCEPT ![s].models = @ \cup {m}]
           /\ Catalog!Op(a, [op EXCEPT !.todo = rest, !.pc = pc, !.work = work])
  <2> DEFINE new == [op EXCEPT !.todo = rest, !.pc = pc, !.work = work]
  <2>1. m \in Models /\ rest \in SUBSET Models /\ op.work \in Works
    BY <1>2 DEF Operation
  <2>2. /\ work \in Works /\ (rest = {} => DOMAIN work = DOMAIN op.work \ {s})
        /\ (rest # {} => work = op.work) /\ \A t \in DOMAIN work : work[t] = op.work[t]
    BY <1>3, <2>1, WorkWithout
  <2>3. pc \in Writing /\ pc \in {"update", "insert"} /\ (pc = "update" <=> rest = {})
    BY DEF Writing
  <2>4. Catalog!Op(a, new)
    BY <1>8
  <2> HIDE DEF pc, work
  <2>5. /\ new \in Operation /\ new.ids = op.ids /\ new.pc = pc /\ new.valid = op.valid
        /\ new.fallback = op.fallback /\ new.work = work /\ new.todo = rest
    BY <1>2, <2>1, <2>2, <2>3 DEF Operation
  <2> HIDE DEF new
  <2>6. /\ admin' \in [Admins -> Operation] /\ admin'[a] = new
        /\ \A b \in Admins \ {a} : admin'[b] = admin[b]
    BY <2>4, <2>5, OperationMoves DEF CatalogInv
  <2>7. rest # {} => Catalog!Current(admin'[a]) = s
    BY <2>2, <2>5, <2>6 DEF Catalog!Current
  <2> HIDE DEF s
  <2>8. /\ scenes' \in [SceneNames -> SceneRow] /\ scenes'[s].default = scenes[s].default
        /\ scenes'[s].models = scenes[s].models \cup {m}
        /\ \A t \in SceneNames \ {s} : scenes'[t] = scenes[t]
    BY <1>3, <1>8, <2>1 DEF CatalogInv, CatalogTyped, SceneRow
  <2>9. Formed(admin'[a])
    BY <1>1, <1>2, <1>3, <2>2, <2>3, <2>5, <2>6 DEF Formed, Synchronising, Writing
  <2>10. Catalog!Valid' = Catalog!Valid
    BY <1>1 DEF Catalog!Valid
  <2>11. Undisturbed(admin[a])' => Follow(admin[a])'
    <3> SUFFICES ASSUME Undisturbed(admin[a])' PROVE Follow(admin[a])'
      OBVIOUS
    <3>1. Follow(op) /\ Writes(op)
      BY <1>1, <1>5, <2>5, <2>6 DEF Undisturbed
    <3>2. /\ \A t \in SceneNames : IF t \in DOMAIN op.work THEN SoundScene(op.work[t])
                                                           ELSE SoundScene(scenes[t])
      BY <3>1 DEF Writes
    <3>3. /\ scenes'[s].default = op.work[s].default
          /\ rest \subseteq op.work[s].models /\ scenes'[s].models = op.work[s].models \ rest
      BY <1>4, <2>8, <3>1
    <3>4. Writes(admin[a])'
      <4>1. CASE rest = {}
        <5>1. /\ scenes'[s].models # {} /\ scenes'[s].models \subseteq Catalog!Valid
              /\ scenes'[s].default \in scenes'[s].models
          BY <1>3, <3>2, <3>3, <4>1 DEF SoundScene
        <5>2. \A t \in SceneNames \ {s} : IF t \in DOMAIN work THEN SoundScene(work[t])
                                          ELSE scenes'[t] = scenes[t] /\ SoundScene(scenes[t])
          BY <2>2, <2>8, <3>2, <4>1
        <5>3. s \notin DOMAIN work /\ admin'[a].work = work /\ admin'[a].pc = "update"
          BY <2>2, <2>3, <2>5, <2>6, <4>1
        <5> QED
          BY <1>3, <2>10, <5>1, <5>2, <5>3 DEF Writes, SoundScene
      <4>2. CASE rest # {}
        <5>1. admin'[a].work = op.work /\ admin'[a].pc = "insert" /\ admin'[a].todo = rest
          BY <2>2, <2>3, <2>5, <2>6, <4>2
        <5> QED
          BY <1>3, <2>7, <2>8, <2>10, <3>2, <3>3, <4>2, <5>1 DEF Writes, SoundScene
      <4> QED
        BY <4>1, <4>2
    <3> QED
      BY <1>1, <2>3, <2>5, <2>6, <2>10, <3>1, <3>4 DEF Follow, Writing
  <2>12. repair' = "whole" => /\ config' \in Catalog!Valid' /\ binding' \in Catalog!Valid'
                              /\ admin'[a].ids = {} /\ admin'[a].pc \in Writing /\ admin'[a].pc # "idle"
    BY <1>1, <2>3, <2>5, <2>6, <2>10, UnderWay
  <2> QED
    BY <1>1, <2>6, <2>8, <2>9, <2>11, <2>12, UnderWay, OperationStep DEF CatalogInv, CatalogTyped
<1> QED
  BY <1>6, <1>7, <1>8

LEMMA SaveSceneKeeps ==
  ASSUME CatalogInv, NEW a \in Admins, Catalog!SaveScene(a)
  PROVE  CatalogInv'
<1>1. PICK s \in SceneNames, list \in (SUBSET Catalog!Valid) \ {{}}, open \in BOOLEAN : \E default \in list :
        Catalog!Op(a, [Catalog!Idle EXCEPT !.pc = "update",
                         !.work = [t \in {s} |-> [open |-> open, models |-> list, default |-> default]]])
  BY DEF Catalog!SaveScene, Catalog!Scenes, SceneNames
<1>2. PICK default \in list :
        Catalog!Op(a, [Catalog!Idle EXCEPT !.pc = "update",
                         !.work = [t \in {s} |-> [open |-> open, models |-> list, default |-> default]]])
  BY <1>1
<1> DEFINE row == [open |-> open, models |-> list, default |-> default]
<1> DEFINE work == [t \in {s} |-> row]
<1> DEFINE op == [Catalog!Idle EXCEPT !.pc = "update", !.work = work]
<1>3. row \in SceneRow /\ SoundScene(row)
  BY <1>1, <1>2 DEF SceneRow, SoundScene, Catalog!Valid
<1> HIDE DEF row
<1>4. work \in [{s} -> SceneRow] /\ {s} \in SUBSET SceneNames
  BY <1>1, <1>3
<1>5. work \in Works /\ DOMAIN work = {s} /\ work[s] = row
  BY <1>4 DEF Works
<1>6. Catalog!Op(a, op)
  BY <1>2 DEF row
<1> HIDE DEF work
<1>7. op \in Operation /\ op.pc = "update" /\ op.ids = {} /\ op.work = work
  BY <1>5, IdleOperation DEF Operation, Writing
<1> HIDE DEF op
<1>8. /\ admin' \in [Admins -> Operation] /\ admin'[a] = op
      /\ \A b \in Admins \ {a} : admin'[b] = admin[b]
  BY <1>6, <1>7, OperationMoves DEF CatalogInv
<1>9. UNCHANGED <<rows, config, scenes, binding>>
  BY DEF Catalog!SaveScene, Catalog!catalogVars
<1>10. /\ repair' = repair \/ repair' = "none"
       /\ repair' # "none" => \A b \in Admins : admin[b].pc = "idle"
  BY BeginningAlone DEF Catalog!SaveScene
<1>11. Formed(admin'[a])
  BY <1>7, <1>8 DEF Formed, Synchronising, Writing
<1>12. Catalog!Valid' = Catalog!Valid
  BY <1>9 DEF Catalog!Valid
<1>13. repair' = "whole" => /\ config \in Catalog!Valid /\ binding \in Catalog!Valid
                            /\ \A t \in SceneNames : SoundScene(scenes[t])
  BY <1>10 DEF CatalogInv, WholeIsSound
<1>14. Undisturbed(admin[a])' => Follow(admin[a])'
  <2> SUFFICES ASSUME repair' = "whole" PROVE Follow(admin[a])'
    BY <1>7, <1>8 DEF Undisturbed
  <2>1. Writes(admin[a])'
    BY <1>3, <1>5, <1>7, <1>8, <1>9, <1>12, <1>13 DEF Writes, SoundScene
  <2> QED
    BY <1>7, <1>8, <1>9, <1>12, <1>13, <2>1 DEF Follow, Writing
<1> QED
  BY <1>7, <1>8, <1>9, <1>10, <1>11, <1>12, <1>13, <1>14, OperationStep DEF CatalogInv, CatalogTyped, Writing

LEMMA CheckModelKeeps ==
  ASSUME CatalogInv, NEW a \in Admins, Catalog!CheckModel(a)
  PROVE  CatalogInv'
<1>1. PICK m \in Models, on \in BOOLEAN :
        /\ Catalog!Begin(a, IF on THEN repair ELSE "none")
        /\ Catalog!Op(a, [Catalog!Idle EXCEPT !.pc = IF on THEN "on" ELSE "off", !.fallback = m])
  BY DEF Catalog!CheckModel
<1> DEFINE pc == IF on THEN "on" ELSE "off"
<1> DEFINE op == [Catalog!Idle EXCEPT !.pc = pc, !.fallback = m]
<1>2. Catalog!Op(a, op) /\ pc \in {"on", "off"} /\ (on <=> pc = "on")
  BY <1>1
<1> HIDE DEF pc
<1>3. op \in Operation /\ op.pc = pc /\ op.ids = {} /\ op.fallback = m
  BY <1>2, IdleOperation DEF Operation
<1> HIDE DEF op
<1>4. /\ admin' \in [Admins -> Operation] /\ admin'[a] = op
      /\ \A b \in Admins \ {a} : admin'[b] = admin[b]
  BY <1>2, <1>3, OperationMoves DEF CatalogInv
<1>5. UNCHANGED <<rows, config, scenes, binding>>
  BY DEF Catalog!CheckModel, Catalog!catalogVars
<1>6. /\ repair' = repair \/ repair' = "none"
      /\ repair' # "none" => pc = "on" /\ \A b \in Admins : admin[b].pc = "idle"
  BY <1>1, <1>2, BeginningAlone
<1>7. Formed(admin'[a])
  BY <1>2, <1>3, <1>4 DEF Formed, Synchronising, Writing
<1>8. Catalog!Valid' = Catalog!Valid
  BY <1>5 DEF Catalog!Valid
<1>9. repair' = "whole" => /\ config \in Catalog!Valid /\ binding \in Catalog!Valid
                           /\ \A t \in SceneNames : SoundScene(scenes[t])
  BY <1>6 DEF CatalogInv, WholeIsSound
<1>10. Undisturbed(admin[a])' => Follow(admin[a])'
  BY <1>2, <1>3, <1>4, <1>5, <1>8, <1>9 DEF Undisturbed, Follow, Writing, SoundScene
<1> QED
  BY <1>2, <1>3, <1>4, <1>5, <1>6, <1>7, <1>8, <1>9, <1>10, OperationStep DEF CatalogInv, CatalogTyped

LEMMA SetModelKeeps ==
  ASSUME CatalogInv, NEW a \in Admins, Catalog!SetModel(a)
  PROVE  CatalogInv'
<1> DEFINE op == admin[a]
<1>1. /\ op.pc \in {"on", "off"} /\ Catalog!Op(a, Catalog!Idle) /\ repair' = repair
      /\ rows' = [rows EXCEPT ![op.fallback].enabled = (op.pc = "on")]
      /\ config' = config /\ binding' = binding /\ scenes' = scenes
  BY DEF Catalog!SetModel, Catalog!On
<1>2. op \in Operation /\ Formed(op)
  BY <1>1, UnderWay
<1>3. op.fallback \in Models
  BY <1>1, <1>2 DEF Formed
<1>4. /\ admin' \in [Admins -> Operation] /\ admin'[a] = Catalog!Idle
      /\ \A b \in Admins \ {a} : admin'[b] = admin[b]
  BY <1>1, IdleOperation, OperationMoves DEF CatalogInv
<1>5. Formed(admin'[a]) /\ ~ Undisturbed(admin[a])'
  BY <1>4, IdleOperation DEF Undisturbed
<1>6. rows' \in [Models -> [available : BOOLEAN, enabled : BOOLEAN]]
  BY <1>1, <1>3 DEF CatalogInv, CatalogTyped
<1>7. repair' = "whole" => /\ config' \in Catalog!Valid' /\ binding' \in Catalog!Valid'
                           /\ \A s \in SceneNames : SoundScene(scenes[s])'
  <2> SUFFICES ASSUME repair = "whole"
               PROVE  /\ config' \in Catalog!Valid' /\ binding' \in Catalog!Valid'
                      /\ \A s \in SceneNames : SoundScene(scenes[s])'
    BY <1>1
  <2>1. op.pc = "on" /\ config \in Catalog!Valid /\ binding \in Catalog!Valid /\ Follow(op)
    BY <1>1, UnderWay DEF Writing
  <2>2. rows' = [rows EXCEPT ![op.fallback].enabled = TRUE]
    BY <1>1, <2>1
  <2>3. Catalog!Valid \subseteq Catalog!Valid'
    BY <1>3, <2>2, EnablingGrows
  <2>4. \A s \in SceneNames : SoundScene(scenes[s])
    BY <2>1 DEF Follow
  <2> QED
    BY <1>1, <2>1, <2>3, <2>4 DEF SoundScene
<1> QED
  BY <1>1, <1>4, <1>5, <1>6, <1>7, IdleOperation, UnderWay, OperationStep DEF CatalogInv, CatalogTyped

LEMMA CatalogCrash ==
  ASSUME CatalogInv, Catalog!Crash
  PROVE  CatalogInv'
<1>1. /\ UNCHANGED <<rows, config, scenes, binding>> /\ admin' = [a \in Admins |-> Catalog!Idle]
      /\ repair' = IF \A a \in Admins : admin[a].pc = "idle" THEN repair ELSE "none"
  BY DEF Catalog!Crash, Catalog!catalogVars
<1>2. /\ admin' \in [Admins -> Operation]
      /\ \A a \in Admins : admin'[a].pc = "idle" /\ admin'[a].ids = {} /\ Formed(admin'[a])
  BY <1>1, IdleOperation
<1>3. CatalogTyped'
  BY <1>1, <1>2 DEF CatalogInv, CatalogTyped, Formed
<1>4. OneAdmin' /\ RepairFollows'
  BY <1>2 DEF OneAdmin, RepairFollows, Undisturbed
<1>5. WholeIsSound'
  <2>1. repair' = "whole" => /\ config \in Catalog!Valid /\ binding \in Catalog!Valid
                             /\ \A t \in SceneNames : SoundScene(scenes[t])
    BY <1>1 DEF CatalogInv, WholeIsSound
  <2>2. Catalog!Valid' = Catalog!Valid
    BY <1>1 DEF Catalog!Valid
  <2> QED
    BY <1>1, <1>2, <2>1, <2>2 DEF WholeIsSound, SoundScene
<1> QED
  BY <1>3, <1>4, <1>5 DEF CatalogInv

LEMMA CatalogStays ==
  ASSUME CatalogInv, UNCHANGED <<rows, config, scenes, binding, admin, repair>>
  PROVE  CatalogInv'
<1>1. Catalog!Valid' = Catalog!Valid
  BY DEF Catalog!Valid
<1>2. CatalogTyped' /\ OneAdmin'
  BY DEF CatalogInv, CatalogTyped, OneAdmin
<1>3. WholeIsSound'
  BY <1>1 DEF CatalogInv, WholeIsSound, SoundScene
<1>4. ASSUME NEW a \in Admins, Undisturbed(admin[a])' PROVE Follow(admin[a])'
  <2>1. Follow(admin[a])
    BY <1>4 DEF CatalogInv, RepairFollows, Undisturbed
  <2>2. Catalog!Current(admin'[a]) = Catalog!Current(admin[a])
    BY DEF Catalog!Current
  <2> QED
    BY <1>1, <2>1, <2>2 DEF Follow, Writes, SoundScene
<1> QED
  BY <1>2, <1>3, <1>4 DEF CatalogInv, RepairFollows

LEMMA CatalogStep ==
  ASSUME CatalogInv, [Catalog!Next]_(Catalog!vars)
  PROVE  CatalogInv'
<1>1. ASSUME NEW a \in Admins,
             \/ Catalog!Withdraw(a) \/ Catalog!Announce(a) \/ Catalog!Compare(a) \/ Catalog!EnableFallback(a)
             \/ Catalog!RepairConfig(a) \/ Catalog!ReadScenes(a) \/ Catalog!RepairBindings(a)
             \/ Catalog!UpdateScene(a) \/ Catalog!ScenesWritten(a) \/ Catalog!DeleteList(a)
             \/ Catalog!InsertModel(a)
             \/ Catalog!SaveScene(a) \/ Catalog!CheckModel(a) \/ Catalog!SetModel(a)
      PROVE  CatalogInv'
  BY <1>1, WithdrawKeeps, AnnounceKeeps, CompareKeeps, EnableFallbackKeeps, RepairConfigKeeps,
     ReadScenesKeeps, RepairBindingsKeeps, UpdateSceneKeeps, ScenesWrittenKeeps, DeleteListKeeps,
     InsertModelKeeps, SaveSceneKeeps, CheckModelKeeps, SetModelKeeps
<1>2. ASSUME NEW r \in Requests,
             \/ Catalog!Ask(r) \/ Catalog!ReadList(r) \/ Catalog!ReadValid(r) \/ Catalog!Decide(r)
             \/ Catalog!Reserve(r) \/ Catalog!Finish(r)
      PROVE  CatalogInv'
  <2>1. UNCHANGED <<Catalog!catalogVars, admin, repair>>
    BY <1>2 DEF Catalog!Ask, Catalog!ReadList, Catalog!ReadValid, Catalog!Decide, Catalog!Reserve,
       Catalog!Finish, Catalog!Asking
  <2> QED
    BY <2>1, CatalogStays DEF Catalog!catalogVars
<1>3. CASE Catalog!NextDay \/ UNCHANGED Catalog!vars
  <2>1. UNCHANGED <<Catalog!catalogVars, admin, repair>>
    BY <1>3 DEF Catalog!NextDay, Catalog!vars
  <2> QED
    BY <2>1, CatalogStays DEF Catalog!catalogVars
<1> QED
  BY <1>1, <1>2, <1>3, CatalogCrash DEF Catalog!Next

LEMMA ReferencesAreRepaired == CatalogInv => Catalog!ReferencesRepaired
  BY DEF CatalogInv, WholeIsSound, SoundScene, Catalog!ReferencesRepaired, Catalog!Scenes, SceneNames

LEMMA QuotaStep ==
  ASSUME QuotaInv, [Catalog!Next]_(Catalog!vars)
  PROVE  QuotaInv'
<1>1. CASE UNCHANGED calls /\ day' \in Nat
  BY <1>1 DEF QuotaInv, Spent, Logged
<1>2. day \in Nat
  BY DEF QuotaInv
<1>3. ASSUME NEW a \in Admins,
             \/ Catalog!Withdraw(a) \/ Catalog!Announce(a) \/ Catalog!Compare(a) \/ Catalog!EnableFallback(a)
             \/ Catalog!RepairConfig(a) \/ Catalog!ReadScenes(a) \/ Catalog!RepairBindings(a)
             \/ Catalog!UpdateScene(a) \/ Catalog!ScenesWritten(a) \/ Catalog!DeleteList(a)
             \/ Catalog!InsertModel(a)
             \/ Catalog!SaveScene(a) \/ Catalog!CheckModel(a) \/ Catalog!SetModel(a)
      PROVE  UNCHANGED <<calls, day>>
  <2>1. \/ \E then : Catalog!Begin(a, then)
        \/ \E pc : Catalog!On(a, pc)
    BY <1>3 DEF Catalog!Withdraw, Catalog!Announce, Catalog!Compare, Catalog!EnableFallback,
       Catalog!RepairConfig, Catalog!ReadScenes, Catalog!RepairBindings, Catalog!UpdateScene,
       Catalog!ScenesWritten, Catalog!DeleteList, Catalog!InsertModel, Catalog!SaveScene,
       Catalog!CheckModel, Catalog!SetModel
  <2> QED
    BY <2>1 DEF Catalog!Begin, Catalog!On
<1>4. ASSUME NEW r \in Requests,
             Catalog!Ask(r) \/ Catalog!ReadList(r) \/ Catalog!ReadValid(r) \/ Catalog!Decide(r)
      PROVE  UNCHANGED <<calls, day>>
  BY <1>4 DEF Catalog!Ask, Catalog!ReadList, Catalog!ReadValid, Catalog!Decide, Catalog!Asking
<1>5. CASE Catalog!NextDay \/ Catalog!Crash \/ UNCHANGED Catalog!vars
  <2>1. calls' = calls /\ (day' = day \/ day' = day + 1)
    BY <1>5 DEF Catalog!NextDay, Catalog!Crash, Catalog!vars
  <2> QED
    BY <1>1, <1>2, <2>1
<1> QED
  BY <1>1, <1>2, <1>3, <1>4, <1>5, QuotaReserve, QuotaFinish DEF Catalog!Next

----------------------------------------------------------------------------
(* One account of a broker is told to drive the strategies, the stored      *)
(* policies follow the source, the stored bars have no hole and a memory in *)
(* use is not behind them: over every interleaving of resolutions, requests *)
(* and answers that are lost, statements that fail, restarts of the server  *)
(* and of terminals, and moves of the source (market_data_source_policy.py, *)
(* kline_store.py, routes_market.py, mt5TerminalEA.mq5), whatever the sizes. *)
THEOREM MarketDataIsSound == FeedsSpec => []MarketData
<1>1. SourceInv /\ [Source!Next]_(Source!vars) => SourceInv'
  BY SourceStep
<1>2. BarsInv /\ [Bars!Next]_(Bars!vars) => BarsInv'
  BY BarsStep
<1>3. SourceInv /\ BarsInv => MarketData
  BY SourceIsOne, BarsAreWhole, MemoryIsUpToDate DEF MarketData
<1> QED
  BY <1>1, <1>2, <1>3, SourceInit, BarsInit, PTL DEF FeedsSpec, Source!Spec, Bars!Spec

(* No user makes more calls a day than the membership allows; an            *)
(* undisturbed synchronisation of the catalogue leaves no reference to a    *)
(* model that may not be used; the last answer of every AI source is kept,  *)
(* and none is asked again before its interval has passed, unless its round *)
(* was broken off (llm_governance.py, llm_service.py), whatever the limits.  *)
THEOREM ModelsAreGoverned == FeedsSpec => []ModelsGoverned
<1>1. Catalog!Spec => [](QuotaInv /\ CatalogInv)
  BY QuotaInit, QuotaStep, CatalogInit, CatalogStep, PTL DEF Catalog!Spec
<1>2. Analysis!Spec => []AnalysisInv
  BY AnalysisInit, AnalysisStep, PTL DEF Analysis!Spec
<1>3. QuotaInv /\ CatalogInv /\ AnalysisInv => ModelsGoverned
  BY QuotaIsKept, ReferencesAreRepaired, AnalysisIsSound DEF ModelsGoverned
<1> QED
  BY <1>1, <1>2, <1>3, PTL DEF FeedsSpec

============================================================================
