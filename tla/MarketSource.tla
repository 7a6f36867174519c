---------------------------- MODULE MarketSource ----------------------------
(***************************************************************************)
(* Which account supplies one symbol of one user (market_data_source_      *)
(* policy.py): the row of the source, the policy each account has stored,   *)
(* and the 30-second caches of the routers, one of its own for each         *)
(* instance of MarketDataSourcePolicy.  The statements of a resolution are  *)
(* interleaved with those of another account's.                             *)
(*                                                                         *)
(* An account is quiet when its last request is more than 180 seconds old,  *)
(* or it is archived: an answer cached for it has run out by then, and its  *)
(* requests have ended.                                                     *)
(***************************************************************************)
EXTENDS Integers, FiniteSets

CONSTANTS
    Accounts,
    BrokerOf,  \* the broker of each account
    Caches,    \* the instances of the policy: routes_ea, routes_market
    MaxAsking, \* bound: resolutions at one time
    None

VARIABLES
    source,  \* market_data_sources: the account that supplies, None before the first
    policy,  \* market_data_symbol_policies: the mode stored for each account
    quiet,   \* the accounts not seen within SOURCE_HEARTBEAT_TTL
    cached,  \* the answer in each cache for each account
    ask,     \* the resolution of each account: where it is, through which cache, what it read
    met      \* history: accounts that came back while they were being replaced, or of two that
             \* replaced the same source
vars == <<source, policy, quiet, cached, ask, met>>

Modes == {"primary", "reuse", "blocked"}
Idle == [at |-> "idle", via |-> None, row |-> None, old |-> None,
         answer |-> None]

Init ==
    /\ source = None
    /\ policy = [a \in Accounts |-> None]
    /\ quiet = {}
    /\ cached = [c \in Caches |-> [a \in Accounts |-> None]]
    /\ ask = [a \in Accounts |-> Idle]
    /\ met = {}

TypeOK ==
    /\ source \in Accounts \cup {None}
    /\ policy \in [Accounts -> Modes \cup {None}]
    /\ quiet \subseteq Accounts /\ met \subseteq Accounts
    /\ cached \in [Caches -> [Accounts -> Modes \cup {None}]]
    /\ ask \in [Accounts -> [at : {"idle", "claim", "judge", "take", "again", "promote", "demote",
                                   "forget", "decide", "keep"},
                             via : Caches \cup {None}, row : Accounts \cup {None},
                             old : Accounts \cup {None},
                             answer : Modes \cup {None}]]

----------------------------------------------------------------------------

(* Those who look at the row of a as that of a source to be replaced.       *)
Replacing(a) == \E b \in Accounts : ask[b].at \in {"take", "again", "promote", "demote", "forget"} /\ ask[b].old = a

(* A request authenticates, which is the heartbeat, and asks the policy; an
   answer in the cache is given as it is.  A blocked row answers by itself. *)
Ask(a, c) ==
    /\ ask[a] = Idle /\ cached[c][a] = None
    /\ Cardinality({b \in Accounts : ask[b] # Idle}) < MaxAsking
    /\ quiet' = quiet \ {a}
    /\ met' = IF Replacing(a) THEN met \cup {a} ELSE met
    /\ ask' = [ask EXCEPT ![a] =
                  IF policy[a] = "blocked" THEN [Idle EXCEPT !.at = "keep", !.via = c, !.answer = "blocked"]
                  ELSE [Idle EXCEPT !.at = "claim", !.via = c]]
    /\ UNCHANGED <<source, policy, cached>>

To(a, at) == ask' = [ask EXCEPT ![a].at = at]

(* _claim_source: INSERT ... DO NOTHING, and the row as it is then.         *)
Claim(a) ==
    /\ ask[a].at = "claim"
    /\ source' = IF source = None THEN a ELSE source
    /\ ask' = [ask EXCEPT ![a].at = "judge", ![a].row = source', ![a].old = source']
    /\ UNCHANGED <<policy, quiet, cached, met>>

(* source_is_stale and current_is_healthy; no look at the broker.           *)
\* Mutant: another account may always take over.
StaleAlways(a, owner) == owner # a
\* Mutant: a source is never stale.
StaleNever(a, owner) == FALSE
Stale(a, owner) == owner # a /\ owner \in quiet /\ a \notin quiet
Judge(a) ==
    /\ ask[a].at = "judge"
    /\ To(a, IF Stale(a, ask[a].old) THEN "take" ELSE "decide")
    /\ UNCHANGED <<source, policy, quiet, cached, met>>

Take(a) ==
    /\ ask[a].at = "take"
    /\ source' = a
    /\ met' = IF source = ask[a].old THEN met ELSE met \cup {a, source}
    /\ To(a, "again")
    /\ UNCHANGED <<policy, quiet, cached>>
Again(a) ==
    /\ ask[a].at = "again"
    /\ ask' = [ask EXCEPT ![a].at = "promote", ![a].row = source]
    /\ UNCHANGED <<source, policy, quiet, cached, met>>

(* _demote_symbol_primary: the policies of both accounts, then what this
   instance remembers of them. *)
Promote(a) ==
    /\ ask[a].at = "promote"
    /\ policy' = [policy EXCEPT ![a] = "primary"]
    /\ To(a, "demote")
    /\ UNCHANGED <<source, quiet, cached, met>>
Demote(a) ==
    /\ ask[a].at = "demote"
    /\ policy' = [policy EXCEPT ![ask[a].old] = "reuse"]
    /\ To(a, "forget")
    /\ UNCHANGED <<source, quiet, cached, met>>
Forget(a) ==
    /\ ask[a].at = "forget"
    /\ cached' = [cached EXCEPT ![ask[a].via][a] = None, ![ask[a].via][ask[a].old] = None]
    /\ ask' = [ask EXCEPT ![a].at = "decide"]
    /\ UNCHANGED <<source, policy, quiet, met>>

(* The rest of _resolve_uncached, from the row that was read.               *)
ModeOf(a, owner) ==
    CASE owner = a -> "primary"
      [] BrokerOf[owner] # BrokerOf[a] -> "blocked"
      [] OTHER -> "reuse"
Decide(a) ==
    /\ ask[a].at = "decide"
    /\ policy' = [policy EXCEPT ![a] = ModeOf(a, ask[a].row)]
    /\ ask' = [ask EXCEPT ![a].at = "keep", ![a].answer = policy'[a]]
    /\ UNCHANGED <<source, quiet, cached, met>>

(* resolve writes its cache last, over what a demotion has removed.         *)
Keep(a) ==
    /\ ask[a].at = "keep"
    /\ cached' = [cached EXCEPT ![ask[a].via][a] = ask[a].answer]
    /\ ask' = [ask EXCEPT ![a] = Idle]
    /\ UNCHANGED <<source, policy, quiet, met>>

(* CACHE_SECONDS have passed.                                               *)
Expire(c, a) ==
    /\ cached[c][a] # None
    /\ cached' = [cached EXCEPT ![c][a] = None]
    /\ UNCHANGED <<source, policy, quiet, ask, met>>

GoQuiet(a) ==
    /\ a \notin quiet /\ ask[a] = Idle /\ \A c \in Caches : cached[c][a] = None
    /\ quiet' = quiet \cup {a}
    /\ UNCHANGED <<source, policy, cached, ask, met>>

Resolve(a) == Claim(a) \/ Judge(a) \/ Take(a) \/ Again(a) \/ Promote(a) \/ Demote(a) \/ Forget(a)
              \/ Decide(a) \/ Keep(a)
Request(a) == \E c \in Caches : Ask(a, c)
Lapse(a) == \E c \in Caches : Expire(c, a)
Next == \E a \in Accounts : Request(a) \/ Resolve(a) \/ Lapse(a) \/ GoQuiet(a)
Spec == Init /\ [][Next]_vars

(* A resolution that began goes on and what is cached runs out; an account
   may go on asking or be switched off. *)
Fairness == \A a \in Accounts : WF_vars(Resolve(a)) /\ WF_vars(Lapse(a))
GoesOnAsking(a) == WF_vars(Request(a))

----------------------------------------------------------------------------

(* Two accounts are told to drive the strategies with their ticks only when
   the one that was replaced came back in the middle of it, or was replaced by
   both. *)
OneSource == \A a, b \in Accounts : \A c, d \in Caches :
    a # b /\ cached[c][a] = "primary" /\ cached[d][b] = "primary" => {a, b} \cap met # {}

(* What is stored as primary is the source or being replaced, with the same
   exception. *)
PolicyFollows == \A a \in Accounts :
    policy[a] = "primary" /\ source # a => a \in met \/ Replacing(a)

(* A source that stays quiet is replaced by an account that goes on asking,
   unless that one was blocked by it: a block is never lifted. *)
FailsOver == \A a \in Accounts : GoesOnAsking(a) =>
    []<>(source \in Accounts \ quiet \/ policy[a] = "blocked" \/ a \in quiet)

(* An account that goes on asking does not stay primary beside another.     *)
RolesSettle == \A a \in Accounts : GoesOnAsking(a) =>
    []<>(policy[a] = "primary" => source = a \/ a \in quiet)
=============================================================================
