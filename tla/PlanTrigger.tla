----------------------------- MODULE PlanTrigger -----------------------------
(***************************************************************************)
(* When a structure plan triggers (structure_plan_signal.py, lifecycle.py  *)
(* and the read cache of structure_plan_store.py): one plan id of entry    *)
(* mode touch_and_reclaim, to buy, evaluated on every tick by the engines  *)
(* of several accounts.                                                    *)
(*                                                                         *)
(* Progress (the touch, the closed bars that confirm it) is written into   *)
(* the plan's payload; each engine also remembers a touch in memory.  An   *)
(* engine reads the plan through a cache whose entries are dropped by any  *)
(* write to the table, but which takes its generation when it is filled.   *)
(* A plan that has ended is published again under its id by a later closed *)
(* bar, with a payload of its own: a new life of the plan.                 *)
(***************************************************************************)
EXTENDS Integers, FiniteSets

CONSTANTS
    Engines,
    Setups,
    Lower, Entry, Upper,    \* the entry zone and the entry price
    Atr, Invalid,           \* ATR and invalidation_price
    Widths,                 \* max_entry_zone_widths
    Closes, Ticks,         \* of closed bars, of ticks
    Required,               \* false_breakout_confirmation_bars
    Limit,                  \* outside_zone_close_limit
    MaxBars,                \* bound: closed bars
    MaxRestarts             \* bound: engines that are made anew

VARIABLES
    setup,      \* setup_type, chosen once
    row,        \* the plan's row
    cache,      \* what _current_cache holds of it
    engine,     \* where a tick is, its copy of the plan and _tick_state
    latest,     \* the last closed bar
    fired,      \* the latest tick has triggered the plan
    price,      \* where the price has been: a touch of the entry, far from it since
    held,       \* closed bars that held the reclaim
    restarted

vars == <<setup, row, cache, engine, latest, fired, price, held, restarted>>

None == [st |-> "none", life |-> 0, seen |-> FALSE, touch |-> "none", boundary |-> "none",
         outside |-> 0, bar |-> 0, count |-> 0, ok |-> FALSE]

Init ==
    /\ setup \in Setups
    /\ row = None
    /\ cache = None
    /\ engine = [e \in Engines |-> [at |-> "idle", copy |-> None, memory |-> 0]]
    /\ latest = [time |-> 0, close |-> 0, decisive |-> FALSE]
    /\ fired = FALSE
    /\ price = "outside"
    /\ held = {}
    /\ restarted = 0

InZone(p) == Lower <= p /\ p <= Upper
Distance(p) == IF p < Entry THEN Entry - p ELSE p - Entry

(* distance_invalidate_reason, in halves: the limit is 3.5 widths of the zone. *)
Far(p) == 2 * Distance(p) > Widths * (Upper - Lower)

(* invalidate_reason at a tick: the protected level, then the distance.        *)
Broken(p) == p <= Invalid \/ Far(p)

(* _reclaim_fill_allowed *)
FillAllowed(p) == InZone(p) \/ Distance(p) <= Atr

(* dict.update: a record with some of its fields replaced.                     *)
Over(changes, record) ==
    [f \in DOMAIN changes \union DOMAIN record |->
        IF f \in DOMAIN changes THEN changes[f] ELSE record[f]]

(* Any statement on structure_trade_plans drops what is cached of it.          *)
Write(changes) ==
    IF DOMAIN changes = {} THEN UNCHANGED <<row, cache>>
    ELSE row' = Over(changes, row) /\ cache' = None

NoChanges == <<>>

(* A closed bar ends a live plan or counts its closes outside the zone; the    *)
(* builder may bring the plan again when it has ended, not on the same bar.    *)
ClosedOut(c) ==
    \/ c < Invalid
    \/ setup = "structure_location_pullback" /\ c < Entry
    \/ Far(c)
    \/ ~InZone(c) /\ row.outside + 1 >= Limit

(* The bar is clearly back above the entry; a decisive one also has a body     *)
(* that points there and a low that touched it.                                *)
Holds(c) == c > Entry

Bar(c, decisive, brings) ==
    /\ latest.time < MaxBars
    /\ decisive => Holds(c) /\ setup = "structure_location_pullback"
    /\ latest' = [time |-> latest.time + 1, close |-> c, decisive |-> decisive]
    /\ held' = IF Holds(c) THEN held \union {latest.time + 1} ELSE held
    /\ IF row.st = "active"
       THEN IF ClosedOut(c) THEN Write([st |-> "ended"])
            ELSE LET streak == IF InZone(c) THEN 0 ELSE row.outside + 1
                 IN  Write(IF streak = row.outside THEN NoChanges ELSE [outside |-> streak])
       ELSE IF brings
            THEN Write([None EXCEPT !.st = "active", !.life = row.life + 1,
                                    !.boundary = IF setup = "range_false_breakout"
                                                THEN "unvisited" ELSE "none"])
            ELSE UNCHANGED <<row, cache>>
    /\ UNCHANGED <<setup, engine, fired, price, restarted>>

(* list_current: the cached plan, or the row, which is cached a step later.    *)
Read(e) ==
    /\ engine[e].at = "idle"
    /\ IF cache.st = "active"
       THEN engine' = [engine EXCEPT ![e].at = "tick", ![e].copy = cache]
       ELSE /\ row.st = "active"
            /\ engine' = [engine EXCEPT ![e].at = "fill", ![e].copy = row]
    /\ UNCHANGED <<setup, row, cache, latest, fired, price, held, restarted>>

Fill(e) ==
    /\ engine[e].at = "fill"
    /\ cache' = engine[e].copy
    /\ engine' = [engine EXCEPT ![e].at = "tick"]
    /\ UNCHANGED <<setup, row, latest, fired, price, held, restarted>>

(* Three seconds. *)
Forget ==
    /\ cache # None
    /\ cache' = None
    /\ UNCHANGED <<setup, row, engine, latest, fired, price, held, restarted>>

(* Closed bars that confirm a reclaim, looked at when the price is back.       *)
Counted(c) == IF Holds(latest.close) THEN c.count + 1 ELSE 0

\* Mutant: the bar is counted on every tick.
ConfirmationEachTick(c) ==
    IF latest.time = 0 \/ setup = "liquidity_sweep_reclaim" THEN NoChanges
    ELSE IF setup = "range_false_breakout"
    THEN [bar |-> latest.time, count |-> Counted(c), ok |-> Counted(c) >= Required]
    ELSE [bar |-> latest.time, ok |-> latest.decisive]

Confirmation(c) ==
    IF latest.time \in {0, c.bar} \/ setup = "liquidity_sweep_reclaim" THEN NoChanges
    ELSE IF setup = "range_false_breakout"
    THEN [bar |-> latest.time, count |-> Counted(c), ok |-> Counted(c) >= Required]
    ELSE [bar |-> latest.time, ok |-> latest.decisive]

Confirmed(c) ==
    setup \in {"range_false_breakout", "structure_location_pullback"} =>
        latest.time > 0 /\ Over(Confirmation(c), c).ok

(* _triggered inside the zone: the touch of an engine's memory or of any field *)
(* of the payload; a touch that only this tick or the boundary shows is        *)
(* written.                                                                    *)
Remembered(c, memory) == memory > 0 \/ c.seen \/ c.touch # "none"
Touched(c, memory, p) ==
    Remembered(c, memory) \/ c.boundary \in {"touched", "triggered"} \/ p <= Entry

\* Mutant: the touch is kept in memory alone until the plan triggers.
FirstTouchInMemory(c, memory, p) == NoChanges

FirstTouch(c, memory, p) ==
    IF Touched(c, memory, p) /\ ~Remembered(c, memory)
    THEN [seen |-> TRUE, touch |-> "touched", boundary |-> "touched"] ELSE NoChanges

Reclaimed(c, memory, p) == Touched(c, memory, p) /\ p >= Entry

Inside(c, memory, p) ==
    LET result == Reclaimed(c, memory, p)
        fires == result /\ Confirmed(c)
    IN  [fires |-> fires,
         memory |-> IF ~Touched(c, memory, p) THEN 0 ELSE IF memory > 0 THEN memory ELSE c.life,
         changes |-> Over(IF fires THEN [seen |-> TRUE, touch |-> "reclaimed", boundary |-> "triggered"]
                          ELSE NoChanges,
                          Over(IF result THEN Confirmation(c) ELSE NoChanges,
                               FirstTouch(c, memory, p)))]

(* ... and outside it: a plan that has been reclaimed still fills near the     *)
(* zone, and the boundary of a range has been left.                            *)
Beyond(c, memory, p) ==
    LET fires == /\ c.seen \/ c.touch # "none"
                 /\ c.touch = "reclaimed" \/ c.boundary = "triggered"
                 /\ FillAllowed(p)
    IN  [fires |-> fires, memory |-> memory,
         changes |-> IF ~fires /\ setup = "range_false_breakout"
                               /\ c.boundary \in {"touched", "triggered"}
                     THEN [boundary |-> "left_boundary"] ELSE NoChanges]

(* generate_signals_for_strategy, for the plan the engine has listed.          *)
Tick(e, p) ==
    LET c == engine[e].copy
        memory == engine[e].memory
    IN  /\ engine[e].at = "tick"
        /\ IF Broken(p)
           THEN /\ Write(IF row.st = "active" THEN [st |-> "ended"] ELSE NoChanges)
                /\ engine' = [engine EXCEPT ![e].at = "idle", ![e].copy = None]
                /\ fired' = FALSE
                /\ price' = IF Far(p) THEN "drifted" ELSE price
           ELSE IF setup = "liquidity_sweep_reclaim" /\ ~FillAllowed(p)
           THEN /\ engine' = [engine EXCEPT ![e].at = "idle", ![e].copy = None]
                /\ fired' = FALSE
                /\ UNCHANGED <<row, cache, price>>
           ELSE \E outcome \in {IF InZone(p) THEN Inside(c, memory, p) ELSE Beyond(c, memory, p)} :
                /\ Write(outcome.changes)
                /\ engine' = [engine EXCEPT ![e] = [at |-> "idle", copy |-> None,
                                                    memory |-> outcome.memory]]
                /\ fired' = outcome.fires
                /\ price' = IF InZone(p) /\ p <= Entry THEN "touched" ELSE price
        /\ UNCHANGED <<setup, latest, held, restarted>>

(* An engine is made anew, by a restart or after an eviction.                  *)
Renew(e) ==
    /\ restarted < MaxRestarts
    /\ restarted' = restarted + 1
    /\ engine' = [engine EXCEPT ![e] = [at |-> "idle", copy |-> None, memory |-> 0]]
    /\ UNCHANGED <<setup, row, cache, latest, fired, price, held>>

Next ==
    \/ \E c \in Closes, decisive, brings \in BOOLEAN : Bar(c, decisive, brings)
    \/ \E e \in Engines : \/ Read(e) \/ Fill(e) \/ Renew(e)
                          \/ \E p \in Ticks : Tick(e, p)
    \/ Forget

Spec == Init /\ [][Next]_vars

----------------------------------------------------------------------------

Plans == [st : {"none", "active", "ended"}, life : 0..MaxBars, seen : BOOLEAN,
          touch : {"none", "touched", "reclaimed"},
          boundary : {"none", "unvisited", "touched", "triggered", "left_boundary"},
          outside : 0..Limit, bar : 0..MaxBars, count : 0..MaxBars, ok : BOOLEAN]

TypeOK ==
    /\ setup \in Setups
    /\ row \in Plans /\ cache \in Plans
    /\ engine \in [Engines -> [at : {"idle", "fill", "tick"}, copy : Plans, memory : 0..MaxBars]]
    /\ latest \in [time : 0..MaxBars, close : Closes \union {0}, decisive : BOOLEAN]
    /\ fired \in BOOLEAN /\ price \in {"outside", "touched", "drifted"}
    /\ held \subseteq 1..MaxBars
    /\ restarted \in 0..MaxRestarts

(* A reclaim triggers only after the price has been at the entry since the     *)
(* plan's id first appeared, whatever the caches and restarts do.              *)
TriggerWasTouched == fired => price # "outside"

(* A touch an engine remembers of the present life is in the row, where the    *)
(* other engines and a restarted one find it.                                  *)
TouchIsKept ==
    \A e \in Engines : engine[e].memory > 0 /\ engine[e].memory = row.life =>
        row.seen /\ row.touch # "none"

(* A closed bar counts once towards the confirmation, whichever engines look   *)
(* at it how often: no confirmation without enough bars that held.             *)
BarsConfirm ==
    setup = "range_false_breakout" =>
        /\ row.count <= Cardinality(held)
        /\ row.ok => Cardinality(held) >= Required

(* What a comment in _triggered says: a reclaim that has drifted well outside  *)
(* its zone must touch it again.  An engine's memory outlives the plan's life. *)
DriftNeedsTouch == fired => price # "drifted"

============================================================================
