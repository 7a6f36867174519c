---------------------------- MODULE PositionLife ----------------------------
(* One position of the paper account from its order to its last trade: the   *)
(* scenario fixes direction, policy and market context, the quotes are free. *)
(* Everything that happens to the position is PositionRules; this module     *)
(* keeps what the database keeps (the position row and the trade rows) and   *)
(* what nobody keeps but the properties need (the quotes seen so far).       *)
EXTENDS PositionRules

CONSTANTS
    Scenarios,   \* records [dir, entry, volume, ctx, cfg]
    Quoted,      \* bid prices a tick may bring
    Spread,      \* ask - bid
    MaxTicks     \* bound: quotes one position sees

VARIABLES
    scn,      \* the scenario, chosen once
    pos,      \* the row of paper_positions
    rows,     \* the rows of paper_trades, oldest first
    seen,     \* marks of the position since it opened
    last,     \* the latest of them, the fill price before
    ticks,    \* quotes so far: the clock of the scenario
    emptied   \* a partial close took the whole remaining volume
lifeVars == <<scn, pos, rows, seen, last, ticks, emptied>>

(* What the opening settings and the market context of a scenario are: numbers
   where the rules count with them, and layers whose shares are known.  A projected
   target without a reward or a share is skipped when the settings are read. *)
ChainNumbers(r) ==
    /\ r.kind = "pivot" => r.buffer \in Int
    /\ r.kind \in {"fixed_points", "fixed_percent", "atr", "risk_reward"} => r.value \in Int

PolicyNumbers(p) ==
    /\ ManagedNumbers(p)
    /\ {p.minAtr, p.minPercent, p.minDistance} \subseteq Int /\ p.disaster \in Nat
    /\ DOMAIN p.stopRules \subseteq Nat /\ \A k \in DOMAIN p.stopRules : ChainNumbers(p.stopRules[k])
    /\ p.discovery \in Seq([reward : Nat \ {0}, percent : Nat \ {0}])

ContextNumbers(c, p) ==
    /\ {c.atr, c.spread} \subseteq Nat
    /\ {c.boundary, c.signalStop, c.low, c.high} \subseteq Int
    /\ \A v \in c.pivots : v.price \in Int
    /\ Len(c.stops) \in Nat /\ DOMAIN c.stops = 1..Len(c.stops)
    /\ Len(c.targets) \in Nat /\ DOMAIN c.targets = 1..Len(c.targets)
    /\ \A k \in DOMAIN c.stops : c.stops[k].price \in Int /\ p.stopPercent[c.stops[k].layer] \in Nat
    /\ \A k \in DOMAIN c.targets : c.targets[k].price \in Int /\ p.targetPercent[c.targets[k].layer] \in Nat

ScenarioNumbers(s) ==
    /\ s.dir \in {"buy", "sell"} /\ s.entry \in Nat \ {0}
    /\ s.volume \in Int /\ s.volume >= Step
    /\ s.cfg.slip \in Int /\ s.cfg.minimum \in Nat
    /\ PolicyNumbers(s.cfg.policy) /\ ContextNumbers(s.ctx, s.cfg.policy)

ASSUME LifeAssumption ==
    /\ \A s \in Scenarios : ScenarioNumbers(s)
    /\ Quoted \subseteq Nat \ {0} /\ Spread \in Nat /\ MaxTicks \in Nat

NoPosition == [st |-> "refused"]

(* The position row a fill writes: protection comes from the order, the risk *)
(* from the fill price.                                                      *)
Opened(s, plan, fill) ==
    [st |-> "open", dir |-> s.dir, vol |-> s.volume, rem |-> s.volume,
     entry |-> fill, sl |-> plan.stop, tp |-> plan.target, fav |-> fill,
     risk |-> Away(fill, plan.stop), done |-> {}, why |-> "",
     fee |-> s.volume * s.cfg.perLot, opened |-> 0, levels |-> plan.levels]

FillPrice(s) == s.entry + Sign(s.dir) * s.cfg.slip

LifeInit ==
    \E s \in Scenarios : \E plan \in {CreatePlan(s.dir, s.entry, s.cfg.policy, s.ctx)} :
        LET fill == FillPrice(s)
            accepted == plan.ok /\ ValidExits(s.dir, fill, plan.stop, plan.target)
        IN  /\ scn = s
            /\ pos = IF accepted THEN Opened(s, plan, fill) ELSE NoPosition
            /\ rows = <<>>
            /\ seen = {}
            /\ last = fill
            /\ ticks = 0
            /\ emptied = FALSE

Market == [now |-> ticks + 1, atr |-> scn.ctx.atr, pivots |-> scn.ctx.pivots,
           low |-> scn.ctx.low, high |-> scn.ctx.high]

(* A quote: manage() runs on the open position.                              *)
Tick(bid) ==
    /\ pos.st = "open" /\ ticks < MaxTicks
    /\ LET quote == [bid |-> bid, ask |-> bid + Spread]
       IN \E outcome \in {Manage(pos, quote, scn.cfg, Market)} :
           /\ pos' = outcome.pos
           /\ last' = MarkOf(pos, quote)
           /\ seen' = seen \cup {last'}
           /\ emptied' = (emptied \/ (outcome.row # {} /\ outcome.pos.st = "open"
                                        /\ outcome.pos.rem = 0))
           /\ IF outcome.row = {} THEN UNCHANGED rows
              ELSE \E row \in outcome.row : rows' = Append(rows, row)
    /\ ticks' = ticks + 1
    /\ UNCHANGED scn

(* A reversed signal writes close_reason from outside; the next quote acts.  *)
ReverseSignal ==
    /\ pos.st = "open" /\ pos.why = "" /\ scn.reverse
    /\ pos' = [pos EXCEPT !.why = "reverse_signal"]
    /\ UNCHANGED <<scn, rows, seen, last, ticks, emptied>>

LifeNext == (\E bid \in Quoted : Tick(bid)) \/ ReverseSignal

LifeSpec == LifeInit /\ [][LifeNext]_lifeVars

-----------------------------------------------------------------------------
Open == pos.st = "open"
VolumeOf(trades) ==
    LET sum[k \in 0..Len(trades)] == IF k = 0 THEN 0 ELSE sum[k - 1] + trades[k].volume
    IN  sum[Len(trades)]
Sold == VolumeOf(rows)
Past(level, mark) ==
    IF level.kind = "stop_loss" THEN ~Beyond(pos.dir, mark, level.price)
    ELSE ~Beyond(pos.dir, level.price, mark)

(* Whatever the rules, floors, buffers and key-level boundaries do to it, a  *)
(* plan that opened a position protects it: the stop sits on the losing side *)
(* within a positive risk, every staged stop fires before the disaster stop  *)
(* behind it, and exactly one staged stop and one target close the rest.     *)
PlanProtects ==
    ticks = 0 /\ Open =>
        LET stops == {l \in pos.levels : l.kind = "stop_loss"}
        IN  /\ Beyond(pos.dir, pos.entry, pos.sl) /\ pos.risk > 0
            /\ \A l \in stops : ~Beyond(pos.dir, pos.sl, l.price)
            /\ pos.levels # {} =>
                  /\ Cardinality({l \in stops : l.rest}) = 1
                  /\ Cardinality({l \in pos.levels \ stops : l.rest}) = 1
                  /\ \A l \in stops, t \in pos.levels \ stops :
                        t.kind = "runner" \/ Beyond(pos.dir, t.price, l.price)

(* A position that survives a quote is still protected against it: break     *)
(* even, trailing, pivot and structure stops never end up at or past the     *)
(* price they were computed from.                                            *)
SurvivorIsProtected == Open /\ ticks > 0 => Beyond(pos.dir, last, pos.sl)

(* The stored best price is the best price there was: trailing exits and     *)
(* multiples of the risk are measured from it, so a quote that does nothing  *)
(* else must still move it.                                                  *)
WatermarkIsBest ==
    Open => /\ pos.fav \in seen \cup {pos.entry}
            /\ \A m \in seen \cup {pos.entry} : ~Beyond(pos.dir, m, pos.fav)

(* No staged level is passed over: while the position is open every level    *)
(* with a share that some quote reached has been executed, and none of the   *)
(* levels that close the rest was ever reached.                              *)
LevelsAreTaken ==
    Open => \A l \in pos.levels : l.kind # "runner" =>
                \A m \in seen : Past(l, m) => ~l.rest /\ (l.percent > 0 => l.id \in pos.done)

(* No level is executed twice, however often the price returns to it.        *)
LevelsFireOnce ==
    \A j, k \in DOMAIN rows : j # k => rows[j].ids \cap rows[k].ids = {}

(* A stop is only ever moved towards the price, by whichever rule moves it.  *)
StopOnlyTightens == [][Open /\ pos'.st = "open" => ~Beyond(pos.dir, pos.sl, pos'.sl)]_lifeVars

(* A position never sells more than it bought, unless a partial close        *)
(* emptied it and left it open.                                              *)
SoldWithinVolume == (rows # <<>> /\ ~emptied) => Sold <= pos.vol

(* The stop of an open position is on its losing side, below every quote it *)
(* survived, and behind it stand as many staged exits as close the rest.    *)
Protected == PlanProtects /\ SurvivorIsProtected

(* The best price is the best there was, no staged level it reached is passed *)
(* over or executed twice, and no more is sold than was bought.               *)
StagedExits == WatermarkIsBest /\ LevelsAreTaken /\ LevelsFireOnce /\ SoldWithinVolume
=============================================================================
