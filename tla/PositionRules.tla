--------------------------- MODULE PositionRules ---------------------------
(* The rules every position of the platform lives under: how an opening     *)
(* decision becomes a stop, a target and staged exit levels (create_plan),   *)
(* what one quote makes of an open position (evaluate), and how the paper    *)
(* account turns that into a partial close, a moved stop or the final trade  *)
(* (manage).  Pure operators: the modules that keep the state use them.      *)
(*                                                                           *)
(* Prices and volumes are integers.  A multiple of the initial risk is given *)
(* in percent of it, a share of a volume in percent, and a volume in         *)
(* hundredths of the broker's volume step, so percentages stay exact.        *)
(* A result that may be absent is a set with at most one element.            *)
EXTENDS Integers, Sequences, FiniteSets, FiniteSetsExt, Functions

Step == 100                    \* one volume step, in units of volume

Sign(d) == IF d = "buy" THEN 1 ELSE -1
(* a lies on the profitable side of b for a position in direction d.         *)
Beyond(d, a, b) == Sign(d) * (a - b) > 0
Away(a, b) == IF a > b THEN a - b ELSE b - a
Share(amount, percent) == (amount * percent) \div 100
AtMost(n, top) == IF n > top THEN top ELSE n
AtLeast(n, low) == IF n < low THEN low ELSE n

\* Mutant: a stop may also be moved away from the price.
TightensEitherWay(d, stop, candidate, price) == Beyond(d, price, candidate)

(* A stop may only move closer to the price, and never past it.              *)
Tightens(d, stop, candidate, price) ==
    Beyond(d, candidate, stop) /\ Beyond(d, price, candidate)

(* Broker volume rules: openings and closings are rounded down to the step;  *)
(* a closing that comes out below the minimum takes the whole position, and  *)
(* so does one within half a step of it.                                     *)
NormalizeOpening(value, minimum, maximum) ==
    AtMost(AtLeast((value \div Step) * Step, minimum), maximum)
NormalizeClosing(value, minimum, current) ==
    IF 2 * value >= 2 * current - Step THEN current
    ELSE LET down == (value \div Step) * Step
         IN  IF down < minimum THEN current ELSE down

-----------------------------------------------------------------------------
(* Prices the rules draw on.                                                 *)

(* The nearest confirmed, fresh pivot on the protective (or the target) side *)
(* of a price, moved outwards by the rule's buffer.                          *)
PivotCandidate(d, from, rule, pivots, forStop, now) ==
    LET low == (d = "buy") = forStop
        usable == {p \in pivots :
            /\ p.low = low
            /\ p.confirmed <= now
            /\ rule.maxAge > 0 => now - p.time <= rule.maxAge
            /\ IF low THEN p.price < from ELSE p.price > from}
        nearest == CHOOSE p \in usable :
            \A q \in usable : Away(p.price, from) <= Away(q.price, from)
    IN  IF usable = {} THEN {}
        ELSE {IF low THEN nearest.price - rule.buffer ELSE nearest.price + rule.buffer}

(* What one rule of a chain proposes, before its side is looked at.          *)
Proposed(rule, d, entry, signal, risk, market, forStop) ==
    LET out == IF forStop THEN -Sign(d) ELSE Sign(d)
    IN  CASE rule.kind = "signal" /\ signal > 0 -> {signal}
          [] rule.kind = "pivot" ->
                PivotCandidate(d, entry, rule, market.pivots, forStop, market.now)
          [] rule.kind = "fixed_points" -> {entry + out * rule.value}
          [] rule.kind = "fixed_percent" -> {entry + out * Share(entry, rule.value)}
          [] rule.kind = "atr" /\ market.atr > 0 -> {entry + out * Share(market.atr, rule.value)}
          [] rule.kind = "risk_reward" /\ ~forStop /\ risk > 0 ->
                {entry + out * Share(risk, rule.value)}
          [] rule.kind = "none" /\ ~forStop -> {0}
          [] OTHER -> {}

(* The first rule of a chain that proposes a price on the right side.        *)
ResolveRule(rules, d, entry, signal, risk, market, forStop) ==
    LET valid(c) == \/ c = 0 /\ ~forStop
                    \/ IF forStop THEN Beyond(d, entry, c) ELSE Beyond(d, c, entry)
        offer(k) == {c \in Proposed(rules[k], d, entry, signal, risk, market, forStop) : valid(c)}
        useful == {k \in DOMAIN rules : offer(k) # {}}
    IN  IF useful = {} THEN {} ELSE offer(Min(useful))

-----------------------------------------------------------------------------
(* Staged exits: each structure layer contributes one stop and one target,   *)
(* the furthest of either kind closes what is left, and a disaster stop is   *)
(* kept behind the furthest stop.  Without structure targets the targets are *)
(* projected from the nearest stop (the first one is the position's target)  *)
(* and a runner follows the best price.                                      *)
FirstOfLayer(candidates, entry, out) ==
    LET valid(k) == (candidates[k].price - entry) * out > 0
    IN  {candidates[k] : k \in {k \in DOMAIN candidates :
            /\ valid(k)
            /\ \A j \in 1..(k - 1) : candidates[j].layer = candidates[k].layer => ~valid(j)}}

Furthest(prices, from) == CHOOSE p \in prices : \A q \in prices : Away(q, from) <= Away(p, from)
Nearest(prices, from) == CHOOSE p \in prices : \A q \in prices : Away(p, from) <= Away(q, from)
Prices(levels) == {l.price : l \in levels}

(* One candidate closes the rest, also among several of the same distance.   *)
Staged(kind, chosen, percent, entry) ==
    LET final == CHOOSE c \in chosen : \A o \in chosen : Away(o.price, entry) <= Away(c.price, entry)
    IN  {[id |-> <<kind, c.layer>>, kind |-> kind, price |-> c.price,
          percent |-> percent[c.layer], rest |-> c = final, risk |-> 0] : c \in chosen}

Projected(d, entry, levels, risk) ==
    {[id |-> <<"take_profit", k>>, kind |-> "take_profit",
      price |-> entry + Sign(d) * Share(risk, levels[k].reward),
      percent |-> levels[k].percent, rest |-> FALSE, risk |-> 0] : k \in DOMAIN levels}
    \cup {[id |-> <<"runner", 0>>, kind |-> "runner", price |-> 0, percent |-> 0,
           rest |-> TRUE, risk |-> risk]}

NoPlan == [ok |-> FALSE]

MultiLevelExitPlan(d, entry, policy, ctx) ==
    LET chosenStops == FirstOfLayer(ctx.stops, entry, -Sign(d))
        chosenTargets == FirstOfLayer(ctx.targets, entry, Sign(d))
        stops == Staged("stop_loss", chosenStops, policy.stopPercent, entry)
        reference == Away(entry, Nearest(Prices(stops), entry))
        discovery == chosenTargets = {} \/ ctx.projection
        targets == IF discovery THEN Projected(d, entry, policy.discovery, reference)
                   ELSE Staged("take_profit", chosenTargets, policy.targetPercent, entry)
        fixed == {t \in targets : t.kind = "take_profit"}
    IN  IF stops = {} \/ fixed = {} THEN NoPlan
        ELSE [ok |-> TRUE,
              stop |-> Furthest(Prices(stops), entry) - Sign(d) * Share(ctx.atr, policy.disaster),
              risk |-> reference,
              target |-> IF discovery THEN entry + Sign(d) * Share(reference, policy.discovery[1].reward)
                         ELSE Nearest(Prices(fixed), entry),
              levels |-> stops \cup targets]

-----------------------------------------------------------------------------
(* create_plan: protection of a new position.  A key-level setup brings its  *)
(* own boundary; every other stop is widened to the policy's floor and by    *)
(* the spread, refused beyond its ceiling, and the target must pay for it.   *)
InitialStop(d, entry, policy, ctx) ==
    IF ctx.keyLevel /\ ctx.boundary > 0 THEN {ctx.boundary}
    ELSE IF ctx.keyLevel /\ ctx.signalStop > 0 THEN {ctx.signalStop}
    ELSE ResolveRule(policy.stopRules, d, entry, ctx.signalStop, 0, ctx, TRUE)

MinimumStop(entry, policy, ctx) ==
    LET volatility == Share(ctx.atr, policy.minAtr)
        floor == IF volatility > 0 THEN volatility ELSE Share(entry, policy.minPercent)
    IN  IF ctx.keyLevel \/ floor = 0 THEN policy.minDistance ELSE floor

MaximumStop(entry, policy, ctx) ==
    LET share == Share(entry, policy.maxPercent)
        ceiling == IF share > 0 THEN share ELSE policy.maxDistance
    IN  IF ctx.signalStop > 0 /\ policy.maxDistance = 0 /\ ctx.atr > 0
        THEN AtLeast(ceiling, 3 * ctx.atr) ELSE ceiling

Target(d, entry, policy, ctx, risk) ==
    IF ctx.keyLevel /\ ctx.signalTarget > 0 THEN {ctx.signalTarget}
    ELSE ResolveRule(policy.takeRules, d, entry, ctx.signalTarget, risk, ctx, FALSE)

(* A stop closer than the floor is moved out to it, then out by the spread.  *)
StopFrom(d, entry, raw, floor, spread) ==
    (IF floor > 0 /\ Away(entry, raw) < floor THEN entry - Sign(d) * floor ELSE raw)
        - Sign(d) * spread

TooFar(risk, ceiling, policy, ctx) ==
    /\ ceiling > 0 /\ risk > ceiling
    /\ ~(ctx.signalStop > 0 /\ policy.maxDistance = 0 /\ ctx.structure)

Pays(entry, take, base, policy) ==
    \/ take = 0 \/ policy.minReward = 0
    \/ base > 0 /\ 100 * Away(take, entry) >= policy.minReward * base

(* The plan once the stop is known: its distance, and the target it needs.   *)
PlanBehind(d, entry, stop, risk, policy, ctx, staged) ==
    LET target == IF policy.multi THEN {staged.target} ELSE Target(d, entry, policy, ctx, risk)
        paying == {t \in target : Pays(entry, t, IF policy.multi THEN staged.risk ELSE risk, policy)}
    IN  IF TooFar(risk, MaximumStop(entry, policy, ctx), policy, ctx) THEN NoPlan
        ELSE IF paying = {} THEN NoPlan
        ELSE [ok |-> TRUE, stop |-> stop, risk |-> risk,
              target |-> IF policy.multi THEN 0 ELSE CHOOSE t \in paying : TRUE,
              levels |-> IF policy.multi THEN staged.levels ELSE {}]

CreatePlan(d, entry, policy, ctx) ==
    LET staged == MultiLevelExitPlan(d, entry, policy, ctx)
        first == IF policy.multi
                 THEN IF ctx.structure /\ staged.ok THEN {staged.stop} ELSE {}
                 ELSE InitialStop(d, entry, policy, ctx)
        stops == {StopFrom(d, entry, raw, MinimumStop(entry, policy, ctx), ctx.spread) : raw \in first}
        plans == {PlanBehind(d, entry, s, Away(entry, s), policy, ctx, staged) : s \in stops}
    IN  IF plans = {} THEN NoPlan ELSE CHOOSE p \in plans : TRUE

\* Mutant: only the sign of the prices is looked at.
ValidExitsBySign(d, entry, stop, target) == entry > 0 /\ stop > 0 /\ target >= 0

(* The order is refused when a stop or target is on the wrong side.          *)
ValidExits(d, entry, stop, target) ==
    /\ entry > 0 /\ stop > 0 /\ target >= 0
    /\ Beyond(d, entry, stop)
    /\ target > 0 => Beyond(d, target, entry)

-----------------------------------------------------------------------------
(* evaluate: what one quote asks of an open position.  The result is nothing *)
(* (kind "hold"), a close, a partial close, or a tighter stop.               *)
Hold == [kind |-> "hold", volume |-> 0, ids |-> {}, stop |-> 0, reason |-> ""]
Close(ids, reason) == [Hold EXCEPT !.kind = "close", !.ids = ids, !.reason = reason]
Partial(volume, ids, stop, reason) ==
    [kind |-> "partial", volume |-> volume, ids |-> ids, stop |-> stop, reason |-> reason]

(* A remaining volume of zero reads as "never reduced".                      *)
Active(pos) == IF pos.rem = 0 THEN pos.vol ELSE pos.rem
Best(pos, price) == IF Beyond(pos.dir, price, pos.fav) THEN price ELSE pos.fav
Profit(pos, price) == Sign(pos.dir) * (Best(pos, price) - pos.entry)
(* The best profit so far has reached a multiple of the initial risk.        *)
Reached(pos, price, percent) == 100 * Profit(pos, price) >= pos.risk * percent
Trail(pos, price, distance) == Best(pos, price) - Sign(pos.dir) * distance

\* Mutant: a level the price just touches is not hit.
HitStrictly(pos, price, kind) ==
    {l \in pos.levels : /\ l.kind = kind /\ l.id \notin pos.done /\ l.price > 0
                        /\ IF kind = "stop_loss" THEN Beyond(pos.dir, l.price, price)
                           ELSE Beyond(pos.dir, price, l.price)}
(* Staged levels the price is at or past: stops before targets.              *)
Hit(pos, price, kind) ==
    {l \in pos.levels : /\ l.kind = kind /\ l.id \notin pos.done /\ l.price > 0
                        /\ IF kind = "stop_loss" THEN ~Beyond(pos.dir, price, l.price)
                           ELSE ~Beyond(pos.dir, l.price, price)}

LevelExit(pos, price) ==
    LET stops == Hit(pos, price, "stop_loss")
        hits == IF stops # {} THEN stops ELSE Hit(pos, price, "take_profit")
        slice == SumFunction([l \in hits |-> Share(pos.vol, l.percent)])
        volume == IF \E l \in hits : l.rest THEN Active(pos) ELSE AtMost(slice, Active(pos))
        ids == {l.id : l \in hits}
        reason == IF stops # {} THEN "multi_level_stop_loss" ELSE "multi_level_take_profit"
    IN  IF hits = {} THEN Hold
        ELSE IF volume >= Active(pos) THEN Close(ids, reason)
        ELSE Partial(volume, ids, 0, reason)

(* What is left after the projected targets follows the best price.          *)
RunnerExit(pos, price, policy) ==
    LET runners == {l \in pos.levels : l.kind = "runner" /\ l.id \notin pos.done}
        runner == CHOOSE l \in runners : TRUE
        base == IF runner.risk > 0 THEN runner.risk ELSE pos.risk
        armed == 100 * Profit(pos, price) >= base * policy.runnerStart
        stop == Trail(pos, price, Share(base, policy.runnerDistance))
    IN  IF runners # {} /\ policy.runnerOn
           THEN IF base > 0 /\ armed /\ ~Beyond(pos.dir, price, stop)
                THEN Close({runner.id}, "multi_level_runner_trailing") ELSE Hold
           ELSE Hold

SignalTarget == <<"signal_take_profit", 0>>
SignalTargetExit(pos, price, policy) ==
    IF /\ policy.signalShare > 0 /\ pos.tp > 0 /\ SignalTarget \notin pos.done
       /\ ~Beyond(pos.dir, pos.tp, price)
    THEN Partial(Share(Active(pos), policy.signalShare), {SignalTarget}, 0,
                 "signal_take_profit_partial")
    ELSE Hold

(* Rules that end the evaluation.                                            *)
PartialStop(pos, price, policy, move) ==
    LET trails == {r \in Range(policy.rules) : r.kind = "trailing_stop"}
        distance == IF trails = {} THEN Share(pos.risk, 80)
                    ELSE Share(pos.risk, (CHOOSE r \in trails : TRUE).distance)
        candidate == CASE move = "break_even" -> {pos.entry}
                       [] move = "trail" -> {Trail(pos, price, distance)}
                       [] OTHER -> {}
        legal == {c \in candidate : Tightens(pos.dir, pos.sl, c, price)}
    IN  IF legal = {} THEN 0 ELSE CHOOSE c \in legal : TRUE

RuleExit(rule, pos, price, policy, market, reverse) ==
    CASE rule.kind = "reverse_signal" /\ reverse -> Close({}, "reverse_signal")
      [] rule.kind = "max_holding_bars" /\ market.now - pos.opened >= rule.bars ->
            Close({}, "max_holding_bars")
      [] rule.kind = "partial_take_profit" /\ pos.risk > 0 ->
            LET due == {k \in DOMAIN rule.levels :
                          /\ rule.levels[k].id \notin pos.done
                          /\ Reached(pos, price, rule.levels[k].trigger)}
                level == rule.levels[Min(due)]
            IN  IF due = {} THEN Hold
                ELSE Partial(Share(Active(pos), level.percent), {level.id},
                             PartialStop(pos, price, policy, level.move), "partial_take_profit")
      [] OTHER -> Hold

(* Stops the other rules would like to see.                                  *)
RuleStop(rule, pos, price, market) ==
    LET toward(percent) == pos.entry + Sign(pos.dir) * Share(pos.risk, percent)
        protected == IF pos.dir = "buy" THEN market.low ELSE market.high
        level == protected - Sign(pos.dir) * Share(market.atr, rule.buffer)
    IN CASE rule.kind = "profit_protection" /\ pos.risk > 0 ->
              LET stages == {k \in DOMAIN rule.stages : Reached(pos, price, rule.stages[k].start)}
              IN  IF stages = {} THEN {} ELSE {toward(rule.stages[Max(stages)].stop)}
         [] rule.kind = "target_trailing" /\ pos.risk > 0 /\ pos.tp > 0 ->
              IF Beyond(pos.dir, pos.tp, Best(pos, price)) THEN {}
              ELSE LET wish == IF rule.multiple > 0 /\ market.atr > 0
                               THEN Share(market.atr, rule.multiple)
                               ELSE Share(pos.risk, rule.distance)
                       distance == AtLeast(AtMost(wish, Share(pos.risk, rule.most)),
                                           Share(pos.risk, rule.least))
                   IN  {Trail(pos, price, distance)}
         [] rule.kind = "break_even" /\ pos.risk > 0 ->
              IF ~Beyond(pos.dir, pos.entry, pos.sl) \/ ~Reached(pos, price, rule.start) THEN {}
              ELSE {toward(rule.offset)}
         [] rule.kind = "trailing_stop" /\ pos.risk > 0 ->
              IF Reached(pos, price, rule.start)
              THEN {Trail(pos, price, Share(pos.risk, rule.distance))} ELSE {}
         [] rule.kind = "pivot_trailing" ->
              IF Reached(pos, price, rule.start)
              THEN PivotCandidate(pos.dir, price, rule, market.pivots, TRUE, market.now) ELSE {}
         [] rule.kind = "structure_trailing" /\ protected > 0 ->
              IF 100 * Sign(pos.dir) * (level - pos.sl) >= market.atr * rule.improvement
              THEN {level} ELSE {}
         [] OTHER -> {}

(* Under staged exits the broker's stop stays the fixed disaster guard.      *)
Owned == {"break_even", "pivot_trailing", "structure_trailing", "trailing_stop",
          "partial_take_profit"}

Tightest(pos, stops, price) ==
    LET legal == {c \in stops : Tightens(pos.dir, pos.sl, c, price)}
    IN  IF legal = {} THEN Hold
        ELSE [Hold EXCEPT !.kind = "stop",
                          !.stop = IF pos.dir = "buy" THEN Max(legal) ELSE Min(legal)]

(* The rules in order: the first that ends the evaluation, else the best of  *)
(* the stops they would like.                                                *)
ByRules(pos, price, policy, market, exits, used) ==
    LET ending == {k \in used : exits[k] # Hold}
    IN  IF ending # {} THEN exits[Min(ending)]
        ELSE Tightest(pos, UNION {RuleStop(policy.rules[k], pos, price, market) : k \in used}, price)

FirstOf(staged, runner, signal, rules) ==
    IF staged # Hold THEN staged ELSE IF runner # Hold THEN runner
    ELSE IF signal # Hold THEN signal ELSE rules

Evaluate(pos, price, policy, market, reverse) ==
    LET used == {k \in DOMAIN policy.rules : ~(policy.multi /\ policy.rules[k].kind \in Owned)}
        exits == [k \in used |-> RuleExit(policy.rules[k], pos, price, policy, market, reverse)]
    IN  FirstOf(LevelExit(pos, price), RunnerExit(pos, price, policy),
                SignalTargetExit(pos, price, policy),
                ByRules(pos, price, policy, market, exits, used))

-----------------------------------------------------------------------------
(* What a policy has to be for an evaluation: numbers where it counts.       *)
RuleNumbers(r) ==
    /\ r.kind = "profit_protection" => r.stages \in Seq([start : Int, stop : Int])
    /\ r.kind = "target_trailing" => {r.multiple, r.distance, r.most, r.least} \subseteq Int
    /\ r.kind = "break_even" => r.offset \in Int
    /\ r.kind = "trailing_stop" => r.distance \in Int
    /\ r.kind \in {"pivot_trailing", "structure_trailing"} => r.buffer \in Int
    /\ r.kind = "partial_take_profit" =>
          DOMAIN r.levels \subseteq Nat /\ \A k \in DOMAIN r.levels : r.levels[k].percent \in Int

ManagedNumbers(p) ==
    /\ p.multi \in BOOLEAN /\ p.signalShare \in Int
    /\ DOMAIN p.rules \subseteq Nat /\ \A k \in DOMAIN p.rules : RuleNumbers(p.rules[k])

-----------------------------------------------------------------------------
(* manage: one open position of the paper account under one quote.           *)
(* The result is the position, the cash its account gains, and the trade row *)
(* written, if any.  cfg is [policy, lossLimit, perLot, slip, minimum].      *)
MarkOf(pos, quote) == IF pos.dir = "buy" THEN quote.bid ELSE quote.ask
ExitOf(pos, quote, cfg) == MarkOf(pos, quote) - Sign(pos.dir) * cfg.slip
Gross(pos, price, volume) == Sign(pos.dir) * (price - pos.entry) * volume

(* Stop and target of the position itself against the quote.                 *)
HardExit(pos, mark) ==
    IF pos.sl > 0 /\ ~Beyond(pos.dir, mark, pos.sl) THEN "stop_loss"
    ELSE IF pos.tp > 0 /\ ~Beyond(pos.dir, pos.tp, mark) THEN "take_profit" ELSE "hold"

\* Mutant: only the quote closes a position.
ReasonOfQuote(pos, quote, cfg) ==
    LET hard == HardExit(pos, MarkOf(pos, quote)) IN IF hard = "hold" THEN "" ELSE hard

(* A reason set from outside (a flatten, a reversed signal) stands unless    *)
(* the quote hits a hard exit; a target still to be taken in part clears it. *)
ReasonToClose(pos, quote, cfg) ==
    LET hard == HardExit(pos, MarkOf(pos, quote))
        staged == cfg.policy.signalShare > 0 /\ SignalTarget \notin pos.done
        reason == CASE hard = "stop_loss" -> "stop_loss"
                    [] hard = "take_profit" -> IF staged THEN "" ELSE "take_profit"
                    [] OTHER -> pos.why
        net == Gross(pos, ExitOf(pos, quote, cfg), Active(pos))
                 - pos.fee - Active(pos) * cfg.perLot
    IN  IF reason = "" /\ cfg.lossLimit > 0 /\ net <= -cfg.lossLimit
        THEN "single_position_loss_limit" ELSE reason

\* Mutant: the opening commission is taken from the cash a second time.
ClosedChargedTwice(pos, quote, cfg, reason) ==
    LET volume == Active(pos)
        net == Gross(pos, ExitOf(pos, quote, cfg), volume) - volume * cfg.perLot - pos.fee
    IN  [pos |-> [pos EXCEPT !.st = "closed", !.why = reason], gain |-> net,
         row |-> {[volume |-> volume, net |-> net, reason |-> reason, ids |-> {}]}]

(* The final close: the whole active volume at the slipped price.  The row   *)
(* carries the opening commission, which the account paid when it opened.    *)
Closed(pos, quote, cfg, reason) ==
    LET volume == Active(pos)
        gross == Gross(pos, ExitOf(pos, quote, cfg), volume)
        fee == volume * cfg.perLot
    IN  [pos |-> [pos EXCEPT !.st = "closed", !.why = reason],
         gain |-> gross - fee,
         row |-> {[volume |-> volume, net |-> gross - fee - pos.fee,
                   reason |-> reason, ids |-> {}]}]

(* A partial close at the mark.  A slice the broker would not take becomes   *)
(* the whole remaining volume; the position stays open either way.           *)
Reduced(pos, quote, cfg, act) ==
    LET volume == AtMost(NormalizeClosing(AtMost(act.volume, Active(pos)), cfg.minimum, Active(pos)),
                         Active(pos))
        gain == Gross(pos, MarkOf(pos, quote), volume) - volume * cfg.perLot
    IN  [pos |-> [pos EXCEPT !.rem = Active(pos) - volume,
                             !.done = @ \cup act.ids,
                             !.sl = IF act.stop = 0 THEN @ ELSE act.stop,
                             !.tp = IF SignalTarget \in act.ids THEN 0 ELSE @],
         gain |-> gain,
         row |-> {[volume |-> volume, net |-> gain, reason |-> act.reason, ids |-> act.ids]}]

Acted(seen, quote, cfg, act) ==
    CASE act.kind = "close" -> Closed(seen, quote, cfg, act.reason)
      [] act.kind = "partial" /\ act.volume > 0 -> Reduced(seen, quote, cfg, act)
      [] act.kind = "stop" -> [pos |-> [seen EXCEPT !.sl = act.stop], gain |-> 0, row |-> {}]
      [] OTHER -> [pos |-> seen, gain |-> 0, row |-> {}]

Manage(pos, quote, cfg, market) ==
    LET mark == MarkOf(pos, quote)
        reason == ReasonToClose(pos, quote, cfg)
        seen == [pos EXCEPT !.fav = Best(pos, mark)]
    IN  IF reason # "" THEN Closed(pos, quote, cfg, reason)
        ELSE Acted(seen, quote, cfg, Evaluate(seen, mark, cfg.policy, market, FALSE))
=============================================================================
