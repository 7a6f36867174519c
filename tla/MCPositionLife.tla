--------------------------- MODULE MCPositionLife ---------------------------
(* Scenarios for PositionLife.  Entry 100 and a risk of 20 put the multiples *)
(* of the risk the policies use on whole prices.                             *)
EXTENDS PositionRules

Bids == {70, 79, 85, 92, 106, 112, 120, 126, 142, 150}

NoStages == [internal |-> 0, swing |-> 0, external |-> 0]
BasePolicy ==
    [multi |-> FALSE, rules |-> <<>>, signalShare |-> 0,
     stopRules |-> <<[kind |-> "signal"], [kind |-> "pivot", maxAge |-> 3, buffer |-> 2],
                     [kind |-> "atr", value |-> 200], [kind |-> "fixed_percent", value |-> 20]>>,
     takeRules |-> <<[kind |-> "signal"], [kind |-> "risk_reward", value |-> 200]>>,
     minAtr |-> 0, minPercent |-> 1, minDistance |-> 0, maxPercent |-> 30, maxDistance |-> 0,
     minReward |-> 100, stopPercent |-> NoStages, targetPercent |-> NoStages,
     discovery |-> <<>>, disaster |-> 50,
     runnerOn |-> TRUE, runnerStart |-> 100, runnerDistance |-> 80]

(* The default management rules of a standard policy.                        *)
Managed == [BasePolicy EXCEPT !.rules = <<
    [kind |-> "profit_protection", stages |-> <<[start |-> 25, stop |-> -25], [start |-> 50, stop |-> -10]>>],
    [kind |-> "break_even", start |-> 100, offset |-> 0],
    [kind |-> "pivot_trailing", start |-> 100, maxAge |-> 0, buffer |-> 1],
    [kind |-> "structure_trailing", buffer |-> 15, improvement |-> 10],
    [kind |-> "trailing_stop", start |-> 100, distance |-> 60],
    [kind |-> "partial_take_profit", levels |->
        <<[id |-> <<"tp", 1>>, trigger |-> 100, percent |-> 30, move |-> "break_even"],
          [id |-> <<"tp", 2>>, trigger |-> 200, percent |-> 30, move |-> "trail"]>>]>>]
(* An AI signal's target taken in part, the rest trailed past the target.    *)
Signalled == [BasePolicy EXCEPT !.signalShare = 50, !.rules = <<
    [kind |-> "target_trailing", distance |-> 30, least |-> 30, most |-> 100, multiple |-> 100],
    [kind |-> "max_holding_bars", bars |-> 4]>>]
Layered == [BasePolicy EXCEPT !.multi = TRUE,
    !.stopPercent = [internal |-> 30, swing |-> 40, external |-> 100],
    !.targetPercent = [internal |-> 30, swing |-> 30, external |-> 100],
    !.discovery = <<[reward |-> 100, percent |-> 30], [reward |-> 200, percent |-> 30]>>,
    !.rules = <<[kind |-> "profit_protection", stages |-> <<[start |-> 100, stop |-> -10]>>],
                [kind |-> "max_holding_bars", bars |-> 4]>>]

Quiet == [signalStop |-> 0, signalTarget |-> 0, keyLevel |-> FALSE, boundary |-> 0,
          structure |-> FALSE, projection |-> FALSE, spread |-> 0, atr |-> 0, now |-> 1,
          pivots |-> {}, low |-> 0, high |-> 0, stops |-> <<>>, targets |-> <<>>]
Cfg(policy) == [policy |-> policy, lossLimit |-> 0, perLot |-> 1, slip |-> 1, minimum |-> Step]

Plain(ctx, policy, volume) ==
    [dir |-> "buy", entry |-> 100, volume |-> volume, ctx |-> ctx, cfg |-> Cfg(policy),
     reverse |-> FALSE]
Sell(s, ctx) == [s EXCEPT !.dir = "sell", !.ctx = ctx]

BySignal == [Quiet EXCEPT !.signalStop = 81, !.signalTarget = 150, !.atr = 10, !.low = 90]
ByPivot == [Quiet EXCEPT !.now = 5, !.atr = 8, !.spread = 1, !.pivots =
    {[low |-> TRUE, price |-> 88, confirmed |-> 4, time |-> 3],
     [low |-> TRUE, price |-> 94, confirmed |-> 6, time |-> 5],
     [low |-> TRUE, price |-> 96, confirmed |-> 1, time |-> 1],
     [low |-> FALSE, price |-> 104, confirmed |-> 1, time |-> 1]}]
AtLevel(boundary) == [Quiet EXCEPT !.keyLevel = TRUE, !.boundary = boundary, !.signalTarget = 140]
Layers(stops, targets) ==
    [Quiet EXCEPT !.structure = TRUE, !.atr = 8, !.stops = stops, !.targets = targets]
BuyLayers == Layers(
    <<[layer |-> "internal", price |-> 91], [layer |-> "internal", price |-> 95],
      [layer |-> "swing", price |-> 85], [layer |-> "external", price |-> 75]>>,
    <<[layer |-> "internal", price |-> 111], [layer |-> "swing", price |-> 120],
      [layer |-> "external", price |-> 145]>>)
SellLayers == Layers(
    <<[layer |-> "swing", price |-> 112], [layer |-> "internal", price |-> 106],
      [layer |-> "external", price |-> 126]>>, <<[layer |-> "swing", price |-> 120]>>)

WholeScenarios == {
    Plain(BySignal, Managed, 10 * Step),
    Sell(Plain(BySignal, Managed, 10 * Step),
         [Quiet EXCEPT !.signalStop = 120, !.atr = 5, !.high = 118]),
    Plain(ByPivot, Managed, 10 * Step),
    [Plain(BySignal, Signalled, 4 * Step) EXCEPT !.reverse = TRUE, !.cfg.lossLimit = 5000],
    Plain(AtLevel(94), BasePolicy, 2 * Step),
    Plain(AtLevel(103), BasePolicy, 2 * Step),
    Plain([Quiet EXCEPT !.signalStop = 60], BasePolicy, 2 * Step),
    Plain(BuyLayers, Layered, 10 * Step),
    Plain([BuyLayers EXCEPT !.targets = <<>>], Layered, 10 * Step),
    Sell(Plain(SellLayers, Layered, 10 * Step), SellLayers)}
(* Three steps of volume: 30 percent is less than the broker takes.          *)
SmallScenarios == {Plain(BySignal, Managed, 3 * Step), Plain(BySignal, Signalled, Step)}
AllScenarios == WholeScenarios \cup SmallScenarios
=============================================================================
