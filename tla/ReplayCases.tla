---------------------------- MODULE ReplayCases ----------------------------
(***************************************************************************)
(* Small replays: an entry near 100 with a risk of 10, bars that reach      *)
(* nothing, one side, both sides, and one that opens beyond a target.       *)
(***************************************************************************)
EXTENDS PositionRules

Bar(o, h, l, c) == [o |-> o, h |-> h, l |-> l, c |-> c]
SmallBars == {Bar(100, 101, 99, 100), Bar(100, 112, 99, 108), Bar(100, 112, 88, 96),
              Bar(101, 101, 89, 92), Bar(112, 113, 111, 112)}

BuyOrder == [dir |-> "buy", stop |-> 90, target |-> 110, vol |-> 2 * Step]
SellOrder == [dir |-> "sell", stop |-> 110, target |-> 90, vol |-> Step]
SmallOrders == {BuyOrder, SellOrder}

NoRules == [multi |-> FALSE, rules |-> <<>>, signalShare |-> 0, runnerOn |-> FALSE,
            runnerStart |-> 0, runnerDistance |-> 0]
(* The target in part, then a trailed rest; and levels of a rule, with a stop
   moved to the entry, and an exit after three bars or on a reversed signal. *)
Trailed == [NoRules EXCEPT !.signalShare = 50,
                           !.rules = <<[kind |-> "trailing_stop", start |-> 80, distance |-> 50]>>]
Stepped == [NoRules EXCEPT !.rules = <<
    [kind |-> "reverse_signal"], [kind |-> "max_holding_bars", bars |-> 3],
    [kind |-> "partial_take_profit", levels |->
        <<[id |-> <<"tp", 1>>, trigger |-> 60, percent |-> 50, move |-> "break_even"]>>]>>]

ReplayCfg(policy, spread, total, same, conflict) ==
    [policy |-> policy, perLot |-> 1, slip |-> 1, spread |-> spread,
     total |-> total, same |-> same, conflict |-> conflict]
SmallCfgs == {ReplayCfg(Trailed, 2, 2, 1, "allow_opposite"), ReplayCfg(Stepped, 0, 2, 2, "block")}
=============================================================================
