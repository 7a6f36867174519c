--------------------------- MODULE BacktestReplay ---------------------------
(***************************************************************************)
(* The replay of one task (M1BacktestEngine.run): minute bars, or the ticks  *)
(* within each minute, fill the orders that wait, close positions at their   *)
(* stop or target, and at the close of the bar let the position rules of     *)
(* PositionRules and the decision service act.  What the decision service    *)
(* decides is an input here: any order of Decisions, or none.                *)
(*                                                                           *)
(* Orders are numbered as they are created, and a position has the number of *)
(* its order: the lists of the engine are in that order.  A position of the  *)
(* replay carries no exit levels (SimPosition has none), so staged exits are *)
(* the signal's target and the partial levels of a rule.                     *)
(***************************************************************************)
EXTENDS PositionRules

CONSTANTS
    Modes,       \* "bars", "ticks": what drives the fills and the exits
    Bars,        \* [o, h, l, c] of a minute
    Quotes,      \* bid prices of a tick
    QuoteSpread, \* ask - bid
    Seconds,     \* seconds of a minute at which a tick may come
    Decisions,   \* what a decision asks for: [dir, stop, target, vol]
    Cfgs,        \* [policy, perLot, slip, spread, total, same, conflict]: the rules, costs and limits
    Capital,     \* initial_capital
    MaxMinutes   \* bound: length of the test in minutes

VARIABLES
    mode, cfg,
    now,       \* [minute, at, bars]: the minute replayed, the second, and bars so far
    phase,     \* what comes next: "open", "ticks", "exits", "close", "decide", "next", "done"
    bar,       \* the minute's bar
    pend,      \* orders that wait, by number
    open,      \* open positions, by number
    balance, net,    \* of the account; and summed over the trades
    tally      \* orders: how many were created, and what became of them
replayVars == <<mode, cfg, now, phase, bar, pend, open, balance, net, tally>>

(* Prices are positive, a stop too, a target may be absent (0); the volume of
   an order is at least a step; costs are numbers, and the limits at least one
   (position_limit_reason takes max(1, ...)).  A test has two bars or more.  *)
Price == Nat \ {0}
BarRecord == [o : Price, h : Price, l : Price, c : Price]
Order == [dir : {"buy", "sell"}, stop : Price, target : Nat, vol : {v \in Nat : v >= Step}]
CfgNumbers(c) ==
    /\ ManagedNumbers(c.policy) /\ {c.perLot, c.slip, c.spread} \subseteq Int
    /\ {c.total, c.same} \subseteq Nat \ {0}
    /\ c.conflict \in {"block", "allow_same", "allow_opposite"}
ASSUME ReplayAssumption ==
    /\ Bars \subseteq BarRecord /\ Bars # {}
    /\ Quotes \subseteq Price /\ QuoteSpread \in Nat /\ Seconds \subseteq Nat
    /\ Decisions \subseteq Order /\ \A c \in Cfgs : CfgNumbers(c)
    /\ Capital \in Int

ReplayInit ==
    /\ mode \in Modes /\ cfg \in Cfgs
    /\ now = [minute |-> 0, at |-> 0, bars |-> 0] /\ phase = "next" /\ bar = CHOOSE b \in Bars : TRUE
    /\ pend = <<>> /\ open = <<>>
    /\ balance = Capital /\ net = 0
    /\ tally = [created |-> 0, filled |-> 0, rejected |-> 0, canceled |-> 0]

(* What of a list lies in a direction.                                       *)
Towards(d, positions) == {n \in DOMAIN positions : positions[n].dir = d}

(* position_limit_reason.                                                    *)
Limited(d, positions) ==
    LET total == Cardinality(DOMAIN positions)
        same == Cardinality(Towards(d, positions))
    IN  \/ total >= cfg.total
        \/ same + 1 > cfg.same
        \/ total > same /\ cfg.conflict \in {"block", "allow_same"}

(* _fill_order: the price is worse by half the spread and the slippage, and a
   stop or target the open has jumped over refuses the order.               *)
EntryPrice(order, price) == price + Sign(order.dir) * (cfg.spread \div 2 + cfg.slip)
Fillable(order, entry) ==
    /\ Beyond(order.dir, entry, order.stop)
    /\ order.target = 0 \/ Beyond(order.dir, order.target, entry)
Position(order, entry) ==
    [st |-> "open", dir |-> order.dir, vol |-> order.vol, rem |-> order.vol, entry |-> entry,
     sl |-> order.stop, tp |-> order.target, fav |-> entry, risk |-> Away(entry, order.stop),
     done |-> {}, why |-> "", opened |-> now.bars - 1, levels |-> {}]

Added(list, n, item) == [m \in DOMAIN list \union {n} |-> IF m = n THEN item ELSE list[m]]
Declined(acc) == [acc EXCEPT !.rejected = @ + 1]
Accepted(acc, n, order, entry) ==
    [open |-> Added(acc.open, n, Position(order, entry)), filled |-> acc.filled + 1,
     rejected |-> acc.rejected, cost |-> acc.cost + order.vol * cfg.perLot]

\* Mutant: the room is looked at when the decision is made and not at the fill.
FilledUnlimited(acc, n, order, price) ==
    LET entry == EntryPrice(order, price)
    IN  IF ~Fillable(order, entry) THEN Declined(acc) ELSE Accepted(acc, n, order, entry)
(* One order, against the positions there are by then.                       *)
Filled(acc, n, order, price) ==
    LET entry == EntryPrice(order, price)
    IN  IF Limited(order.dir, acc.open) \/ ~Fillable(order, entry) THEN Declined(acc)
        ELSE Accepted(acc, n, order, entry)
(* One order after the other: what there is after the first n.               *)
AllFilled(due, buy, sell) ==
    LET after[n \in 0..tally.created] ==
          IF n = 0 THEN [open |-> open, filled |-> 0, rejected |-> 0, cost |-> 0]
          ELSE IF n \in DOMAIN due
          THEN Filled(after[n - 1], n, due[n], IF due[n].dir = "buy" THEN buy ELSE sell)
          ELSE after[n - 1]
    IN  after[tally.created]

----------------------------------------------------------------------------
(* _close_at_price: part of a position, or all of it, at a price made worse by
   the slippage.  The opening commission was paid at the fill, and a trade
   bears the share of what it closes.                                       *)
\* Mutant: every trade bears the whole opening commission.
CloseAtPriceWholeFee(p, price, volume, why) ==
    LET closed == AtMost(volume, Active(p))
        gain == Gross(p, price - Sign(p.dir) * cfg.slip, closed) - closed * cfg.perLot
        left == Active(p) - closed
    IN  [pos |-> [p EXCEPT !.rem = left, !.st = IF left = 0 THEN "closed" ELSE @,
                           !.why = IF left = 0 THEN why ELSE @],
         gain |-> gain, net |-> gain - p.vol * cfg.perLot]
CloseAtPrice(p, price, volume, why) ==
    LET closed == AtMost(volume, Active(p))
        gain == Gross(p, price - Sign(p.dir) * cfg.slip, closed) - closed * cfg.perLot
        left == Active(p) - closed
    IN  [pos |-> [p EXCEPT !.rem = left, !.st = IF left = 0 THEN "closed" ELSE @,
                           !.why = IF left = 0 THEN why ELSE @],
         gain |-> gain, net |-> gain - closed * cfg.perLot]
Kept(p) == [pos |-> p, gain |-> 0, net |-> 0]
Then(first, second) == [second EXCEPT !.gain = @ + first.gain, !.net = @ + first.net]

(* What the rules ask, at a price: a partial close does not end the look at
   the position.                                                             *)
Performed(p, act, price) ==
    CASE act.kind = "close" -> CloseAtPrice(p, price, Active(p), act.reason)
      [] act.kind = "partial" /\ act.volume > 0 ->
            CloseAtPrice([p EXCEPT !.done = @ \union act.ids,
                                   !.sl = IF act.stop = 0 THEN @ ELSE act.stop],
                         price, act.volume, "partial_take_profit")
      [] act.kind = "stop" -> Kept([p EXCEPT !.sl = act.stop])
      [] OTHER -> Kept(p)

Calm(time) == [now |-> time, atr |-> 0, pivots |-> {}, low |-> 0, high |-> 0]
Watched(p, price) == [p EXCEPT !.fav = Best(p, price)]
Ruled(p, price, time, reverse) ==
    Performed(p, Evaluate(p, price, cfg.policy, Calm(time), reverse), price)

(* A tick: the rules first, then stop and target.                            *)
AfterRules(o, quote) ==
    LET p == o.pos
        mark == MarkOf(p, quote)
        why == HardExit(p, mark)
    IN  IF p.st # "open" \/ why = "hold" THEN o ELSE Then(o, CloseAtPrice(p, mark, Active(p), why))
TickExit(p, quote) ==
    LET mark == MarkOf(p, quote)
    IN  AfterRules(Ruled(Watched(p, mark), mark, now.bars - 1, FALSE), quote)

(* A bar: the signal's target is taken in part before the stop is looked at,
   and what is left has no target; else the stop, then the target.          *)
AtStop(p) == IF p.dir = "buy" THEN bar.l <= p.sl ELSE bar.h >= p.sl
AtTarget(p) == p.tp > 0 /\ IF p.dir = "buy" THEN bar.h >= p.tp ELSE bar.l <= p.tp
Unstaged(p) == cfg.policy.signalShare > 0 /\ SignalTarget \notin p.done
BarExit(p) ==
    IF Unstaged(p) /\ AtTarget(p)
    THEN CloseAtPrice([p EXCEPT !.done = @ \union {SignalTarget}, !.tp = 0], p.tp,
                      Share(Active(p), cfg.policy.signalShare), "signal_take_profit_partial")
    ELSE IF AtStop(p) THEN CloseAtPrice(p, p.sl, Active(p), "stop_loss")
    ELSE IF AtTarget(p) THEN CloseAtPrice(p, p.tp, Active(p), "take_profit")
    ELSE Kept(p)

(* The close of the bar: the best price of the bar, then the rules.          *)
CloseExit(p, reversed) ==
    Ruled(Watched(p, IF p.dir = "buy" THEN bar.h ELSE bar.l), bar.c, now.bars,
          reversed # "none" /\ p.dir # reversed)
LastExit(p) == CloseAtPrice(p, bar.c, Active(p), "end_of_test")

(* Every open position at once: they share nothing but the balance.          *)
Exit(result) ==
    /\ open' = [n \in {m \in DOMAIN open : result[m].pos.st = "open"} |-> result[n].pos]
    /\ balance' = balance + SumFunction([n \in DOMAIN open |-> result[n].gain])
    /\ net' = net + SumFunction([n \in DOMAIN open |-> result[n].net])

----------------------------------------------------------------------------
(* A minute begins; without ticks there is no bar for it.                    *)
NextMinute(b, skip) ==
    /\ phase = "next" /\ now.minute + skip <= MaxMinutes
    /\ skip > 1 => mode = "ticks"
    /\ now' = [minute |-> now.minute + skip, at |-> 0, bars |-> now.bars + 1]
    /\ bar' = IF mode = "bars" THEN b ELSE bar
    /\ phase' = IF mode = "bars" THEN "open" ELSE "ticks"
    /\ UNCHANGED <<mode, cfg, pend, open, balance, net, tally>>

(* Of the orders that wait some are due, some are too late.                  *)
Fill(due, late, buy, sell) ==
    \E filled \in {AllFilled(Restrict(pend, due), buy, sell)} :
        /\ open' = filled.open
        /\ balance' = balance - filled.cost
        /\ pend' = Restrict(pend, DOMAIN pend \ (due \union late))
        /\ tally' = [tally EXCEPT !.filled = @ + filled.filled, !.rejected = @ + filled.rejected,
                                  !.canceled = @ + Cardinality(late)]

(* Bars: every order that waits is filled or refused at the open.            *)
FillAtOpen ==
    /\ phase = "open" /\ mode = "bars"
    /\ Fill(DOMAIN pend, {}, bar.o, bar.o)
    /\ phase' = "exits"
    /\ UNCHANGED <<mode, cfg, now, bar, net>>

ExitInBar ==
    /\ phase = "exits" /\ mode = "bars"
    /\ Exit([n \in DOMAIN open |-> BarExit(open[n])])
    /\ phase' = "close"
    /\ UNCHANGED <<mode, cfg, now, bar, pend, tally>>

(* Ticks: an order may use no tick of its own second, and none later than a
   minute after it.                                                          *)
Waits(order, t) == t <= order.at
Late(order, t) == t > order.at + 60
FillAtTick(bid, at) ==
    /\ phase = "ticks" /\ at \in Seconds /\ at >= now.at
    /\ now' = [now EXCEPT !.at = at]
    /\ LET t == 60 * now.minute + at
           late == {n \in DOMAIN pend : ~Waits(pend[n], t) /\ Late(pend[n], t)}
           due == {n \in DOMAIN pend : ~Waits(pend[n], t) /\ ~Late(pend[n], t)}
       IN  Fill(due, late, bid + QuoteSpread, bid)
    /\ bar' = IF now.at = 0 THEN [o |-> bid, h |-> bid, l |-> bid, c |-> bid]
              ELSE [bar EXCEPT !.h = AtLeast(@, bid), !.l = AtMost(@, bid), !.c = bid]
    /\ phase' = "exits"
    /\ UNCHANGED <<mode, cfg, net>>

ExitAtTick ==
    /\ phase = "exits" /\ mode = "ticks"
    /\ Exit([n \in DOMAIN open |-> TickExit(open[n], [bid |-> bar.c, ask |-> bar.c + QuoteSpread])])
    /\ phase' = "ticks"
    /\ now' = [now EXCEPT !.at = @ + 1]
    /\ UNCHANGED <<mode, cfg, bar, pend, tally>>
EndOfTicks ==
    /\ phase = "ticks" /\ now.at > 0
    /\ phase' = "close"
    /\ UNCHANGED <<mode, cfg, now, bar, pend, open, balance, net, tally>>

(* The rules at the close; a signal of the other direction may end a position. *)
Manages(reversed) ==
    /\ phase = "close"
    /\ Exit([n \in DOMAIN open |-> CloseExit(open[n], reversed)])
    /\ phase' = "decide"
    /\ UNCHANGED <<mode, cfg, now, bar, pend, tally>>

(* make_decision, and _create_order of what it decides.                      *)
NoDecision ==
    /\ phase = "decide"
    /\ phase' = "next"
    /\ UNCHANGED <<mode, cfg, now, bar, pend, open, balance, net, tally>>
Decide(o) ==
    /\ phase = "decide"
    /\ IF Limited(o.dir, open)
       THEN /\ tally' = [tally EXCEPT !.created = @ + 1, !.rejected = @ + 1]
            /\ UNCHANGED pend
       ELSE /\ tally' = [tally EXCEPT !.created = @ + 1]
            /\ pend' = Added(pend, tally.created + 1,
                             [dir |-> o.dir, stop |-> o.stop, target |-> o.target, vol |-> o.vol,
                              at |-> 60 * (now.minute + 1)])
    /\ phase' = "next"
    /\ UNCHANGED <<mode, cfg, now, bar, open, balance, net>>

(* The end of the test: what waits is canceled, what is open is closed.      *)
Finish ==
    /\ phase = "next" /\ now.minute >= 2
    /\ tally' = [tally EXCEPT !.canceled = @ + Cardinality(DOMAIN pend)] /\ pend' = <<>>
    /\ Exit([n \in DOMAIN open |-> LastExit(open[n])])
    /\ phase' = "done"
    /\ UNCHANGED <<mode, cfg, now, bar>>

Minute == \E b \in Bars, skip \in 1..3 : NextMinute(b, skip)
InTicks == (\E bid \in Quotes, at \in Seconds : FillAtTick(bid, at)) \/ ExitAtTick \/ EndOfTicks
AtClose == (\E d \in {"none", "buy", "sell"} : Manages(d)) \/ NoDecision \/ \E o \in Decisions : Decide(o)
ReplayNext == Minute \/ FillAtOpen \/ ExitInBar \/ InTicks \/ AtClose \/ Finish
ReplaySpec == ReplayInit /\ [][ReplayNext]_replayVars
----------------------------------------------------------------------------
(* The money: what the account has is what it began with, and every trade's
   result, less the opening commissions of what is still open; at the end the
   trades alone explain it.                                                  *)
LedgerAddsUp ==
    balance = Capital + net - SumFunction([n \in DOMAIN open |-> open[n].rem * cfg.perLot])

(* The orders: each is in one state, the limits of strategy and template hold
   however many wait, and the end leaves nothing behind.                     *)
OrdersAccounted ==
    /\ tally.created = tally.filled + tally.rejected + tally.canceled + Cardinality(DOMAIN pend)
    /\ Cardinality(DOMAIN open) <= cfg.total
    /\ \A d \in {"buy", "sell"} : Cardinality(Towards(d, open)) <= cfg.same
    /\ cfg.conflict # "allow_opposite" => \A m, n \in DOMAIN open : open[m].dir = open[n].dir
    /\ phase = "done" => DOMAIN pend = {} /\ DOMAIN open = {}
=============================================================================
