CONSTANTS
    Plan = {p1, p2}
    Worker = {w1, w2}
    p1 = p1
    p2 = p2
    w1 = w1
    w2 = w2
    Grouped = TRUE
    Supersession = TRUE
    LateSweep = FALSE
    FailingWrites = FALSE
    MaxOrders = 2
    MaxRestarts = 1
    Charts = {c1, c2}
    Families = {"f", "g"}
    Writers = {"w1"}
    MaxEvents = 5
    MaxCycles = 2
    Setups = {"range_false_breakout", "structure_location_pullback", "liquidity_sweep_reclaim"}
    Lower = 9
    Entry = 10
    Upper = 11
    Atr = 2
    Invalid = 6
    Widths = 7
    ClosePrices = {9, 14}
    Ticks = {6, 9, 11, 12, 18}
    Required = 2
    Limit = 3
    MaxBars = 2
    MaxRenewals = 1
    Strategies = {"s1", "s2"}
    DailyLimit = 1
    MaxPositions = 1
    LossLimit = 1
    Orders = {1, 2, 3}
    Days = 2
    MaxFaults = 1
    MaxReloads = 1
    Sources = {1, 2, 3}
    Weight <- EachWeight
    Confidence <- EachConfidence
    AiSources = {3}
    MinConfidence = 60
SPECIFICATION AllSpec
SYMMETRY Alike
INVARIANTS ConsumedOnce OneHolder   EntriesAreBounded VoteIsFair
PROPERTIES FilledNeverReopens
\* A behaviour of one part may come to its end.
CHECK_DEADLOCK FALSE
