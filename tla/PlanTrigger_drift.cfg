CONSTANTS
    Engines = {e1}
    Setups = {"liquidity_sweep_reclaim"}
    Lower = 9
    Entry = 10
    Upper = 11
    Atr = 2
    Invalid = 6
    Widths = 7
    Closes = {9, 14}
    Ticks = {9, 11, 12, 18}
    Required = 1
    Limit = 3
    MaxBars = 2
    MaxRestarts = 0
SPECIFICATION Spec
INVARIANTS DriftNeedsTouch
CHECK_DEADLOCK FALSE
