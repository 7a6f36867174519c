CONSTANTS
    Order <- MCOrder
    Direction <- BothWays
    Bids <- MCBids
    Exits <- MCExits
    Volume <- MCVolume
    Cfg <- MCCfg
    Spread = 1
    Leverage = 1
    InitialBalance = 5000
    MaxTotal = 1
    MaxSide = 1
    Timeout = 1
    MaxUser = 2
SPECIFICATION FairSpec
INVARIANTS LedgerBalances LimitsHold PositionsAgree
PROPERTIES  PendingEnds
CHECK_DEADLOCK FALSE
