CONSTANTS
    Ticket = {t1}
    Guarded = {t1}
    HandlerCrash = FALSE
    MaxFaults = 2
SPECIFICATION FairSpec
INVARIANTS FilledMeansClosed ReceiptReachesItem CommandHasItem
PROPERTIES FlattenEnds
