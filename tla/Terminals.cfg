CONSTANTS
    Instr = {i1, i2}
    Droppable = {i2}
    MaxAttempts = 2
    PostTries = 1
    DealCrash = FALSE
    HandlerCrash = TRUE
    NoJob = NoJob
    Accounts = {"a1", "a2", "a3"}
    BrokerOf <- TwoBrokers
    Caches = {"c1"}
    MaxAsking = 2
    NoAccount = "none"
    Terminals = {"t1", "t2"}
    FullCount = 2
    BatchSize = 1
    MemoryBars = 3
    Horizon = 2
    MaxBars = 4
    BarFaults = 1
    BarRestarts = 1
    MaxMoves = 1
    Models = {1, 2}
    Admins = {"m1", "m2"}
    Requests = {"r1", "r2"}
    UserOf <- OneUser
    DailyLimit = 1
    MaxOps = 3
    MaxCalls = 2
    MaxDays = 2
    MaxStops = 1
    Sources = {1, 2}
    PeriodOf <- OnePeriod
    Interval = 2
    AnswerAttempts = 2
    ProviderPause = 1
    MaxTime = 3
    MaxRounds = 2
    MaxRenewals = 1
SPECIFICATION AllSpec
INVARIANTS AtMostOneDeal FilledMeansDealt SettledIsFinal MarketData 
PROPERTIES ImplementsPromise
