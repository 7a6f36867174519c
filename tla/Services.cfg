CONSTANTS
    Scenarios <- AllScenarios
    Quoted <- Bids
    Spread = 1
    MaxTicks = 5
    TaskKeys <- JobKeys
    Workers = {w1, w2}
    TaskRetries <- JobRetries
    HasStorage = TRUE
    MaxTasks = 2
    MaxCrashes = 1
    Accounts = {1}
    Requests = {r1}
    Callers = {"w"}
    MaxEngineTasks = 2
    MaxEngines = 3
    Orders = {"o1", "o2"}
    OrderFaults = 1
    OrderRestarts = 1
    Instr = {"i1"}
    Droppable = {"i1"}
    MaxAttempts = 2
    PostTries = 2
    DealCrash = TRUE
    HandlerCrash = FALSE
    NoJob = NoJob
    Event = {e1, e2}
    Dispatcher = {d1}
    MaxAbandoned = 2
    MaxHandled = 4
    Chunks = 2
    Got = {"bars"}
    MaxSets = 2
    MaxLost = 1
    UploadCrashes = 1
    RetryLimit = 2
    Batches = {1, 2}
    Tasks = {"t1", "t2", "t3"}
    BatchOf <- TestBatch
    TestRestarts = 2
    TestFaults = 1
    Runs = {1, 2}
    RunRestarts = 2
    RunFaults = 1
    Modes = {"bars", "ticks"}
    Bars <- SmallBars
    Quotes = {88, 100, 111}
    QuoteSpread = 1
    Seconds = {0, 30}
    Decisions <- SmallOrders
    Cfgs <- SmallCfgs
    Capital = 10000
    MaxMinutes = 4
    Highs = {1, 2}
    Period = 2
    Strength = 1
    TestStart = 3
    MaxSkip = 2
    MaxStream = 8
SPECIFICATION AllSpec
SYMMETRY Symmetry
INVARIANTS Protected StagedExits OneOwner OneInstruction SettledRowAgrees EventsAreHandled StudiesAgree 
PROPERTIES StopOnlyTightens VerdictStays
\* A behaviour of one part may come to its end.
CHECK_DEADLOCK FALSE
