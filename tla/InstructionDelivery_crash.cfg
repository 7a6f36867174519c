CONSTANTS
    Instr = {i1}
    Droppable = {}
    MaxAttempts = 2
    PostTries = 1
    DealCrash = TRUE
    HandlerCrash = TRUE
    NoJob = NoJob
SPECIFICATION Spec
INVARIANTS AtMostOneDeal
