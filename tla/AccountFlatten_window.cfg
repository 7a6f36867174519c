CONSTANTS
    Ticket = {t1}
    Guarded = {}
    HandlerCrash = FALSE
    MaxFaults = 0
SPECIFICATION Spec
PROPERTIES TimedOutIsNotSent
