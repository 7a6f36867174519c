CONSTANTS
    Event = {e1, e2}
    Dispatcher = {d1}
    MaxCrashes = 2
    MaxHandled = 4
    Nothing = Nothing
SPECIFICATION AllSpec
PROPERTIES PendingArrives CommandsEnd PlansGoOn WorkEnds MarketFlows
\* A behaviour of one part may come to its end.
CHECK_DEADLOCK FALSE
