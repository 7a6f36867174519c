SPECIFICATION Spec
CONSTANTS
  Plan = {p1, p2}
  Worker = {w1, w2}
  p1 = p1
  p2 = p2
  w1 = w1
  w2 = w2
  Grouped = TRUE
  Supersession = FALSE
  LateSweep = TRUE
  FailingWrites = FALSE
  MaxOrders = 2
  MaxRestarts = 0
INVARIANT ConsumedOnce
CHECK_DEADLOCK FALSE
