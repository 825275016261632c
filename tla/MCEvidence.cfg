SPECIFICATION MCSpec
CONSTANTS
  Writers = {w1, w2}
  Subscribers = {s1}
  Capacity = 1
  MaxReceipts = 3
  MaxSegments = 2
  MaxCalls = 2
  Workers = {k1}
  Policies = {"auto", "operator_approval", "disabled"}
  Horizon = 1
  MaxTime = 2
  DurableMaxReceipts = 3
  DurableMaxSegments = 2
  MaxCrashes = 1
  Down = Down
INVARIANTS StreamSound CrashSafe
PROPERTIES LogIsAppendOnly LiveDelivers DurableIsAppendOnly CompactionJustified
CHECK_DEADLOCK FALSE
