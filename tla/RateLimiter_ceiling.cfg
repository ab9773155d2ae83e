SPECIFICATION FairRateSpec
CONSTANTS
  Threads = {t1, t2, t3}
  Capacity = 2
  Q = 3
  Gain = 2
  MaxTime = 4
  MaxCalls = 2
INVARIANT Ceiling
PROPERTY EveryCallReturns
CHECK_DEADLOCK FALSE
