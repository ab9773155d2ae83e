SPECIFICATION RcaFairSpec
CONSTANTS
  N = 3
  Synthetic = {}
  ZMin = 3
  Kinds = {"loss", "none"}
  Concurrency = 2
  MaxPlan = 1
INVARIANTS PickIsMovedByVerdict RemedyIsBacked NoWorkerOutlivesRun
PROPERTY RcaEnds
CHECK_DEADLOCK FALSE
