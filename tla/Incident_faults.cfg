SPECIFICATION IncidentSpec
CONSTANTS
  N = 4
  Synthetic = {4}
  ZMin = 3
  Kinds = {"resource", "latency", "error", "loss", "none"}
  Traced = {1, 2, 3}
  Slow = 5
  Delay = 3
  WindowEnd = 10
  ChunkLen = 5
  MinChunk = 1
  PageLimit = 3
  TraceCap = 2
  MaxFailures = 1
  None = None
  MinSelf = 2
  MinShift = 2
  LatencyDelta = 1
  BucketLen = 5
  Usual = 800
  Agreement = 60
  Nothing = Nothing
  Lines = 2
INVARIANTS OriginComesFirst IndexIsFaithful AttributionIsRight EvidenceIsRight CulpritSurvives StepsAreSustained RowsAreRepresented
CHECK_DEADLOCK FALSE
