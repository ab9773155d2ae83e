SPECIFICATION LabFairSpec
CONSTANTS
  Targets = {payment, catalogue}
  SweepsAll = TRUE
  Clients = {c1}
  TTL = 0
  RecoveryPolls = 0
  MaxTime = 0
  MaxRequests = 1
  MaxFailures = 1
  Starters = {s1, s2}
  MaxRuns = 2
  MaxReplays = 1
  MaxClears = 1
  MaxDeaths = 1
INVARIANTS SingleFlight BaselineClean FaultIsOwned
 
CHECK_DEADLOCK FALSE
