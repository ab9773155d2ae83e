SPECIFICATION FairSpec
CONSTANTS
  Targets = {shipping}
  SweepsAll = FALSE
  Clients = {c1, c2}
  TTL = 1
  RecoveryPolls = 2
  MaxTime = 3
  MaxRequests = 2
  MaxFailures = 1
INVARIANTS RunIsToldAsItWas EarlyAbortPreventsExecution
 
CHECK_DEADLOCK FALSE
