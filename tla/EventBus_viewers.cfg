SPECIFICATION FairSpec
CONSTANTS
  Viewers = {v1, v2}
  Ring = 2
  MaxFrames = 3
  MaxDrops = 2
  MaxWriteErrors = 1
  MaxDeaths = 1
INVARIANTS StrictlyForward 
PROPERTY DoneReaches
CHECK_DEADLOCK FALSE
