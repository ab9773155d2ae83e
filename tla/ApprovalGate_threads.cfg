SPECIFICATION FairSpec
CONSTANTS
  Actions = {a1}
  Stray = {}
  Handlers = {h1, h2}
  Serialized = FALSE
  TTL = 1
  MaxTime = 2
  MaxClicks = 3
  MaxPosts = 1
  MaxCrashes = 1
INVARIANT ExecutedAsApproved
PROPERTIES NeverReopened ApprovedIsResolved
CHECK_DEADLOCK FALSE
