SPECIFICATION Spec
CONSTANTS
  Actions = {a1, a2}
  Stray = {a2}
  Handlers = {h1}
  Serialized = TRUE
  TTL = 1
  MaxTime = 2
  MaxClicks = 3
  MaxPosts = 1
  MaxCrashes = 1
INVARIANTS SingleUse AuditMatchesWorld
PROPERTY ImplementsContract
CHECK_DEADLOCK FALSE
