SPECIFICATION HealthSpec
CONSTANTS
  CacheTTL = 8
  Settle = 4
  PollEvery = 1
  Polls = 12
  HealLag = 8
  MaxDelays = 4
  MaxGaps = 1
INVARIANT RecoveryIsTold
CHECK_DEADLOCK FALSE
