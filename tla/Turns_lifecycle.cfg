\* Two turns of one conversation, two parks of up to two cards, tasks and claims that raise,
\* resent requests, one restart.
CONSTANTS
  s1 = s1
  s2 = s2
  s3 = s3
  absent = absent
  Session <- Sessions1
  NoSession = absent
  NumTurns = 2
  MaxConcurrent = 1
  MaxCards = 2
  MaxParks = 2
  MaxRestarts = 1
  Breaks = TRUE
  Retries = TRUE
SPECIFICATION Spec
INVARIANTS
  OneRunningPerSession
  LoopHoldsItsRow
  RunningTurnHasItsTask
  ParkedTurnHasAQuestion
  SpinnerHonest
  QueuedTurnKeepsItsAuthority
PROPERTIES
  ImplementsLifecycle
