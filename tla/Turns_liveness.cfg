\* One slot shared by two conversations: no queued turn is forgotten.
CONSTANTS
  s1 = s1
  s2 = s2
  s3 = s3
  absent = absent
  Session <- Sessions2
  NoSession = absent
  NumTurns = 2
  MaxConcurrent = 1
  MaxCards = 1
  MaxParks = 1
  MaxRestarts = 1
  Breaks = FALSE
  Retries = FALSE
SPECIFICATION FairSpec
PROPERTIES
  QueuedTurnStarts
  CancelEndsTheRun
