\* A check-in beside a sibling's watch, in a session that has room for one, with a restart;
\* three pieces of work in two slots.
\* A process that cannot start does nothing more, nor one whose work is over.
CONSTANTS
  checkin1 = checkin1
  watch1 = watch1
  Checkin <- OneCheckin
  Watch <- OneWatch
  Consented <- OneWatch
  MaxConcurrent = 1
  MaxCheckins = 1
  MaxRestarts = 1
  NumWork = 3
  KeepFinished = 1
  none = none
SPECIFICATION WorkSpec
INVARIANTS
  RowIsTheTruth
PROPERTIES
  KeepsThePromise
  FiredIsHeard
  QueuedWorkStarts
CHECK_DEADLOCK FALSE
