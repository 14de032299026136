\* One ending beside messages under any input policy, with cancels and a restart.
\* Identifiers run out and every coroutine is over: nothing more happens then.
CONSTANTS
  e1 = e1
  e2 = e2
  Claimer = claimer
  NoEnding = nobody
  Ending <- OneEnding
  MaxTurns = 3
  Policies <- AnyPolicy
  Cancels = TRUE
  MaxRestarts = 1
SPECIFICATION FairSpec
INVARIANTS
  WokenTurnHasItsAuthority
PROPERTIES
  HeldIsSpent
CHECK_DEADLOCK FALSE
