\* Two endings beside a message, with cancels: held, taken, held again and spent.
\* Identifiers run out and every coroutine is over: nothing more happens then.
CONSTANTS
  e1 = e1
  e2 = e2
  Claimer = claimer
  NoEnding = nobody
  Ending <- TwoEndings
  MaxTurns = 3
  Policies <- Enqueue
  Cancels = TRUE
  MaxRestarts = 0
SPECIFICATION Spec
SYMMETRY Alike
INVARIANTS
  NoticeWakesOneTurn
CHECK_DEADLOCK FALSE
