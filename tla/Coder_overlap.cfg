\* One delegation, and a message that read its row before its first turn and writes it after.
\* Turns and messages run out: nothing more happens then.
CONSTANTS
  NumTasks = 1
  MaxLive = 1
  MaxTurns = 2
  MaxMessages = 1
  MaxRestarts = 0
SPECIFICATION Spec
INVARIANTS
  OneTurnPerTask
CHECK_DEADLOCK FALSE
