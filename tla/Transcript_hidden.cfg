\* Two turns, one summary that is to keep the newest turn.
\* Turns and items run out: nothing more happens then.
CONSTANTS
  NumTurns = 2
  MaxItems = 4
  MaxForked = 1
  MaxCompactions = 1
  Keeps = {1}
  ToolResultsKept = 1
SPECIFICATION Spec
INVARIANTS
  KeptTurnIsRead
CHECK_DEADLOCK FALSE
