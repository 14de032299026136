\* What a turn is given and gives: its prompt, its model's answer, the calls it may make.
\* A part whose work is over does nothing more.
CONSTANTS
  Which = {"gate", "prompt", "model"}
  NumTasks = 2
  MaxLive = 1
  MaxTurns = 2
  MaxMessages = 1
  MaxRestarts = 1
  NumSteps = 3
  edit = edit
  push = push
  Permission = {edit, push}
  Covers <- EditAndPush
  EachCall = {3}
  Always = {}
  ReadsOf <- ReadsPush
  MaxPlans = 2
  MaxCards = 4
  MaxEdits = 1
  NumTurns = 2
  MaxItems = 4
  Keeps = {0, 1}
  MaxForked = 1
  MaxCompactions = 2
  ToolResultsKept = 1
  File = {report, draft}
  MaxBlobs = 3
  MaxCalls = 5
  MaxCrashes = 1
  Source = {"finished", "memory", "feeds"}
  AnswerCounts = {0, 5}
  Ceilings = {0, 1, 3, 6, 10, 16, 24}
  Costs = {0, 1, 5}
  Replies <- ModelReplies
  nobody = nobody
SPECIFICATION Spec
INVARIANTS
  RunsWhatWasApproved
  LeastGoesFirst
  AnswerIsOnes
CHECK_DEADLOCK FALSE
