\* Each part in an instance of its own.
\* A part whose work is over does nothing more.
CONSTANTS
  Client = {c1}
  Writer = {w1, w2}
  NoCursor = nowhere
  Nobody = nobody
  Capacity = 1
  MaxEvents = 3
  MaxRestarts = 1
  MaxIterations = 3
  MaxToolCalls = 3
  MaxRepairs = 1
  MaxSteps = 2
  MaxItems = 3
  Resumes = TRUE
  HasFallback = TRUE
  help = help
  notes = notes
  music = music
  repos = repos
  Actor = {"turn", "request"}
  Pack = {help, notes, music, repos}
  Catalogues = {{help, notes, music, repos}}
  Free = {help}
  First <- Preferred
  DeferAbove = 2
  KeepRecent = 2
  Habits <- ReposThenMusic
  Suggestions = {{notes}}
  MaxPlans = 2
  Session = {person}
  Reader = {tui}
  Ttl = 2
  Known = 3
  Ceiling = 1
  MaxTime = 5
  MaxChanges = 1
  Call = {first, second}
  Audience = {notes, music}
  MaxEntries = 1
  RetryAttempts = 1
  Approver = {first, second}
  Poll = 1
  Lifetime = 4
  MaxDrops = 2
  Field = {title, mode}
  Behaviour = {mode}
  Patches = {{title}, {mode}, {title, mode}}
  NumTurns = 2
  MaxPatches = 2
SPECIFICATION PartsSpec
INVARIANTS
  SaysWhatItDid
  OneReachIsEnough
  GivenIsRecent
  CallIsAnsweredFairly
  ApprovedIsHandedOnce
  LastWordIsKept
PROPERTIES
  ImplementsFeed
  HearsInTheEnd
  EndsInTheEnd
CHECK_DEADLOCK FALSE
