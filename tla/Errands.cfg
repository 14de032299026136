\* Each part in an instance of its own.
\* A part whose work is over does nothing more.
CONSTANTS
  NumHelpers = 3
  Slots = 1
  Burst = 1
  MaxMail = 2
  Correspondents = 2
  NumSessions = 2
  MaxSandboxes = 2
  MaxRequests = 2
  MaxFaults = 1
  MaxRestarts = 1
  ca = ca
  cb = cb
  Conversation = {ca, cb}
  MaxNotes = 2
  MaxCalls = 3
  MaxLessons = 1
  Limits = {0, 2}
  MaxSets = 1
  MaxChanges = 1
  lucy = lucy
  helper = helper
  Author = {lucy, helper}
  Start <- Alike
  Text <- OneOrBroken
  Quote <- OneSpacedOrTwo
  Loosest = {1, 3}
  Window = 2
  MaxLines = 3
  MaxReads = 1
  MaxEdits = 2
  build = build
  tests = tests
  Command = {build, tests}
  Ceiling = 1
  Margin = 1
  Outlast = 1
  Step = 1
  Lanes = 1
  Delay = 1
  Printed = {5}
  Ring = 3
  Captured = 2
  Fits = 1
SPECIFICATION Spec
INVARIANTS
  HelperIsTrue
  NotesAreVouched
  SettingsAreThePersons
  ChangesAreInformed
  CommandIsReported
PROPERTIES
  SandboxIsKept
CHECK_DEADLOCK FALSE
