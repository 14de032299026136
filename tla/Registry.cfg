\* Three pieces of work, some of one group, in two slots, under a helper cap the person changes.
\* All work ends and all news is read in the end: nothing more happens then.
CONSTANTS
  reviewers = reviewers
  none = none
  NumWork = 3
  MaxConcurrent = 2
  Caps <- TwoCaps
  Group <- OneGroup
  NoGroup = none
  KeepFinished = 1
  Outcomes <- OneOutcome
  Reads = TRUE
SPECIFICATION Spec
INVARIANTS
  NewsIsTold
  CapsHeld
  NoIdleSlot
CHECK_DEADLOCK FALSE
