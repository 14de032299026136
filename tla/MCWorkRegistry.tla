--------------------------- MODULE MCWorkRegistry ---------------------------
(* Instances of WorkRegistry for TLC. *)
EXTENDS WorkRegistry

CONSTANTS reviewers, none

OneGroup == {reviewers}
NoGroups == {}
OneCap == {1}
TwoCaps == {1, 2}
OneOutcome == {"succeeded"}
AnyOutcome == {"succeeded", "failed", "timed_out"}
=============================================================================
