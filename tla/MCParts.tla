------------------------------ MODULE MCParts --------------------------------
(***************************************************************************)
(* Parts of the system that share no state, side by side for TLC: each     *)
(* behaviour is one of one part, and the others stay as they began. A      *)
(* variable has the name its module gives it.                              *)
(***************************************************************************)
EXTENDS Integers, Sequences, FiniteSets

CONSTANTS
  Which,  \* the parts of this instance
  NumTasks, MaxLive, MaxTurns, MaxMessages, MaxRestarts,
  NumSteps, Permission, Covers, EachCall, Always, ReadsOf, MaxPlans, MaxCards, MaxEdits,
  NumTurns, MaxItems, Keeps, MaxForked, MaxCompactions, ToolResultsKept,
  File, MaxBlobs, MaxCalls, MaxCrashes,
  Source, AnswerCounts, Ceilings, Costs,
  Replies, nobody,
  edit, push

\* Approvals: a read; an edit under a permission; a push that reads the edit and needs a
\* yes of its own.
EditAndPush == [p \in {edit, push} |-> IF p = edit THEN {2} ELSE {3}]
ReadsPush == [s \in 1..3 |-> IF s = 3 THEN {2} ELSE {}]

\* ModelCalls: words alone and a plan, behind a thought or a sentence or neither.
ModelReplies == {<<"word">>, <<"thought", "word", "word">>, <<"opening", "closing">>,
                 <<"word", "opening", "closing">>, <<"thought", "opening", "closing">>}

VARIABLES
  part,  \* the part this behaviour is of
  row, turn, live, owed, messaging, cancelling, killing, settling, looping, sent, restarts,
  status, task, mode, modeSeen, standing, allowed, once, cards, plan, asking, parked, opening,
  ran, told, plans, edits,
  log, stage, stop, reason, made, overlapped, forked,
  rows, replies, has, disk, tx, running, calls, crashes, makes,
  answered, flags, ceiling, phase, shown, head, fenced, confess, cost, looked, notices,
  dialect, streaming, wantsPlan, asked, wire, meant, arrived, ended, fault, answer, outcome,
  tried

Coder == INSTANCE Coder
Gate == INSTANCE Approvals WITH row <- status, Reads <- ReadsOf
History == INSTANCE Transcript WITH turn <- stage
Files == INSTANCE Blobs WITH session <- has, made <- makes, Key <- File
Prompt == INSTANCE Window WITH found <- answered, Answers <- AnswerCounts
Model == INSTANCE ModelCalls WITH NoProvider <- nobody

ASSUME PartsAssumption ==
  /\ Coder!CoderAssumption /\ Gate!ApprovalsAssumption
  /\ History!TranscriptAssumption /\ Files!BlobsAssumption /\ Prompt!WindowAssumption
  /\ Model!ModelCallsAssumption
  /\ Which \subseteq {"coder", "gate", "history", "files", "prompt", "model"}

coder == <<row, turn, live, owed, messaging, cancelling, killing, settling, looping, sent, restarts>>
gate == <<status, task, mode, modeSeen, standing, allowed, once, cards, plan, asking, parked,
          opening, ran, told, plans, edits>>
history == <<log, stage, stop, reason, made, overlapped, forked>>
files == <<rows, replies, has, disk, tx, running, calls, crashes, makes>>
prompt == <<answered, flags, ceiling, phase, shown, head, fenced, confess, cost, looked, notices>>
model == <<dialect, streaming, wantsPlan, asked, wire, meant, arrived, ended, fault, answer, outcome,
           tried>>
vars == <<coder, gate, history, files, prompt, model, part>>

Init ==
  /\ part \in Which
  /\ Coder!Init /\ Gate!Init /\ History!Init /\ Files!Init /\ Prompt!Init
  /\ Model!Init
  /\ part # "gate" => mode = "ask"
  /\ part # "prompt" =>
       /\ answered \in [DOMAIN answered -> {0}] /\ ceiling = 0 /\ cost \in [DOMAIN cost -> {0}]
       /\ \A f \in DOMAIN flags : flags[f]
  /\ part # "model" => dialect \in [DOMAIN dialect -> {"chat"}] /\ ~ streaming /\ ~ wantsPlan

Next ==
  /\ UNCHANGED part
  /\ IF part = "coder" THEN Coder!Next ELSE UNCHANGED coder
  /\ IF part = "gate" THEN Gate!Next ELSE UNCHANGED gate
  /\ IF part = "history" THEN History!Next ELSE UNCHANGED history
  /\ IF part = "files" THEN Files!Next ELSE UNCHANGED files
  /\ IF part = "prompt" THEN Prompt!Next ELSE UNCHANGED prompt
  /\ IF part = "model" THEN Model!Next ELSE UNCHANGED model

Spec == Init /\ [][Next]_vars

-----------------------------------------------------------------------------
\* What each part promises, in its module's words.

\* The pump finds a message for every turn after the first, and a turn that resumes a session
\* comes after the one that told it the brief, whichever copies of a row were written over one
\* another.
TurnsAreTold == Coder!PumpFindsAMessage /\ Coder!BriefComesFirst
\* A call that needs a yes of its own runs at most once for each yes it was given. Until a
\* setting was changed, and an approved call had to be held again, the plan of the approved
\* calls reads only from its own steps and holds none refused.
RunsWhatWasApproved == Gate!EachRunHasItsYes /\ Gate!ReplayIsClosed
\* Everything a turn may read is read once; and while nobody talks over a turn, and every summary
\* was to keep one turn or more, a turn reads itself.
HistoryIsTold == History!HistoryIsTold
\* However often a file is sent while the reply to it is kept, one row of it is made, and its
\* bytes are all there until a call that was to remove them.
UploadsAreKept == Files!UploadsAreKept
\* What is fitted into a prompt loses what matters least, says so, and fits.
LeastGoesFirst == Prompt!LeastGoesFirst
\* An answer is what one provider sent, and finished unless it is a stream in the chat dialect;
\* and another is asked only for what might be over by then.
AnswerIsOnes == Model!AnswerIsOnes
=============================================================================
