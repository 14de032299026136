------------------------------ MODULE MCErrands ------------------------------
(***************************************************************************)
(* What a conversation has done for it, side by side for TLC: helpers, the *)
(* sandbox, its files and commands, notes and settings share no state, and *)
(* each behaviour is one of one part. A variable has the name its module   *)
(* gives it.                                                               *)
(***************************************************************************)
EXTENDS Naturals, Sequences, FiniteSets, TLC

CONSTANTS
  NumHelpers, Slots, Burst, MaxMail, Correspondents,
  NumSessions, MaxSandboxes, MaxRequests, MaxFaults, MaxRestarts,
  Conversation, MaxNotes, MaxCalls, MaxLessons, Limits,
  MaxSets, MaxChanges,
  Author, Start, Text, Quote, Loosest, Window, MaxLines, MaxReads, MaxEdits,
  Command, Ceiling, Margin, Outlast, Step, Lanes, Delay, Printed, Ring, Captured, Fits

\* Edits: lines that read alike but for their spacing or what stands before them.
Reading(lead, gap, word) == [lead |-> lead, gap |-> gap, word |-> word]
One == Reading("", 1, "one")
Wide == Reading("", 2, "one")
Spaced == Reading("space", 1, "one")
Coded == Reading("code", 1, "one")
Two == Reading("", 1, "two")
Broken == Reading("", 1, "broken")
Alike == {<<Wide, Broken>>, <<Spaced, Coded, Two>>, <<Two, One, Two>>}
OneOrBroken == {<<One>>, <<Broken>>}
OneSpacedOrTwo == {<<>>, <<One>>, <<Spaced>>, <<One, Two>>}

\* No command is told from another but by what becomes of it.
First == CHOOSE c \in Command : TRUE

VARIABLES
  part,  \* the part this behaviour is of
  roster, journal, place, outcome, told, cancelled, inbox, taken, said, steering, mails, restarts,
  session, attached, sandbox, folders, work, lock, found, providing, resetting, recorded,
  releasing, discarding, stranded, idles, stops,
  note, recalling, known, recalled, lesson, index, private, calls,
  stored, access, declared, cached, turn, setting, promised, yeses, assisted, sets, changes, redeployed,
  disk, shown, doing, result, loosest, beside, reads, edits,
  process, age, call, record, asker, reported, heard, stopping

Staff == INSTANCE Helpers
Rooms == INSTANCE Workspaces
Notes == INSTANCE Memory WITH doing <- recalling, result <- recalled
Choices == INSTANCE Settings WITH told <- promised
Desk == INSTANCE Edits WITH changes <- edits, MaxChanges <- MaxEdits
Shell == INSTANCE Commands WITH said <- reported, Slots <- Lanes

ASSUME ErrandsAssumption ==
  /\ Staff!HelpersAssumption /\ Rooms!WorkspacesAssumption
  /\ Notes!MemoryAssumption /\ Choices!SettingsAssumption /\ Desk!EditsAssumption
  /\ Shell!CommandsAssumption

staff == <<roster, journal, place, outcome, told, cancelled, inbox, taken, said, steering, mails,
           restarts>>
rooms == <<session, attached, sandbox, folders, work, lock, found, providing, resetting, recorded,
           releasing, discarding, stranded, idles, stops>>
notes == <<note, recalling, known, recalled, lesson, index, private, calls>>
choices == <<stored, access, declared, cached, turn, setting, promised, yeses, assisted, sets,
             changes, redeployed>>
desk == <<disk, shown, doing, result, loosest, beside, reads, edits>>
shell == <<process, age, call, record, asker, reported, heard, stopping>>
vars == <<staff, rooms, notes, choices, desk, shell, part>>

Init ==
  /\ part \in {"staff", "pair", "rooms", "notes", "choices", "desk", "shell"}
  /\ Staff!Init /\ Rooms!Init /\ Notes!Init /\ Choices!Init /\ Desk!Init /\ Shell!Init
  /\ part # "notes" => private = {}
  /\ part # "choices" => access = "never"
  /\ part # "desk" => /\ disk[Desk!Notes] = (CHOOSE text \in Start : TRUE)
                      /\ loosest = (CHOOSE l \in Loosest : TRUE)

\* (Bound: the helpers of a behaviour fill a queue, or are few, steer and outlive the process;
\* of commands that are alike, one is asked for first, and it alone is cancelled.)
Next ==
  /\ UNCHANGED part
  /\ IF part \in {"staff", "pair"} THEN Staff!Next ELSE UNCHANGED staff
  /\ part = "staff" => mails' = 0 /\ steering' = Staff!Nobody /\ restarts' = 0
  /\ part = "pair" => \A h \in Staff!Helper : h > Correspondents => place'[h] = "new"
  /\ IF part = "rooms" THEN Rooms!Next ELSE UNCHANGED rooms
  /\ IF part = "notes" THEN Notes!Next ELSE UNCHANGED notes
  /\ IF part = "choices" THEN Choices!Next ELSE UNCHANGED choices
  /\ IF part = "desk" THEN Desk!Next ELSE UNCHANGED desk
  /\ IF part = "shell" THEN Shell!Next ELSE UNCHANGED shell
  /\ part = "shell" => asker'[First] # "none" /\ stopping' \subseteq {First}

Spec == Init /\ [][Next]_vars

-----------------------------------------------------------------------------
\* What each part promises, in its module's words.

\* A row that says queued or running has somebody who will end it, a helper that is told to
\* have succeeded has its report on its row, and its mail entered its transcript once.
HelperIsTrue == Staff!LiveRowIsHeld /\ Staff!SucceededIsWritten /\ Staff!MailIsReadOnce
\* One sandbox, named only while it stands or once its release was cut off, and the work in it
\* kept while nobody asks to lose it.
SandboxIsKept == Rooms!SandboxIsKept
\* What reaches a turn of what is remembered has somebody who stands behind it, and a forget
\* that is answered says what became of every note it named.
NotesAreVouched == Notes!NotesAreVouched
\* A change that was told is in force, and what is the person's alone stays so.
SettingsAreThePersons == Choices!SettingsAreThePersons
\* A change with a fingerprint undoes nothing its author was not shown, and an edit leaves what
\* it says, where nobody else comes between the look and the change.
ChangesAreInformed == Desk!ChangesAreInformed
\* A command is reported as the sandbox says it was.
CommandIsReported == Shell!CommandIsReported
=============================================================================
