------------------------------- MODULE Commands --------------------------------
(***************************************************************************)
(* Commands in the sandbox, each a piece of work (packs/workspace.py       *)
(* _execute over clients/environments.py run), and what the work pack says *)
(* of them (packs/work.py over work/registry.py).                          *)
(*                                                                         *)
(* Time passes in ticks. The sandbox is external: it runs a command, kills *)
(* it at its ceiling, and answers when it is over, before it is, with no   *)
(* exit code, or not at all.                                               *)
(***************************************************************************)
EXTENDS Naturals, FiniteSets, Sequences, FiniteSetsExt

CONSTANTS
  Command,     \* bound: the commands that are ever asked for
  Ceiling,     \* timeout_ms: how long the sandbox lets one run
  Margin,      \* EXEC_MARGIN_SECONDS: how much longer the call waits
  Outlast,     \* OUTLAST_EXEC_SECONDS: how much longer the work does
  Step,        \* how long an operation may wait inside its step
  Slots,       \* work at once in a conversation
  Delay,       \* bound: how long a call may be on its way (a token, a retry)
  Printed,     \* bound: how much a command prints, one of these
  Ring,        \* what the sandbox keeps of an output, its end
  Captured,    \* max_output_bytes
  Fits         \* MAX_TOOL_OUTPUT_CHARS

CommandsAssumption ==
  /\ IsFiniteSet(Command) /\ {Ceiling, Step, Slots} \subseteq Nat \ {0}
  /\ {Margin, Outlast, Delay, Ring, Captured, Fits} \union Printed \subseteq Nat

Deadline == Ceiling + Margin + Outlast

VARIABLES
  process,   \* command -> what the sandbox does of it
  age,       \* command -> ticks since its work began
  call,      \* command -> where its exec call is, and when it was sent
  record,    \* command -> how the registry's record stands, with what came of it
  asker,     \* command -> what the step that asked for it does
  said,      \* command -> what was said of it, in a step, a notice and a result
  heard,     \* commands whose notice was drained
  stopping   \* commands whose cancel was asked for

vars == <<process, age, call, record, asker, said, heard, stopping>>

NoAnswer == [of |-> "nothing", code |-> "unsaid", shown |-> 0, omitted |-> 0, cut |-> 0, printed |-> 0]
NoRecord == [state |-> "none", answer |-> NoAnswer]
NotSent == [at |-> "none", sent |-> Deadline]

Init ==
  /\ process = [c \in Command |-> "none"] /\ age = [c \in Command |-> 0]
  /\ call = [c \in Command |-> NotSent] /\ record = [c \in Command |-> NoRecord]
  /\ asker = [c \in Command |-> "none"] /\ said = [c \in Command |-> {}]
  /\ heard = {} /\ stopping = {}

Running == {c \in Command : record[c].state = "running"}
Ended == {"succeeded", "failed", "timed_out", "cancelled"}
Says(c, what) == said' = [said EXCEPT ![c] = @ \union {what}]

-----------------------------------------------------------------------------
(* Asking for one. *)

\* _execute: behind a full registry it says so; with wait: false it hands back a handle.
Asks(c) ==
  /\ asker[c] = "none"
  /\ IF Cardinality(Running) >= Slots
     THEN asker' = [asker EXCEPT ![c] = "busy"] /\ UNCHANGED <<call, record, said>>
     ELSE \E waits \in BOOLEAN :
       /\ record' = [record EXCEPT ![c].state = "running"]
       /\ call' = [call EXCEPT ![c].at = "starting"]
       /\ asker' = [asker EXCEPT ![c] = IF waits THEN "waits" ELSE "left"]
       /\ IF waits THEN UNCHANGED said ELSE Says(c, "running")
  /\ UNCHANGED <<process, age, heard, stopping>>

\* Registry.wait, as long as the step lasts and no longer than the work may.
Patience == IF Step < Deadline THEN Step ELSE Deadline

Hears(c) ==
  /\ asker[c] = "waits" /\ record[c].state \in Ended
  /\ asker' = [asker EXCEPT ![c] = "left"] /\ Says(c, record[c].state)
  /\ UNCHANGED <<process, age, call, record, heard, stopping>>

GivesUp(c) ==
  /\ asker[c] = "waits" /\ c \in Running /\ age[c] >= Patience
  /\ asker' = [asker EXCEPT ![c] = "left"] /\ Says(c, "running")
  /\ UNCHANGED <<process, age, call, record, heard, stopping>>

-----------------------------------------------------------------------------
(* The call. *)

Sends(c) ==
  /\ c \in Running /\ call[c].at = "starting"
  /\ call' = [call EXCEPT ![c] = [at |-> "sent", sent |-> age[c]]]
  /\ process' \in {[process EXCEPT ![c] = p] : p \in {"running", "none"}}
  /\ UNCHANGED <<age, record, asker, said, heard, stopping>>

\* Whoever waits for it or not.
RunsOut(c) ==
  /\ process[c] = "running"
  /\ process' \in {[process EXCEPT ![c] = p] : p \in
                     {"exited", "died"} \union (IF age[c] >= call[c].sent + Ceiling THEN {"killed"} ELSE {})}
  /\ UNCHANGED <<age, call, record, asker, said, heard, stopping>>

\* What is shown of an output, and what is said to be left out: cut by the size of a result
\* and by what was captured, and dropped by the sandbox.
Shows(printed) ==
  LET kept == Min({printed, Ring})
      captured == Min({kept, Captured})
      shown == Min({captured, Fits})
      cut == captured - shown + (kept - captured) IN
  [shown |-> shown, cut |-> cut, omitted |-> cut + (printed - kept)]

Answer(c, code, printed) ==
  LET s == Shows(printed) IN
  [of |-> process[c], code |-> code, shown |-> s.shown, omitted |-> s.omitted, cut |-> s.cut, printed |-> printed]

Finishes(c, state, answer) == record' = [record EXCEPT ![c] = [state |-> state, answer |-> answer]]

\* An exit code that is not zero, or the sandbox's own kill, makes the work one that failed;
\* the lack of one does not.
Outcome_Kill(p, code) == IF p = "killed" THEN "failed" ELSE "succeeded"
Outcome(p, code) == IF p = "killed" \/ code = "error" THEN "failed" ELSE "succeeded"

\* Of a command that runs still there is no code, and of any other the sandbox may give none.
Codes(p) ==
  {"none"} \union IF p = "exited" THEN {"zero"} ELSE IF p \in {"died", "killed"} THEN {"error"} ELSE {}

IsAnswered(c) ==
  /\ c \in Running /\ call[c].at = "sent" /\ process[c] # "none"
  /\ call' = [call EXCEPT ![c].at = "over"]
  /\ \E printed \in Printed, code \in Codes(process[c]) :
       Finishes(c, Outcome(process[c], code), Answer(c, code, printed))
  /\ UNCHANGED <<process, age, asker, said, heard, stopping>>

\* It cannot be reached, or refuses; or the call has waited as long as it does.
Fails(c) ==
  /\ c \in Running
  /\ \/ call[c].at = "starting"
     \/ call[c].at = "sent" /\ (process[c] = "none" \/ age[c] >= call[c].sent + Ceiling + Margin)
  /\ call' = [call EXCEPT ![c].at = "over"] /\ Finishes(c, "failed", NoAnswer)
  /\ UNCHANGED <<process, age, asker, said, heard, stopping>>

\* The registry's own deadline, which throws away what the call brings after it.
Expires(c) ==
  /\ c \in Running /\ age[c] >= Deadline
  /\ call' = [call EXCEPT ![c].at = "over"] /\ Finishes(c, "timed_out", NoAnswer)
  /\ UNCHANGED <<process, age, asker, said, heard, stopping>>

-----------------------------------------------------------------------------
(* The work pack. *)

\* work.check: the news, once.
Checks ==
  /\ \E c \in Command : record[c].state \in Ended /\ c \notin heard
  /\ heard' = {c \in Command : record[c].state \in Ended}
  /\ said' = [c \in Command |-> IF c \in heard' \ heard THEN said[c] \union {record[c].state} ELSE said[c]]
  /\ UNCHANGED <<process, age, call, record, asker, stopping>>

\* work.result and work.wait of one say how it ended; that it has not, nobody need be told.
Looks(c) ==
  /\ record[c].state \in Ended
  /\ Says(c, record[c].state)
  /\ UNCHANGED <<process, age, call, record, asker, heard, stopping>>

\* work.cancel: asked once more, or of one that is over, it changes nothing.
Cancels(c) ==
  /\ c \in Running /\ c \notin stopping
  /\ stopping' = stopping \union {c}
  /\ UNCHANGED <<process, age, call, record, asker, said, heard>>

\* The task hears of it in its own time, and may have ended by then.
IsCancelled(c) ==
  /\ c \in Running /\ c \in stopping
  /\ call' = [call EXCEPT ![c].at = "over"] /\ Finishes(c, "cancelled", NoAnswer)
  /\ UNCHANGED <<process, age, asker, said, heard, stopping>>

-----------------------------------------------------------------------------
(* Time. Timers that are due fire before it goes on; a process is killed within the margin, *)
(* and a call is not on its way for longer than the bound.                                   *)

Due(c) ==
  /\ c \in Running
  /\ \/ age[c] >= Deadline
     \/ call[c].at = "starting" /\ age[c] >= Delay
     \/ call[c].at = "sent" /\ age[c] >= call[c].sent + Ceiling + Margin
     \/ asker[c] = "waits" /\ age[c] >= Patience

Tick ==
  /\ Running # {} /\ \A c \in Command : ~ Due(c) /\ ~ (c \in Running /\ c \in stopping)
  /\ age' = [c \in Command |-> IF c \in Running THEN age[c] + 1 ELSE age[c]]
  /\ UNCHANGED <<process, call, record, asker, said, heard, stopping>>

Next ==
  \/ \E c \in Command :
       \/ Asks(c) \/ Hears(c) \/ GivesUp(c)
       \/ Sends(c) \/ RunsOut(c) \/ IsAnswered(c) \/ Fails(c) \/ Expires(c)
       \/ Looks(c) \/ Cancels(c) \/ IsCancelled(c)
  \/ Checks \/ Tick

Spec == Init /\ [][Next]_vars

-----------------------------------------------------------------------------
\* The shape of every variable.
TypeOK ==
  /\ process \in [Command -> {"none", "running", "exited", "died", "killed"}]
  /\ \A c \in Command :
       /\ age[c] \in 0..Deadline /\ call[c].at \in {"none", "starting", "sent", "over"}
       /\ record[c].state \in Ended \union {"none", "running"}
       /\ asker[c] \in {"none", "busy", "waits", "left"}
       /\ said[c] \subseteq Ended \union {"running"}
  /\ heard \union stopping \subseteq Command

\* "The model, told it had succeeded, went to read the file it never wrote" (ENDED_WITH_ERROR):
\* whichever way the model comes to hear of a command, it hears of one ending only, and never
\* that one succeeded which the sandbox killed or gave an exit code for other than zero. (One
\* with no exit code is told to have succeeded, whatever became of it: SuccessIsKnown.)
EndIsTrue ==
  \A c \in Command : LET a == record[c].answer IN
    /\ Cardinality(said[c] \intersect Ended) <= 1
    /\ "succeeded" \in said[c] => /\ a.code \in {"zero", "none"} /\ a.of # "killed"
                                  /\ a.code = "zero" => process[c] = "exited"
    /\ a.code \in {"zero", "error"} => a.of = process[c]

\* "Outlasting the call means it always gets to end on its own" (OUTLAST_EXEC_SECONDS): the
\* registry's deadline cuts off only a call that left so late that it was not over by then,
\* or never left.
CutOffOnlyWhenLate ==
  \A c \in Command : record[c].state = "timed_out" =>
    call[c].sent >= Outlast

\* Whatever is left out of an output is counted, once.
OutputAddsUp ==
  \A c \in Command : LET a == record[c].answer IN
    a.shown + a.omitted = a.printed /\ a.cut <= a.omitted /\ a.shown <= Fits

\* The three together: a command is reported as the sandbox says it was.
CommandIsReported == EndIsTrue /\ CutOffOnlyWhenLate /\ OutputAddsUp

-----------------------------------------------------------------------------
(* Refuted. *)

\* "None and zero are very different answers" (_exit_code): both are told as a success.
SuccessIsKnown == \A c \in Command : "succeeded" \in said[c] => process[c] = "exited"

\* The call always gets to end on its own: not one that had to wait for its token.
EndsOnItsOwn == \A c \in Command : record[c].state # "timed_out"

\* Work that was stopped does nothing more: the sandbox was not told.
StoppedIsStopped == \A c \in Command : record[c].state = "cancelled" => process[c] # "running"

\* A command that could not be reached did not run.
FailedDidNotRun ==
  \A c \in Command : record[c].state = "failed" /\ record[c].answer = NoAnswer
    => process[c] \in {"none", "died", "killed"}
=============================================================================
