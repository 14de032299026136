------------------------------- MODULE Helpers --------------------------------
(***************************************************************************)
(* Helpers of one conversation: their durable rows, mail and journal       *)
(* (agents/store.py), the coroutine that runs one (agents/runtime.py), how *)
(* the agents pack starts them behind the cap (packs/agents.py), and what  *)
(* a restart tells of them (agents/restart.py).                            *)
(*                                                                         *)
(* Rows survive; the registry's queue, slots and coroutines do not. Each   *)
(* write is a transaction of its own, and a coroutine cancelled while it   *)
(* waits for one leaves it written or not. The conversation starts its     *)
(* helpers one after another: steps that write run in turn.                *)
(***************************************************************************)
EXTENDS Naturals, Sequences, FiniteSets, SequencesExt

CONSTANTS
  NumHelpers,   \* bound: rows that are ever inserted
  Slots,        \* policy.agent_max_concurrent: helpers at once, and as many again in the queue
  Burst,        \* policy.agent_message_burst
  MaxMail,      \* bound: messages that are ever accepted
  MaxRestarts   \* bound: how often the process dies

HelpersAssumption ==
  /\ NumHelpers \in Nat \ {0} /\ Slots \in Nat \ {0} /\ Burst \in Nat
  /\ MaxMail \in Nat /\ MaxRestarts \in Nat

Helper == 1..NumHelpers
Nobody == 0

VARIABLES
  roster,     \* helper -> its row: status, interrupted_reason, resume_from
  journal,    \* helper -> the status of the journal task of its own
  place,      \* helper -> where its setup, its place in the queue or its coroutine is
  outcome,    \* helper -> how its run ended, while the row does not say so yet
  told,       \* helper -> the ending the work registry recorded for it
  cancelled,  \* helpers whose cancel was asked for
  inbox,      \* helper -> agent_mail that is not delivered
  taken,      \* helper -> mail marked delivered and not in the transcript yet
  said,       \* helper -> mail in its transcript
  steering,   \* the helper a send() has found live, or Nobody
  mails,      \* messages accepted so far
  restarts

rows == <<roster, journal>>
mail == <<inbox, taken, said, steering, mails>>
memory == <<place, outcome, told, cancelled>>
vars == <<rows, memory, mail, restarts>>

NoRow == [status |-> "none", why |-> "", from |-> Nobody]
LiveStatus == {"queued", "running"}
Setup == {"inserted", "prepared", "refused"}
\* Where a coroutine is: begun by its first step; then the write it waits for.
Started == {"born", "promoted", "stuck", "begins", "works", "hears", "finishing", "closing",
            "stopping", "stopped"}

Init ==
  /\ roster = [h \in Helper |-> NoRow] /\ journal = [h \in Helper |-> "none"]
  /\ place = [h \in Helper |-> "new"] /\ outcome = [h \in Helper |-> "none"]
  /\ told = [h \in Helper |-> "none"] /\ cancelled = {}
  /\ inbox = [h \in Helper |-> << >>] /\ taken = inbox /\ said = inbox
  /\ steering = Nobody /\ mails = 0 /\ restarts = 0

Goes(h, there) == place' = [place EXCEPT ![h] = there]
Status(h, status, why) == roster' = [roster EXCEPT ![h].status = status, ![h].why = why]
Task(h, status) == journal' = [journal EXCEPT ![h] = status]

-----------------------------------------------------------------------------
(* Starting one. *)

Holding == {h \in Helper : place[h] \in Started}
Waiting == {h \in Helper : place[h] = "waiting"}

Continues(old) == {h \in Helper : roster[h].from = old}

\* The helper a row continues: nobody, or one that has ended and was not continued yet.
Sources ==
  {Nobody} \union {h \in Helper : /\ roster[h].status \in {"completed", "failed", "interrupted"}
                                  /\ Continues(h) = {}}

\* spawn() and reopen(): the row comes before the handle, and is queued until it starts.
Inserts(h, old) ==
  /\ place[h] = "new" /\ \A g \in Helper : g < h => place[g] \notin {"new"} \union Setup
  /\ roster' = [roster EXCEPT ![h] = [status |-> "queued", why |-> "", from |-> old]]
  /\ Goes(h, "inserted")
  /\ UNCHANGED <<journal, outcome, told, cancelled, mail, restarts>>

AddsTask(h) ==
  /\ place[h] = "inserted" /\ Goes(h, "prepared")
  /\ Task(h, "in_progress")
  /\ UNCHANGED <<roster, outcome, told, cancelled, mail, restarts>>

\* Registry.queue: started, held behind the cap, or refused behind a full queue.
Queues(h) ==
  /\ place[h] = "prepared"
  /\ Goes(h, IF Cardinality(Holding) < Slots THEN "born"
             ELSE IF Cardinality(Waiting) < Slots THEN "waiting" ELSE "refused")
  /\ UNCHANGED <<rows, outcome, told, cancelled, mail, restarts>>

Discards(h) ==
  /\ place[h] = "refused" /\ Goes(h, "over")
  /\ roster' = [roster EXCEPT ![h] = NoRow] /\ Task(h, "none")
  /\ UNCHANGED <<outcome, told, cancelled, mail, restarts>>

\* The registry records an ending and promotes the oldest of its queue into the slot.
Ends(h, how) ==
  /\ told' = [told EXCEPT ![h] = how]
  /\ place' = [g \in Helper |->
       IF g = h THEN "over"
       ELSE IF g \in Waiting /\ \A w \in Waiting : g <= w THEN "promoted" ELSE place[g]]

-----------------------------------------------------------------------------
(* Running one. *)

TakesFirstStep(h) ==
  /\ place[h] \in {"born", "promoted"} /\ Goes(h, "begins")
  /\ UNCHANGED <<rows, outcome, told, cancelled, mail, restarts>>

Begins(h) ==
  /\ place[h] = "begins" /\ Goes(h, "works") /\ Status(h, "running", "")
  /\ UNCHANGED <<journal, outcome, told, cancelled, mail, restarts>>

\* A round begins: unread mail is marked delivered, and then written down line by line.
DrainsMail(h) ==
  /\ place[h] = "works" /\ inbox[h] # << >> /\ Goes(h, "hears")
  /\ taken' = [taken EXCEPT ![h] = inbox[h]] /\ inbox' = [inbox EXCEPT ![h] = << >>]
  /\ UNCHANGED <<rows, outcome, told, cancelled, said, steering, mails, restarts>>

Hears(h) ==
  /\ place[h] = "hears"
  /\ said' = [said EXCEPT ![h] = Append(@, Head(taken[h]))]
  /\ taken' = [taken EXCEPT ![h] = Tail(@)]
  /\ IF taken'[h] = << >> THEN Goes(h, "works") ELSE UNCHANGED place
  /\ UNCHANGED <<rows, outcome, told, cancelled, inbox, steering, mails, restarts>>

\* Any error, and the helper's own clock, make a failed result that can be continued.
Results(h) ==
  /\ place[h] \in {"works", "hears"} /\ Goes(h, "finishing")
  /\ taken' = [taken EXCEPT ![h] = << >>]
  /\ \E how \in {"completed", "failed"} :
       /\ place[h] = "hears" => how = "failed"
       /\ outcome' = [outcome EXCEPT ![h] = how]
  /\ UNCHANGED <<rows, told, cancelled, inbox, said, steering, mails, restarts>>

Finishes(h) ==
  /\ place[h] = "finishing" /\ Goes(h, "closing")
  /\ Status(h, outcome[h], "")
  /\ UNCHANGED <<journal, outcome, told, cancelled, mail, restarts>>

Closes(h) ==
  /\ place[h] = "closing"
  /\ Task(h, outcome[h])
  /\ Ends(h, IF outcome[h] = "completed" THEN "succeeded" ELSE "failed")
  /\ outcome' = [outcome EXCEPT ![h] = "none"]
  /\ UNCHANGED <<roster, cancelled, mail, restarts>>

-----------------------------------------------------------------------------
(* Cancelling one. *)

\* A queued helper ends at once, and a task of its own withdraws its rows.
CancelsQueued(h) ==
  /\ place[h] = "waiting" /\ Goes(h, "withdrawing")
  /\ told' = [told EXCEPT ![h] = "cancelled"] /\ cancelled' = cancelled \union {h}
  /\ UNCHANGED <<rows, outcome, mail, restarts>>

\* Before its first step: the registry's callback ends it, which a promoted one has not.
CancelsUnborn(h) ==
  /\ \/ place[h] = "born" /\ Ends(h, "cancelled")
     \/ place[h] = "promoted" /\ Goes(h, "stuck") /\ UNCHANGED told
  /\ cancelled' = cancelled \union {h}
  /\ UNCHANGED <<rows, outcome, mail, restarts>>

\* In its rounds: run() is going to write the ending down.
CancelsWorking(h) ==
  /\ place[h] \in {"works", "hears"} /\ Goes(h, "stopping")
  /\ cancelled' = cancelled \union {h} /\ taken' = [taken EXCEPT ![h] = << >>]
  /\ UNCHANGED <<rows, outcome, told, inbox, said, steering, mails, restarts>>

\* Outside them, or for the second time: the write it waits for happens or not, and nothing
\* after it does.
CancelsWriting(h) ==
  /\ place[h] \in {"begins", "finishing", "closing", "stopping", "stopped"}
  /\ \/ UNCHANGED rows
     \/ place[h] = "begins" /\ Status(h, "running", "") /\ UNCHANGED journal
     \/ place[h] = "finishing" /\ Status(h, outcome[h], "") /\ UNCHANGED journal
     \/ place[h] = "stopping" /\ Status(h, "interrupted", "cancelled") /\ UNCHANGED journal
     \/ place[h] = "closing" /\ Task(h, outcome[h]) /\ UNCHANGED roster
     \/ place[h] = "stopped" /\ Task(h, "cancelled") /\ UNCHANGED roster
  /\ Ends(h, "cancelled") /\ cancelled' = cancelled \union {h}
  /\ outcome' = [outcome EXCEPT ![h] = "none"]
  /\ UNCHANGED <<mail, restarts>>

Stops(h) ==
  /\ place[h] = "stopping" /\ Goes(h, "stopped")
  /\ Status(h, "interrupted", "cancelled")
  /\ UNCHANGED <<journal, outcome, told, cancelled, mail, restarts>>

IsStopped(h) ==
  /\ place[h] = "stopped" /\ Task(h, "cancelled") /\ Ends(h, "cancelled")
  /\ UNCHANGED <<roster, outcome, cancelled, mail, restarts>>

Withdraws(h) ==
  /\ \/ /\ place[h] = "withdrawing" /\ Goes(h, "withdrawn")
        /\ Status(h, "interrupted", "cancelled") /\ UNCHANGED journal
     \/ /\ place[h] = "withdrawn" /\ Goes(h, "over")
        /\ Task(h, "cancelled") /\ UNCHANGED roster
  /\ UNCHANGED <<outcome, told, cancelled, mail, restarts>>

-----------------------------------------------------------------------------
(* Steering and the journal. *)

FindsLive(h) ==
  /\ steering = Nobody /\ roster[h].status \in LiveStatus /\ mails < MaxMail
  /\ steering' = h
  /\ UNCHANGED <<rows, memory, inbox, taken, said, mails, restarts>>

\* send_mail() does not look at the status again. A row that was discarded is absent, and a
\* full inbox refuses.
Sends ==
  LET h == steering IN
  /\ h # Nobody /\ steering' = Nobody
  /\ IF roster[h] # NoRow /\ Len(inbox[h]) < Burst /\ mails < MaxMail
     THEN mails' = mails + 1 /\ inbox' = [inbox EXCEPT ![h] = Append(@, mails')]
     ELSE UNCHANGED <<inbox, mails>>
  /\ UNCHANGED <<rows, memory, taken, said, restarts>>

\* A helper at work claims an open task, which is seen where a restart had put it back; who
\* holds it, and until when, is left out. It completes one, whoever holds it.
Claims(h, t) ==
  /\ place[h] = "works" /\ journal[t] = "pending" /\ Task(t, "in_progress")
  /\ UNCHANGED <<roster, memory, mail, restarts>>

Completes(h, t) ==
  /\ place[h] = "works" /\ journal[t] \notin {"none", "completed"} /\ Task(t, "completed")
  /\ UNCHANGED <<roster, memory, mail, restarts>>

-----------------------------------------------------------------------------
(* A crash, or a shutdown, which writes no more than a crash does; and the next start. *)

Interrupted_Running == {h \in Helper : roster[h].status = "running"}
Interrupted == {h \in Helper : roster[h].status \in LiveStatus}

Restarts ==
  /\ restarts < MaxRestarts /\ restarts' = restarts + 1
  /\ roster' = [h \in Helper |->
       IF h \in Interrupted THEN [roster[h] EXCEPT !.status = "interrupted", !.why = "process_restarted"]
       ELSE roster[h]]
  /\ journal' = [h \in Helper |->
       IF journal[h] = "in_progress" THEN "pending" ELSE journal[h]]
  /\ told' = [h \in Helper |-> IF h \in Interrupted THEN "restarted" ELSE told[h]]
  /\ place' = [h \in Helper |-> IF place[h] = "new" THEN "new" ELSE "over"]
  /\ outcome' = [h \in Helper |-> "none"] /\ steering' = Nobody
  /\ taken' = [h \in Helper |-> << >>]
  /\ UNCHANGED <<cancelled, inbox, said, mails>>

Next ==
  \/ \E h \in Helper :
       \/ \E old \in Sources : Inserts(h, old)
       \/ AddsTask(h) \/ Queues(h) \/ Discards(h)
       \/ TakesFirstStep(h) \/ Begins(h) \/ DrainsMail(h) \/ Hears(h) \/ Results(h)
       \/ Finishes(h) \/ Closes(h)
       \/ CancelsQueued(h) \/ CancelsUnborn(h) \/ CancelsWorking(h) \/ CancelsWriting(h)
       \/ Stops(h) \/ IsStopped(h) \/ Withdraws(h)
       \/ FindsLive(h)
       \/ \E t \in Helper : Claims(h, t) \/ Completes(h, t)
  \/ Sends \/ Restarts

Spec == Init /\ [][Next]_vars

-----------------------------------------------------------------------------
TypeOK ==
  /\ \A h \in Helper :
       /\ roster[h].status \in {"none", "completed", "failed", "interrupted"} \union LiveStatus
       /\ roster[h].why \in {"", "cancelled", "process_restarted"}
       /\ roster[h].from \in {Nobody} \union (Helper \ {h})
       /\ journal[h] \in {"none", "in_progress", "pending", "completed", "failed", "cancelled"}
       /\ place[h] \in {"new", "waiting", "withdrawing", "withdrawn", "over"} \union Setup \union Started
       /\ outcome[h] \in {"none", "completed", "failed"}
       /\ told[h] \in {"none", "succeeded", "failed", "cancelled", "restarted"}
       /\ Len(inbox[h]) <= Burst
  /\ cancelled \subseteq Helper /\ steering \in {Nobody} \union Helper
  /\ mails \in 0..MaxMail /\ restarts \in 0..MaxRestarts

\* A helper the conversation is told has succeeded has its report on its row and its task
\* marked done, whatever other helpers did to that task and whenever the process died.
SucceededIsWritten ==
  \A h \in Helper : told[h] = "succeeded" =>
    roster[h].status = "completed" /\ journal[h] = "completed"

\* Two continuations of one helper would each carry on from the same place.
ContinuedOnce == \A h \in Helper : Cardinality(Continues(h)) <= 1

\* Mail enters a transcript once, in the order it was sent, and only of the helper it was
\* sent to; what is drained is not drained again.
MailIsReadOnce ==
  /\ \A h \in Helper : \A i, j \in DOMAIN (said[h] \o inbox[h]) :
       i < j => (said[h] \o inbox[h])[i] < (said[h] \o inbox[h])[j]
  /\ \A g, h \in Helper : g # h => ToSet(said[g]) \intersect ToSet(said[h]) = {}

\* A row that says queued or running has somebody who will end it, in this process or the
\* next; the exception is a helper somebody cancelled.
LiveRowIsHeld ==
  \A h \in Helper : roster[h].status \in LiveStatus /\ place[h] = "over" => h \in cancelled

\* The cap is the person's: no more run than it says, and the queue moves when one ends.
QueueMoves == Cardinality(Holding) <= Slots /\ (Waiting # {} => Cardinality(Holding) = Slots)

-----------------------------------------------------------------------------
(* Promises the code makes and does not keep. *)

\* An ending that was told leaves no row live: a helper cancelled in its first moments, or
\* while its ending is written, keeps one.
ToldIsOver == \A h \in Helper : told[h] # "none" => roster[h].status \notin LiveStatus

\* "A helper somebody cancelled is not here -- stopping it was the point."
CancelledIsNotOffered ==
  \A h \in cancelled : place[h] = "over" => roster[h].why # "process_restarted"

\* "The message is delivered at the next tool boundary": not one that comes after the last.
MailIsRead == \A h \in Helper : roster[h].status = "completed" => inbox[h] = << >>

\* "The conversation that started one finds out": not of one that ended as the process did.
EndedIsTold == \A h \in Helper : roster[h].status = "completed" /\ place[h] = "over" => told[h] # "none"

\* What a restart announces was started by the conversation: a row whose handle was never
\* handed out is announced too.
AnnouncedWasGiven == [][\A h \in Helper : told'[h] = "restarted" => place[h] \notin Setup \/ told[h] = "restarted"]_vars
=============================================================================
