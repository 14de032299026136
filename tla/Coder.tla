-------------------------------- MODULE Coder --------------------------------
(***************************************************************************)
(* The bridge to Claude Code (lucy_coder): its task rows (tasks.py), the   *)
(* service that queues turns and settles them (service.py), the processes  *)
(* (runner.py), and the hub's poller of a task (packs/coder.py).           *)
(*                                                                         *)
(* A request reads a row, changes its copy and writes the whole row, with  *)
(* other requests and turns in between, each in a thread of its own; so do *)
(* the pump and _progress, on the event loop's thread, which does nothing  *)
(* else meanwhile. A turn's process is spawned, ends, and is settled in    *)
(* three steps. Briefs, counters and costs are left out.                   *)
(***************************************************************************)
EXTENDS Naturals, Sequences, FiniteSets, SequencesExt

CONSTANTS
  NumTasks,     \* bound: delegations, in the order they are created
  MaxLive,      \* CoderService._max_live
  MaxTurns,     \* bound: turns that are ever started
  MaxMessages,  \* bound: messages that are ever accepted
  MaxRestarts   \* bound: how often the bridge restarts

CoderAssumption ==
  /\ NumTasks \in Nat /\ MaxLive \in Nat \ {0} /\ MaxTurns \in Nat
  /\ MaxMessages \in Nat /\ MaxRestarts \in Nat

Task == 1..NumTasks
TurnId == 1..MaxTurns
Message == 1..MaxMessages
Brief == 0
None == 0

VARIABLES
  row,        \* task -> the columns state, turns, queue (queued_messages), resumable
  turn,       \* the turns started: their task, what they were told, where they are
  live,       \* ClaudeRunner._live: task -> the turn whose process it names, or None
  owed,       \* whether a coroutine past its write is going to call _pump()
  messaging,  \* task -> the row message() has read, or NoRow (bound: one such request)
  cancelling, \* task -> the row cancel() has read, or NoRow (bound: one such request)
  killing,    \* tasks whose cancel is written and whose process is not killed yet
  settling,   \* turn -> the row _settle() has read for it, or NoRow
  looping,    \* task -> the row the loop's thread has read, or NoRow: the pump reads one that
              \* is queued, _progress one that runs
  sent,       \* messages accepted so far
  restarts

copies == <<messaging, cancelling, settling, looping>>
vars == <<row, turn, live, owed, copies, killing, sent, restarts>>

Ended == {"failed", "cancelled"}
LiveState == {"queued", "running"}
NoRow == [state |-> "absent", turns |-> 0, queue |-> << >>, resumable |-> FALSE]
NoCopies == [t \in Task |-> NoRow]

Init ==
  /\ row = NoCopies /\ turn = << >> /\ live = [t \in Task |-> None]
  /\ owed = FALSE /\ killing = {}
  /\ messaging = NoCopies /\ cancelling = NoCopies /\ settling = [k \in TurnId |-> NoRow]
  /\ looping = NoCopies
  /\ sent = 0 /\ restarts = 0

With(t, columns) == row' = [row EXCEPT ![t] = columns]
Reads(t, copy) == copy[t] = NoRow /\ copy' = [copy EXCEPT ![t] = row[t]]
Done(x, copy) == copy' = [copy EXCEPT ![x] = NoRow]
Ongoing(t) == {k \in DOMAIN turn : turn[k].task = t /\ turn[k].phase # "settled"}
\* The loop's thread is between two steps.
LoopIsFree == looping = NoCopies
At(k, phase) == turn' = [turn EXCEPT ![k].phase = phase]

-----------------------------------------------------------------------------
(* Requests. *)

Starts(t) ==
  /\ row[t] = NoRow /\ \A u \in Task : u < t => row[u] # NoRow
  /\ With(t, [NoRow EXCEPT !.state = "queued"])
  /\ owed' = TRUE
  /\ UNCHANGED <<turn, live, copies, killing, sent, restarts>>

\* message() refuses a task that is over for good.
ReadsToSend(t) ==
  /\ row[t] # NoRow /\ (row[t].state \in Ended => row[t].resumable)
  /\ sent < MaxMessages /\ Reads(t, messaging)
  /\ UNCHANGED <<row, turn, live, owed, cancelling, settling, looping, killing, sent, restarts>>

Sends_Resting(t) ==
  LET read == messaging[t] IN
  /\ read # NoRow /\ sent < MaxMessages /\ sent' = sent + 1
  /\ With(t, [read EXCEPT !.state = IF @ \in {"running", "queued"} THEN @ ELSE "queued"])
  /\ Done(t, messaging)
  /\ owed' = TRUE
  /\ UNCHANGED <<turn, live, cancelling, settling, looping, killing, restarts>>
\* The row as it was read is written with the message in its queue; a task that rests is
\* queued for it.
Sends(t) ==
  LET read == messaging[t] IN
  /\ read # NoRow /\ sent < MaxMessages /\ sent' = sent + 1
  /\ With(t, [read EXCEPT !.queue = Append(@, sent'),
                          !.state = IF @ \in LiveState THEN @ ELSE "queued"])
  /\ Done(t, messaging)
  /\ owed' = TRUE
  /\ UNCHANGED <<turn, live, cancelling, settling, looping, killing, restarts>>

\* cancel() of a task that is not live changes nothing.
ReadsToCancel(t) ==
  /\ row[t].state \in LiveState /\ Reads(t, cancelling)
  /\ UNCHANGED <<row, turn, live, owed, messaging, settling, looping, killing, sent, restarts>>

Cancels(t) ==
  LET read == cancelling[t] IN
  /\ read # NoRow
  /\ With(t, [read EXCEPT !.state = "cancelled", !.queue = << >>,
                          !.resumable = @ \/ read.state = "running"])
  /\ Done(t, cancelling) /\ killing' = killing \union {t}
  /\ UNCHANGED <<turn, live, owed, messaging, settling, looping, sent, restarts>>

\* ClaudeRunner.cancel: the process _live names is killed, if it names one.
Kills(t) ==
  /\ LoopIsFree /\ t \in killing /\ killing' = killing \ {t}
  /\ IF live[t] # None /\ turn[live[t]].phase = "running" THEN At(live[t], "killed")
     ELSE UNCHANGED turn
  /\ owed' = TRUE
  /\ UNCHANGED <<row, live, copies, sent, restarts>>

-----------------------------------------------------------------------------
(* The pump. *)

Running == {t \in Task : row[t].state = "running"}
Queued == {t \in Task : row[t].state = "queued"}

Oldest(t) == t \in Queued /\ \A u \in Queued : t <= u

\* The first turn is the brief's; a later one takes the message that waited longest.
Pops(columns) == IF columns.turns = 0 THEN columns.queue ELSE Tail(columns.queue)
Told(columns) == IF columns.turns = 0 THEN Brief ELSE Head(columns.queue)

\* One round of _pump's loop, whose own awaits are none: it reads the oldest row ...
Picks(t) ==
  /\ LoopIsFree /\ owed /\ Cardinality(Running) < MaxLive /\ Oldest(t)
  /\ Len(turn) < MaxTurns
  /\ Reads(t, looping)
  /\ UNCHANGED <<row, turn, live, owed, messaging, cancelling, settling, killing, sent, restarts>>

\* ... and writes its copy back, over what the threads have written since.
Pumps(t) ==
  LET read == looping[t] IN
  /\ read.state = "queued"
  /\ With(t, [read EXCEPT !.state = "running", !.queue = Pops(read)])
  /\ turn' = Append(turn, [task |-> t, told |-> Told(read), phase |-> "spawning"])
  /\ Done(t, looping)
  /\ UNCHANGED <<live, owed, messaging, cancelling, settling, killing, sent, restarts>>

PumpIsDone ==
  /\ LoopIsFree /\ owed /\ (Cardinality(Running) >= MaxLive \/ Queued = {})
  /\ owed' = FALSE
  /\ UNCHANGED <<row, turn, live, copies, killing, sent, restarts>>

-----------------------------------------------------------------------------
(* A turn. *)

\* Its process is there, and a cancel can find it.
Spawned(k) ==
  /\ LoopIsFree /\ k \in DOMAIN turn /\ turn[k].phase = "spawning"
  /\ At(k, "running") /\ live' = [live EXCEPT ![turn[k].task] = k]
  /\ UNCHANGED <<row, owed, copies, killing, sent, restarts>>

\* A line of its process: _progress reads the task's row, if that runs, ...
Hears(k) ==
  /\ LoopIsFree /\ k \in DOMAIN turn /\ turn[k].phase \in {"running", "killed"}
  /\ row[turn[k].task].state = "running"
  /\ Reads(turn[k].task, looping)
  /\ UNCHANGED <<row, turn, live, owed, messaging, cancelling, settling, killing, sent, restarts>>

\* ... and writes the whole of it back, for the counters' sake.
Progresses(t) ==
  /\ looping[t].state = "running"
  /\ With(t, looping[t])
  /\ Done(t, looping)
  /\ UNCHANGED <<turn, live, owed, messaging, cancelling, settling, killing, sent, restarts>>

\* It ends: with a result, with an error, without a word, at the clock, or because it was
\* killed or could not be spawned. _live forgets the task, whoever's process it names.
Ends(k) ==
  /\ LoopIsFree /\ k \in DOMAIN turn
  /\ \/ turn[k].phase = "running" /\ \E how \in {"ok", "not_ok"} : At(k, how)
     \/ turn[k].phase \in {"spawning", "killed"} /\ At(k, "not_ok")
  /\ live' = IF turn[k].phase = "spawning" THEN live ELSE [live EXCEPT ![turn[k].task] = None]
  /\ UNCHANGED <<row, owed, copies, killing, sent, restarts>>

\* _settle, in a thread of its own, reads the row and leaves a cancelled one alone.
ReadsToSettle(k) ==
  /\ k \in DOMAIN turn /\ turn[k].phase \in {"ok", "not_ok"}
  /\ LET t == turn[k].task IN
       IF row[t].state = "cancelled"
       THEN At(k, "settled") /\ owed' = TRUE /\ UNCHANGED settling
       ELSE /\ settling' = [settling EXCEPT ![k] = row[t]]
            /\ At(k, IF turn[k].phase = "ok" THEN "writes_ok" ELSE "writes_not_ok")
            /\ UNCHANGED owed
  /\ UNCHANGED <<row, live, messaging, cancelling, looping, killing, sent, restarts>>

After(columns, ok) ==
  IF ~ok THEN "failed" ELSE IF columns.queue # << >> THEN "queued" ELSE "idle"

Settles(k) ==
  /\ k \in DOMAIN turn /\ turn[k].phase \in {"writes_ok", "writes_not_ok"}
  /\ LET t == turn[k].task
         read == settling[k] IN
       /\ With(t, [read EXCEPT !.turns = @ + 1, !.resumable = TRUE,
                               !.state = After(read, turn[k].phase = "writes_ok")])
       /\ Done(k, settling)
  /\ At(k, "settled") /\ owed' = TRUE
  /\ UNCHANGED <<live, messaging, cancelling, looping, killing, sent, restarts>>

\* The bridge stops and starts: mark_interrupted fails what was running. Nothing is pumped.
Restarts ==
  /\ restarts < MaxRestarts /\ restarts' = restarts + 1
  /\ row' = [t \in Task |-> IF t \in Running
                            THEN [row[t] EXCEPT !.state = "failed", !.resumable = TRUE]
                            ELSE row[t]]
  /\ turn' = [k \in DOMAIN turn |-> [turn[k] EXCEPT !.phase = "settled"]]
  /\ live' = [t \in Task |-> None] /\ owed' = FALSE /\ killing' = {}
  /\ messaging' = NoCopies /\ cancelling' = NoCopies /\ settling' = [k \in TurnId |-> NoRow]
  /\ looping' = NoCopies
  /\ UNCHANGED sent

Next ==
  \/ \E t \in Task :
       \/ Starts(t) \/ ReadsToSend(t) \/ Sends(t) \/ ReadsToCancel(t) \/ Cancels(t) \/ Kills(t)
       \/ Picks(t) \/ Pumps(t) \/ Progresses(t)
  \/ PumpIsDone \/ Restarts
  \/ \E k \in TurnId : Spawned(k) \/ Hears(k) \/ Ends(k) \/ ReadsToSettle(k) \/ Settles(k)

Spec == Init /\ [][Next]_vars

-----------------------------------------------------------------------------
TypeOK ==
  /\ \A t \in Task :
       /\ \A columns \in {row[t], messaging[t], cancelling[t], looping[t]} \union {settling[k] : k \in TurnId} :
            /\ columns.state \in {"absent", "idle"} \union LiveState \union Ended
            /\ columns.turns \in 0..Len(turn) /\ columns.resumable \in BOOLEAN
            /\ ToSet(columns.queue) \subseteq 1..sent
       /\ live[t] \in {None} \union DOMAIN turn
  /\ \A k \in DOMAIN turn :
       /\ turn[k].task \in Task /\ turn[k].told \in {Brief} \union 1..sent
       /\ turn[k].phase \in {"spawning", "running", "killed", "ok", "not_ok", "writes_ok",
                             "writes_not_ok", "settled"}
  /\ killing \subseteq Task
  /\ owed \in BOOLEAN /\ sent \in 0..MaxMessages /\ restarts \in 0..MaxRestarts

\* The pump finds a message for every turn after the first, whichever copies of the row
\* were written over one another: popping from an empty queue would raise in it and leave
\* the whole bridge without a pump.
PumpFindsAMessage == \A t \in Queued : row[t].turns > 0 => row[t].queue # << >>

\* A turn that resumes a session was preceded by the one that told it the brief, and a
\* message is told only to the task it was sent to, after that.
BriefComesFirst ==
  \A k \in DOMAIN turn : turn[k].told # Brief =>
    \E j \in 1..(k - 1) : turn[j].task = turn[k].task /\ turn[j].told = Brief
                            /\ turn[j].phase = "settled"

-----------------------------------------------------------------------------
(* Promises the code makes and does not keep. *)

\* "So the service above this never starts two turns on one task": message() reads the row
\* queued, the pump starts its turn, and message() writes the row back queued.
OneTurnPerTask == \A t \in Task : Cardinality({k \in Ongoing(t) : turn[k].phase = "running"}) <= 1

\* "A row that says running with no process behind it would wait forever": message() read
\* it running, it was settled, and message() wrote it back.
RunningHasATurn == \A t \in Running : Ongoing(t) # {}

\* "A message carries on from where it stopped": after a first turn that was interrupted,
\* the brief is told again and the message waits.
BriefIsToldOnce ==
  \A t \in Task : Cardinality({k \in DOMAIN turn : turn[k].task = t /\ turn[k].told = Brief}) <= 1
=============================================================================
