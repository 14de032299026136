---------------------------- MODULE WorkRegistry ----------------------------
(***************************************************************************)
(* work/registry.py for one session: the records of work that outlives the *)
(* step which started it, their asyncio tasks, the queue of helpers past   *)
(* the person's cap, groups, notices and the retention of finished         *)
(* records. Sessions share nothing but the closing of the process.         *)
(*                                                                         *)
(* Everything runs on one event loop and every method but shutdown and     *)
(* wait is free of awaits, so a step is one method call, or one resumption *)
(* of a work task up to where it waits again or is over.                   *)
(***************************************************************************)
EXTENDS Naturals, FiniteSets

CONSTANTS
  NumWork,        \* bound: how many pieces of work are ever started
  MaxConcurrent,  \* how many may run at once for the session
  Caps,           \* the values agent_max_concurrent takes, as the person changes it
  Group,          \* the names of groups
  NoGroup,        \* the group of work that belongs to none
  KeepFinished,   \* how many finished and noticed records are kept
  Outcomes,       \* how work may end by itself; nothing here tells them apart
  Reads           \* whether the session's turns read notices and wait for work

ASSUME RegistryAssumption ==
  /\ NumWork \in Nat
  /\ MaxConcurrent \in Nat \ {0}
  /\ Caps \subseteq Nat \ {0}
  /\ NoGroup \notin Group
  /\ KeepFinished \in Nat
  /\ Outcomes \subseteq {"succeeded", "failed", "timed_out"}
  /\ Reads \in BOOLEAN

\* Identifiers in the order the work was recorded, which is the order of _records.
Work == 1..NumWork
Finished == {"succeeded", "failed", "cancelled", "timed_out"}
\* A helper goes through queue(); everything else, here a command, through start().
Kind == {"helper", "command"}

VARIABLES
  state,      \* Record.state, "absent" before the work is recorded
  kind,       \* Record.kind
  slots,      \* the cap a helper was queued under
  group,      \* Record.group
  kept,       \* the keys of _records
  noticed,    \* records whose notice has been drained
  startedAt,  \* Record.started_at, in the order of starts: 0 before it
  endedAt,    \* when a record ended: 0 in an earlier process, else 1, 2, ...
  teamed,     \* records whose group's ending has been told
  task,       \* "none"; "created": not stepped yet; "doomed": cancelled before its
              \* first step; "live"; "stopping": live with a cancel on its way;
              \* "ended"; "cancelled": ended by CancelledError
  watched,    \* tasks with the done-callback _never_ran still to come
  blocked,    \* queued work some wait() holds an event for
  closing,    \* shutdown() has begun
  told,       \* how often the listeners were told of an ending
  teams       \* the member sets the group listeners were told of

records == <<state, kind, slots, group, kept, noticed, startedAt, endedAt, teamed>>
vars == <<records, task, watched, blocked, closing, told, teams>>

Running(st) == {w \in Work : st[w] = "running"}
Helpers(ws) == {w \in ws : kind[w] = "helper"}
Queued == {w \in Work : state[w] = "queued"}

-----------------------------------------------------------------------------
Init ==
  /\ state = [w \in Work |-> "absent"]
  /\ kind = [w \in Work |-> "command"]
  /\ slots = [w \in Work |-> 0]
  /\ group = [w \in Work |-> NoGroup]
  /\ kept = {} /\ noticed = {} /\ teamed = {}
  /\ startedAt = [w \in Work |-> 0] /\ endedAt = [w \in Work |-> 0]
  /\ task = [w \in Work |-> "none"]
  /\ watched = {} /\ blocked = {}
  /\ closing = FALSE
  /\ told = [w \in Work |-> 0]
  /\ teams = {}

\* The next record: identifiers are new, and _records keeps insertion order.
IsNext(w) == state[w] = "absent" /\ \A v \in Work : v < w => state[v] # "absent"

HasRoom_AnyLane(busy, n) == Cardinality(busy) < MaxConcurrent
\* _has_room for a helper under the cap n while `busy` run.
HasRoom(busy, n) == Cardinality(busy) < MaxConcurrent /\ Cardinality(Helpers(busy)) < n

\* What started before, and now: those of one loop of _promote have one time, and go by
\* insertion.
Started == {w \in Work : startedAt[w] > 0}
Begun(next) ==
  startedAt' = [w \in Work |-> IF w \in next THEN 1 + Cardinality(Started) ELSE startedAt[w]]

\* A record of kind k in state st, and what start() adds when it runs at once.
Recorded(w, k, n, g, st) ==
  /\ state' = [state EXCEPT ![w] = st]
  /\ kind' = [kind EXCEPT ![w] = k]
  /\ slots' = [slots EXCEPT ![w] = n]
  /\ group' = [group EXCEPT ![w] = g]
  /\ kept' = kept \union {w}
  /\ Begun(IF st = "running" THEN {w} ELSE {})
  /\ task' = IF st = "running" THEN [task EXCEPT ![w] = "created"] ELSE task
  /\ watched' = IF st = "running" THEN watched \union {w} ELSE watched
  /\ UNCHANGED <<noticed, endedAt, teamed, blocked, closing, told, teams>>

\* start(): refused past the session's cap, never queued.
Start(w, g) ==
  /\ IsNext(w)
  /\ Cardinality(Running(state)) < MaxConcurrent
  /\ Recorded(w, "command", 0, g, "running")

\* queue() of a helper under the cap n: it runs at once, waits, or is refused.
Queue(w, n, g) ==
  /\ IsNext(w)
  /\ \/ HasRoom(Running(state), n) /\ Recorded(w, "helper", n, g, "running")
     \/ /\ ~HasRoom(Running(state), n)
        /\ Cardinality(Queued) < n
        /\ Recorded(w, "helper", n, g, "queued")

\* record_lost(): helpers the previous process was running, as failed endings nobody is
\* told of. The hub starts with them, before anything can start work.
RecordLost(w, g) ==
  /\ IsNext(w)
  /\ \A v \in Work : state[v] \in {"absent", "failed"} /\ endedAt[v] = 0
  /\ state' = [state EXCEPT ![w] = "failed"]
  /\ kind' = [kind EXCEPT ![w] = "helper"]
  /\ group' = [group EXCEPT ![w] = g]
  /\ kept' = kept \union {w}
  /\ teamed' = teamed \union {w}
  /\ UNCHANGED <<slots, noticed, startedAt, endedAt, task, watched, blocked, closing, told, teams>>

-----------------------------------------------------------------------------
(* Endings. *)

\* What _forget_old looks at, with `news` the records already noticed.
Forgettable(st, news) == {w \in kept : st[w] \in Finished /\ w \in news}

\* _records after _forget_old: of the finished and noticed, the last to end stay.
\* Ties, all of them work an earlier process lost, go by insertion.
KeptAfter(st, news) ==
  LET old == Forgettable(st, news)
      Later(w) == {v \in old : \/ endedAt[v] > endedAt[w]
                               \/ endedAt[v] = endedAt[w] /\ v > w}
  IN kept \ {w \in old : Cardinality(Later(w)) >= KeepFinished}

Promotes_Early(st, w, next) == HasRoom(Running(state) \union {v \in next : v < w}, slots[w])
\* Whether _promote's loop, at w, has room for it after it started those of `next`
\* that are older.
Promotes(st, w, next) == HasRoom(Running(st) \union {v \in next : v < w}, slots[w])

\* _promote: who leaves the queue, oldest first while there is room. `next` is unique.
IsPromoted(st, among, next) ==
  IF closing THEN next = {}
  ELSE \A w \in among : st[w] = "queued" => (w \in next <=> Promotes(st, w, next))

\* The members of a group whose ending nobody has been told of.
Members(g) == {w \in kept : group[w] = g /\ w \notin teamed}

AllEnded_Stale(w, members) == \A v \in members : state[v] \in Finished
\* Whether w's ending is the last of its group.
AllEnded(w, members) == \A v \in members \ {w} : state[v] \in Finished

\* _finish and _end_team for w: listeners hear of every ending that is told, group
\* listeners of the one that was the group's last.
Tell(w, tell) ==
  LET members == Members(group[w])
  IN /\ endedAt' = [endedAt EXCEPT ![w] = 1 + Cardinality({v \in Work : endedAt[v] > 0})]
     /\ told' = IF tell THEN [told EXCEPT ![w] = @ + 1] ELSE told
     /\ IF tell /\ group[w] # NoGroup /\ AllEnded(w, members)
        THEN teamed' = teamed \union members /\ teams' = teams \union {members}
        ELSE UNCHANGED <<teamed, teams>>

\* How a started record ends as `how`, its task as `over`, with what follows: forget,
\* then promote. The task of a promoted record does not carry _never_ran.
Ended(w, how, tell, over) ==
  LET st == [state EXCEPT ![w] = how]
  IN /\ Tell(w, tell)
     /\ kept' = KeptAfter(st, noticed)
     /\ \E next \in SUBSET Queued :
          /\ IsPromoted(st, kept', next)
          /\ state' = [v \in Work |-> IF v \in next THEN "running" ELSE st[v]]
          /\ task' = [v \in Work |-> IF v \in next THEN "created"
                                     ELSE IF v = w THEN over ELSE task[v]]
          /\ Begun(next)
          /\ blocked' = blocked \ next
     /\ UNCHANGED <<kind, slots, group, noticed, closing>>

\* How a cancelled record reads: stopped by the restart once the process goes down,
\* and then a helper is not told of, since the next process continues it.
Stopped(w) ==
  IF closing THEN Ended(w, "failed", kind[w] # "helper", "cancelled")
  ELSE Ended(w, "cancelled", TRUE, "cancelled")

\* The loop runs a task's first step: it enters _run and awaits its work.
FirstStep(w) ==
  /\ task[w] = "created"
  /\ task' = [task EXCEPT ![w] = "live"]
  /\ UNCHANGED <<records, watched, blocked, closing, told, teams>>

\* _run: the work returned, raised or ran out of time; or the cancel reached it.
RunEnds(w, how) ==
  \/ /\ task[w] \in {"live", "stopping"}
     /\ how \in Outcomes
     /\ Ended(w, how, TRUE, "ended")
     /\ UNCHANGED watched
  \/ /\ task[w] = "stopping"
     /\ how = "cancelled"
     /\ Stopped(w)
     /\ UNCHANGED watched

\* Nothing has recorded an ending, and the task was cancelled.
StillOpen(w) == state[w] = "running" /\ task[w] \in {"doomed", "cancelled"}

\* The done-callback start() leaves on its task.
NeverRan(w) ==
  /\ w \in watched
  /\ task[w] \in {"doomed", "ended", "cancelled"}
  /\ watched' = watched \ {w}
  /\ IF StillOpen(w) THEN Stopped(w)
     ELSE UNCHANGED <<records, task, blocked, closing, told, teams>>

\* _left_queue: whoever waits for w to start is woken.
LeftQueue(w) == blocked' = blocked \ {w}

\* task.cancel(): at a task's first step, or thrown into it where it waits.
Asked(w) ==
  CASE task[w] = "created" -> "doomed"
    [] task[w] = "live" -> "stopping"
    [] OTHER -> task[w]

\* cancel(): queued work ends here, started work is asked to.
Cancel(w) ==
  /\ w \in kept
  /\ \/ /\ state[w] = "queued"
        /\ state' = [state EXCEPT ![w] = "cancelled"]
        /\ Tell(w, TRUE)
        /\ LeftQueue(w)
        /\ UNCHANGED <<kind, slots, group, kept, noticed, startedAt, task>>
     \/ /\ state[w] = "running"
        /\ task' = [task EXCEPT ![w] = Asked(w)]
        /\ UNCHANGED <<records, blocked, told, teams>>
  /\ UNCHANGED <<watched, closing>>

\* shutdown(): every task is asked to stop. Turns may still start work meanwhile.
Shutdown ==
  /\ ~closing
  /\ closing' = TRUE
  /\ task' = [w \in Work |-> Asked(w)]
  /\ UNCHANGED <<records, watched, blocked, told, teams>>

-----------------------------------------------------------------------------
(* Reading. *)

\* drain(): every finished record not yet noticed is, and old ones are forgotten.
Drain ==
  LET news == noticed \union {w \in kept : state[w] \in Finished}
  IN /\ Reads
     /\ news # noticed
     /\ noticed' = news
     /\ kept' = KeptAfter(state, news)
     /\ UNCHANGED <<state, kind, slots, group, startedAt, endedAt, teamed, task, watched, blocked,
                    closing, told, teams>>

\* wait() on queued work holds an event until the work leaves the queue ...
Wait(w) ==
  /\ Reads
  /\ w \in kept /\ state[w] = "queued"
  /\ blocked' = blocked \union {w}
  /\ UNCHANGED <<records, task, watched, closing, told, teams>>

\* ... or the deadline passes.
WaitTimesOut(w) ==
  /\ w \in blocked
  /\ blocked' = blocked \ {w}
  /\ UNCHANGED <<records, task, watched, closing, told, teams>>

-----------------------------------------------------------------------------
Next ==
  \/ \E w \in Work, g \in Group \union {NoGroup} :
       \/ Start(w, g) \/ RecordLost(w, g)
       \/ \E n \in Caps : Queue(w, n, g)
  \/ \E w \in Work :
       \/ FirstStep(w) \/ NeverRan(w) \/ Cancel(w) \/ Wait(w) \/ WaitTimesOut(w)
       \/ \E how \in Finished : RunEnds(w, how)
  \/ Drain
  \/ Shutdown

Spec == Init /\ [][Next]_vars

\* The loop runs what is ready, and every piece of work has a timeout.
Fairness ==
  \A w \in Work :
    /\ WF_vars(FirstStep(w) \/ \E how \in Finished : RunEnds(w, how))
    /\ WF_vars(NeverRan(w))

FairSpec == Spec /\ Fairness

-----------------------------------------------------------------------------
(* Properties. *)

\* The shape of every variable.
TypeOK ==
  /\ state \in [Work -> {"absent", "queued", "running"} \union Finished]
  /\ kind \in [Work -> Kind]
  /\ slots \in [Work -> Caps \union {0}]
  /\ group \in [Work -> Group \union {NoGroup}]
  /\ kept \subseteq Work /\ noticed \subseteq Work /\ teamed \subseteq Work
  /\ startedAt \in [Work -> Nat] /\ endedAt \in [Work -> Nat]
  /\ task \in [Work -> {"none", "created", "doomed", "live", "stopping", "ended", "cancelled"}]
  /\ watched \subseteq Work /\ blocked \subseteq Work
  /\ closing \in BOOLEAN
  /\ told \in [Work -> Nat]
  /\ teams \subseteq SUBSET Work

\* _finish is "called exactly once per record" although it has no guard: between _run, its
\* done-callback, cancel and shutdown no ending is ever written over.
EndsOnce ==
  [][\A w \in Work : state[w] \in Finished => state'[w] = state[w]]_vars

\* An ending is news once: the listeners hear of it at most once, only when it is final,
\* and no record is named in two endings of its group.
ToldOnce ==
  /\ \A w \in Work : told[w] <= 1 /\ (told[w] = 1 => state[w] \in Finished)
  /\ \A a, b \in teams : a # b => a \cap b = {}

\* The session's cap holds, queued helpers started by an ending included.
CapHeld == Cardinality(Running(state)) <= MaxConcurrent

\* Every helper that runs, with those that run and started before it, is within the cap it
\* was given, whatever wider or tighter caps the others have.
StartedNoLater(v, w) == startedAt[v] < startedAt[w] \/ (startedAt[v] = startedAt[w] /\ v <= w)
LaneHeld ==
  LET helpers == Helpers(Running(state))
  IN \A w \in helpers : Cardinality({v \in helpers : StartedNoLater(v, w)}) <= slots[w]

\* Both caps: the session's, and each helper's own.
CapsHeld == CapHeld /\ LaneHeld

\* Nothing waits for room there is: whatever frees a slot hands it on in the same step.
NoIdleSlot == ~closing => \A w \in Queued : ~HasRoom(Running(state), slots[w])

\* A completion nobody has been told about is never forgotten, nor is work in flight.
NothingUnreadForgotten ==
  \A w \in Work : state[w] # "absent" /\ w \notin kept => state[w] \in Finished /\ w \in noticed

\* Whoever waits for queued work to start is released when it leaves the queue, by the
\* start or by the cancel.
NobodyWaitsForStarted == \A w \in blocked : state[w] = "queued"

\* A group does not end unnoticed: once the last member still remembered has ended, all of
\* them have been told of together.
GroupIsTold ==
  ~closing => \A g \in Group :
    LET members == {w \in kept : group[w] = g}
    IN (\A w \in members : state[w] \in Finished) => members \subseteq teamed

\* The three together: news of an ending is told once, of its group too, and never lost.
NewsIsTold == ToldOnce /\ GroupIsTold /\ NothingUnreadForgotten

\* A running record nothing will ever end (see RunningWorkHasATask).
Ghosts == {w \in Work : state[w] = "running" /\ task[w] = "doomed" /\ w \notin watched}

\* Queued work starts or is cancelled, while the process is up and no ghost holds a slot.
QueuedWorkStarts ==
  [](~closing /\ Ghosts = {}) => \A w \in Work : state[w] = "queued" ~> state[w] # "queued"

-----------------------------------------------------------------------------
(* What the code's comments promise and the code does not keep: TLC refutes each
   (README, Divergences). *)

\* "A task cancelled before the loop first runs it never enters _run, so nothing records
\* its ending and the record says running for ever ... so it ends here" (_never_ran).
RunningWorkHasATask == Ghosts = {}

\* "Past it the work is queued, in the order it arrived" (queue): no helper starts while an
\* older one waits.
OldestFirst ==
  [][\A w \in Work : state[w] # "running" /\ state'[w] = "running" /\ kind'[w] = "helper" =>
       \A v \in Work : v < w => state'[v] # "queued"]_vars

\* A group's ending is told "naming every member and how each ended" (Team).
TeamNamesEveryMember ==
  ~closing => \A g \in Group :
    LET members == {w \in Work : group[w] = g /\ w \notin teamed /\ state[w] # "absent"}
    IN (\A w \in members : state[w] \in Finished) => members = {}
=============================================================================
