---------------------------- MODULE Subscriptions ----------------------------
(***************************************************************************)
(* work/subscriptions.py for one session: work a sibling ends by a signal, *)
(* or the hub ends at a time (a check-in), kept as a row and as a record   *)
(* of the work registry; with the tools that open it (packs/repos.py,      *)
(* packs/work.py), the sibling, the sweep for lost signals and the restart. *)
(*                                                                         *)
(* A step is one transaction, or what a coroutine does between two awaits. *)
(* An ending that comes from outside has three steps: it is on its way     *)
(* ("sent"), its UPDATE is committed ("won"), its coroutine goes on.       *)
(***************************************************************************)
EXTENDS Naturals, FiniteSets

CONSTANTS
  Checkin,       \* subscriptions with a due_at
  Watch,         \* subscriptions of a sibling
  Consented,     \* those opened with standing consent
  MaxConcurrent, \* Registry._max_concurrent
  MaxCheckins,   \* MAX_OPEN_CHECKINS
  MaxRestarts    \* bound: how often the process restarts

Sub == Checkin \union Watch

ASSUME SubscriptionsAssumption ==
  /\ Checkin \intersect Watch = {}
  /\ Consented \subseteq Sub
  /\ MaxConcurrent \in Nat /\ MaxCheckins \in Nat /\ MaxRestarts \in Nat

Signals == {"succeeded", "failed", "timed_out"}   \* what _state_for makes of a signal
Final == Signals \union {"cancelled"}
Via == {"signal", "sweep", "timer"}

VARIABLES
  row,       \* subscriptions.state, "absent" before the insert
  attached,  \* rows whose sibling_id is written
  record,    \* Record.state, "none" when the registry has no record
  future,    \* the future a record's task waits for: a signal's state once resolved
  stop,      \* the ending the record's task is being cancelled for, or "no"
  waiting,   \* keys of Subscriptions._waiting
  timers,    \* keys of Subscriptions._timers
  opening,   \* where the call that opens it is
  ending,    \* where the coroutine that ends it from outside is, for each way
  finishing,   \* where its _finished is
  sweeping,  \* whether the task of run_sweeps lives
  sibling,   \* what the sibling does about it
  up,        \* "up", "down", or "failed": the process cannot start
  restarts

rows == <<row, attached>>
memory == <<record, future, stop, waiting, timers>>
coroutines == <<opening, ending, finishing, sweeping>>
process == <<up, restarts>>
vars == <<rows, memory, coroutines, sibling, process>>

Open == {s \in Sub : row[s] = "running"}
Active == {s \in Sub : record[s] = "running"}

Init ==
  /\ row = [s \in Sub |-> "absent"] /\ attached = {}
  /\ record = [s \in Sub |-> "none"]
  /\ future = [s \in Sub |-> "none"] /\ stop = [s \in Sub |-> "no"]
  /\ waiting = {} /\ timers = {}
  /\ opening = [s \in Sub |-> "idle"]
  /\ ending = [s \in Sub |-> [v \in Via |-> "off"]]
  /\ finishing = [s \in Sub |-> "off"]
  /\ sweeping = TRUE
  /\ sibling = [s \in Sub |-> "unasked"]
  /\ up = "up" /\ restarts = 0

-----------------------------------------------------------------------------
(* Opening. *)

\* checkin() counts the rows before it opens one.
Counts(s) ==
  /\ up = "up" /\ s \in Checkin /\ opening[s] = "idle"
  /\ opening' = [opening EXCEPT ![s] =
       IF Cardinality(Open \intersect Checkin) < MaxCheckins THEN "counted" ELSE "over"]
  /\ UNCHANGED <<rows, memory, ending, finishing, sweeping, sibling, process>>

\* defer_wake and a sibling's watch open without counting.
Inserts(s) ==
  /\ up = "up" /\ opening[s] \in {"idle", "counted"}
  /\ row' = [row EXCEPT ![s] = "running"]
  /\ opening' = [opening EXCEPT ![s] = "inserted"]
  /\ UNCHANGED <<attached, memory, ending, finishing, sweeping, sibling, process>>

\* _start, and _arm for a check-in, once the row is there. A session at its cap refuses the
\* record, and the row and the future stay behind.
Starts(s) ==
  /\ up = "up" /\ opening[s] = "inserted"
  /\ waiting' = waiting \union {s}
  /\ future' = [future EXCEPT ![s] = "pending"]
  /\ IF Cardinality(Active) >= MaxConcurrent
     THEN /\ opening' = [opening EXCEPT ![s] = "refused"]
          /\ UNCHANGED <<record, timers>>
     ELSE /\ opening' = [opening EXCEPT ![s] = IF s \in Checkin THEN "over" ELSE "asking"]
          /\ record' = [record EXCEPT ![s] = "running"]
          /\ timers' = timers \union ({s} \intersect Checkin)
  /\ UNCHANGED <<rows, stop, ending, finishing, sweeping, sibling, process>>

\* Registry.cancel: the task of a record that is over is gone.
Cancelled(s) ==
  /\ stop' = [stop EXCEPT ![s] = IF record[s] = "running" THEN "cancelled" ELSE @]
  /\ future' = [future EXCEPT ![s] =
       IF record[s] = "running" /\ @ = "pending" THEN "cancelled" ELSE @]

\* The sibling is asked to watch and says yes.
Subscribes(s) ==
  /\ up = "up" /\ opening[s] = "asking" /\ sibling[s] = "unasked"
  /\ sibling' = [sibling EXCEPT ![s] = "watching"]
  /\ UNCHANGED <<rows, memory, coroutines, process>>

\* Its answer arrives.
Subscribed(s) ==
  /\ up = "up" /\ opening[s] = "asking" /\ sibling[s] # "unasked"
  /\ opening' = [opening EXCEPT ![s] = "attaching"]
  /\ UNCHANGED <<rows, memory, ending, finishing, sweeping, sibling, process>>

\* attach() does not look at the row's state.
Attaches(s) ==
  /\ up = "up" /\ opening[s] = "attaching"
  /\ attached' = attached \union {s}
  /\ opening' = [opening EXCEPT ![s] = "over"]
  /\ UNCHANGED <<row, memory, ending, finishing, sweeping, sibling, process>>

\* The sibling refuses, or cannot be reached, or its answer is lost: abandon().
Abandons(s) ==
  /\ up = "up" /\ opening[s] = "asking"
  /\ opening' = [opening EXCEPT ![s] = "over"]
  /\ Cancelled(s)
  /\ UNCHANGED <<rows, record, waiting, timers, ending, finishing, sweeping, sibling, process>>

-----------------------------------------------------------------------------
(* The sibling, and the endings that come from outside. *)

\* The condition holds, or the sibling gives up.
Fires(s) ==
  /\ sibling[s] = "watching"
  /\ \E how \in Signals : sibling' = [sibling EXCEPT ![s] = how]
  /\ UNCHANGED <<rows, memory, coroutines, process>>

Sent_Unwritten(s, v) == ending' = [ending EXCEPT ![s][v] = "won"]
Sent(s, v) == ending' = [ending EXCEPT ![s][v] = "sent"]

\* A signal arrives, once or again: signal() reads the row and checks the signature first.
Signalled(s) ==
  /\ up = "up" /\ sibling[s] \in Signals /\ ending[s]["signal"] = "off"
  /\ row[s] = "running"
  /\ Sent(s, "signal")
  /\ UNCHANGED <<rows, memory, opening, finishing, sweeping, sibling, process>>

\* sweep() asks about a row it read as running. It asks about one row at a time, and acts
\* for the person under their consent.
Asks(s) ==
  /\ up = "up" /\ sweeping
  /\ \A u \in Sub : ending[u]["sweep"] = "off"
  /\ row[s] = "running" /\ s \in attached \intersect Consented
  /\ ending' = [ending EXCEPT ![s]["sweep"] = "asking"]
  /\ UNCHANGED <<rows, memory, opening, finishing, sweeping, sibling, process>>

HearsNothing_Returns(s) ==
  /\ up = "up" /\ ending[s]["sweep"] = "asking"
  /\ ending' = [ending EXCEPT ![s]["sweep"] = "returned"]
  /\ UNCHANGED <<rows, memory, opening, finishing, sweeping, sibling, process>>
\* The sibling cannot be asked, or says that it is still watching.
HearsNothing(s) ==
  /\ up = "up" /\ ending[s]["sweep"] = "asking"
  /\ ending' = [ending EXCEPT ![s]["sweep"] = "off"]
  /\ UNCHANGED <<rows, memory, opening, finishing, sweeping, sibling, process>>

Hears(s) ==
  /\ up = "up" /\ ending[s]["sweep"] = "asking" /\ sibling[s] \in Signals
  /\ Sent(s, "sweep")
  /\ UNCHANGED <<rows, memory, opening, finishing, sweeping, sibling, process>>

\* A check-in falls due.
Due(s) ==
  /\ up = "up" /\ s \in timers /\ ending[s]["timer"] = "off"
  /\ Sent(s, "timer")
  /\ UNCHANGED <<rows, memory, opening, finishing, sweeping, sibling, process>>

Outcome(s, v) == IF v = "timer" THEN "succeeded" ELSE sibling[s]

Commits_Blindly(s, v) ==
  /\ ending[s][v] \in {"sent", "dropped"}
  /\ row' = [row EXCEPT ![s] = Outcome(s, v)]
  /\ ending' = [ending EXCEPT ![s][v] = IF @ = "sent" THEN "won" ELSE "off"]
  /\ UNCHANGED <<attached, memory, opening, finishing, sweeping, sibling, process>>
\* _end's transaction: one running row ends, or the caller is told of a conflict. It is run
\* for a coroutine that was cancelled too, when the worker had taken it up.
Commits(s, v) ==
  /\ ending[s][v] \in {"sent", "dropped"}
  /\ row' = [row EXCEPT ![s] = IF @ = "running" THEN Outcome(s, v) ELSE @]
  /\ ending' = [ending EXCEPT ![s][v] =
       IF @ = "sent" /\ row[s] = "running" THEN "won" ELSE "off"]
  /\ UNCHANGED <<attached, memory, opening, finishing, sweeping, sibling, process>>

\* The worker had not taken it up.
Drops(s, v) ==
  /\ ending[s][v] = "dropped"
  /\ ending' = [ending EXCEPT ![s][v] = "off"]
  /\ UNCHANGED <<rows, memory, opening, finishing, sweeping, sibling, process>>

\* _disarm cancels the timer's task, which may be waiting for its transaction.
Disarmed(s) == [ending[s] EXCEPT !["timer"] =
  IF s \notin timers THEN @ ELSE CASE @ = "sent" -> "dropped" [] @ = "won" -> "off" [] OTHER -> @]

\* The rest of _end. A future whose task is being cancelled is done already: set_result
\* raises, which a request and a timer survive and the sweep does not.
Resolves(s, v) ==
  /\ up = "up" /\ ending[s][v] = "won"
  /\ timers' = timers \ {s}
  /\ waiting' = waiting \ {s}
  /\ future' = [future EXCEPT ![s] =
       IF s \in waiting /\ @ = "pending" THEN Outcome(s, v) ELSE @]
  /\ ending' = [ending EXCEPT ![s] = [(IF v = "timer" THEN ending[s] ELSE Disarmed(s))
                                        EXCEPT ![v] = "off"]]
  /\ sweeping' = (sweeping /\ ~(v = "sweep" /\ s \in waiting /\ future[s] # "pending"))
  /\ UNCHANGED <<rows, record, stop, opening, finishing, sibling, process>>

-----------------------------------------------------------------------------
(* The registry, and the listener it tells of every ending. *)

\* The person, or the model, cancels it.
Cancels(s) ==
  /\ up = "up" /\ record[s] = "running" /\ stop[s] # "cancelled"
  /\ Cancelled(s)
  /\ UNCHANGED <<rows, record, waiting, timers, coroutines, sibling, process>>

\* Its lifetime is over.
Expires(s) ==
  /\ up = "up" /\ record[s] = "running" /\ stop[s] = "no"
  /\ stop' = [stop EXCEPT ![s] = "timed_out"]
  /\ future' = [future EXCEPT ![s] = IF @ = "pending" THEN "cancelled" ELSE @]
  /\ UNCHANGED <<rows, record, waiting, timers, coroutines, sibling, process>>

\* The record's task goes on: a cancellation, or else the signal it waited for.
Finishes(s) ==
  /\ up = "up" /\ record[s] = "running"
  /\ stop[s] # "no" \/ future[s] \in Signals
  /\ record' = [record EXCEPT ![s] = IF stop[s] # "no" THEN stop[s] ELSE future[s]]
  /\ finishing' = [finishing EXCEPT ![s] = "told"]
  /\ UNCHANGED <<rows, future, stop, waiting, timers, opening, ending, sweeping, sibling, process>>

\* _finished forgets the future and the timer and hands its UPDATE over.
LetsGo(s) ==
  /\ up = "up" /\ finishing[s] = "told"
  /\ waiting' = waiting \ {s} /\ timers' = timers \ {s}
  /\ ending' = [ending EXCEPT ![s] = Disarmed(s)]
  /\ finishing' = [finishing EXCEPT ![s] = "updating"]
  /\ UNCHANGED <<rows, record, future, stop, opening, sweeping, sibling, process>>

\* A row still running ends as the record did. A cancelled one is released, with the
\* sibling's id the row then has.
Updates(s) ==
  /\ up = "up" /\ finishing[s] = "updating"
  /\ row' = [row EXCEPT ![s] = IF @ = "running" THEN record[s] ELSE @]
  /\ finishing' = [finishing EXCEPT ![s] =
       IF row[s] = "running" /\ record[s] = "cancelled" /\ s \in attached \intersect Consented
       THEN "releasing" ELSE "off"]
  /\ UNCHANGED <<attached, memory, opening, ending, sweeping, sibling, process>>

\* The sibling is asked to stop, and may not hear.
Releases(s) ==
  /\ up = "up" /\ finishing[s] = "releasing"
  /\ \/ sibling' = [sibling EXCEPT ![s] = IF @ = "watching" THEN "released" ELSE @]
     \/ UNCHANGED sibling
  /\ finishing' = [finishing EXCEPT ![s] = "off"]
  /\ UNCHANGED <<rows, memory, opening, ending, sweeping, process>>

-----------------------------------------------------------------------------
(* The process stops, at once or in order: either way the rows stay as they are. *)

Stops ==
  /\ up = "up" /\ restarts < MaxRestarts
  /\ up' = "down" /\ restarts' = restarts + 1
  /\ record' = [s \in Sub |-> "none"]
  /\ future' = [s \in Sub |-> "none"] /\ stop' = [s \in Sub |-> "no"]
  /\ waiting' = {} /\ timers' = {}
  /\ opening' = [s \in Sub |-> IF row[s] = "absent" /\ opening[s] # "over" THEN "idle" ELSE "over"]
  /\ ending' = [s \in Sub |-> [v \in Via |-> "off"]]
  /\ finishing' = [s \in Sub |-> "off"]
  /\ UNCHANGED <<rows, sweeping, sibling>>

\* restore() takes up every open row before anything is served. One row more than the
\* registry starts for a session, and the process does not start.
Restores ==
  /\ up = "down"
  /\ IF Cardinality(Open) > MaxConcurrent
     THEN up' = "failed" /\ UNCHANGED <<memory, sweeping>>
     ELSE /\ up' = "up"
          /\ record' = [s \in Sub |-> IF s \in Open THEN "running" ELSE "none"]
          /\ future' = [s \in Sub |-> IF s \in Open THEN "pending" ELSE "none"]
          /\ waiting' = Open
          /\ timers' = Open \intersect Checkin
          /\ sweeping' = TRUE
          /\ UNCHANGED stop
  /\ UNCHANGED <<rows, opening, ending, finishing, sibling, restarts>>

-----------------------------------------------------------------------------
Next ==
  \/ \E s \in Sub :
       \/ Counts(s) \/ Inserts(s) \/ Starts(s)
       \/ Signalled(s) \/ Asks(s) \/ HearsNothing(s) \/ Hears(s) \/ Due(s)
       \/ \E v \in Via : Commits(s, v) \/ Drops(s, v) \/ Resolves(s, v)
       \/ Cancels(s) \/ Expires(s) \/ Finishes(s) \/ LetsGo(s) \/ Updates(s) \/ Releases(s)
  \/ \E s \in Watch :
       Subscribes(s) \/ Subscribed(s) \/ Attaches(s) \/ Abandons(s) \/ Fires(s)
  \/ Stops \/ Restores

Spec == Init /\ [][Next]_vars

\* The event loop and the worker serve what an ending goes through, and a sibling asked
\* again and again answers the sweep. Nothing is assumed of signals, timers or lifetimes.
Fairness ==
  /\ \A s \in Consented : SF_vars(Asks(s)) /\ SF_vars(Hears(s))
  /\ \A s \in Sub, v \in Via : WF_vars(Commits(s, v) \/ Resolves(s, v))

FairSpec == Spec /\ Fairness

-----------------------------------------------------------------------------
TypeOK ==
  /\ row \in [Sub -> {"absent", "running"} \union Final]
  /\ attached \subseteq Watch
  /\ record \in [Sub -> {"none", "running"} \union Final]
  /\ future \in [Sub -> {"none", "pending", "cancelled"} \union Signals]
  /\ stop \in [Sub -> {"no", "cancelled", "timed_out"}]
  /\ waiting \subseteq Sub /\ timers \subseteq Checkin
  /\ opening \in [Sub -> {"idle", "counted", "inserted", "refused", "asking", "attaching", "over"}]
  /\ ending \in [Sub -> [Via -> {"off", "asking", "sent", "dropped", "won"}]]
  /\ finishing \in [Sub -> {"off", "told", "updating", "releasing"}]
  /\ sweeping \in BOOLEAN
  /\ sibling \in [Sub -> {"unasked", "watching", "released"} \union Signals]
  /\ up \in {"up", "down", "failed"} /\ restarts \in 0..MaxRestarts

\* A row that is open in a process that runs is somebody's: its record runs, the listener
\* that will end it is on its way, or the call that wrote it has not finished with it or was
\* refused a record (open, _finished and restore, together).
OpenRowIsFollowed ==
  up = "up" => \A s \in Open :
    \/ record[s] = "running"
    \/ finishing[s] \in {"told", "updating"}
    \/ opening[s] \in {"inserted", "refused"}

\* A conversation that hears a sibling succeeded or failed hears what the row says, however
\* a signal, the sweep, the timer, a cancel and the lifetime raced to end it.
ToldWhatTheRowSays ==
  \A s \in Sub : record[s] \in {"succeeded", "failed"} => row[s] = record[s]

\* The three records of a subscription agree: its row, its work and what was said of it.
RowIsTheTruth == OpenRowIsFollowed /\ ToldWhatTheRowSays

\* A timer that can still fire, or a future that is still to be resolved, belongs to a
\* record that runs, is ending, or was never started: nothing rings for work that is over.
NothingRingsForTheDead ==
  \A s \in Sub :
    /\ s \in timers => record[s] = "running" \/ finishing[s] = "told"
    /\ s \in waiting => record[s] = "running" \/ finishing[s] = "told" \/ opening[s] = "refused"

Promise == INSTANCE WatchPromise WITH ledger <- row, news <- record
\* The row of a subscription ends once, and what its session is told agrees with it.
KeepsThePromise == Promise!Spec

\* A sibling that holds a subscription's answer is heard, by its signal or by a sweep, as
\* long as the sweep lives and the row says whom to ask. Its lifetime need not be over.
FiredIsHeard ==
  \A s \in Consented :
    (sibling[s] \in Signals /\ s \in attached) ~> (row[s] # "running" \/ up # "up" \/ ~sweeping)

-----------------------------------------------------------------------------
(* Promises the code makes and does not keep. *)

\* "Sweep on an interval until cancelled."
SweepsSurvive == up = "up" => sweeping

\* "Re-register every subscription a previous process left open."
RestartSucceeds == up # "failed"

\* "One that already ended is 409, so a sibling that retries knows it was heard."
AnsweredIsHeard ==
  \A s \in Sub : row[s] \in {"succeeded", "failed"} /\ record[s] \in Final => record[s] = row[s]

\* "The sibling is asked to stop looking": it is not when its id comes after the cancel.
AttachedWhileOpen == [][\A s \in attached' \ attached : row[s] # "cancelled"]_vars

\* "A row ... so a restart does not lose it": an ending written and not yet told is not
\* taken up again.
EndingIsTold == \A s \in Sub : row[s] \in Signals ~> record[s] \in Final
=============================================================================
