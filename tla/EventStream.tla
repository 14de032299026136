---------------------------- MODULE EventStream ----------------------------
(***************************************************************************)
(* The event stream of one session: src/lucy_api/stream/emitter.py and      *)
(* sse.py with the route that opens a stream.                               *)
(*                                                                         *)
(* Rows are committed to `events` by emit() and by session transactions,    *)
(* whose owners call publish_persisted() afterwards, or do not. One lock    *)
(* orders emit and publish_persisted. A connection registers its queue,     *)
(* reads a snapshot, the tail and what it missed, and then follows.         *)
(*                                                                         *)
(* An event is its sequence number. A step is a transaction of the SQLite   *)
(* worker, or what a coroutine does between two awaits; taking the lock is  *)
(* one step with the transaction that follows it, since nothing the holder  *)
(* reads can change in between. What the server has handed over and the     *)
(* client has not handled is as good as still queued (a lost connection     *)
(* loses both), so handing over and handling are one step.                  *)
(***************************************************************************)
EXTENDS Integers, Sequences, FiniteSets

CONSTANTS Client,       \* who follows the session
          NoCursor,     \* the cursor of a client that has none, not a number
          Writer,       \* the coroutines that emit and publish
          Nobody,       \* who holds a lock that is free, not a writer
          Capacity,     \* Subscriber.capacity
          MaxEvents,    \* bound: rows written
          MaxRestarts   \* bound: restarts of the process

ASSUME StreamAssumption ==
  /\ NoCursor \notin Int
  /\ Nobody \notin Writer
  /\ Capacity \in Nat \ {0}
  /\ MaxEvents \in Nat /\ MaxRestarts \in Nat

VARIABLES
  last,         \* rows in `events`, numbered from 1
  published,    \* EventEmitter._published: what has been fanned out
  lock,         \* who holds EventEmitter._lock
  at,           \* writer -> where it is
  upto,         \* writer -> the row its append wrote, or the last its replay read
  cursor,       \* client -> the number of the last frame it handled
  conn,         \* client -> where its connection is
  subscribers,  \* EventEmitter._subscribers: the connections fanned out to
  queue,        \* client -> Subscriber._queue, without the sentinel
  closed,       \* connections whose queue ends in the sentinel
  covered,      \* client -> the rows that what subscribe read so far stands for
  owed,         \* client -> Subscriber._prologue: numbers of the frames
  floor,        \* client -> Subscriber._floor
  restarts

log == <<last, published>>
writers == <<lock, at, upto>>
fanned == <<subscribers, queue, closed>>
reading == <<covered, owed, floor>>
vars == <<log, writers, cursor, conn, fanned, reading, restarts>>

Init ==
  /\ last = 0 /\ published = 0
  /\ lock = Nobody
  /\ at = [w \in Writer |-> "idle"] /\ upto = [w \in Writer |-> 0]
  /\ cursor = [c \in Client |-> NoCursor]
  /\ conn = [c \in Client |-> "away"]
  /\ subscribers = {} /\ queue = [c \in Client |-> <<>>] /\ closed = {}
  /\ covered = [c \in Client |-> 0]
  /\ owed = [c \in Client |-> <<>>] /\ floor = [c \in Client |-> 0]
  /\ restarts = 0

Larger(a, b) == IF a > b THEN a ELSE b

\* The numbers from a to b, in order.
Span(a, b) == [i \in 1..(b - a + 1) |-> a + i - 1]

-----------------------------------------------------------------------------
(* Writers. *)

\* Every row still to be written has its number below the bound.
MayWrite == last + Cardinality({w \in Writer : at[w] = "emitting"}) < MaxEvents

\* A session transaction commits a row of its own. Its owner publishes next, or never:
\* cancel_turn and update_session do not, and a request may die between the two.
Commits(w) ==
  /\ at[w] = "idle" /\ MayWrite
  /\ last' = last + 1
  /\ \/ at' = [at EXCEPT ![w] = "publishing"]
     \/ UNCHANGED at
  /\ UNCHANGED <<published, lock, upto, cursor, conn, fanned, reading, restarts>>

\* emit() or publish_persisted() is called; both wait for the lock.
Calls(w) ==
  /\ at[w] = "idle"
  /\ \/ MayWrite /\ at' = [at EXCEPT ![w] = "emitting"]
     \/ at' = [at EXCEPT ![w] = "publishing"]
  /\ UNCHANGED <<log, lock, upto, cursor, conn, fanned, reading, restarts>>

\* emit's append, under the lock: the number is one above the largest in the table.
Appends(w) ==
  /\ at[w] = "emitting" /\ lock = Nobody
  /\ last' = last + 1
  /\ lock' = w
  /\ at' = [at EXCEPT ![w] = "appended"]
  /\ upto' = [upto EXCEPT ![w] = last + 1]
  /\ UNCHANGED <<published, cursor, conn, fanned, reading, restarts>>

\* publish_persisted's replay, under the lock.
Replays(w) ==
  /\ at[w] = "publishing" /\ lock = Nobody
  /\ lock' = w
  /\ at' = [at EXCEPT ![w] = "replayed"]
  /\ upto' = [upto EXCEPT ![w] = last]
  /\ UNCHANGED <<log, cursor, conn, fanned, reading, restarts>>

\* What a connection takes of rows a to b: those above its floor.
Offered(c, a, b) == Span(Larger(a, floor[c] + 1), b)

FanOut_Silent(a, b) ==
  LET all(c) == queue[c] \o Offered(c, a, b)
      full == {c \in subscribers : Len(all(c)) > Capacity}
  IN /\ queue' = [c \in Client |-> IF c \in subscribers \ full THEN all(c) ELSE queue[c]]
     /\ subscribers' = subscribers \ full
     /\ UNCHANGED closed

\* _fan_out of rows a to b, in order: a queue takes what it has room for, and one that is
\* offered more is closed and forgotten.
FanOut(a, b) ==
  LET all(c) == queue[c] \o Offered(c, a, b)
      full == {c \in subscribers : Len(all(c)) > Capacity}
  IN /\ queue' = [c \in Client |->
           IF c \in full THEN SubSeq(all(c), 1, Capacity)
           ELSE IF c \in subscribers THEN all(c) ELSE queue[c]]
     /\ closed' = closed \union full
     /\ subscribers' = subscribers \ full

Returns(w) ==
  /\ at' = [at EXCEPT ![w] = "idle"] /\ upto' = [upto EXCEPT ![w] = 0] /\ lock' = Nobody

\* emit looks for rows nobody fanned out: it fans out from here on.
GapFrom(w) == IF subscribers # {} THEN published + 1 ELSE upto[w]

\* emit goes on after its append: a gap is read first, or the row is fanned out alone.
Fans(w) ==
  /\ at[w] = "appended"
  /\ IF GapFrom(w) < upto[w]
     THEN /\ at' = [at EXCEPT ![w] = "gap"]
          /\ UNCHANGED <<published, lock, upto, fanned>>
     ELSE /\ FanOut(upto[w], upto[w])
          /\ published' = upto[w]
          /\ Returns(w)
  /\ UNCHANGED <<last, cursor, conn, reading, restarts>>

\* The rows of a replay, and with them the row of an emit, are fanned out.
FansReplay(w) ==
  /\ at[w] \in {"gap", "replayed"}
  /\ FanOut(published + 1, upto[w])
  /\ published' = Larger(published, upto[w])
  /\ Returns(w)
  /\ UNCHANGED <<last, cursor, conn, reading, restarts>>

\* An emit is cut short after its append, by the deadline of the call it belongs to: the
\* lock is released and the row is left to the next.
CutShort(w) ==
  /\ at[w] \in {"appended", "gap"}
  /\ Returns(w)
  /\ UNCHANGED <<log, cursor, conn, fanned, reading, restarts>>

-----------------------------------------------------------------------------
(* Connections. *)

\* subscribe: the queue is registered before anything is read. A client comes back with
\* its cursor (starting_after, or Last-Event-ID).
Connects(c) ==
  /\ conn[c] = "away"
  /\ conn' = [conn EXCEPT ![c] = "snapshot"]
  /\ subscribers' = subscribers \union {c}
  /\ UNCHANGED <<log, writers, cursor, queue, closed, reading, restarts>>

\* The state is read, and then the tail.
Snapshots(c) ==
  /\ conn[c] = "snapshot"
  /\ covered' = [covered EXCEPT ![c] = last]
  /\ conn' = [conn EXCEPT ![c] = "tail"]
  /\ UNCHANGED <<log, writers, cursor, fanned, owed, floor, restarts>>

ReadsTail(c) ==
  /\ conn[c] = "tail"
  /\ covered' = [covered EXCEPT ![c] = last]
  /\ conn' = [conn EXCEPT ![c] = IF cursor[c] = NoCursor THEN "ready" ELSE "missed"]
  /\ UNCHANGED <<log, writers, cursor, fanned, owed, floor, restarts>>

\* A client that comes back is owed what it missed.
ReadsMissed(c) ==
  /\ conn[c] = "missed"
  /\ covered' = [covered EXCEPT ![c] = IF last > cursor[c] THEN last ELSE covered[c]]
  /\ conn' = [conn EXCEPT ![c] = "ready"]
  /\ UNCHANGED <<log, writers, cursor, fanned, owed, floor, restarts>>

\* The frames of a prologue: the opening ones claim the client's position, or the tail.
Prologue(c) ==
  IF cursor[c] = NoCursor THEN <<covered[c]>>
  ELSE <<cursor[c]>> \o Span(cursor[c] + 1, covered[c])

FloorAfter_Position(c) == IF cursor[c] = NoCursor THEN covered[c] ELSE cursor[c]
\* What need not be delivered any more once the prologue is installed.
FloorAfter(c) == Larger(floor[c], covered[c])

Installs(c) ==
  /\ conn[c] = "ready"
  /\ owed' = [owed EXCEPT ![c] = Prologue(c)]
  /\ floor' = [floor EXCEPT ![c] = FloorAfter(c)]
  /\ covered' = [covered EXCEPT ![c] = 0]
  /\ conn' = [conn EXCEPT ![c] = "following"]
  /\ UNCHANGED <<log, writers, cursor, fanned, restarts>>

\* next_event: a frame of the prologue.
HandsOwed(c) ==
  /\ conn[c] = "following" /\ owed[c] # <<>>
  /\ cursor' = [cursor EXCEPT ![c] = Head(owed[c])]
  /\ owed' = [owed EXCEPT ![c] = Tail(owed[c])]
  /\ UNCHANGED <<log, writers, conn, fanned, covered, floor, restarts>>

\* next_event: an event of the queue, unless the prologue had it.
HandsQueued(c) ==
  /\ conn[c] = "following" /\ owed[c] = <<>> /\ queue[c] # <<>>
  /\ queue' = [queue EXCEPT ![c] = Tail(queue[c])]
  /\ IF Head(queue[c]) <= floor[c]
     THEN UNCHANGED <<cursor, floor>>
     ELSE /\ cursor' = [cursor EXCEPT ![c] = Head(queue[c])]
          /\ floor' = [floor EXCEPT ![c] = Head(queue[c])]
  /\ UNCHANGED <<log, writers, conn, subscribers, closed, covered, owed, restarts>>

\* What is left of a connection: nothing, on this side.
Released(gone) ==
  /\ conn' = [c \in Client |-> IF c \in gone THEN "away" ELSE conn[c]]
  /\ subscribers' = subscribers \ gone
  /\ closed' = closed \ gone
  /\ queue' = [c \in Client |-> IF c \in gone THEN <<>> ELSE queue[c]]
  /\ covered' = [c \in Client |-> IF c \in gone THEN 0 ELSE covered[c]]
  /\ owed' = [c \in Client |-> IF c \in gone THEN <<>> ELSE owed[c]]
  /\ floor' = [c \in Client |-> IF c \in gone THEN 0 ELSE floor[c]]

\* The reader of a closed queue comes to its end: the last frame repeats the client's
\* position, and the stream is over.
Ends(c) ==
  /\ conn[c] = "following" /\ owed[c] = <<>> /\ queue[c] = <<>> /\ c \in closed
  /\ Released({c})
  /\ UNCHANGED <<log, writers, cursor, restarts>>

\* The connection is lost, wherever it is.
Leaves(c) ==
  /\ conn[c] # "away"
  /\ Released({c})
  /\ UNCHANGED <<log, writers, cursor, restarts>>

\* A page is loaded anew: its client has no cursor.
Forgets(c) ==
  /\ conn[c] = "away" /\ cursor[c] # NoCursor
  /\ cursor' = [cursor EXCEPT ![c] = NoCursor]
  /\ UNCHANGED <<log, writers, conn, fanned, reading, restarts>>

-----------------------------------------------------------------------------
\* The process goes down and the next one starts: rows and cursors survive.
Restart ==
  /\ restarts < MaxRestarts
  /\ restarts' = restarts + 1
  /\ published' = 0
  /\ lock' = Nobody /\ at' = [w \in Writer |-> "idle"] /\ upto' = [w \in Writer |-> 0]
  /\ Released(Client)
  /\ UNCHANGED <<last, cursor>>

Write(w) == Appends(w) \/ Replays(w) \/ Fans(w) \/ FansReplay(w)

Read(c) ==
  \/ Snapshots(c) \/ ReadsTail(c) \/ ReadsMissed(c) \/ Installs(c)
  \/ HandsOwed(c) \/ HandsQueued(c) \/ Ends(c)

Next ==
  \/ \E w \in Writer : Commits(w) \/ Calls(w) \/ Write(w) \/ CutShort(w)
  \/ \E c \in Client : Connects(c) \/ Read(c) \/ Leaves(c) \/ Forgets(c)
  \/ Restart

Spec == Init /\ [][Next]_vars

\* The loop and the worker go on, the lock is fair (asyncio.Lock serves in order), and a
\* connection reads what is there.
Fairness ==
  /\ \A w \in Writer : SF_vars(Write(w))
  /\ \A c \in Client : WF_vars(Read(c))

FairSpec == Spec /\ Fairness

-----------------------------------------------------------------------------
(* Properties. *)

\* The shape of every variable.
TypeOK ==
  /\ last \in Nat /\ published \in Nat
  /\ lock \in Writer \union {Nobody}
  /\ at \in [Writer -> {"idle", "emitting", "publishing", "appended", "replayed", "gap"}]
  /\ upto \in [Writer -> Nat]
  /\ cursor \in [Client -> Nat \union {NoCursor}]
  /\ conn \in [Client -> {"away", "snapshot", "tail", "missed", "ready", "following"}]
  /\ subscribers \subseteq Client /\ closed \subseteq Client
  /\ queue \in [Client -> Seq(Nat)] /\ owed \in [Client -> Seq(Nat)]
  /\ covered \in [Client -> Nat] /\ floor \in [Client -> Nat]
  /\ restarts \in Nat

\* "What comes back is complete" (sse.py), and nothing comes twice or out of order: however
\* appends, gaps, overflows, lost connections and restarts interleave, a client that has a
\* position is given the next event and no other.
Promised == INSTANCE Feed WITH last <- last, cursor <- cursor
ImplementsFeed == Promised!Spec

\* A connection that follows hears of every row, or is told to come back: while somebody
\* keeps publishing (the end of every turn does), nothing that was committed is withheld.
HearsInTheEnd ==
  ([]<>\E w \in Writer : at[w] = "replayed") =>
    \A c \in Client : \A n \in 1..MaxEvents :
      (conn[c] = "following" /\ last >= n)
        ~> (conn[c] = "away" \/ (cursor[c] # NoCursor /\ cursor[c] >= n))

-----------------------------------------------------------------------------
(* What the code's comments promise and the code does not keep: TLC refutes each
   (README, Divergences). *)

\* "The snapshot is read before the tail so that anything landing between the two is
\* delivered as a delta rather than falling into the gap between them" (_prologue): a fresh
\* connection's floor is what its snapshot reflects, so every later event is delivered.
SnapshotMeetsStream ==
  [][\A c \in Client :
       cursor[c] = NoCursor /\ ReadsTail(c) => covered'[c] = covered[c]]_vars

\* Owners call publish_persisted "after committing" (emitter.py): what was committed is
\* heard of by whoever follows, also when nothing else happens in the session.
HeardOfAtOnce ==
  \A c \in Client : \A n \in 1..MaxEvents :
    (conn[c] = "following" /\ last >= n)
      ~> (conn[c] = "away" \/ (cursor[c] # NoCursor /\ cursor[c] >= n))

\* After a restart the whole log is fanned out again, and what a prologue covers "must
\* therefore be harmless" (deliver): it closes no connection.
OldRowsAreHarmless ==
  \A c \in closed :
    conn[c] = "following" /\ owed[c] # <<>> =>
      \A i \in DOMAIN queue[c] : queue[c][i] > floor[c]
=============================================================================
