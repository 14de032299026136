-------------------------------- MODULE Wake --------------------------------
(***************************************************************************)
(* work/wake.py for one session: endings of work that asked to wake it,    *)
(* announced, held while a turn is live, and spent on turns of their own,  *)
(* beside the claimer and the turn tasks of turn/supervisor.py and the     *)
(* end-of-turn hook of core/container.py.                                  *)
(*                                                                         *)
(* What matters here is order, so the two queues behind every await are    *)
(* modelled: `jobs`, the transactions handed to SqlWorker's one thread,    *)
(* and `ready`, the coroutines whose transaction is done, which the event  *)
(* loop resumes in that order. A step is one transaction (Serves) or one   *)
(* coroutine from an await to the next (Resumes). An await of the network  *)
(* or of a model ends at any time.                                         *)
(***************************************************************************)
EXTENDS Naturals, Sequences, FiniteSets, Functions

CONSTANTS
  Ending,      \* pieces of work in flight whose brief asks to wake the session
  MaxTurns,    \* bound: how many turns the session ever has
  Policies,    \* the input policies the session may have
  Cancels,     \* whether the person cancels turns
  MaxRestarts, \* bound: how often the process restarts
  Claimer,     \* the supervisor's claiming task
  NoEnding     \* what opened a person's turn

NoTurn == 0
Turn == 1..MaxTurns     \* in the order they are created
Party == Ending \union Turn \union {Claimer}    \* an ending stands for its listener's task

ASSUME WakeAssumption ==
  /\ MaxTurns \in Nat /\ MaxRestarts \in Nat
  /\ Policies \subseteq {"enqueue", "reject", "interrupt"}
  /\ Cancels \in BOOLEAN
  /\ NoEnding \notin Ending /\ Ending \intersect Turn = {}
  /\ Claimer \notin Ending \union Turn

VARIABLES
  policy,    \* sessions.input_policy
  status,    \* turns.status, "absent" before the turn exists and "ended" once terminal
  opener,    \* the ending a turn was opened for
  noted,     \* turns whose harness notice is in the transcript
  lent,      \* turns opened with authority made by `prepare`
  prepared,  \* the keys of TurnSupervisor._prepared
  held,      \* Waker._held of the session
  fetched,   \* endings whose result a turn has read
  todo,      \* what a coroutine has still to deliver, the current ending first
  busy,      \* what a coroutine's last look at the turns found
  mine,      \* the turn a coroutine opened
  pc,        \* what a coroutine waits for
  jobs, ready,
  woken, answer,   \* the claimer's memory of a wake, and what its claim returned
  orphans,   \* turns whose authority went with the process, between their opening and their start
  bare,      \* turns that ran without the authority lent to them
  blind,     \* turns that read a transcript without their notice
  restarts

rows == <<policy, status, opener, noted, lent>>
memory == <<prepared, held, fetched>>
locals == <<todo, busy, mine>>
seen == <<orphans, bare, blind>>
vars == <<rows, memory, locals, pc, jobs, ready, woken, answer, seen, restarts>>

Live_AnyRow == {t \in Turn : status[t] # "absent"}
\* The turns whose status is not terminal.
Live == {t \in Turn : status[t] \in {"queued", "running", "parked"}}
Absent == {t \in Turn : status[t] = "absent"}
Woke(e) == {t \in Turn : opener[t] = e}
Oldest(ts) == CHOOSE t \in ts : \A u \in ts : t <= u

Init ==
  /\ policy \in Policies
  /\ status = [t \in Turn |-> "absent"]
  /\ opener = [t \in Turn |-> NoEnding]
  /\ noted = {} /\ lent = {} /\ prepared = {}
  /\ held = <<>> /\ fetched = {}
  /\ todo = [p \in Party |-> IF p \in Ending THEN <<p>> ELSE <<>>]
  /\ busy = [p \in Party |-> FALSE]
  /\ mine = [p \in Party |-> NoTurn]
  /\ pc = [p \in Party |-> IF p \in Ending THEN "working" ELSE "off"]
  /\ jobs = <<>> /\ ready = <<>>
  /\ woken = FALSE /\ answer = NoTurn
  /\ orphans = {} /\ bare = {} /\ blind = {}
  /\ restarts = 0

\* p hands SqlWorker its next transaction.
Submits(p, label) ==
  /\ pc' = [pc EXCEPT ![p] = label]
  /\ jobs' = Append(jobs, p)

\* The worker thread runs the oldest transaction, p's, which waits at `label`.
Serves(p, label) ==
  /\ jobs # <<>> /\ p = Head(jobs) /\ pc[p] = label
  /\ jobs' = Tail(jobs)
  /\ ready' = Append(ready, p)
  /\ UNCHANGED <<memory, todo, pc, woken, restarts>>

\* The loop resumes p.
Resumes(p, label) ==
  /\ ready # <<>> /\ p = Head(ready) /\ pc[p] = label
  /\ UNCHANGED <<rows, restarts>>

\* p stops for good, or until it is started again.
Stops(p, label) == pc' = [pc EXCEPT ![p] = label] /\ UNCHANGED jobs

\* TurnSupervisor.wake after p has stopped, the queue of the loop being `queue`.
StopsAndWakes(p, label, queue) ==
  /\ pc' = [pc EXCEPT ![p] = label, ![Claimer] = IF @ = "off" THEN "starting" ELSE @]
  /\ ready' = IF pc[Claimer] = "off" THEN Append(queue, Claimer) ELSE queue
  /\ woken' = (pc[Claimer] # "off" \/ woken)
  /\ UNCHANGED jobs

-----------------------------------------------------------------------------
(* The person. Their requests are one transaction each and are over at once. *)

\* _displace_live: interrupt ends the oldest live turn unless it runs.
Displaced ==
  IF policy = "interrupt" /\ Live # {} /\ status[Oldest(Live)] # "running"
  THEN [status EXCEPT ![Oldest(Live)] = "ended"]
  ELSE status

\* A message, which needs a turn that no ending may still come to need.
Submit(t) ==
  /\ t \in Absent /\ t = Oldest(Absent)
  /\ Cardinality(Absent) > Cardinality({e \in Ending : Woke(e) = {}})
  /\ policy = "reject" => Live = {}
  /\ status' = [Displaced EXCEPT ![t] = "queued"]
  /\ StopsAndWakes(t, "off", ready)
  /\ UNCHANGED <<policy, opener, noted, lent, memory, locals, answer, seen, restarts>>

\* An approval's answer queues the parked turn again, with the request's authority. The
\* task that parked it is over by then (Turns has the answer that comes sooner).
Answer(t) ==
  /\ status[t] = "parked" /\ pc[t] = "off"
  /\ status' = [status EXCEPT ![t] = "queued"]
  /\ prepared' = prepared \union {t}
  /\ StopsAndWakes(t, "off", ready)
  /\ UNCHANGED <<policy, opener, noted, lent, held, fetched, locals, answer, seen, restarts>>

\* cancel_turn of a turn nothing runs; a running one is asked, and may end at any time.
Cancel(t) ==
  /\ Cancels
  /\ status[t] \in {"queued", "parked"}
  /\ status' = [status EXCEPT ![t] = "ended"]
  /\ prepared' = prepared \ {t}
  /\ UNCHANGED <<policy, opener, noted, lent, held, fetched, locals, pc, jobs, ready, woken,
                 answer, seen, restarts>>

-----------------------------------------------------------------------------
(* Opening a turn for an ending, from on_finished or from flush. *)

\* prepare() has answered, with authority or without; an ending that carries no consent
\* does not ask.
Prepares(p) ==
  /\ pc[p] = "preparing"
  /\ Submits(p, "opening")
  /\ UNCHANGED <<rows, memory, locals, ready, woken, answer, seen, restarts>>

\* open_turn's transaction. Under "reject" it refuses beside a live turn.
Opens(p) ==
  /\ Serves(p, "opening")
  /\ \/ /\ policy = "reject" /\ Live # {}
        /\ mine' = [mine EXCEPT ![p] = NoTurn]
        /\ UNCHANGED rows
     \/ /\ policy = "reject" => Live = {}
        /\ LET t == Oldest(Absent)
           IN /\ Absent # {}
              /\ status' = [Displaced EXCEPT ![t] = "queued"]
              /\ opener' = [opener EXCEPT ![t] = Head(todo[p])]
              /\ lent' \in {lent, lent \union {t}}
              /\ mine' = [mine EXCEPT ![p] = t]
        /\ UNCHANGED <<policy, noted>>
  /\ UNCHANGED <<busy, answer, seen>>

AfterOpening_EmitsFirst == <<"telling", "noting">>
\* What _open awaits once the turn is there: its notice is written, then it is announced.
AfterOpening == <<"noting", "telling">>

AuthorizesAfter_Notice == "noting"
\* Where authorize() is called: "before anything else awaits".
AuthorizesAfter == "opening"

\* What authorize() leaves in _prepared, if p has come to it with something prepared.
Authorized(p, label) ==
  IF label = AuthorizesAfter /\ mine[p] \in lent THEN prepared \union {mine[p]} ELSE prepared

\* The turn is there: the claimer may have taken it already.
Opened(p) ==
  /\ Resumes(p, "opening")
  /\ mine[p] # NoTurn
  /\ prepared' = Authorized(p, "opening")
  /\ Submits(p, AfterOpening[1])
  /\ ready' = Tail(ready)
  /\ UNCHANGED <<held, fetched, locals, woken, answer, seen>>

\* The notice is in the transcript.
Notes(p) ==
  /\ Serves(p, "noting")
  /\ noted' = noted \union {mine[p]}
  /\ UNCHANGED <<policy, status, opener, lent, busy, mine, answer, seen>>

\* The first of the two awaits is over.
Noted(p) ==
  /\ Resumes(p, AfterOpening[1])
  /\ prepared' = Authorized(p, AfterOpening[1])
  /\ Submits(p, AfterOpening[2])
  /\ ready' = Tail(ready)
  /\ UNCHANGED <<held, fetched, locals, woken, answer, seen>>

\* A transaction that writes only what nothing here reads: an event.
Writes(p, label) ==
  /\ Serves(p, label)
  /\ UNCHANGED <<rows, busy, mine, answer, seen>>

\* _busy: whether any turn of the session is live.
Looks(p, label) ==
  /\ Serves(p, label)
  /\ busy' = [busy EXCEPT ![p] = Live # {}]
  /\ UNCHANGED <<rows, mine, answer, seen>>

-----------------------------------------------------------------------------
(* on_finished. *)

\* The work ends and the registry starts the listener.
Finishes(e) ==
  /\ pc[e] = "working"
  /\ Submits(e, "asking")
  /\ UNCHANGED <<rows, memory, locals, ready, woken, answer, seen, restarts>>

\* It has looked at the turns, and announces the ending.
Asked(e) ==
  /\ Resumes(e, "asking")
  /\ Submits(e, "emitting")
  /\ ready' = Tail(ready)
  /\ UNCHANGED <<memory, locals, woken, answer, seen>>

\* _wake_or_hold, by what it saw before the announcement.
WakesOrHolds(e) ==
  /\ Resumes(e, "emitting")
  /\ IF busy[e] THEN held' = Append(held, e) /\ Stops(e, "done")
                ELSE Stops(e, "preparing") /\ UNCHANGED held
  /\ ready' = Tail(ready)
  /\ UNCHANGED <<prepared, fetched, locals, woken, answer, seen>>

\* The listener is over: its turn is announced, or was refused.
Delivered(e) ==
  /\ \/ Resumes(e, AfterOpening[2]) /\ StopsAndWakes(e, "done", Tail(ready))
     \/ /\ Resumes(e, "opening") /\ mine[e] = NoTurn
        /\ Stops(e, "done") /\ ready' = Tail(ready) /\ UNCHANGED woken
  /\ UNCHANGED <<memory, locals, answer, seen>>

-----------------------------------------------------------------------------
(* The claimer and the tasks of turns. *)

\* claim_next_turn: the oldest queued turn, unless one of the session runs.
Claims ==
  /\ Serves(Claimer, "claiming")
  /\ LET queued == {t \in Turn : status[t] = "queued"}
     IN IF queued # {} /\ \A t \in Turn : status[t] # "running"
        THEN /\ answer' = Oldest(queued)
             /\ status' = [status EXCEPT ![Oldest(queued)] = "running"]
        ELSE answer' = NoTurn /\ UNCHANGED status
  /\ UNCHANGED <<policy, opener, noted, lent, busy, mine, seen>>

\* _claim: it asks, starts a task for the turn it got, and asks again, or stops.
Claiming ==
  /\ \/ Resumes(Claimer, "starting")
     \/ Resumes(Claimer, "claiming")
  /\ \/ /\ pc[Claimer] = "claiming" /\ answer = NoTurn /\ ~woken
        /\ Stops(Claimer, "off") /\ ready' = Tail(ready) /\ UNCHANGED woken
     \/ /\ pc[Claimer] = "starting" \/ (answer = NoTurn /\ woken)
        /\ Submits(Claimer, "claiming") /\ ready' = Tail(ready) /\ woken' = FALSE
     \/ /\ pc[Claimer] = "claiming" /\ answer # NoTurn
        /\ pc' = [pc EXCEPT ![answer] = "claimed"]
        /\ jobs' = Append(jobs, Claimer)
        /\ ready' = Append(Tail(ready), answer)
        /\ woken' = FALSE
  /\ answer' = NoTurn
  /\ UNCHANGED <<memory, locals, seen>>

\* A task's first step takes what was prepared for it, and reads on.
Begins(t) ==
  /\ Resumes(t, "claimed")
  /\ bare' = IF t \in lent \ prepared THEN bare \union {t} ELSE bare
  /\ prepared' = prepared \ {t}
  /\ Submits(t, "reading")
  /\ ready' = Tail(ready)
  /\ UNCHANGED <<held, fetched, locals, woken, answer, orphans, blind>>

\* The transcript the first round is asked with.
Reads(t) ==
  /\ Serves(t, "reading")
  /\ blind' = IF opener[t] # NoEnding /\ t \notin noted THEN blind \union {t} ELSE blind
  /\ UNCHANGED <<rows, busy, mine, answer, orphans, bare>>

\* The rounds begin.
Starts(t) ==
  /\ Resumes(t, "reading")
  /\ Stops(t, "rounds")
  /\ ready' = Tail(ready)
  /\ UNCHANGED <<memory, locals, woken, answer, seen>>

\* A round of some turn reads the result of work that has ended.
Fetches(e) ==
  /\ pc[e] # "working" /\ e \notin fetched
  /\ \E t \in Turn : pc[t] = "rounds"
  /\ fetched' = fetched \union {e}
  /\ UNCHANGED <<rows, prepared, held, locals, pc, jobs, ready, woken, answer, seen, restarts>>

\* The run is over, or parks.
RunEnds(t) ==
  /\ pc[t] = "rounds"
  /\ \E label \in {"finishing", "parking"} : Submits(t, label)
  /\ UNCHANGED <<rows, memory, locals, ready, woken, answer, seen, restarts>>

\* finish_turn, or open_approval.
Finish(t) ==
  /\ \/ Serves(t, "finishing") /\ status' = [status EXCEPT ![t] = "ended"]
     \/ Serves(t, "parking") /\ status' = [status EXCEPT ![t] = "parked"]
  /\ UNCHANGED <<policy, opener, noted, lent, busy, mine, answer, seen>>

\* A parked turn's task is over; an ended one's sends its webhooks.
Signals(t) ==
  /\ \/ /\ Resumes(t, "finishing")
        /\ Stops(t, "notifying") /\ ready' = Tail(ready) /\ UNCHANGED woken
     \/ Resumes(t, "parking") /\ StopsAndWakes(t, "off", Tail(ready))
  /\ UNCHANGED <<memory, locals, answer, seen>>

-----------------------------------------------------------------------------
(* flush, by the task of a turn that has ended. *)

\* The endings from the first that nobody has read yet.
Unread(endings) ==
  LET fresh == {i \in DOMAIN endings : endings[i] \notin fetched}
  IN IF fresh = {} THEN <<>> ELSE SubSeq(endings, Oldest(fresh), Len(endings))

\* The next of `endings`, for which t looks at the turns again; or its task is over.
Continues(t, endings, queue) ==
  /\ todo' = [todo EXCEPT ![t] = Unread(endings)]
  /\ IF Unread(endings) = <<>>
     THEN StopsAndWakes(t, "left", queue)
     ELSE Submits(t, "checking") /\ ready' = queue /\ UNCHANGED woken

\* after_turn, the webhooks being sent: what was held is taken.
Flushes(t) ==
  /\ pc[t] = "notifying"
  /\ held' = <<>>
  /\ Continues(t, held, ready)
  /\ UNCHANGED <<rows, prepared, fetched, busy, mine, answer, seen, restarts>>

\* What a flush that finds the session busy holds again.
Rest(t) == todo[t]

\* It has looked: the rest is held again, in place of what is held by now, or one is opened.
Checked(t) ==
  /\ Resumes(t, "checking")
  /\ IF busy[t] THEN held' = Rest(t) /\ StopsAndWakes(t, "left", Tail(ready))
                ELSE /\ Stops(t, "preparing") /\ ready' = Tail(ready)
                     /\ UNCHANGED <<held, woken>>
  /\ UNCHANGED <<prepared, fetched, locals, answer, seen>>

\* The turn for one ending is announced and the next is looked at; or it was refused, which
\* ends the flush.
GoesOn(t) ==
  /\ \/ Resumes(t, AfterOpening[2]) /\ Continues(t, Tail(todo[t]), Tail(ready))
     \/ /\ Resumes(t, "opening") /\ mine[t] = NoTurn
        /\ StopsAndWakes(t, "left", Tail(ready)) /\ UNCHANGED todo
  /\ UNCHANGED <<memory, busy, mine, answer, seen>>

-----------------------------------------------------------------------------
\* The process goes down and the next one starts: rows that were running are ended, and
\* only rows survive.
Restart ==
  /\ restarts < MaxRestarts
  /\ restarts' = restarts + 1
  /\ status' = [t \in Turn |-> IF status[t] = "running" THEN "ended" ELSE status[t]]
  /\ prepared' = {} /\ held' = <<>>
  /\ todo' = [p \in Party |-> <<>>]
  /\ busy' = [p \in Party |-> FALSE]
  /\ mine' = [p \in Party |-> NoTurn]
  /\ pc' = [p \in Party |-> IF p \in Ending THEN "done"
                            ELSE IF p = Claimer THEN "starting"
                            ELSE IF pc[p] = "off" \/ status'[p] # "ended" THEN "off" ELSE "left"]
  /\ jobs' = <<>> /\ ready' = <<Claimer>>
  /\ woken' = FALSE /\ answer' = NoTurn
  /\ orphans' = orphans \union {t \in lent : status[t] = "queued"}
  /\ UNCHANGED <<policy, opener, noted, lent, fetched, bare, blind>>

\* The steps of coroutines and of the worker thread.
System ==
  \/ \E e \in Ending :
       Asked(e) \/ WakesOrHolds(e) \/ Delivered(e) \/ Looks(e, "asking") \/ Writes(e, "emitting")
  \/ Claims \/ Claiming
  \/ \E t \in Turn :
       \/ Begins(t) \/ Reads(t) \/ Starts(t) \/ Finish(t) \/ Signals(t)
       \/ Looks(t, "checking") \/ Checked(t) \/ GoesOn(t)
  \/ \E p \in Ending \union Turn : Opens(p) \/ Opened(p) \/ Notes(p) \/ Noted(p) \/ Writes(p, "telling")

\* The steps that wait for the network or a model.
Outside(p) == Prepares(p) \/ (p \in Turn /\ (RunEnds(p) \/ Flushes(p)))

Next ==
  \/ System
  \/ \E p \in Ending \union Turn : Outside(p)
  \/ \E t \in Turn : Submit(t) \/ Answer(t) \/ Cancel(t)
  \/ \E e \in Ending : Finishes(e) \/ Fetches(e)
  \/ Restart

Spec == Init /\ [][Next]_vars

\* The loop and the worker go on, calls are answered, and runs come to an end.
Fairness == WF_vars(System) /\ \A p \in Ending \union Turn : WF_vars(Outside(p))

FairSpec == Spec /\ Fairness

-----------------------------------------------------------------------------
(* Properties. *)

Label == {"off", "working", "asking", "emitting", "done", "preparing", "opening", "noting",
          "telling", "starting", "claiming", "claimed", "reading", "rounds", "finishing",
          "parking", "notifying", "checking", "left"}

\* The shape of every variable; no coroutine waits twice.
TypeOK ==
  /\ policy \in Policies
  /\ status \in [Turn -> {"absent", "queued", "running", "parked", "ended"}]
  /\ opener \in [Turn -> Ending \union {NoEnding}]
  /\ noted \subseteq Turn /\ lent \subseteq Turn /\ prepared \subseteq Turn
  /\ held \in Seq(Ending) /\ fetched \subseteq Ending
  /\ todo \in [Party -> Seq(Ending)] /\ busy \in [Party -> BOOLEAN]
  /\ mine \in [Party -> Turn \union {NoTurn}]
  /\ pc \in [Party -> Label]
  /\ jobs \in Seq(Party) /\ ready \in Seq(Party)
  /\ IsInjective(jobs) /\ IsInjective(ready) /\ Range(jobs) \intersect Range(ready) = {}
  /\ woken \in BOOLEAN /\ answer \in Turn \union {NoTurn}
  /\ orphans \subseteq Turn /\ bare \subseteq Turn /\ blind \subseteq Turn
  /\ restarts \in 0..MaxRestarts

\* An ending opens at most one turn, although it may be held, taken and held again while
\* other endings arrive.
WokenOnce == \A e \in Ending : Cardinality(Woke(e)) <= 1

\* "The supervisor may claim a queued turn at any yield, and a woken turn claimed without its
\* authority runs without it" (_open): only a restart while it is queued makes it one, since
\* the turn is kept and the authority is not (_prepared).
WokenTurnHasItsAuthority == bare \subseteq orphans

\* A woken turn reads the notice it was opened for, though the notice is written after the
\* turn can be claimed; unless the process died between the two.
WokenTurnReadsItsNotice == restarts > 0 \/ blind = {}

\* An ending wakes at most one turn, and that turn reads of it.
NoticeWakesOneTurn == WokenOnce /\ WokenTurnReadsItsNotice

\* The session is idle after a turn was cancelled or displaced where it waited: that turn's
\* run, and the flush after it, were to spend what is held.
IdleAfterADrop ==
  /\ Live = {} /\ \A t \in Turn : pc[t] \in {"off", "left"}
  /\ \E t \in Turn : status[t] = "ended" /\ pc[t] = "off"

\* An ending that is held while a turn runs is spent, or read, by the end of that run and of
\* those that were queued behind it; unless one of them parks, a cancel of the last of them
\* leaves the session idle, or the process goes down. (Of an ending held with no run left,
\* see HeldOnlyWhileBusy; of several, or of one that "reject" refuses, NoEndingIsLost.)
HeldIsSpent ==
  \A e \in Ending :
    (/\ e \in Range(held) /\ policy # "reject"
     /\ \E t \in Turn : pc[t] \in {"claimed", "reading", "rounds"})
      ~> (\/ Woke(e) # {} \/ e \in fetched
          \/ IdleAfterADrop \/ restarts > 0 \/ \E t \in Turn : status[t] = "parked")

-----------------------------------------------------------------------------
(* What the code's comments promise and the code does not keep: TLC refutes each
   (README, Divergences). *)

\* "If it did not read the result by the time it finishes, the held wake is spent then": what
\* is held has a turn, or a flush to come, that will spend it.
HeldOnlyWhileBusy ==
  held # <<>> => Live # {} \/ \E t \in Turn : pc[t] \in {"finishing", "notifying"}

\* "If another turn has started in the meantime the rest stay held" (flush): an ending that
\* asked to wake is read, held, about to be delivered, or has its turn.
NoEndingIsLost ==
  \A e \in Ending : pc[e] = "done" =>
    \/ Woke(e) # {} \/ e \in fetched \/ e \in Range(held)
    \/ \E t \in Turn : pc[t] \in {"checking", "preparing", "opening"} /\ e \in Range(todo[t])

\* "If a turn is running, the ending is held": no turn is opened for one beside it.
NoWakeBesideARun ==
  [][\A t \in Turn : opener'[t] # opener[t] => \A u \in Turn : status[u] # "running"]_vars

\* "A woken turn claimed without its authority runs without it" (_open): with the turn its
\* row keeps, the next process has its authority too.
AuthorityOutlivesRestart == bare = {}

\* flush is "called after every turn ends": the end of the last live turn, whoever ends it,
\* leaves somebody to spend what is held.
SomebodyFlushes ==
  [][Live # {} /\ Live' = {} /\ held' # <<>> =>
       \E t \in Turn : pc'[t] \in {"finishing", "notifying"}]_vars
=============================================================================
