-------------------------------- MODULE Turns --------------------------------
(***************************************************************************)
(* A turn from the request that records it to the write that ends it: the  *)
(* rows of the store (sessions/turns.py, sessions/sql_store.py,            *)
(* permissions/approvals.py), the in-process supervisor that claims and    *)
(* runs them (turn/supervisor.py over turn/loop.py), and the routes that   *)
(* submit, answer and cancel (api/routers/sessions.py).                    *)
(*                                                                         *)
(* One asyncio loop runs every coroutine, and every store operation is one *)
(* transaction of one worker thread that serves them in order. So a step   *)
(* here is one transaction together with the code that runs before the     *)
(* next await; everything between two awaits of different coroutines may   *)
(* interleave. Results are handed back in the order the worker produced    *)
(* them, so what a route does synchronously after its own transaction      *)
(* (authorize, discard) happens before the loop sees a later transaction,  *)
(* and is part of the same step.                                           *)
(***************************************************************************)
EXTENDS Naturals, FiniteSets

CONSTANTS
  Session,        \* the conversations
  NoSession,      \* home of a turn that has not been submitted
  NumTurns,       \* bound: how many turns are ever submitted
  MaxConcurrent,  \* LUCY_MAX_CONCURRENT_TURNS
  MaxCards,       \* bound: approval cards one parked plan may need
  MaxParks,       \* bound: how often one turn may park
  MaxRestarts,    \* bound: how often the process is restarted
  Breaks,         \* whether a turn's task, or the claim, may raise
  Retries         \* whether clients resend a request with its Idempotency-Key

ASSUME TurnsAssumption ==
  /\ NoSession \notin Session
  /\ NumTurns \in Nat
  /\ MaxConcurrent \in Nat \ {0}
  /\ MaxCards \in Nat \ {0}
  /\ MaxParks \in Nat
  /\ MaxRestarts \in Nat
  /\ Breaks \in BOOLEAN
  /\ Retries \in BOOLEAN

VARIABLES
  \* rows of the store, which survive a restart
  status,         \* turn -> turns.status
  home,           \* turn -> turns.session_id
  cancel,         \* turns whose cancel_requested is set
  sessionStatus,  \* session -> sessions.status
  pending,        \* turn -> its approvals rows that are still pending
  parks,          \* turn -> how often it parked; positive when it has approvals
  \* the claimer, one task at most
  claimer,        \* "off": none; "ready": created; "asking": its transaction is
                  \* submitted; "answered": committed, the claimer not yet resumed
  answer,         \* the turn the committed claim took, or NoTurn
  woken,          \* TurnSupervisor._woken
  \* the tasks of the supervisor
  registered,     \* the keys of TurnSupervisor._running
  phase,          \* turn -> where the run of its loop is
  cards,          \* turn -> approvals its parking run has still to open
  tails,          \* turn -> tasks past their last write: spend, webhook, publish, pop
  broken,         \* turns whose task raised and left the row running
  \* what the requests hold
  prepared,       \* the keys of TurnSupervisor._prepared
  unwoken,        \* turns whose request committed and has not called wake() yet
  restarts        \* how often the process was restarted

rows == <<status, home, cancel, sessionStatus, pending, parks>>
claiming == <<claimer, answer, woken>>
tasks == <<registered, phase, cards, tails, broken>>
requests == <<prepared, unwoken>>
vars == <<rows, claiming, tasks, requests, restarts>>

Turn == 1..NumTurns
NoTurn == 0
Terminal == {"completed", "failed", "cancelled"}
LiveStatus == {"queued", "running", "input_required"}
\* "start": the task is created; "round": at the top of the loop or in a model call;
\* "exec": in the plan's executor; "stopping": it saw the cancel; "ending": it is over
\* for any other reason; "parking": it opens the cards of a parked plan.
LoopPhase == {"start", "round", "exec", "stopping", "ending"}
Phase == {"none", "parking"} \union LoopPhase

\* Definitions named X_... are what a plausible bug would make of X: a run with one in
\* X's place shows that a property notices.

LiveIn(s) == {t \in Turn : home[t] = s /\ status[t] \in LiveStatus}
QueuedIn(s) == {t \in Turn : home[t] = s /\ status[t] = "queued"}

-----------------------------------------------------------------------------
Init ==
  /\ status = [t \in Turn |-> "absent"]
  /\ home = [t \in Turn |-> NoSession]
  /\ cancel = {}
  /\ sessionStatus = [s \in Session |-> "idle"]
  /\ pending = [t \in Turn |-> 0]
  /\ parks = [t \in Turn |-> 0]
  /\ claimer = "ready" /\ answer = NoTurn /\ woken = FALSE
  /\ registered = {}
  /\ phase = [t \in Turn |-> "none"]
  /\ cards = [t \in Turn |-> 0]
  /\ tails = [t \in Turn |-> 0]
  /\ broken = {}
  /\ prepared = {} /\ unwoken = {}
  /\ restarts = 0

-----------------------------------------------------------------------------
(* The routes. *)

\* The next identifier: created_at with rowid breaking ties is insertion order.
IsNext(t) == status[t] = "absent" /\ \A u \in Turn : u < t => status[u] # "absent"

\* authorize(): the request's authority is kept under the turn's id.
Authorize_Dropped(t) == UNCHANGED prepared
Authorize(t) == prepared' = prepared \union {t}

\* No other turn of the session is live once t is out of the way.
LastLive_Unchecked(s, t) == TRUE
LastLive(s, t) == LiveIn(s) = {t}

\* submit_messages with nothing to displace: the policy is enqueue, or nothing is
\* live. Under reject with a live turn the call raises and changes nothing.
Submit(s, t) ==
  /\ IsNext(t)
  /\ home' = [home EXCEPT ![t] = s]
  /\ status' = [status EXCEPT ![t] = "queued"]
  /\ sessionStatus' = IF LiveIn(s) = {} THEN [sessionStatus EXCEPT ![s] = "queued"]
                      ELSE sessionStatus
  /\ Authorize(t)
  /\ unwoken' = unwoken \union {t}
  /\ UNCHANGED <<cancel, pending, parks, claiming, tasks, restarts>>

\* submit_messages under interrupt or rollback. One live turn u is displaced, the first
\* the query returns: it has no ORDER BY and no index on the session, so the scan of
\* the table gives the oldest. It is asked to stop when it is running, and finished on
\* the spot when it is not.
Interrupt(s, t, u) ==
  /\ IsNext(t)
  /\ u \in LiveIn(s) /\ \A v \in LiveIn(s) : u <= v
  /\ home' = [home EXCEPT ![t] = s]
  /\ \/ /\ status[u] = "running"
        /\ cancel' = cancel \union {u}
        /\ status' = [status EXCEPT ![t] = "queued"]
        /\ UNCHANGED sessionStatus
     \/ /\ status[u] # "running"
        /\ status' = [status EXCEPT ![t] = "queued", ![u] = "cancelled"]
        /\ sessionStatus' = IF LastLive(s, u) THEN [sessionStatus EXCEPT ![s] = "queued"]
                            ELSE sessionStatus
        /\ UNCHANGED cancel
  /\ Authorize(t)
  /\ unwoken' = unwoken \union {t}
  /\ UNCHANGED <<pending, parks, claiming, tasks, restarts>>

\* A request sent again: the stored reply says the turn is queued, whatever the
\* row says now, so the route authorizes it again and will wake the claimer.
Retry(t) ==
  /\ Retries
  /\ status[t] # "absent"
  /\ Authorize(t)
  /\ unwoken' = unwoken \union {t}
  /\ UNCHANGED <<rows, claiming, tasks, restarts>>

\* No card but the one being answered is pending.
LastCard_Late(t) == pending[t] = 0
LastCard(t) == pending[t] = 1

\* answer_approval on one pending card. The last answer queues the turn again and
\* brings the authority of the request that gave it. An identifier of a card is
\* first readable after its parking run has submitted the next card, so no answer
\* comes between two cards of one run.
Answer(t) ==
  /\ status[t] = "input_required"
  /\ pending[t] > 0
  /\ phase[t] # "parking"
  /\ pending' = [pending EXCEPT ![t] = @ - 1]
  /\ \/ /\ LastCard(t)
        /\ status' = [status EXCEPT ![t] = "queued"]
        /\ sessionStatus' = [sessionStatus EXCEPT ![home[t]] = "queued"]
        /\ Authorize(t)
     \/ /\ ~LastCard(t)
        /\ UNCHANGED <<status, sessionStatus, prepared>>
  /\ unwoken' = unwoken \union {t}
  /\ UNCHANGED <<home, cancel, parks, claiming, tasks, restarts>>

\* The statuses with nothing in flight: a cancel ends the turn itself.
NothingInFlight_Running == {"queued", "running", "input_required"}
NothingInFlight == {"queued", "input_required"}

\* cancel_turn, then discard. A terminal turn is left as it is.
CancelTurn(t) ==
  /\ status[t] # "absent"
  /\ cancel' = IF status[t] \in Terminal THEN cancel ELSE cancel \union {t}
  /\ \/ /\ status[t] \in NothingInFlight
        /\ status' = [status EXCEPT ![t] = "cancelled"]
        /\ sessionStatus' = IF LastLive(home[t], t)
                            THEN [sessionStatus EXCEPT ![home[t]] = "idle"]
                            ELSE sessionStatus
     \/ /\ status[t] \notin NothingInFlight
        /\ UNCHANGED <<status, sessionStatus>>
  /\ prepared' = prepared \ {t}
  /\ UNCHANGED <<home, pending, parks, claiming, tasks, unwoken, restarts>>

-----------------------------------------------------------------------------
(* The claimer. *)

Wake_Forgets ==
  \/ claimer = "off" /\ claimer' = "ready" /\ UNCHANGED woken
  \/ claimer # "off" /\ UNCHANGED <<claimer, woken>>
\* wake(): start the claimer, or leave word for the one that is alive.
Wake ==
  \/ /\ claimer = "off"
     /\ claimer' = "ready"
     /\ UNCHANGED woken
  \/ /\ claimer # "off"
     /\ woken' = TRUE
     /\ UNCHANGED claimer

\* A route reaches its wake(), publish_persisted having been awaited in between.
RouteWakes(t) ==
  /\ t \in unwoken
  /\ unwoken' = unwoken \ {t}
  /\ Wake
  /\ UNCHANGED <<rows, answer, tasks, prepared, restarts>>

\* The top of the claimer's loop with `busy` the registered turns.
LoopAgain(busy) ==
  \/ /\ Cardinality(busy) < MaxConcurrent
     /\ claimer' = "asking"
     /\ woken' = FALSE
  \/ /\ Cardinality(busy) >= MaxConcurrent
     /\ claimer' = "off"
     /\ UNCHANGED woken

ClaimStart ==
  /\ claimer = "ready"
  /\ LoopAgain(registered)
  /\ UNCHANGED <<rows, answer, tasks, requests, restarts>>

Runnable_Shared == {t \in Turn : status[t] = "queued"}
\* What the claim query selects from: queued, and nothing running in its session.
Runnable == {t \in Turn : /\ status[t] = "queued"
                          /\ \A u \in Turn : home[u] = home[t] => status[u] # "running"}

Oldest_Reversed(t, S) == \A u \in S : u <= t
Oldest(t, S) == \A u \in S : t <= u

\* claim_next_turn: the oldest queued turn of a session that has none running.
ClaimCommit ==
  /\ claimer = "asking"
  /\ claimer' = "answered"
  /\ \/ /\ Runnable = {}
        /\ answer' = NoTurn
        /\ UNCHANGED <<status, sessionStatus>>
     \/ \E t \in Runnable :
          /\ Oldest(t, Runnable)
          /\ answer' = t
          /\ status' = [status EXCEPT ![t] = "running"]
          /\ sessionStatus' = [sessionStatus EXCEPT ![home[t]] = "running"]
  /\ UNCHANGED <<home, cancel, pending, parks, woken, tasks, requests, restarts>>

\* The claimer sees its answer: a turn becomes a task under its id, nothing sends
\* the claimer round again only when somebody woke it meanwhile.
ClaimResume ==
  /\ claimer = "answered"
  /\ answer' = NoTurn
  /\ \/ /\ answer # NoTurn
        /\ registered' = registered \union {answer}
        /\ phase' = [phase EXCEPT ![answer] = "start"]
        /\ LoopAgain(registered')
     \/ /\ answer = NoTurn /\ woken
        /\ LoopAgain(registered)
        /\ UNCHANGED <<registered, phase>>
     \/ /\ answer = NoTurn /\ ~woken
        /\ claimer' = "off"
        /\ UNCHANGED <<registered, phase, woken>>
  /\ UNCHANGED <<rows, cards, tails, broken, requests, restarts>>

\* The claim's transaction raises and rolls back; nothing catches it in the claimer.
ClaimBreaks ==
  /\ Breaks
  /\ claimer = "asking"
  /\ claimer' = "off"
  /\ UNCHANGED <<rows, answer, woken, tasks, requests, restarts>>

-----------------------------------------------------------------------------
(* The task of one claimed turn: _turn over _run over run_turn. *)

GoTo(t, p) == phase' = [phase EXCEPT ![t] = p]

\* _run up to the loop: the authority is taken, the model resolved, approved calls
\* read and marked. A turn that parked before may have a plan to replay, which runs
\* before the first check for a cancel.
RunStarts(t) ==
  /\ phase[t] = "start"
  /\ prepared' = prepared \ {t}
  /\ \/ GoTo(t, "ending")
     \/ GoTo(t, "round")
     \/ parks[t] > 0 /\ GoTo(t, "exec")
  /\ UNCHANGED <<rows, claiming, registered, cards, tails, broken, unwoken, restarts>>

\* One trip round the loop: _early_stop, the model call, _early_stop. A cancel is
\* seen at either end; a budget may be spent at either; the call may fail. A reply
\* held back, or empty, goes round again; a plan runs unless the turn was cancelled.
Round(t) ==
  /\ phase[t] = "round"
  /\ \/ t \in cancel /\ GoTo(t, "stopping")
     \/ GoTo(t, "ending")
     \/ t \notin cancel /\ GoTo(t, "exec")
  /\ UNCHANGED <<rows, claiming, registered, cards, tails, broken, requests, restarts>>

\* How many cards a parked plan opens: one per permission it lacks.
CardCount == 1..MaxCards

\* The plan ran, was refused, could not be repaired, or must be asked about first.
ExecEnds(t) ==
  /\ phase[t] = "exec"
  /\ \/ \E p \in {"round", "ending"} : GoTo(t, p) /\ UNCHANGED cards
     \/ /\ parks[t] < MaxParks
        /\ \E n \in CardCount : cards' = [cards EXCEPT ![t] = n]
        /\ GoTo(t, "parking")
  /\ UNCHANGED <<rows, claiming, registered, tails, broken, requests, restarts>>

\* The run has made its last write: its task lives on until TaskExit.
Leave(t) ==
  /\ GoTo(t, "none")
  /\ tails' = [tails EXCEPT ![t] = @ + 1]

\* The statuses open_approval parks from.
Parkable == {"running", "input_required"}

\* open_approval: the card and the park in one commit. A turn that was cancelled
\* since the first card refuses the next one, and the run ends on that conflict.
OpenCard(t) ==
  /\ phase[t] = "parking"
  /\ \/ /\ status[t] \in Parkable
        /\ status' = [status EXCEPT ![t] = "input_required"]
        /\ pending' = [pending EXCEPT ![t] = @ + 1]
        /\ parks' = IF status[t] = "running" THEN [parks EXCEPT ![t] = @ + 1] ELSE parks
        /\ sessionStatus' = [sessionStatus EXCEPT ![home[t]] =
                               IF QueuedIn(home[t]) # {} THEN "queued" ELSE "input_required"]
        /\ cards' = [cards EXCEPT ![t] = @ - 1]
        /\ IF cards[t] = 1 THEN Leave(t) ELSE UNCHANGED <<phase, tails>>
     \/ /\ status[t] \notin Parkable
        /\ cards' = [cards EXCEPT ![t] = 0]
        /\ Leave(t)
        /\ UNCHANGED <<status, pending, parks, sessionStatus>>
  /\ UNCHANGED <<home, cancel, claiming, registered, broken, requests, restarts>>

\* The guard of finish_turn's transaction.
Unfinished_Wanted(t) == status[t] \notin Terminal /\ t \notin cancel
Unfinished(t) == status[t] \notin Terminal

\* finish_turn: a terminal row is not touched; the session goes by what is queued.
Finish(t, how) ==
  /\ \/ phase[t] = "stopping" /\ how = "cancelled"
     \/ phase[t] = "ending" /\ how \in {"completed", "failed"}
  /\ \/ /\ Unfinished(t)
        /\ status' = [status EXCEPT ![t] = how]
        /\ sessionStatus' = [sessionStatus EXCEPT ![home[t]] =
                               IF QueuedIn(home[t]) # {} THEN "queued" ELSE "idle"]
     \/ /\ ~Unfinished(t)
        /\ UNCHANGED <<status, sessionStatus>>
  /\ Leave(t)
  /\ UNCHANGED <<home, cancel, pending, parks, claiming, registered, cards, broken,
                 requests, restarts>>

\* The end of _turn: the entry under the turn's id is popped, whoever's it is by now.
TaskExit(t) ==
  /\ tails[t] > 0
  /\ tails' = [tails EXCEPT ![t] = @ - 1]
  /\ registered' = registered \ {t}
  /\ Wake
  /\ UNCHANGED <<rows, answer, phase, cards, broken, requests, restarts>>

\* "turn_crashed": the run raised, and its row is left as it was.
TaskBreaks(t) ==
  /\ Breaks
  /\ phase[t] \notin {"none", "start"}
  /\ Leave(t)
  /\ cards' = [cards EXCEPT ![t] = 0]
  /\ broken' = IF status[t] = "running" THEN broken \union {t} ELSE broken
  /\ UNCHANGED <<rows, claiming, registered, requests, restarts>>

-----------------------------------------------------------------------------
\* The rows interrupt_abandoned_turns fails.
Abandoned_Uncancelled(t) == status[t] = "running" /\ t \notin cancel
Abandoned(t) == status[t] = "running"

\* The process dies, or aclose() cancels its tasks, and the next one starts:
\* interrupt_abandoned_turns fails what was running, and nothing in memory survives.
Restart ==
  /\ restarts < MaxRestarts
  /\ restarts' = restarts + 1
  /\ status' = [t \in Turn |-> IF Abandoned(t) THEN "failed" ELSE status[t]]
  /\ sessionStatus' = [s \in Session |->
       IF ~\E t \in LiveIn(s) : Abandoned(t) THEN sessionStatus[s]
       ELSE IF QueuedIn(s) # {} THEN "queued"
       ELSE IF \E t \in LiveIn(s) : status[t] = "input_required" THEN "input_required"
       ELSE "idle"]
  /\ UNCHANGED <<home, cancel, pending, parks>>
  /\ claimer' = "ready" /\ answer' = NoTurn /\ woken' = FALSE
  /\ registered' = {}
  /\ phase' = [t \in Turn |-> "none"]
  /\ cards' = [t \in Turn |-> 0]
  /\ tails' = [t \in Turn |-> 0]
  /\ broken' = {}
  /\ prepared' = {} /\ unwoken' = {}

-----------------------------------------------------------------------------
Claimer == ClaimStart \/ ClaimCommit \/ ClaimResume

RunStep(t) ==
  \/ RunStarts(t) \/ Round(t) \/ ExecEnds(t) \/ OpenCard(t)
  \/ \E how \in Terminal : Finish(t, how)

Person ==
  \/ \E s \in Session, t \in Turn : Submit(s, t)
  \/ \E s \in Session, t, u \in Turn : Interrupt(s, t, u)
  \/ \E t \in Turn : Retry(t) \/ Answer(t) \/ CancelTurn(t)

Next ==
  \/ Person
  \/ \E t \in Turn : RouteWakes(t) \/ RunStep(t) \/ TaskExit(t) \/ TaskBreaks(t)
  \/ Claimer \/ ClaimBreaks
  \/ Restart

Spec == Init /\ [][Next]_vars

\* The run of a turn sees a cancel or runs out of its rounds, seconds or calls.
RunIsOver(t) == RunStep(t) /\ phase[t] = "round" /\ phase'[t] \in {"stopping", "ending"}

\* What the event loop and the time limits of model and tool calls give: a route gets
\* past its commit, the claimer is resumed, a run takes its next step, and one that
\* keeps coming round is over in the end (Budget.max_iterations). Nothing is assumed of
\* the people who submit, answer and cancel, nor of a restart.
Fairness ==
  /\ WF_vars(Claimer)
  /\ \A t \in Turn :
       /\ WF_vars(RouteWakes(t))
       /\ WF_vars(RunStep(t))
       /\ SF_vars(RunIsOver(t))
       /\ WF_vars(TaskExit(t))

FairSpec == Spec /\ Fairness

-----------------------------------------------------------------------------
(* Properties. *)

\* The shape of every variable.
TypeOK ==
  /\ status \in [Turn -> {"absent"} \union LiveStatus \union Terminal]
  /\ home \in [Turn -> Session \union {NoSession}]
  /\ cancel \subseteq Turn
  /\ sessionStatus \in [Session -> {"idle"} \union LiveStatus]
  /\ pending \in [Turn -> Nat]
  /\ parks \in [Turn -> Nat]
  /\ claimer \in {"off", "ready", "asking", "answered"}
  /\ answer \in Turn \union {NoTurn}
  /\ woken \in BOOLEAN
  /\ registered \subseteq Turn
  /\ phase \in [Turn -> Phase]
  /\ cards \in [Turn -> 0..MaxCards]
  /\ tails \in [Turn -> Nat]
  /\ broken \subseteq Turn
  /\ prepared \subseteq Turn
  /\ unwoken \subseteq Turn
  /\ restarts \in Nat

\* "never two running turns: the main loop is the single writer for its conversation"
\* (claim_next_turn), through parks, answers, interrupts, breaks and restarts.
OneRunningPerSession ==
  \A t, u \in Turn :
    status[t] = "running" /\ status[u] = "running" /\ home[t] = home[u] => t = u

\* A loop works only on a turn whose row says running, so the loops of one
\* conversation exclude each other; a parking run is past its loop.
LoopHoldsItsRow ==
  \A t \in Turn : phase[t] \in LoopPhase => status[t] = "running"

\* A running row is somebody's work: a task runs it, the claimer is about to, or its
\* task raised and the next restart fails it. No row is left running unseen.
RunningTurnHasItsTask ==
  \A t \in Turn : status[t] = "running" =>
    phase[t] # "none" \/ answer = t \/ t \in broken

\* The claimer never takes a turn that a task is still working on, so the task it
\* creates under that turn's id is the only one that runs it.
ClaimedTurnIsFree == answer # NoTurn => phase[answer] = "none" /\ status[answer] = "running"

\* A parked turn can be answered: it has a pending card, also when the process died
\* between two cards of one park.
ParkedTurnHasAQuestion ==
  \A t \in Turn : status[t] = "input_required" => pending[t] > 0

\* What a client's spinner is bound to: a session is not idle while a turn runs in it,
\* and does not stay busy when every turn has ended.
SpinnerHonest ==
  \A s \in Session :
    /\ sessionStatus[s] = "idle" => \A t \in LiveIn(s) : status[t] # "running"
    /\ sessionStatus[s] # "idle" => LiveIn(s) # {}

\* A turn queued by a request of this process still has that request's authority when
\* it is claimed, however submits, answers, cancels and retries interleave.
QueuedTurnKeepsItsAuthority ==
  restarts = 0 => \A t \in Turn : status[t] = "queued" => t \in prepared

\* "A terminal state is final" (sessions/turns.py).
TerminalIsFinal ==
  [][\A t \in Turn : status[t] \in Terminal => status'[t] = status[t]]_vars

\* The rows implement the lifecycle a client is promised.
Lifecycle == INSTANCE TurnLifecycle WITH status <- status, home <- home
ImplementsLifecycle == Lifecycle!Spec

\* A queued turn does not stay queued: no wake is lost between the claimer's query
\* and its exit, and every end of a turn passes its slot on.
QueuedTurnStarts == \A t \in Turn : status[t] = "queued" ~> status[t] # "queued"

\* A running turn that is asked to stop does not run on: it ends or parks.
CancelEndsTheRun ==
  \A t \in Turn : (status[t] = "running" /\ t \in cancel) ~> status[t] # "running"

-----------------------------------------------------------------------------
(* What the code's own comments and documents say of it, and the code does not
   do: TLC refutes each (README, Divergences). *)

\* "Turns of different conversations run at once, up to LUCY_MAX_CONCURRENT_TURNS"
\* (turn/supervisor.py): no more tasks than that are running a turn's loop.
SlotsBounded ==
  Cardinality({t \in Turn : phase[t] \in LoopPhase}) <= MaxConcurrent

\* "The session goes idle only when no other turn is still live" (sessions/turns.py),
\* for the session row whoever ends the turn.
IdleMeansNothingLive ==
  \A s \in Session : sessionStatus[s] = "idle" => LiveIn(s) = {}

\* "A session's status is the status of the turn it is working on" (sessions/turns.py):
\* while a turn runs, the session says running.
RunningSessionSaysRunning ==
  \A t \in Turn : status[t] = "running" => sessionStatus[home[t]] = "running"

\* Request authority is "held only until this turn is claimed" (turn/supervisor.py):
\* no entry outlives the turn it was held for.
AuthorityIsReleased == \A t \in prepared : status[t] \notin Terminal

\* interrupt and rollback: the live predecessor is "asked to stop" (docs/sessions.md).
\* No turn of the session runs on unasked after an interrupting submit.
InterruptStopsTheRunning ==
  [][\A s \in Session, t, u \in Turn : Interrupt(s, t, u) =>
       \A v \in LiveIn(s) : status[v] = "running" => v \in cancel']_vars

\* "a running turn gets cancel_requested and ends itself after the current model round"
\* (docs/sessions.md).
CancelledTurnEnds ==
  \A t \in Turn : (status[t] = "running" /\ t \in cancel) ~> status[t] \in Terminal
=============================================================================
