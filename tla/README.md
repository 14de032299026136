# LUCY-assistant in TLA+

This directory specifies the concurrent core of the LUCY-assistant hub (`src/src/lucy_api`), and
of the coder bridge beside it (`src/src/lucy_coder`), in TLA+; model-checks it with TLC on small
instances; and proves the safety of every part with TLAPS for every value of the constants.
`PROJECT.json` lists the runs, the mutants each property was tried against, the source lines
every definition stands for, the hazards of the code, the findings and the theorems.

- [Inventory](#inventory): the parts of the system, their state, and what is hard about them
- [Execution model](#execution-model): what a step is
- [Modules](#modules): what is modelled and how it corresponds to the code
- [Runs](#runs): what is checked, with which bounds, and why they are enough
- [Fairness](#fairness)
- [Proofs](#proofs): what is proved, and along which argument
- [Findings](#findings) and [divergences](#divergences): where the code and its documents disagree
- [Limits](#limits): abstractions, and what is not modelled
- [What is left](#what-is-left)

## Inventory

The hub is one asyncio process over one SQLite database. Paths are below `src/src/lucy_api`
unless they say otherwise.

| part | state | module | what is hard |
| --- | --- | --- | --- |
| turn supervisor (`turn/supervisor.py`), durable turns and session rows (`sessions/turns.py`, `sql_store.py`) | `_running`, `_prepared`, `_woken`, the claimer, a task per claimed turn; rows `turns`, `sessions` | `Turns`, `TurnLifecycle` | five writers of one status, cooperative cancel, slots, lost wake-ups, restarts |
| turn loop (`turn/loop.py`, `claims.py`, `keeping.py`, `stop.py`, `project.py`) | budget, repairs, what is held back, items | `TurnLoop` | every way out of a round, and that there is one |
| permission gate, approvals and replay (`permissions/`) | rows `approvals`, `grants` | `Approvals` | plans park whole and are answered in parts; a card per transaction |
| work registry (`work/registry.py`) | `_records`, `_tasks`, `_waiting`, `_begun` | `WorkRegistry` | cancels before a task's first step, two caps, groups, retention |
| waker (`work/wake.py`, `core/container.py`) | `_held`, `_deferred` | `Wake` | decisions made before an await and used after it |
| subscriptions (`work/subscriptions.py`, `watch.py`) | rows `subscriptions`, a future per open row, timers | `Subscriptions`, `WatchPromise` | a signal, a sweep, a timer, a cancel and a lifetime end the same work |
| session stream (`stream/`, `sessions/snapshot.py`) | rows `events`, `_published`, a queue, a prologue and a floor per connection | `EventStream`, `Feed` | nothing missed, repeated or out of order across gaps, overflows and restarts |
| helpers (`agents/`, `packs/agents.py`) | rows of helpers, mail, journal | `Helpers` | rows survive, coroutines and queues do not |
| coder bridge (`src/src/lucy_coder`) | task rows, processes | `Coder` | whole rows read, changed and written over one another |
| workspace (`core/container.py`, `workspace/release.py`) | one sandbox for the conversations of a profile, a lock | `Workspaces` | provisioning, reset, revival, release and deletion at once |
| files and commands (`packs/workspace.py`, `workspace/text.py`, `packs/work.py`) | none of its own: the sandbox's, the registry's | `Edits`, `Commands` | the look a guard takes and the change it guards are two calls; four deadlines |
| transcript, forks, compaction (`sessions/compact.py`, `fork.py`, `context/projection.py`, `ladder.py`) | rows `items`, `compactions` | `Transcript` | ranges of numbers over turns that overlap in them |
| context assembly (`context/`) | none | `Window` | what is given up first, and that it is said |
| model providers (`model/`) | none | `ModelCalls` | three dialects, each cut short anywhere |
| capability packs and probes (`packs/service.py`, `registry.py`, `probes.py`), connections (`api/routers/connections.py`) | recency, probe cache, tickets | `Binding`, `Probes` | what the prompt said is out of date; late answers |
| token exchange (`auth/broker.py`, `exchange.py`, `packs/http.py`) | bounded cache of tokens | `Calls` | a retry, a second token and an eviction of the same call |
| device sign-in (`auth/device.py`, `cli/device.py`) | rows of codes | `SignIn` | a poll that is sent again after it was answered |
| session settings (`sessions/changes.py`) | `pending_changes` | `SessionChanges` | read in one transaction, written in another, landed in a third |
| settings (`packs/settings.py`, `core/container.py` `prepare_turn`, `settings/`) | what was last told of each setting | `Settings` | a cache, a service that may not answer |
| memory (`packs/notes.py`, `memory/`, `clients/memory.py`) | none: the service's | `Memory` | trust through recalls, corrections and lost answers |
| blobs (`blobs/store.py`) | rows and bytes | `Blobs` | a transaction that rolls back rows and not bytes |

The rest keeps little or no state and is not modelled: see [limits](#limits).

How they interact: a route commits a turn and calls `TurnSupervisor.wake`; the claimer takes
the oldest runnable turn and starts a task; the run assembles a prompt from the transcript and
what is found out about now, asks a model, and either executes the plan through packs or parks
the turn under approval cards, whose last answer queues it again. Plans call siblings with minted
tokens, and start work in the registry; its endings go to the waker, which opens turns of its own
or holds the endings until `after_turn` flushes them and lands held changes. Everything writes
events to the stream.

What makes each part correct is the subject of its module's properties; `PROJECT.json`
("hazards") lists, at its line, everything found here that is hard to test, with the properties
that would catch it going wrong.

## Execution model

All coroutines share one event loop, and every database operation is a transaction of one
worker thread (`store/worker.py`) that serves them first in, first out. So a step of a model is
one transaction, or the code a coroutine runs between two awaits, or one call to another service;
transactions of different coroutines interleave freely, and their results come back in commit
order. Two consequences are used throughout: code a route runs synchronously after its own
transaction (`authorize`, `discard`) happens before any coroutine sees a later transaction; and
`Turns` may fold it into the transaction's step, while `Wake`, where several coroutines race
within one such window, keeps both queues as explicit sequences (`jobs` and `ready`).

A crash keeps rows and bytes and loses everything else. Other services are external: they act on
their own, may refuse, and may do what they were asked and have their answer lost.

## Modules

Three specifications implement an abstract one (`Turns` `TurnLifecycle`, `EventStream` `Feed`,
`Subscriptions` `WatchPromise`), and eight `MC` modules instantiate everything for TLC.
`MCServices`, `MCParts`, `MCErrands` and `MCWork` hold parts that share no state: each behaviour
is one of one part, and the others stay as they began, so a run checks each part in an instance
of its own.

### `Turns`, `TurnLifecycle`

The rows `turns.status`, `turns.cancel_requested`, `sessions.status` and the pending approvals;
the claimer with its remembered wake; the tasks of claimed turns down to their tail; the
authority held for queued turns; and the routes.

| action | code |
| --- | --- |
| `Submit`, `Interrupt`, `Retry` | `submit_messages`, `open_turn`, `_displace_live`; a resent `Idempotency-Key` |
| `Answer`, `CancelTurn` | `answer_approval`; `cancel_turn` with `discard` |
| `RouteWakes` | the `wake()` at the end of a route, after its `publish_persisted` |
| `ClaimStart`, `ClaimCommit`, `ClaimResume`, `ClaimBreaks` | `_claim` around `claim_next_turn` |
| `RunStarts`, `Round`, `ExecEnds` | `_run` up to the loop; one trip round `run_turn`; a plan in its executor |
| `OpenCard`, `Finish` | `open_approval`; `finish_turn` |
| `TaskExit`, `TaskBreaks` | the `finally` of `_turn`; a run that raises |
| `Restart` | process death, then `interrupt_abandoned_turns` |

`TurnLifecycle` is what a client is promised: a turn is queued, runs alone in its session, may
park and be queued again, and ends once; a restart fails what was running.

### `TurnLoop`, `Approvals`

`TurnLoop` is one turn's loop: `Top` (budgets, the notice, the request), `Answers` and `Fails`
(the model and its fallback), `HoldsBack`, `Speaks`, `Acts`, and how the executor answers a plan
(`Ran`, `Parks`, `IsDenied`, `IsInvalid`), beside what the person reads while it streams. A reply
of the fallback has its note in front (`MarksFallback`), which is text even where its model wrote
none.

`Approvals` is one turn at its gate: `Assembles` reads mode and standing grants, `Proposes` puts
a plan to `PermissionGate.inspect`, `OpensCard` asks for one permission at a time, `Answers` one
card, `Claims` takes up an answered turn with its one-time grants, `Marks` spends what was
approved, `Opens` replays it and gives back what has to be held (`reopen`), and `Edits`,
`Cancels`, `Crashes` come between. A call is a step; a plan is the set of its steps.

### `WorkRegistry`, `Wake`

`WorkRegistry` is one session's records and tasks. Every method but `shutdown` and `wait` is free
of awaits, so an action is a method call or one resumption of a work task: `Start`, `Queue`,
`RecordLost`, `FirstStep`, `RunEnds`, `NeverRan`, `Cancel`, `Shutdown`, `Drain`, `Wait`,
`WaitTimesOut`. A task's life is explicit (`created`, `doomed` when cancelled before its first
step, `live`, `stopping`, `ended`, `cancelled`), because a task cancelled before its first step
never runs a line of `_run`. `Ended` is the common ending: record and tell it, tell the group if
it was the last, forget old records, promote queued helpers, oldest first.

`Wake` is the waker beside the claimer and the tasks of turns, for one session. Each coroutine
has a place `pc`; `Submits` hands its transaction to the worker thread, `Serves` runs the oldest
transaction, `Resumes` is the loop giving control back. So every interleaving of `on_finished`
(`Asked`, `WakesOrHolds`), `flush` (`Flushes`, `Checked`, `GoesOn`), `_open` (`Prepares`,
`Opens`, `Opened`, `Notes`, `Noted`), claims and runs that the two FIFO queues allow is there,
and no other. A restart keeps queued turns and loses what was lent to them: `orphans` are the
woken turns it did that to.

### `Subscriptions`, `WatchPromise`

A subscription is a row, a record of the registry and a future. Opening is `Counts`, `Inserts`,
`Starts`, then for a sibling `Subscribes`, `Subscribed`, `Attaches` or `Abandons`. An ending that
comes by a signal (`Signalled`), the sweep (`Asks`, `Hears`, `HearsNothing`) or a timer (`Due`)
is on its way, is committed (`Commits`) and resolves the future (`Resolves`), or its coroutine
drops it (`Drops`); `Cancels` and `Expires` end the record first, and the listener follows
(`Finishes`, `LetsGo`, `Updates`, `Releases`). `Stops` and `Restores` are the restart.
`WatchPromise` is the promise without futures, timers, sweeps and listeners.

### `EventStream`, `Feed`

One session's events, the coroutines that write them and the clients that follow. An event is
its sequence number.

| action | code |
| --- | --- |
| `Commits` | a session transaction that writes an event row (`event_row`); its owner publishes next, or never |
| `Calls`, `Appends`, `Fans`, `CutShort` | `emit`: waiting for the lock, the append, the look for a gap and the fan-out; an emit that is cancelled after its append |
| `Calls`, `Replays`, `FansReplay` | `publish_persisted`, and the second half of an emit that found a gap |
| `Connects`, `Snapshots`, `ReadsTail`, `ReadsMissed`, `Installs` | `subscribe` and the awaits of `_prologue`, one by one |
| `HandsOwed`, `HandsQueued`, `Ends` | `next_event` and `frames`: the prologue, the queue without what the floor covers, the last frame |
| `Leaves`, `Forgets`, `Restart` | a lost connection, a client that starts over, the process |

`FanOut` is the whole of `_fan_out` over `deliver` for a batch. `Feed` is what a client is
promised: a client that has a position is given the next event and no other.

### `Transcript`, `Window`, `ModelCalls`

`Transcript` numbers items as they are written. `Submits`, `Claims`, `Works`, `Parks`, `Answers`,
`Cancels`, `Finishes`, `Ends` and `Restarts` are what turns do to the log; `Compacts` (with
`CoversTo`, what a summary covers when it is to keep some turns), `Uncompacts` and `Forks` are
`compact_session`, `uncompact_session` and `fork_session`. What a turn reads is operators: `View`
(visibility), `Snap` and `Inside` (a range widened to whole turns), `Shown` and `Covered` (which
of several summaries stand, newest first), `Verbatim` and `Reclaimed`.

`Window` fits one prompt: `Gathers`, the ladder of the live block (`Bends`, `Drops`, `SaysLess`,
`LosesALine`, `LosesItsFence`, `Renders`), and the allocator of a band (`Shortens`, `GivesUp`,
`Fits`). `ModelCalls` is one question to a model: `Asks`, what arrives (`Opens`, `Arrives`,
`Ends`, `Completes`) or does not (`TurnedAway`, `Cut`, `Errs`, each for a reason from which
`Raised` tells, as `model/wire.py` does, whether the provider was unavailable), what each dialect
makes of it (`Reads`, `ReadsAtTheEnd`), `Over` and `Returns`, with the second provider and the
note its answer gets.

### `Coder`, `Helpers`

`Coder`: a request reads a row (`ReadsToSend`, `ReadsToCancel`, `ReadsToSettle`), and later
writes the whole of its copy (`Sends`, `Cancels`, `Settles`), in threads. The pump (`Picks`,
`Pumps`) and the progress of a running turn (`Hears`, `Progresses`) read and write on the loop's
thread: the threads' writes fall between the two, nothing else of the loop does (`looping`).
`Spawned`, `Ends` and `Kills` are processes, `Restarts` the bridge's restart.

`Helpers`: `Inserts`, `AddsTask`, `Queues`, `Discards` start one; `TakesFirstStep`, `Begins`,
`DrainsMail`, `Hears`, `Results`, `Finishes`, `Closes` run it, with a cancel at every await
(`CancelsQueued`, `CancelsUnborn`, `CancelsWorking`, `CancelsWriting`); `Stops`, `IsStopped`,
`Withdraws`, `FindsLive`, `Sends`, `Claims`, `Completes` and `Restarts` are the rest.

### `Workspaces`, `Edits`, `Commands`

`Workspaces`: the requests that provision (`Asks` to `Attaches`), reset (`AsksToReset` to
`Revives`), delete (`Reads`, `Deletes`, `Sweeps`) and release (`Releases`, `Destroys`, `Forgets`)
the sandbox of a profile, one call or transaction a step; what fails, or is served and its answer
lost (`FailsToProvide`, `FailsToReset`, `FailsToDestroy`); the death of the process (`Dies`), and
the service's archive (`Idles`). `stranded` are the sandboxes that a release destroyed and did not
come to forget. `Edits`: a file is a sequence of lines; `ReadsFile`, the guarded writes and
patches (`ChecksWrite`, `Writes`), the edit in two calls (`ReadsToEdit`, `Replaces`), `Removes`
and `Moves`; how a quote is found is `Located`. `Commands`: from the call (`Asks`) over the
sandbox (`Sends`, `RunsOut`, `IsAnswered` with or without an exit code, `Fails`, `Expires`) to
what the step and the work pack say (`Hears`, `GivesUp`, `Looks`, `Checks`, `Cancels`).

### `Memory`, `Settings`, `SessionChanges`

`Memory`: every operation of the notes pack over a service that distils on its own; a note is its
trust and what it corrects; a forget goes note by note (`ForgetsOne`), and a token that cannot be
minted ends it in the middle without an answer (`Escapes`). `Settings`: `Prepares` and
`ReadsTheRest` are what a turn is prepared with over a client that caches; `Describes`, `Plans`,
`Answers`, `Checks`, `Writes`, `ReadsBack` are a change by the model. `SessionChanges`: `Asks` and
`Writes` are the two transactions of `change_session`, `Lands` is `apply_pending` in `after_turn`,
beside turns that are submitted, claimed, parked, answered and ended.

### `Binding`, `Probes`, `Calls`, `SignIn`, `Blobs`

`Binding`: which capabilities are bound when a prompt is assembled (`Kept`, `Bound`), seeding from
habits, and loading what a plan reaches for (`HeldBack`, `Executes`). `Probes`: readers, late
answers, and everything that drops the cache. `Calls`: `Begins`, `Signs`, `Mints`, `Refused`,
`Answers`, `TurnedAway`, `Unsent`, `Unclear` and a keyring whose keys change. `SignIn`: one code,
polled over connections that drop. `Blobs`: a call is a script of statements of the SQL worker
(`Touches`), within one transaction or each of its own (`Commits`), that a failing disk or a
crash cuts off; the reply to an upload expires (`Expires`), and its key is free again.

## Runs

All runs are exhaustive. The ten that pass:

| run | bounds | asks |
| --- | --- | --- |
| `Turns_lifecycle` | 1 conversation, 2 turns, 2 parks of 2 cards, 1 slot, resent requests, tasks and claims that raise, 1 restart | do rows, tasks and claimer agree, do the rows implement `TurnLifecycle`, does the session row follow them, has every queued turn its authority? |
| `Turns_liveness` | 2 conversations, 2 turns, 1 slot, 1 park, 1 restart | is no wake lost, and does a cancelled run come to an end? |
| `Registry` | 3 pieces of work, 2 slots, a group, a helper cap of 1 or 2 that changes, 1 finished record kept | is every ending recorded and told once, does the session's cap hold, and each running helper's own over those that started no later, is a freed slot handed on at once? |
| `Wake_spend` | 2 endings, 3 turns, cancels | does an ending wake once, and does the woken turn find its notice? |
| `Wake_policies` | 1 ending, 3 turns, every input policy, cancels, 1 restart | is a woken turn claimed without its authority only after a restart found it queued, and is an ending held while a turn runs spent or read by the end of the runs? |
| `Work` | a check-in and a sibling's watch, room for one, 1 restart; apart from them 3 pieces of work in 2 slots | is the row the truth, does `Subscriptions` implement `WatchPromise`, is an ending that was decided heard; does queued work start? |
| `Errands` | 3 helpers in 1 slot, and 2 with 2 messages and 1 restart; 2 conversations with 2 sandboxes, 1 fault; 2 authors, 3 lines, 2 changes; 2 commands on 1 lane, one of them cancelled; 2 notes, 3 calls; 1 change by each side | each part of `MCErrands`: are helpers held, notes vouched for and forgets told, settings the person's, guarded changes informed by the look, commands reported as they were, work in a sandbox safe from others whatever call fails? |
| `Services` | a client, 2 writers, 3 events, a queue of 1; 3 rounds and calls; 4 capabilities, 2 bound; a probe's life of 2 ticks; 2 calls, 2 services, a cache of 1; 2 approvers, 2 drops; 2 settings, 2 turns, 2 requests | each part of `MCServices`: is the stream complete in the end, does a turn end with an answer, is one reach enough, is what is known recent, is no work done twice, is a sign-in handed over once, is the last change kept? |
| `Parts_rows` | 2 tasks, 2 turns, 1 message, 1 restart of the bridge; 2 turns, 4 items, 2 summaries, a fork; 2 files, 3 rows, 5 calls, 1 crash | rows that several writers read, change and write back: are the coder's turns told, is history read once, is an upload kept once while its reply is? |
| `Parts_turn` | 3 calls, 2 permissions, 2 plans, 4 cards, 1 edit; 3 sources, 7 ceilings, 3 costs; 3 dialects, 2 providers, 5 replies | what a turn may do, what its prompt loses, what its model answered |

The other two, `Coder_overlap` and `Transcript_hidden`, are violations, one per
[finding](#findings).

Why the bounds are enough. For safety they do not matter in the end: every invariant and every
action property of a passing run is also a theorem for all values of the constants. They were
chosen so that the interesting cases happen, which the mutants show: each property is violated,
within the same bounds, by a plausible bug of the code. In `Turns` a fault needs two turns of one
conversation (exclusion, spinner, displacement), a second conversation (slots) and a second card
(a park in the middle); two parks let a turn's old task overlap its next run. In `WorkRegistry`, a
group of two and a third record that pushes one out of retention, with one slot fewer than work.
In `Wake`, two endings make every race of listener against flush, and three turns leave one for
the person beside both. In `EventStream`, clients meet only in the fan-out, which treats each by
its own queue; two writers make every hand-over of the lock; a queue of one overflows in the
middle of a batch as at its start; three events make a gap of two behind a row that was published.
`Subscriptions` needs one subscription of each kind, with room for one, so that a restart finds
one more than it may run. In `Transcript` two summaries overlap, and one of them is undone. In
`Approvals` three calls are a free one, one under a permission, and one that reads it and needs a
yes of its own. In `Helpers` three of them fill a slot and its queue, and two make every steering,
continuation and restart. Of two commands, which nothing tells apart, one is asked for first, and
the other may meet a full lane. In `Workspaces` any call may fail, its work done or not, beside
the requests of the other conversation. `Wake_policies` has cancels because a turn that was to
flush may be cancelled where it waits: `HeldIsSpent` says which endings are then left
(`IdleAfterADrop`). The bounds matter for the liveness properties, which are only model-checked:
`QueuedTurnStarts` and `CancelEndsTheRun` (two conversations and one slot, so that each waits for
the other's end), `HeldIsSpent`, `FiredIsHeard`, `QueuedWorkStarts`, `HearsInTheEnd`,
`EndsInTheEnd`.

`CHECK_DEADLOCK FALSE` wherever identifiers, requests or work run out: the hub itself waits for
the next request. In `Work` a process that cannot start does nothing more, either.

## Fairness

`Turns`: the claimer, a route after its commit, the steps of a run and the exit of its task are
weakly fair: the event loop resumes what is ready, and model and tool calls carry timeouts.
`RunIsOver` is strongly fair: a run that keeps coming round the loop meets its cancel check or a
budget (`Budget.max_iterations`, seconds, calls) in the end. Nobody is assumed to submit, answer
or cancel, and no restart is.

`TurnLoop` is where that assumption is discharged: with weak fairness of its steps only (a model
call and a plan end at their own clocks), `EndsInTheEnd` says that every turn ends, because
denials, held replies and repairs use its rounds up.

`WorkRegistry`: the first step of a task, its ending and its done-callback are weakly fair:
every piece of work has a timeout or an owner that ends it. `QueuedWorkStarts` is stated for a
process that stays up and has no record that nothing can end (see the divergences): such a
record holds its slot for ever.

`Wake`: the loop and the worker go on, `prepare` and webhooks are answered, runs end.

`Subscriptions`: what an ending goes through once it was decided is weakly fair; the sweep of a
watch is strongly fair, since the sibling is asked again and again and answers now and then.
Nothing is assumed of signals, timers or lifetimes.

`EventStream`: a connection's reads and hand-overs are weakly fair (the loop resumes them, and a
client that stops reading leaves). A writer's steps are strongly fair, because taking the lock is
enabled only while nobody else holds it and `asyncio.Lock` serves its waiters in order.
`HearsInTheEnd` is stated for behaviours in which some `publish_persisted` replays the log again
and again, as the end of every turn does. Nobody is assumed to write, connect or stay.

No other part has a liveness property in a run, and none assumes fairness there.

## Proofs

Eight modules hold the proofs, for every value of the constants, from the named assumptions of
the modules only (sizes are naturals, slots and queues hold at least one, the names of nothing
are nothing's, and so on). Every invariant and action property of a passing run is a theorem
listed in `PROJECT.json`. Each part has an inductive invariant of its own over its own variables;
where parts stand side by side, what the others do leaves it alone.

`Turns_proofs`. The inductive invariant ties rows to tasks (`LoopHoldsItsRow`,
`RunningTurnHasItsTask`, `ClaimedTurnIsFree`), with `ParkingHolds` (a parking run has a card left
to open and its row moved at most by the park or a cancel) and `AnswerIsFresh` (only a committed
claim holds an answer). None of the task properties is inductive alone: that the claim may take a
turn rests on no run of it being left, which rests on the row a run holds. `TerminalStays`,
`Refinement` to `TurnLifecycle`, `SpinnerIsHonest` and `AuthorityIsKept` follow from it.

`WorkRegistry_proofs`. `Books` (endings are told once, nothing unread is forgotten, nobody waits
for started work), `GroupIsTold` on top of it, and `CapsInOrder`, which says of every set of
running helpers what `LaneHeld` says of all of them, in the order they started, so that it
survives the end of any one. The step
that is not routine is promotion: the youngest record of the promoted set had room when all the
others were counted (`YoungestHadRoom`), and a queued record left behind has no room against a
set that only shrinks its room (`RoomShrinks`).

`Wake_proofs`. What is said of an ending is in exactly one place: held, in a flush's hands, in a
coroutine's, or with its turn. The invariant keeps the order of the two FIFO queues, the
worker's and the loop's, since only that order says that a woken turn's authority and notice come
before its first read. `bare` turns, claimed without their authority, are among the
`orphans` of a restart: the ghost is not reset by it.

`EventStream_proofs`. Between an append or a replay and its fan-out the mark does not move
(`LockHolds`); from where a connection's reads reach, its queue has every number and what is
fanned out next follows its last (`QueueFollows`); the prologue is a run of numbers from the
client's cursor to the floor (`PrologueFollows`). A closed queue is a prefix, so it still
follows. `Refinement` reads off each hand-over that it is `Join`, `Follow` or a stutter.

`Subscriptions_proofs`. Whoever is first to end a row writes it, and the answer its coroutine
carries is frozen from that commit on; so however many endings race, what the conversation is
told is what the row says, and every step maps to `WatchPromise` or a stutter. `NothingRings`:
no timer and no future is kept for work that is over.

`MCParts_proofs`.
- Coder: every copy of a row that counts a turn is evidence that the brief was told, so it does
  not matter which copy is written last: a request's, the pump's or the progress of a turn.
- Approvals: a run is paid for by a card that was granted and is spent, a live card exists at
  most once per call, and until a setting was changed everything approved comes from one plan.
- Transcript: what the summaries stand for is computed from the newest to the oldest (`CoveredIs`
  shows that the recursive function is one, `CoveredIsShown` that an item is covered exactly if a
  shown summary holds it), so an item is behind at most one. While nobody talks over a turn
  (`OneAtATime`), items come in the order of the turns and a range ends where turns part, before
  the live one (`RangeStands`): widening it to whole turns then changes nothing (`SnapIsAsked`),
  and the running turn reads itself. Neither half is inductive alone.
- Blobs: what is committed and what the open transaction wrote, statement by statement of every
  script; a row is counted with the reply it was made with, and forgotten with it. ModelCalls:
  what was read is an answer until another provider is asked, and the reason the first gave says
  that one may be. Window: what was taken comes after whatever still stands.

`MCServices_proofs`.
- SessionChanges: what is held of a setting is the last word on it unless it was overtaken.
- SignIn: the row says what was told, so no second poll meets a redeemed code unless an answer
  was lost.
- Probes: a held answer was true no longer before it was found than a probe takes.
- Calls: the token of a second attempt is no older than the call, and work that may not be
  repeated is not begun again.
- Binding: what was used last is kept first. TurnLoop: words beside a plan and its results are
  appended in one piece, and remembered from the end; a turn succeeds with its model's words or
  with the note of a fallback.

`MCErrands_proofs`.
- Helpers: a live row is held by a coroutine, by the queue or by whoever cancelled it; mail is in
  one place, in order.
- Workspaces: whoever holds the profile's lock finds things as it found them; one sandbox is
  listed, and folders exist only in one that is ready; what a row names and is not listed is about
  to be forgotten, or stranded.
- Edits: the file is as it was looked at until somebody comes between the look and the change, so
  an edit nobody came between finds its quote where it was read; the folders of others are
  untouched.
- Commands: what is said is what the record says, and a timer that runs holds its time up.
- Memory: whoever stands behind a note stands behind all that descends from it; a correction
  carries the trust that was read; of the notes a forget named, each is still to come or told of.
- Settings: nothing served is older than what was told, and the gate saw the declaration it
  judges by.

The library's induction theorems cannot be instantiated by the installed provers. Where a proof
needs induction (over summaries, queues, groups) it takes the least counterexample instead, from
the well-foundedness of the naturals (`LeastOfSome`, `GreatestOfSome`, `Youngest`).

Only model-checked: the seven liveness properties named under [runs](#runs). Liveness under
fairness and `ENABLED` are out of the prover's reach.

## Findings

Each is a run in which TLC refutes what a comment or a document says; `PROJECT.json` quotes it.

| run | what happens |
| --- | --- |
| `Coder_overlap` | a message reads the row while it is queued; the pump starts the first turn; the message puts its stale copy back, queued, and the pump starts a second process, told the same brief under the same session id, beside the first |
| `Transcript_hidden` | a message queued while an older turn ran lies between that turn's items; a summary of the older turn swallows it, and the turn that is to answer never reads it |

### Divergences

The modules also state promises of comments, documents and docstrings that the code does not
keep, and that have no run of their own. TLC refutes each on an instance of the size of the run
that holds its module (three turns for `InterruptStopsTheRunning`; three conversations with a
turn each and two slots for `SlotsBounded`), as an invariant or, where it speaks of steps or of
behaviours, as a property. The promise is quoted at the definition.

| module | property | what happens |
| --- | --- | --- |
| `Turns` | `SlotsBounded` | an answered turn overlaps its old task, whose exit frees a slot it no longer holds: one loop too many (`turn/supervisor.py:306`) |
| | `IdleMeansNothingLive`, `RunningSessionSaysRunning` | `finish_turn` sets a session idle beside a parked turn; an answer writes `queued` over a session that runs another turn |
| | `AuthorityIsReleased` | `_displace_live` ends a queued turn and leaves its authority with the supervisor (`sessions/turns.py:238`) |
| | `InterruptStopsTheRunning` | an interrupt displaces the oldest live turn, and a running one goes on unasked (`sessions/turns.py:144`) |
| | `CancelledTurnEnds` | a cancel during a plan that parks leaves a turn that waits for its owner |
| `WorkRegistry` | `RunningWorkHasATask` | a promoted task cancelled before its first step leaves a record running for ever (`work/registry.py:354`, `:390`) |
| | `OldestFirst` | queued helpers keep the cap of their day, so a later one may start first (`work/registry.py:346`) |
| | `TeamNamesEveryMember` | a group's ending does not name a member that was read and forgotten |
| `Wake` | `HeldOnlyWhileBusy` | an ending is held by a look that is out of date, and no flush is to come |
| | `NoEndingIsLost` | a flush writes over an ending held meanwhile (`work/wake.py:290`, `:278`) |
| | `NoWakeBesideARun` | a wake is opened beside a turn that started while `prepare` waited (`work/wake.py:317`) |
| | `AuthorityOutlivesRestart` | a restart keeps a queued woken turn and not the authority lent to it, and the turn runs without (`turn/supervisor.py:205`) |
| | `SomebodyFlushes` | cancelling the last live turn flushes nothing (`core/container.py:943`) |
| `EventStream` | `SnapshotMeetsStream` | an event committed between a fresh connection's snapshot and its tail is in neither (`stream/emitter.py:357`, `:354`) |
| | `HeardOfAtOnce` | rows of `cancel_turn` and `update_session` wait for the session's next event |
| | `OldRowsAreHarmless` | after a restart the whole log is fanned out, and closes a connection whose floor is not set yet |
| `Subscriptions` | `SweepsSurvive` | a sweep that resolves a future its record no longer waits for ends the sweeping |
| | `RestartSucceeds` | a session at capacity with one row more does not restart (`work/subscriptions.py:525`) |
| | `AnsweredIsHeard`, `EndingIsTold` | a signal answered 409, and an ending that was written, may never be told |
| | `AttachedWhileOpen` | a sibling's id that comes after the cancel is attached, and the sibling looks on |
| `Approvals` | `SpentMeansRan` | an approved call that the gate denies when it replays is spent and has not run (`permissions/approvals.py:329`) |
| | `RefusedStaysRefused` | a held call given back with the card it shares is asked again on another; a no to that one is dropped when it is held again, and its old yes lets through what reads it (`permissions/replay.py:23`) |
| `Coder` | `RunningHasATurn` | `message()` read the row running, it was settled, and `message()` wrote it back |
| | `BriefIsToldOnce` | after a first turn that was interrupted the brief is told again, and the message waits |
| `TurnLoop` | `SuccessIsAnAnswer` | an empty reply of the fallback gets its note and is no empty reply any more: the turn succeeds having said only that (`turn/loop.py:576`) |
| | `HeldBackIsNotRead`, `ReadAsWritten` | the projector has sent what is then held back; words of a call that broke stand in front of the fallback's |
| | `HeldBackAnswersAgain`, `WarnedBeforeItRunsOut` | not in the last round; not of fewer than five rounds, nor of calls that come at once |
| | `CancelEndsIt` | a resumed turn runs its approved calls before it looks (`turn/loop.py:273`) |
| `Helpers` | `ToldIsOver`, `CancelledIsNotOffered` | a helper cancelled in its first moments, or while its ending is written, keeps a live row, and is offered after a restart |
| | `MailIsRead`, `EndedIsTold`, `AnnouncedWasGiven` | mail after the last boundary is not read; an ending as the process died is not told; a row whose handle was never given out is announced |
| `Workspaces` | `FolderGoesToo`, `LiveWorkIsKept`, `ReleasedIsForgotten` | a folder made while its session is deleted stays; a conversation brought back between the look and the destroy loses its work; a death in between, or an answer that was lost once the sandbox was gone (`workspace/release.py:44`), leaves sessions that point at what is gone |
| `Transcript` | `SummaryIsOfWhatItHides`, `TurnIsReplacedWhole` | a widened range hides what the summary was not written from, and reaches into turns it is not widened to |
| | `RolledBackIsHidden` | `finish_turn` reads the row's `stop_reason` before the transaction that writes it back: a rollback asked for in between is undone (`sessions/sql_store.py:838`) |
| | `ForkIsOfTheConversation` | a fork takes helpers' items along |
| `Binding` | `LoadedAndRuns`, `SeedsNothingAway` | a plan whose capabilities are all ready may still be refused (`packs/service.py:289`); seeding forgets a tool a request used while habits were read (`packs/service.py:153`) |
| `SignIn` | `AskingTwiceIsSafe` | a poll sent again after a lost answer finds the code spent |
| `SessionChanges` | `LandsBetweenTurns`, `HeldHasATurn`, `LaterChangeStays` | what is held lands beside the next turn (`core/container.py:941`), may have no turn to wait for, and may undo a later change |
| `Blobs` | `RowHasItsBytes`, `BytesHaveARow` | rows come back from a rollback without their bytes; bytes stay without a row |
| | `OneFileForAKey` | an hour after an upload its reply is gone (`sessions/sql_store.py:339`), and a retry makes a second file |
| `Window` | `EachRungSaves` | the line that names a dropped group may cost as much as the group did |
| `ModelCalls` | `CutShortIsNoAnswer`, `DeclineIsNoAnswer` | in the chat dialect a stream that broke off is finished, and a decline in words is an empty answer when streamed |
| | `AnswerIsKept`, `PlanIsNotShown` | an error behind an answer loses it; two dialects read no plan behind a sentence |
| `Edits` | `StaleIsRefused`, `AnswerNamesTheFile` | the look and the write are two calls; an append answers with the fingerprint of what it added |
| | `NeverBroken`, `LinesStayApart` | a patch is not parsed; a looser match takes the end of its last line with it |
| `Commands` | `SuccessIsKnown` | a command whose exit code is not known is told as one that succeeded (`packs/workspace.py:685`) |
| | `EndsOnItsOwn`, `StoppedIsStopped`, `FailedDidNotRun` | the call's own deadline comes first when it waited for a token; a cancelled command goes on in the sandbox; one that could not be reached may have run |
| `Memory` | `CorrectionStaysVouched`, `ConfirmedIsWithinAFloor`, `FloorHoldsInTopics` | a correction of a confirmed note is nobody's; a confirmed one may be within no floor; `openTopic` looks at no floor |
| | `FailureHidesNothing` | a token that cannot be minted (`packs/http.py:28`) escapes a forget in its middle, and nothing is said of the notes that are gone (`packs/notes.py:518`) |
| | `KeptIsThere`, `LimitIsKept` | what is reported as kept, or not kept, may be otherwise when an answer was lost; a limit of no memories shows one topic |
| `Settings` | `MadeIsInForce`, `AskedInEveryMode` | a change whose answer was lost is served as it was; what was seen once of a setting is not looked at again (`packs/settings.py:124`) |

In `Probes`, a probe under way when the cache is dropped puts the old answer back
(`api/routers/connections.py:42`): `GivenIsRecent` allows for it by the length of a probe. In
`Edits`, what somebody writes between the look of a guard and the change it guards is overwritten
unseen: `GuardSaw` is about the look, and about the change where nobody came between. In
`Transcript`, a summary that is to keep no turn hides what the running turn was asked:
`TurnReadsItself` is stated where every summary keeps one.

Met on the way, and stated nowhere: `response.failed` of the OpenAI dialect is never retried
although `TRANSIENT_CODES` exist; `PROTECTED_PREFIXES` (`context/ladder.py:26`) protects nothing;
the switch after three failures in `sessions/compact.py` cannot be reached; `_cancel` of the work
pack says of a queued helper it just cancelled that nothing was stopped; `registry.wait` swallows
the waiter's own cancellation; "this is the
beginning of the output" is said though the ring buffer dropped earlier bytes; nobody emits the
stream events `TOOL_INPUT_*`, `TOOL_FINISHED` and `CONNECTION_REQUIRED`.

## Limits

`Turns`: items, events, audit rows and spend columns are not there; sessions are not deleted or
archived; turns the waker opens are `Wake`'s; interrupt and rollback, which differ in what they do
to the transcript, are one action (`Transcript` has them apart). `WorkRegistry`: one session,
since sessions share only the closing of the process; helpers and commands stand for the five
kinds; results and wording are left out. `Wake`: one session, no groups (a group's ending takes
the same path), no quiet hours, no deleted session; a parked turn is answered only after its old
task is over (`Turns` has the other case); webhooks, held changes and the final publish are one
wait. `EventStream`: one session; event bodies, heartbeats, the AI SDK encoding and deletion of
the log are left out; taking the lock is one step with the transaction that follows, and a frame
handed over is a frame handled. `Subscriptions`, `Approvals`, `Helpers`, `Transcript`, `TurnLoop`:
one session, one turn or one conversation each; `Approvals` has no two plans whose steps share an
id and no mode accept_edits; `Window` one ceiling for the ladder and the allocator; `Workspaces`
one profile; `Probes` one service and one person; `Calls` one person; `SignIn` one code;
`ModelCalls` one question.

Texts are what the properties tell apart: a note is its trust, a reply its pieces, a file its
lines, a text what it costs. What is left out of each part is in its note in `PROJECT.json`.

Parts that share no state are checked and proved side by side, never together: what one hands to
another (a plan that parks, an ending that wakes, a token that is refused) is a nondeterministic
choice of the one that receives it. The compositions that share state are within modules: the
claimer with routes and runs (`Turns`), the waker with the supervisor (`Wake`), subscriptions with
the records of the registry (`Subscriptions`), the gate with cards and replay (`Approvals`), the
commands with the registry and the work pack (`Commands`).

Modelled not at all, with the reason in `PROJECT.json`: stream encodings, the packs that are one
request per operation, usage and results, MCP, webhooks, onboarding, decisions, network guards,
prompt text, the process and HTTP surface, service clients, the command line, evaluations, the
OAuth broker, the signals client, scripts and docs.

## What is left

- Each liveness property has a fair specification and a run; none has a proof.
- `TurnLoop` justifies the strong fairness of `Turns` by a property of its own, not by a
  refinement between the two.
- Archiving and deletion of sessions beside live turns, quiet hours of the waker, and the leases
  of journal tasks would be the next parts to model.
