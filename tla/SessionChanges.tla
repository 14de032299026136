---------------------------- MODULE SessionChanges ----------------------------
(***************************************************************************)
(* Changes to the settings of a conversation that is at work               *)
(* (sessions/changes.py, sessions/sql_store.py): a change to how it        *)
(* behaves is warned of, applied to the running turn or held until the     *)
(* turn ends (core/container.py after_turn).                               *)
(*                                                                         *)
(* A change is the number of its request. A route reads whether a turn is  *)
(* live in one transaction and writes in another; a finished turn's task   *)
(* sends the webhooks, then lands what is held, and the next turn may be   *)
(* claimed meanwhile. A turn that a route or a restart ends has no task.   *)
(***************************************************************************)
EXTENDS Naturals, FiniteSets

CONSTANTS
  Field,      \* the settings
  Behaviour,  \* BEHAVIOUR: those that change what a running turn may do
  Changes,    \* what a request may name: sets of settings
  NumTurns,   \* bound: turns
  MaxPatches  \* bound: requests

ChangesAssumption ==
  Behaviour \subseteq Field /\ Changes \subseteq SUBSET Field \ {{}} /\ {NumTurns, MaxPatches} \subseteq Nat

Turn == 1..NumTurns
Patch == 1..MaxPatches
Nothing == 0
Live == {"queued", "running", "input_required"}

VARIABLES
  set,        \* setting -> the change that is in its column, or Nothing
  held,       \* pending_changes: setting -> the change, or Nothing
  status,     \* turn -> absent, one of Live, or over
  tail,       \* finished turns whose task has not landed what is held yet
  patch,      \* request -> where it is, the settings it names, what apply says
  last,       \* history: setting -> the change to it that was answered last
  overtaken   \* history: settings changed while another change to them was held

vars == <<set, held, status, tail, patch, last, overtaken>>

Init ==
  /\ set = [f \in Field |-> Nothing] /\ held = set /\ last = set
  /\ status = [t \in Turn |-> "absent"] /\ tail = {} /\ overtaken = {}
  /\ patch = [p \in Patch |-> [place |-> "new", names |-> {}, apply |-> "none"]]

LiveTurn == \E t \in Turn : status[t] \in Live

-----------------------------------------------------------------------------
(* change_session. *)

\* store.update, alone or after the warning was answered with now.
Updates(p, names) ==
  /\ set' = [f \in Field |-> IF f \in names THEN p ELSE set[f]]
  /\ last' = [f \in Field |-> IF f \in names THEN p ELSE last[f]]
  /\ overtaken' = (overtaken \ names) \union {f \in names : held[f] # Nothing}
  /\ UNCHANGED held

\* store.hold_changes: merged with what is held.
Merged_Replaced(p, names) == [f \in Field |-> IF f \in names THEN p ELSE Nothing]
Merged(p, names) == [f \in Field |-> IF f \in names THEN p ELSE held[f]]
Holds(p, names) ==
  /\ held' = Merged(p, names)
  /\ last' = [f \in Field |-> IF f \in names THEN p ELSE last[f]]
  /\ overtaken' = overtaken \ names
  /\ UNCHANGED set

\* What is no behaviour is written at once; for the rest the route asks for a live turn.
Asks(p) ==
  /\ patch[p].place = "new" /\ \A q \in Patch : q < p => patch[q].place # "new"
  /\ \E names \in Changes, apply \in {"none", "now", "after_turn"} :
       LET goes(place) == patch' = [patch EXCEPT ![p] = [place |-> place, names |-> names, apply |-> apply]]
       IN IF names \intersect Behaviour = {}
          THEN goes("answered") /\ Updates(p, names)
          ELSE /\ goes(IF LiveTurn /\ apply = "none" THEN "warned"
                       ELSE IF LiveTurn /\ apply = "after_turn" THEN "holds" ELSE "updates")
               /\ UNCHANGED <<set, held, last, overtaken>>
  /\ UNCHANGED <<status, tail>>

Writes(p) ==
  /\ patch[p].place \in {"holds", "updates"}
  /\ patch' = [patch EXCEPT ![p].place = "answered"]
  /\ IF patch[p].place = "holds" THEN Holds(p, patch[p].names) ELSE Updates(p, patch[p].names)
  /\ UNCHANGED <<status, tail>>

-----------------------------------------------------------------------------
(* The turns. *)

Becomes(t, new) == status' = [status EXCEPT ![t] = new]

Submit(t) ==
  /\ status[t] = "absent" /\ \A u \in Turn : u < t => status[u] # "absent"
  /\ Becomes(t, "queued") /\ UNCHANGED <<set, held, tail, patch, last, overtaken>>

Claim(t) ==
  /\ status[t] = "queued" /\ \A u \in Turn : status[u] # "running"
  /\ Becomes(t, "running") /\ UNCHANGED <<set, held, tail, patch, last, overtaken>>

Parks(t) ==
  /\ status[t] = "running" /\ Becomes(t, "input_required")
  /\ UNCHANGED <<set, held, tail, patch, last, overtaken>>

Answered(t) ==
  /\ status[t] = "input_required" /\ Becomes(t, "queued")
  /\ UNCHANGED <<set, held, tail, patch, last, overtaken>>

Finishes(t) ==
  /\ status[t] = "running" /\ Becomes(t, "over") /\ tail' = tail \union {t}
  /\ UNCHANGED <<set, held, patch, last, overtaken>>

\* cancel_turn, and a submit that displaces.
RouteEnds(t) ==
  /\ status[t] \in {"queued", "input_required"} /\ Becomes(t, "over")
  /\ UNCHANGED <<set, held, tail, patch, last, overtaken>>

\* apply_pending, after the webhooks.
Lands(t) ==
  /\ t \in tail /\ tail' = tail \ {t}
  /\ set' = [f \in Field |-> IF held[f] = Nothing THEN set[f] ELSE held[f]]
  /\ held' = [f \in Field |-> Nothing]
  /\ UNCHANGED <<status, patch, last, overtaken>>

\* The process dies: tasks and requests are gone, and a turn that ran is failed by the next one.
Restart ==
  /\ tail' = {}
  /\ status' = [t \in Turn |-> IF status[t] = "running" THEN "over" ELSE status[t]]
  /\ patch' = [p \in Patch |-> IF patch[p].place \in {"holds", "updates"}
                                THEN [patch[p] EXCEPT !.place = "lost"] ELSE patch[p]]
  /\ UNCHANGED <<set, held, last, overtaken>>

Next ==
  \/ \E p \in Patch : Asks(p) \/ Writes(p)
  \/ \E t \in Turn : Submit(t) \/ Claim(t) \/ Parks(t) \/ Answered(t) \/ Finishes(t) \/ RouteEnds(t) \/ Lands(t)
  \/ Restart

Spec == Init /\ [][Next]_vars

-----------------------------------------------------------------------------
Change == Patch \union {Nothing}

\* The shape of every variable.
TypeOK ==
  /\ {set, held, last} \subseteq [Field -> Change]
  /\ status \in [Turn -> Live \union {"absent", "over"}] /\ tail \subseteq Turn
  /\ \A p \in Patch :
       /\ patch[p].place \in {"new", "warned", "holds", "updates", "answered", "lost"}
       /\ patch[p].names \subseteq Field /\ patch[p].apply \in {"none", "now", "after_turn"}
  /\ overtaken \subseteq Field

\* The last change to a setting that was answered is in its column or held, through holds
\* merged, turns that end in any way and restarts, unless it overtook one that is held
\* (hold_changes, apply_pending).
LastWordIsKept == \A f \in Field \ overtaken : last[f] \in {set[f], held[f]}

-----------------------------------------------------------------------------
(* Refuted. *)

\* after_turn: what is held for after a turn lands between turns.
LandsBetweenTurns ==
  [][(\E t \in Turn : Lands(t)) /\ held # held' => \A u \in Turn : status[u] # "running"]_vars

\* What is held waits for a turn that will land it.
HeldHasATurn == (\E f \in Field : held[f] # Nothing) => LiveTurn \/ tail # {}

\* A later change is never undone by an earlier one.
LaterChangeStays == \A f \in Field : last[f] \in {set[f], held[f]}
=============================================================================
