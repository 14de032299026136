---------------------------- MODULE TurnLifecycle ----------------------------
(***************************************************************************)
(* What a client of the sessions API is promised about turns, with nothing *)
(* of how the hub keeps it: no claimer, no task, no slot, no approval row. *)
(* A turn is opened in a session, runs alone there, may park to ask its    *)
(* owner something and be queued again by the answer, and ends once.       *)
(* Turns.tla is shown to implement this module.                            *)
(***************************************************************************)
EXTENDS Naturals

CONSTANTS Session,    \* the conversations
          NoSession,  \* the home of a turn that does not exist yet, no session
          Turn        \* turn identifiers: numbers, in the order turns are created

VARIABLES status,  \* turn -> what GET /v1/turns/{id} answers
          home     \* turn -> the session it was opened in

vars == <<status, home>>

Terminal == {"completed", "failed", "cancelled"}
LiveStatus == {"queued", "running", "input_required"}

Init ==
  /\ status = [t \in Turn |-> "absent"]
  /\ home = [t \in Turn |-> NoSession]

Live(t) == status[t] \in LiveStatus

\* A new turn in s. A submit that interrupts may end one live turn that is not
\* running in the same step.
Submit(s, t, displaced) ==
  /\ status[t] = "absent"
  /\ displaced \subseteq {u \in Turn : home[u] = s /\ status[u] \in {"queued", "input_required"}}
  /\ status' = [u \in Turn |-> IF u = t THEN "queued"
                               ELSE IF u \in displaced THEN "cancelled" ELSE status[u]]
  /\ home' = [home EXCEPT ![t] = s]

\* The oldest waiting turn of a session starts, and only when none is running there.
Start(t) ==
  /\ status[t] = "queued"
  /\ \A u \in Turn : home[u] = home[t] =>
        /\ status[u] # "running"
        /\ status[u] = "queued" => t <= u
  /\ status' = [status EXCEPT ![t] = "running"]
  /\ UNCHANGED home

\* A running turn asks its owner something.
Park(t) ==
  /\ status[t] = "running"
  /\ status' = [status EXCEPT ![t] = "input_required"]
  /\ UNCHANGED home

\* Everything it asked has been answered.
Resume(t) ==
  /\ status[t] = "input_required"
  /\ status' = [status EXCEPT ![t] = "queued"]
  /\ UNCHANGED home

\* The run of a turn ends it.
End(t, how) ==
  /\ status[t] = "running"
  /\ how \in Terminal
  /\ status' = [status EXCEPT ![t] = how]
  /\ UNCHANGED home

\* A person ends a turn that has nothing in flight.
Stop(t) ==
  /\ status[t] \in {"queued", "input_required"}
  /\ status' = [status EXCEPT ![t] = "cancelled"]
  /\ UNCHANGED home

\* The hub restarts: what was running is failed, never replayed; everything else waits.
Restart ==
  /\ \E t \in Turn : status[t] = "running"
  /\ status' = [t \in Turn |-> IF status[t] = "running" THEN "failed" ELSE status[t]]
  /\ UNCHANGED home

Next ==
  \/ \E s \in Session, t \in Turn :
        Submit(s, t, {}) \/ \E u \in Turn : Submit(s, t, {u})
  \/ \E t \in Turn :
        \/ Start(t)
        \/ Park(t)
        \/ Resume(t)
        \/ Stop(t)
        \/ \E how \in Terminal : End(t, how)
  \/ Restart

Spec == Init /\ [][Next]_vars
=============================================================================
