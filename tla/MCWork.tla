-------------------------------- MODULE MCWork --------------------------------
(***************************************************************************)
(* Subscriptions and WorkRegistry side by side for TLC: each behaviour is  *)
(* one of one of them, and the other stays as it began. Subscriptions is   *)
(* extended; a variable of WorkRegistry has the name it has there.         *)
(***************************************************************************)
EXTENDS Subscriptions

CONSTANTS checkin1, watch1, NumWork, KeepFinished, none

OneCheckin == {checkin1}
OneWatch == {watch1}

VARIABLES
  part,  \* the part this behaviour is of
  state, kind, slots, group, kept, noticed, startedAt, endedAt, teamed, task, watched, blocked, closing,
  told, teams

\* Two slots for helpers, under a cap of one or two; nobody reads their notices.
Registry == INSTANCE WorkRegistry WITH
  MaxConcurrent <- 2, Caps <- {1, 2}, Group <- {}, NoGroup <- none,
  Outcomes <- {"succeeded"}, Reads <- FALSE

ASSUME WorkAssumption == Registry!RegistryAssumption

registry == <<state, kind, slots, group, kept, noticed, startedAt, endedAt, teamed, task, watched, blocked,
              closing, told, teams>>
workVars == <<vars, registry, part>>

WorkInit == part \in {"subscriptions", "registry"} /\ Init /\ Registry!Init

WorkNext ==
  /\ UNCHANGED part
  /\ \/ part = "subscriptions" /\ Next /\ UNCHANGED registry
     \/ part = "registry" /\ Registry!Next /\ UNCHANGED vars

\* The part that does not move has nothing in its initial state that fairness is about.
WorkSpec == WorkInit /\ [][WorkNext]_workVars /\ Fairness /\ Registry!Fairness

\* Queued work starts or is cancelled, while the process is up and no ghost holds a slot.
QueuedWorkStarts == Registry!QueuedWorkStarts
=============================================================================
