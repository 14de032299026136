-------------------------------- MODULE Probes --------------------------------
(***************************************************************************)
(* Whether one service is ready for one person: the cache of what probes   *)
(* found (packs/probes.py, packs/registry.py), and what drops it: the      *)
(* routes that connect and disconnect (api/routers/connections.py, over    *)
(* the tickets of connections/tickets.py), a setting, and a step that is   *)
(* told the credential is missing.                                         *)
(*                                                                         *)
(* A request is what runs between two awaits at a time. Time goes by in    *)
(* ticks; a turn, a listing or the window gauge asks.                      *)
(***************************************************************************)
EXTENDS Naturals, FiniteSets

CONSTANTS
  Session,     \* the sessions asked for; one may stand for none at all
  Reader,      \* those that ask
  Ttl,         \* PROBE_TTL_SECONDS, in ticks
  Known,       \* KNOWN_SECONDS, in ticks
  Ceiling,     \* how long a probe may take
  MaxTime,     \* bound: ticks
  MaxChanges   \* bound: how often the connection changes

ProbesAssumption ==
  Ttl \in Nat \ {0} /\ Known \in Nat /\ Ttl <= Known /\ {Ceiling, MaxTime, MaxChanges} \subseteq Nat

NoRow == [answer |-> "none", at |-> 0]
Idle == [place |-> "idle", session |-> "none", began |-> 0, answer |-> "none", within |-> 0, age |-> 0]

VARIABLES
  now,
  connection,  \* what the service would say: ready or not_connected
  was,         \* answer -> history: when it was last true
  changes,     \* how often the connection changed
  cache,       \* ProbeCache._rows: session -> the answer and when it was found, or NoRow
  reader,      \* reader -> what it asks: where it is, of which session, since when, how old
               \* an answer it takes, and how long ago what it was given was true
  ticket,      \* the ConnectionTicket: none, handed, opened, gone
  route        \* the request under way: idle, authorizing, polling, deleting, telling

truths == <<connection, was, changes>>
vars == <<now, truths, cache, reader, ticket, route>>

Init ==
  /\ now = 0 /\ connection \in {"ready", "not_connected"} /\ changes = 0
  /\ was = [a \in {"ready", "not_connected"} |-> 0]
  /\ cache = [s \in Session |-> NoRow] /\ reader = [q \in Reader |-> Idle]
  /\ ticket = "none" /\ route = "idle"

\* drop: this person's answers, in every session.
Dropped == [s \in Session |-> NoRow]

-----------------------------------------------------------------------------
(* The service and the clock. *)

Becomes(state) ==
  /\ connection # state /\ changes < MaxChanges
  /\ connection' = state /\ changes' = changes + 1
  /\ was' = [was EXCEPT ![connection] = now]

\* The person gives consent at the provider, after the link was opened, or the grant is
\* gone: nobody here is told.
Changes ==
  /\ \/ ticket = "opened" /\ Becomes("ready")
     \/ Becomes("not_connected")
  /\ UNCHANGED <<now, cache, reader, ticket, route>>

\* A probe is stopped at its ceiling; a ticket runs out.
Tick ==
  /\ now < MaxTime
  /\ \A q \in Reader : reader[q].place \in {"asking", "told"} => now < reader[q].began + Ceiling
  /\ now' = now + 1
  /\ \/ UNCHANGED ticket
     \/ ticket \in {"handed", "opened"} /\ ticket' = "gone"
  /\ UNCHANGED <<truths, cache, reader, route>>

-----------------------------------------------------------------------------
(* probe_all, for this service. *)

LastTrue(answer) == IF answer = connection THEN now ELSE was[answer]

\* get: what was found less than `within` ago, and not so long ago that nobody takes it.
Fresh(s, within) ==
  /\ cache[s] # NoRow
  /\ now - cache[s].at < within /\ now - cache[s].at < Known
Fetched_Renewing(s, within) ==
  IF Fresh(s, within) THEN [cache EXCEPT ![s].at = now] ELSE [cache EXCEPT ![s] = NoRow]
Fetched(s, within) ==
  IF cache[s] # NoRow /\ now - cache[s].at >= Known THEN [cache EXCEPT ![s] = NoRow] ELSE cache

Given(q, answer, within) ==
  reader' = [reader EXCEPT ![q] = [Idle EXCEPT
               !.place = "given", !.within = within,
               !.age = IF answer = "unavailable" THEN 0 ELSE now - LastTrue(answer)]]

\* A turn takes an answer of the TTL, the window gauge one of an hour.
Asks(q) ==
  /\ reader[q].place \in {"idle", "given"}
  /\ \E s \in Session, within \in {Ttl, Known} :
       /\ cache' = Fetched(s, within)
       /\ IF Fresh(s, within) THEN Given(q, cache[s].answer, within)
          ELSE reader' = [reader EXCEPT ![q] = [Idle EXCEPT
                 !.place = "asking", !.session = s, !.within = within, !.began = now]]
  /\ UNCHANGED <<now, truths, ticket, route>>

\* The service answers, and later its answer arrives.
Answers(q) ==
  /\ reader[q].place = "asking"
  /\ reader' = [reader EXCEPT ![q].place = "told", ![q].answer = connection]
  /\ UNCHANGED <<now, truths, cache, ticket, route>>

Puts(q, answer) ==
  /\ cache' = [cache EXCEPT ![reader[q].session] = [answer |-> answer, at |-> now]]
  /\ Given(q, answer, reader[q].within)
  /\ UNCHANGED <<now, truths, ticket, route>>

Arrives(q) == reader[q].place = "told" /\ Puts(q, reader[q].answer)

\* It did not answer in time, or could not be reached.
Fails(q) == reader[q].place \in {"asking", "told"} /\ Puts(q, "unavailable")

-----------------------------------------------------------------------------
(* What drops the answers. *)

Drops ==
  /\ cache' = Dropped
  /\ UNCHANGED <<now, truths, reader>>

\* settings.set; a step that is told the credential is missing (GuardedHttp).
Elsewhere == Drops /\ UNCHANGED <<ticket, route>>

\* authorize_connection, poll_connection_authorization and delete_connection wait for the
\* keyring between their beginning and their end.
Calls ==
  /\ route = "idle"
  /\ route' \in {"authorizing", "deleting"} \union IF ticket \in {"handed", "opened"} THEN {"polling"} ELSE {}
  /\ UNCHANGED <<now, truths, cache, reader, ticket>>

Authorized == route = "authorizing" /\ ticket' = "handed" /\ route' = "idle" /\ Drops

\* What the keyring lists; pending is no answer.
Polled ==
  /\ route = "polling" /\ route' = IF connection = "ready" THEN "telling" ELSE "idle"
  /\ UNCHANGED <<now, truths, cache, reader, ticket>>

Disconnected ==
  /\ route = "deleting" /\ route' = "telling"
  /\ \/ Becomes("not_connected")
     \/ connection = "not_connected" /\ UNCHANGED truths
  /\ UNCHANGED <<now, cache, reader, ticket>>

Tells == route = "telling" /\ route' = "idle" /\ Drops /\ UNCHANGED ticket

\* The keyring could not be reached: the request ends with nothing dropped.
Unreached ==
  /\ route \in {"authorizing", "polling", "deleting"} /\ route' = "idle"
  /\ UNCHANGED <<now, truths, cache, reader, ticket>>

\* The link is opened, once.
Opens == ticket = "handed" /\ ticket' = "opened" /\ Drops /\ UNCHANGED route

Next ==
  \/ Changes \/ Tick
  \/ \E q \in Reader : Asks(q) \/ Answers(q) \/ Arrives(q) \/ Fails(q)
  \/ Elsewhere \/ Calls \/ Authorized \/ Polled \/ Disconnected \/ Tells \/ Unreached \/ Opens

Spec == Init /\ [][Next]_vars

-----------------------------------------------------------------------------
(* Properties. *)

\* The shape of every variable.
TypeOK ==
  LET Answer == {"ready", "not_connected"}
      Found == Answer \union {"none", "unavailable"}
  IN /\ now \in 0..MaxTime /\ changes \in 0..MaxChanges
     /\ connection \in Answer /\ was \in [Answer -> 0..MaxTime]
     /\ cache \in [Session -> [answer : Found, at : 0..MaxTime]]
     /\ reader \in [Reader -> [place : {"idle", "asking", "told", "given"},
                               session : Session \union {"none"}, began : 0..MaxTime,
                               answer : Found, within : 0..Known, age : 0..MaxTime]]
     /\ ticket \in {"none", "handed", "opened", "gone"}
     /\ route \in {"idle", "authorizing", "polling", "deleting", "telling"}

\* "Short enough that a missed invalidation is a stale turn rather than a stale minute"
\* (PROBE_TTL_SECONDS): whatever was dropped, put back by a probe that was late or taken over
\* and over, an answer was true no longer ago than its reader allows, and a probe takes.
GivenIsRecent ==
  \A q \in Reader : reader[q].place = "given" => reader[q].age < reader[q].within + Ceiling
=============================================================================
