-------------------------------- MODULE Feed --------------------------------
(***************************************************************************)
(* What a client of GET /v1/sessions/{id}/events is promised: a session's   *)
(* events are numbered 1, 2, 3, ...; a client that has a position in them   *)
(* is given the next one, and no other, however often it loses its          *)
(* connection. EventStream.tla is shown to implement this module.           *)
(***************************************************************************)
EXTENDS Naturals

CONSTANTS Client,   \* the clients of one session
          NoCursor  \* the position of a client that has none, not a number

VARIABLES last,    \* how many events the session has
          cursor   \* client -> the number of the last event it handled

vars == <<last, cursor>>

Init == last = 0 /\ cursor = [c \in Client |-> NoCursor]

\* Events happen, some of them together.
Happen == last' \in Nat /\ last' > last /\ UNCHANGED cursor

\* A client without a position is given a snapshot that stands for events 1 to n.
Join(c) ==
  /\ cursor[c] = NoCursor
  /\ \E n \in 0..last : cursor' = [cursor EXCEPT ![c] = n]
  /\ UNCHANGED last

\* A client is given the one event that follows what it has.
Follow(c) ==
  /\ cursor[c] # NoCursor /\ cursor[c] < last
  /\ cursor' = [cursor EXCEPT ![c] = cursor[c] + 1]
  /\ UNCHANGED last

\* A client starts over.
Forget(c) == cursor' = [cursor EXCEPT ![c] = NoCursor] /\ UNCHANGED last

Next == Happen \/ \E c \in Client : Join(c) \/ Follow(c) \/ Forget(c)

Spec == Init /\ [][Next]_vars
=============================================================================
