--------------------------------- MODULE Calls ---------------------------------
(***************************************************************************)
(* Calls to sibling services: the tokens they carry, minted by the keyring *)
(* and held in a bounded cache (auth/broker.py, auth/exchange.py), and     *)
(* which failures are tried again (packs/http.py).                         *)
(*                                                                         *)
(* All calls are of one person. A token is the number of the keys it was   *)
(* signed with: once they change, services refuse it, as they do one that  *)
(* expired on its way. A step is what runs between two awaits, or what the *)
(* keyring or a service does.                                              *)
(***************************************************************************)
EXTENDS Naturals, Sequences, SequencesExt

CONSTANTS
  Call,           \* the calls
  Audience,       \* the services
  MaxEntries,     \* TokenCache's bound
  RetryAttempts,  \* retry_attempts of the turn's policy
  MaxChanges      \* bound: how often the keys change

CallsAssumption == MaxEntries \in Nat \ {0} /\ RetryAttempts \in Nat /\ MaxChanges \in Nat

Over == {"answered", "unavailable", "refused", "tokenless"}
NotBegun ==
  [place |-> "idle", audience |-> "none", again |-> FALSE, second |-> FALSE,
   token |-> 0, attempt |-> 0, began |-> 0, done |-> 0]

VARIABLES
  keys,   \* the keys that are good now
  cache,  \* TokenCache._entries, the least recently used first: the service and the token
  call    \* call -> where it is, for which service, whether it may be done twice, whether this
          \* is the attempt with a token minted again, its token and how often it was tried;
          \* history: the keys when it began, and how often the service did its work

vars == <<keys, cache, call>>

Init == keys = 1 /\ cache = <<>> /\ call = [c \in Call |-> NotBegun]

-----------------------------------------------------------------------------
(* TokenCache. *)

Without(audience) == SelectSeq(cache, LAMBDA entry : entry.audience # audience)
Held(audience) == {cache[i] : i \in {j \in DOMAIN cache : cache[j].audience = audience}}
Put(audience, token) ==
  LET put == Append(Without(audience), [audience |-> audience, token |-> token])
  IN IF Len(put) > MaxEntries THEN Tail(put) ELSE put

Ends(c, record, outcome) ==
  call' = [call EXCEPT ![c] = [NotBegun EXCEPT
             !.place = outcome, !.again = record.again, !.began = record.began, !.done = record.done]]

-----------------------------------------------------------------------------
(* One attempt: token_for, and after a refusal remint. *)

\* What is held is sent; there may be no such entry, or one that is retired now.
Looks(c, record) ==
  LET audience == record.audience IN
  \/ \E entry \in Held(audience) :
       /\ cache' = Append(Without(audience), entry)
       /\ call' = [call EXCEPT ![c] = [record EXCEPT !.place = "sending", !.token = entry.token]]
  \/ /\ cache' = Without(audience)
     /\ call' = [call EXCEPT ![c] = [record EXCEPT !.place = "minting"]]

Begins(c) ==
  /\ call[c].place = "idle"
  /\ \E audience \in Audience, again \in BOOLEAN :
       Looks(c, [NotBegun EXCEPT !.audience = audience, !.again = again, !.attempt = 1,
                                 !.began = keys])
  /\ UNCHANGED keys

\* The keyring signs a token; its answer arrives, and is held.
Signs(c) ==
  /\ call[c].place = "minting"
  /\ call' = [call EXCEPT ![c].place = "minted", ![c].token = keys]
  /\ UNCHANGED <<keys, cache>>

Mints(c) ==
  /\ call[c].place = "minted"
  /\ cache' = Put(call[c].audience, call[c].token)
  /\ call' = [call EXCEPT ![c].place = "sending"]
  /\ UNCHANGED keys

\* It refuses, or is not there: that is not tried again.
MintFails(c) ==
  /\ call[c].place \in {"minting", "minted"}
  /\ Ends(c, call[c], "tokenless")
  /\ UNCHANGED <<keys, cache>>

\* A 401: the token held now is dropped, whoever put it, and one is minted; the second ends it.
Remint(c) ==
  /\ cache' = Without(call[c].audience)
  /\ call' = [call EXCEPT ![c].place = "minting", ![c].second = TRUE]
Refused(c) ==
  /\ call[c].place = "sending" /\ call[c].token # keys
  /\ IF call[c].second THEN Ends(c, call[c], "refused") /\ UNCHANGED cache ELSE Remint(c)
  /\ UNCHANGED keys

-----------------------------------------------------------------------------
(* request_response. *)

\* The next attempt, or none: the tries or the time are spent, or it may not be done twice.
MayRepeat_Any(c) == TRUE
MayRepeat(c) == call[c].again
MayRetry(c) == call[c].attempt <= RetryAttempts
TriesAgain(c, record, outcome, may) ==
  \/ /\ may /\ MayRetry(c)
     /\ Looks(c, [record EXCEPT !.attempt = @ + 1, !.second = FALSE])
  \/ Ends(c, record, outcome) /\ UNCHANGED cache

Accepted(c) == call[c].place = "sending" /\ call[c].token = keys

Answers(c) ==
  /\ Accepted(c) /\ Ends(c, [call[c] EXCEPT !.done = @ + 1], "answered")
  /\ UNCHANGED <<keys, cache>>

\* A 429: not done.
TurnedAway(c) == Accepted(c) /\ TriesAgain(c, call[c], "answered", TRUE) /\ UNCHANGED keys

\* It never left.
Unsent(c) ==
  call[c].place = "sending" /\ TriesAgain(c, call[c], "unavailable", TRUE) /\ UNCHANGED keys

\* A 5xx, or no answer in time, says nothing of whether it was done.
Unclear(c) ==
  /\ Accepted(c)
  /\ \E done \in {0, 1} :
       TriesAgain(c, [call[c] EXCEPT !.done = @ + done], "unavailable", MayRepeat(c))
  /\ UNCHANGED keys

\* The keyring's keys change; what was signed before is refused from then on.
KeysChange ==
  /\ keys <= MaxChanges /\ keys' = keys + 1 /\ UNCHANGED <<cache, call>>

Next ==
  \/ \E c \in Call :
       \/ Begins(c) \/ Signs(c) \/ Mints(c) \/ MintFails(c) \/ Refused(c)
       \/ Answers(c) \/ TurnedAway(c) \/ Unsent(c) \/ Unclear(c)
  \/ KeysChange

Spec == Init /\ [][Next]_vars

-----------------------------------------------------------------------------
(* Properties. *)

\* The shape of every variable.
TypeOK ==
  /\ keys \in 1..MaxChanges + 1
  /\ Len(cache) <= MaxEntries /\ IsInjective([i \in DOMAIN cache |-> cache[i].audience])
  /\ cache \in Seq([audience : Audience, token : 1..MaxChanges + 1])
  /\ call \in [Call -> [place : Over \union {"idle", "minting", "minted", "sending"},
                        audience : Audience \union {"none"}, again : BOOLEAN, second : BOOLEAN,
                        token : 0..MaxChanges + 1, attempt : 0..RetryAttempts + 1,
                        began : 0..MaxChanges + 1, done : 0..RetryAttempts + 1]]

\* "A failure is retried only when sending the request again cannot do its work twice"
\* (request_response), across refusals, re-mints and retries.
DoneAtMostOnce == \A c \in Call : call[c].done > 1 => call[c].again

\* A person "should never see" a token that went stale (packs/http.py): whatever other calls
\* hold, drop or put back meanwhile, none is refused for good unless the keys changed under it.
RefusedOnlyUnderNewKeys == \A c \in Call : call[c].place = "refused" => keys > call[c].began

\* The two together: what the caller of a service is promised of its work and of its token.
CallIsAnsweredFairly == DoneAtMostOnce /\ RefusedOnlyUnderNewKeys
=============================================================================
