------------------------------ MODULE ModelCalls ------------------------------
(***************************************************************************)
(* One question put to a model (turn/loop.py _ask, _call, _complete): its  *)
(* request to one provider, what arrives of the reply in the dialect of    *)
(* that provider (model/anthropic.py, openai.py, chat.py over wire.py),    *)
(* and the second provider that is asked when the first is unavailable.    *)
(*                                                                         *)
(* A reply is made of pieces: a word, a thought, and the two halves of a   *)
(* plan.                                                                   *)
(***************************************************************************)
EXTENDS Naturals, Sequences, FiniteSets, SequencesExt

CONSTANTS
  Replies,     \* bound: what a model may be about to say, as sequences of pieces
  NoProvider

Dialect == {"messages", "responses", "chat"}
Provider == {"first", "second"}
Piece == {"word", "thought", "opening", "closing"}

\* What comes in a reply's place: no model was named; a status of 429, of 500 or more, or another from 400
\* on; a body that is not JSON; a connection that is not made or breaks; an error sent in the
\* reply's place, with a code of the dialect's transient ones or another.
Fault == {"unnamed", "busy", "broken", "rejected", "garbled", "lost", "overloaded", "invalid"}

\* How a reply ends: said, cut at its length, stopped by a filter, declined in words of its
\* own, or reported as failed by the provider.
End == {"stop", "length", "filter", "refusal", "failed"}

ModelCallsAssumption == Replies \subseteq Seq(Piece) /\ NoProvider \notin Provider

VARIABLES
  dialect,     \* provider -> the dialect it speaks
  streaming,   \* whether somebody watches: the reply is streamed then
  wantsPlan,   \* whether the request carries a plan's schema
  asked,       \* the provider the request is with, or NoProvider
  wire,        \* its connection: none, sent, open, over or closed
  meant,       \* what the model is about to say and how it ends
  arrived,     \* the pieces that came
  ended,       \* the end that came, or "none"
  fault,       \* history: provider -> what came in place of its reply, or "none"
  answer,      \* the reply of the last chunk, or NoAnswer
  outcome,     \* asking, answered, refused, unavailable or failed
  tried        \* history: provider -> what became of asking it

vars == <<dialect, streaming, wantsPlan, asked, wire, meant, arrived, ended, fault, answer, outcome, tried>>
question == <<dialect, streaming, wantsPlan>>

NoAnswer == [by |-> NoProvider, said |-> <<>>, plan |-> FALSE, stop |-> "none", noted |-> FALSE]

Init ==
  /\ dialect \in [Provider -> Dialect] /\ streaming \in BOOLEAN /\ wantsPlan \in BOOLEAN
  /\ asked = NoProvider /\ wire = "none" /\ meant = [pieces |-> <<>>, end |-> "stop"]
  /\ arrived = <<>> /\ ended = "none" /\ answer = NoAnswer
  /\ fault = [p \in Provider |-> "none"]
  /\ outcome = "asking" /\ tried = [p \in Provider |-> "no"]

-----------------------------------------------------------------------------
(* Reading a reply. *)

\* A plan is the whole message, or what it ends on where the dialect's adapter reads past a
\* sentence in front of it; and a plan is whole or none.
Spoken(pieces) == {i \in DOMAIN pieces : pieces[i] # "thought"}
EndsInAPlan(pieces) ==
  \E i, j \in Spoken(pieces) :
    i < j /\ pieces[i] = "opening" /\ pieces[j] = "closing" /\ \A k \in Spoken(pieces) : k > i => k = j
Narrated(d) == d = "chat"
HasPlan(d, pieces) ==
  wantsPlan /\ EndsInAPlan(pieces) /\ (Narrated(d) \/ Cardinality(Spoken(pieces)) = 2)

\* The chat dialect's stream has no place where a refusal in words is read.
Declines(d, end) ==
  end = "filter" \/ (end = "refusal" /\ ~ (d = "chat" /\ streaming))

\* Only one dialect reports that a response failed; the others send an error instead.
Failed(d, end) == d = "responses" /\ end = "failed"

Stop(d, pieces, end) ==
  IF end = "length" THEN "max_tokens" ELSE IF HasPlan(d, pieces) THEN "tool_use" ELSE "end_turn"

Reply(by, pieces, end) ==
  [by |-> by, said |-> pieces, plan |-> HasPlan(dialect[by], pieces), noted |-> FALSE,
   stop |-> Stop(dialect[by], pieces, end)]

\* reply_from: a decline and a failure are raised.
Reads(by, pieces, end) ==
  IF Failed(dialect[by], end) THEN outcome' = "failed" /\ UNCHANGED answer
  ELSE IF Declines(dialect[by], end) THEN outcome' = "refused" /\ UNCHANGED answer
  ELSE answer' = Reply(by, pieces, end) /\ UNCHANGED outcome

-----------------------------------------------------------------------------
(* Asking. *)

\* The second provider is asked afresh, when the first is unavailable.
MayAsk(p) ==
  IF p = "first" THEN wire = "none" ELSE wire = "closed" /\ asked = "first" /\ outcome = "unavailable"

Asks(p) ==
  /\ MayAsk(p)
  /\ asked' = p /\ wire' = "sent" /\ arrived' = <<>> /\ ended' = "none"
  /\ answer' = NoAnswer /\ outcome' = "asking"
  /\ \E pieces \in Replies, end \in End :
       /\ end = "failed" => dialect[p] = "responses"
       /\ meant' = [pieces |-> pieces, end |-> end]
  /\ UNCHANGED <<question, fault, tried>>

\* What might be over by now is worth asking another for; what is a fact about the request
\* would fail the same way again.
Raised(why) == IF why \in {"busy", "broken", "lost", "overloaded"} THEN "unavailable" ELSE "failed"

\* Whatever raises loses what was read so far.
Raises(why) ==
  /\ wire' = "over" /\ fault' = [fault EXCEPT ![asked] = why] /\ outcome' = Raised(why)
  /\ answer' = NoAnswer
  /\ UNCHANGED <<question, asked, meant, arrived, ended, tried>>

\* Before anything is sent, by its status, or by a whole body that cannot be read.
TurnedAway ==
  /\ wire = "sent"
  /\ \/ \E why \in {"unnamed", "busy", "broken", "rejected"} : Raises(why)
     \/ ~ streaming /\ Raises("garbled")
\* The connection cannot be made, or breaks, whatever came before.
Cut == wire \in {"sent", "open"} /\ Raises("lost")
\* An error in the reply's place: in a stream, or as the whole body of one dialect.
Errs ==
  /\ wire = "open" \/ (wire = "sent" /\ ~ streaming /\ dialect[asked] = "chat")
  /\ \E why \in {"overloaded", "invalid"} : Raises(why)

\* Without anybody to watch, the whole reply comes at once.
Completes ==
  /\ wire = "sent" /\ ~ streaming /\ wire' = "over"
  /\ arrived' = meant.pieces /\ ended' = meant.end
  /\ Reads(asked, meant.pieces, meant.end)
  /\ UNCHANGED <<question, asked, meant, fault, tried>>

Opens ==
  /\ wire = "sent" /\ streaming /\ wire' = "open"
  /\ UNCHANGED <<question, asked, meant, arrived, ended, fault, answer, outcome, tried>>

Rest == SubSeq(meant.pieces, Len(arrived) + 1, Len(meant.pieces))

Arrives ==
  /\ wire = "open" /\ Rest # <<>>
  /\ arrived' = Append(arrived, Head(Rest))
  /\ UNCHANGED <<question, asked, wire, meant, ended, fault, answer, outcome, tried>>

\* The event that ends the reply: two dialects read it as they see it; chat keeps the reason
\* until the stream is over.
Ends ==
  /\ wire = "open" /\ Rest = <<>> /\ ended = "none" /\ ended' = meant.end
  /\ IF dialect[asked] = "chat" THEN UNCHANGED <<answer, outcome>>
     ELSE Reads(asked, arrived, meant.end)
  /\ wire' = (IF outcome' = "asking" THEN "open" ELSE "over")
  /\ UNCHANGED <<question, asked, meant, arrived, fault, tried>>

\* Chat has no event that ends a reply, and reads what there is.
ReadsAtTheEnd_All == TRUE
ReadsAtTheEnd == dialect[asked] = "chat"

\* The stream is over, ended or not.
Over ==
  /\ wire = "open" /\ wire' = "over"
  /\ IF ReadsAtTheEnd /\ answer = NoAnswer THEN Reads(asked, arrived, ended)
     ELSE UNCHANGED <<answer, outcome>>
  /\ UNCHANGED <<question, asked, meant, arrived, ended, fault, tried>>

\* The loop has an answer, or a stream that ended without one, or what was raised. The note
\* that another model answered is put in front of what the second provider said.
Result == IF outcome # "asking" THEN outcome ELSE IF answer = NoAnswer THEN "failed" ELSE "answered"
MarksFallback(reply) == [reply EXCEPT !.noted = (asked = "second")]

Returns ==
  /\ wire = "over" /\ wire' = "closed" /\ outcome' = Result
  /\ answer' = IF Result = "answered" THEN MarksFallback(answer) ELSE answer
  /\ tried' = [tried EXCEPT ![asked] = Result]
  /\ UNCHANGED <<question, asked, meant, arrived, ended, fault>>

Next ==
  \/ \E p \in Provider : Asks(p)
  \/ TurnedAway \/ Cut \/ Errs \/ Completes \/ Opens \/ Arrives \/ Ends \/ Over \/ Returns

Spec == Init /\ [][Next]_vars

-----------------------------------------------------------------------------
\* The shape of every variable.
TypeOK ==
  /\ dialect \in [Provider -> Dialect] /\ {streaming, wantsPlan} \subseteq BOOLEAN
  /\ asked \in Provider \union {NoProvider} /\ wire \in {"none", "sent", "open", "over", "closed"}
  /\ arrived \in Seq(Piece) /\ ended \in End \union {"none"}
  /\ outcome \in {"asking", "answered", "refused", "unavailable", "failed"}
  /\ fault \in [Provider -> Fault \union {"none"}]
  /\ tried \in [Provider -> {"no", "answered", "refused", "unavailable", "failed"}]

\* An answer is all that one provider sent and nothing of another's, with the note in front if
\* it is the second one's; it was finished, unless it is a stream in the chat dialect; it says so
\* when it was cut at its length. Nobody is asked after an answer, a decline or a failure that
\* would fail the same way again ("Retrying those burns the turn's budget", model/wire.py:17).
AnswerIsOnes ==
  /\ outcome = "answered" =>
       /\ answer.by = asked /\ answer.said = arrived /\ answer.noted = (asked = "second")
       /\ ended # "none" \/ (dialect[asked] = "chat" /\ streaming)
       /\ (ended = "length") = (answer.stop = "max_tokens")
       /\ ended \notin {"filter", "failed"}
  /\ asked = "second" =>
       tried["first"] = "unavailable" /\ fault["first"] \in {"busy", "broken", "lost", "overloaded"}
  /\ answer.plan => {"opening", "closing"} \subseteq ToSet(answer.said)

-----------------------------------------------------------------------------
(* Refuted. *)

\* A stream that breaks off is no answer: in the chat dialect it is passed on as finished.
CutShortIsNoAnswer == outcome = "answered" => ended # "none"

\* "The same call, delivered as it is generated" (chat.py:193): a decline in words is raised
\* without streaming, and is an empty answer with it.
DeclineIsNoAnswer == outcome = "answered" => ended # "refusal"

\* An answer that was read is kept: an error or a cut behind it loses it, and another
\* provider is asked.
AnswerIsKept == [][answer # NoAnswer /\ asked' = asked => answer' # NoAnswer]_vars

\* The wire format of a plan is not shown: two dialects read no plan behind a sentence.
PlanIsNotShown ==
  outcome = "answered" /\ wantsPlan /\ ~ answer.plan
  => ~ EndsInAPlan(answer.said)
=============================================================================
