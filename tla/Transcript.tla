------------------------------ MODULE Transcript ------------------------------
(***************************************************************************)
(* The transcript of a conversation and what is read of it: items numbered *)
(* as they are written (sessions/sql_store.py), summaries that stand for   *)
(* a range of them (sessions/compact.py), forks (sessions/fork.py), and    *)
(* the history a running turn is shown (turn/prompt.py,                    *)
(* context/projection.py, context/ladder.py).                              *)
(*                                                                         *)
(* An item's number is its place in the log. Each step is a transaction;   *)
(* turns are the rows of module Turns, with what matters to the history.   *)
(***************************************************************************)
EXTENDS Naturals, Sequences, FiniteSets, FiniteSetsExt

CONSTANTS
  NumTurns,         \* bound: turns of a conversation, and of its fork
  MaxItems,         \* bound: items of the transcript
  MaxForked,        \* bound: items a fork takes along
  MaxCompactions,   \* bound: summaries that are ever written
  Keeps,            \* how many of the newest turns a summary may be asked to leave (history_turns_kept)
  ToolResultsKept   \* tool_results_kept

TranscriptAssumption ==
  /\ NumTurns \in Nat /\ MaxItems \in Nat /\ MaxForked \in Nat /\ MaxCompactions \in Nat
  /\ Keeps \subseteq Nat /\ ToolResultsKept \in Nat

Turn == 1..NumTurns
NoTurn == 0
Kind == {"ask", "said", "result", "helper"}

VARIABLES
  log,         \* the items: whose turn (turn_id) and of what kind; a helper's has agent_id
  turn,        \* turn -> none, queued, running, parked, over
  stop,        \* turn -> its stop_reason: none, rollback, other
  reason,      \* turn -> the stop_reason finish_turn has read for it, or "unread"
  made,        \* the compactions, by their seq: what they cover, how many turns they kept, active
  overlapped,  \* history: whether a message was ever sent while a turn was live
  forked       \* whether this is the fork

turns == <<turn, stop, reason>>
vars == <<log, turns, made, overlapped, forked>>

Item(t, kind) == [turn |-> t, kind |-> kind]

Init ==
  /\ log = <<>> /\ made = <<>> /\ overlapped = FALSE /\ forked = FALSE
  /\ turn = [t \in Turn |-> "none"] /\ stop = [t \in Turn |-> "none"]
  /\ reason = [t \in Turn |-> "unread"]

Live == {t \in Turn : turn[t] \in {"queued", "running", "parked"}}
\* The main thread: what no helper said.
Main == {i \in DOMAIN log : log[i].kind # "helper"}
Of(t) == {i \in Main : log[i].turn = t}
First(t) == Min(Of(t))

-----------------------------------------------------------------------------
(* conversation_order and project: what a running turn is shown. *)

\* Turns that are over, and the one that runs; a turn that was rolled back is hidden.
View(t) ==
  {i \in Main : \/ log[i].turn = NoTurn
                \/ /\ turn[log[i].turn] = "over" \/ log[i].turn = t
                   /\ stop[log[i].turn] # "rollback"}

Asked(c) == made[c].from..made[c].to

\* The turns a range touches, and the range widened to them.
Touched(c, view) == {log[i].turn : i \in view \intersect Asked(c)} \ {NoTurn}
Snap(c, view) ==
  LET members == {i \in view : log[i].turn \in Touched(c, view)}
  IN Min({made[c].from} \union members)..Max({made[c].to} \union members)
Inside(c, view) == view \intersect Snap(c, view)

\* What the summaries from number c on stand for: the newest first, and an older one only
\* where it overlaps none that is shown.
Newer(c, view, covered) ==
  IF made[c].active /\ Inside(c, view) \intersect covered = {}
  THEN covered \union Inside(c, view) ELSE covered
Covered(view) ==
  LET from[c \in 1..Len(made) + 1] ==
        IF c > Len(made) THEN {} ELSE Newer(c, view, from[c + 1])
  IN from
Shown(view) ==
  {c \in DOMAIN made : /\ made[c].active /\ Inside(c, view) # {}
                       /\ Inside(c, view) \intersect Covered(view)[c + 1] = {}}

\* What is left to read in full, and when the window is full, less the older tool results.
Verbatim(t) == View(t) \ Covered(View(t))[1]
Reclaimed(items) ==
  LET results == {i \in items : log[i].kind = "result"}
  IN {i \in items : i \in results => Cardinality({j \in results : j > i}) < ToolResultsKept}
Read(t, full) == IF full THEN Reclaimed(Verbatim(t)) ELSE Verbatim(t)

-----------------------------------------------------------------------------
(* Turns, and what they write. *)

Append1(item) == Len(log) < MaxItems /\ log' = Append(log, item)

\* A message opens a turn. Beside a live one it waits (enqueue), or ends it (interrupt,
\* rollback): a running turn at its next look, any other one now.
Submits(t, policy) ==
  /\ turn[t] = "none" /\ \A u \in Turn : u < t => turn[u] # "none"
  /\ Append1(Item(t, "ask"))
  /\ \/ /\ Live = {} \/ policy = "enqueue"
        /\ turn' = [turn EXCEPT ![t] = "queued"] /\ UNCHANGED stop
     \/ \E u \in Live :
          /\ policy # "enqueue"
          /\ stop' = [stop EXCEPT ![u] = IF policy = "rollback" THEN "rollback" ELSE "other"]
          /\ turn' = [turn EXCEPT ![t] = "queued", ![u] = IF @ = "running" THEN @ ELSE "over"]
  /\ overlapped' = (overlapped \/ Live # {})
  /\ UNCHANGED <<reason, made, forked>>

Claims(t) ==
  /\ turn[t] = "queued" /\ \A u \in Turn : turn[u] # "running" /\ (turn[u] = "queued" => t <= u)
  /\ turn' = [turn EXCEPT ![t] = "running"]
  /\ UNCHANGED <<log, stop, reason, made, overlapped, forked>>

Works(t) ==
  /\ turn[t] = "running" /\ reason[t] = "unread"
  /\ \E item \in {Item(t, "said"), Item(t, "result"), Item(NoTurn, "helper")} : Append1(item)
  /\ UNCHANGED <<turns, made, overlapped, forked>>

\* Parked for an answer, queued again by it, or cancelled while it waits.
Parks(t) ==
  /\ turn[t] = "running" /\ reason[t] = "unread" /\ turn' = [turn EXCEPT ![t] = "parked"]
  /\ UNCHANGED <<log, stop, reason, made, overlapped, forked>>
Answers(t) ==
  /\ turn[t] = "parked" /\ turn' = [turn EXCEPT ![t] = "queued"]
  /\ UNCHANGED <<log, stop, reason, made, overlapped, forked>>
Cancels(t) ==
  /\ turn[t] \in {"queued", "parked"}
  /\ turn' = [turn EXCEPT ![t] = "over"] /\ stop' = [stop EXCEPT ![t] = "other"]
  /\ UNCHANGED <<log, reason, made, overlapped, forked>>

\* finish_turn: the row's stop_reason is read, and in a later transaction kept or replaced.
Finishes(t) ==
  /\ turn[t] = "running" /\ reason[t] = "unread"
  /\ reason' = [reason EXCEPT ![t] = stop[t]]
  /\ UNCHANGED <<log, turn, stop, made, overlapped, forked>>
Ends(t) ==
  /\ turn[t] = "running" /\ reason[t] # "unread"
  /\ turn' = [turn EXCEPT ![t] = "over"] /\ reason' = [reason EXCEPT ![t] = "unread"]
  /\ stop' = [stop EXCEPT ![t] = IF reason[t] = "none" THEN "other" ELSE reason[t]]
  /\ UNCHANGED <<log, made, overlapped, forked>>

\* The process died: the running turn says so, and is over, whatever had stopped it.
Restarts(t) ==
  /\ turn[t] = "running" /\ Append1(Item(t, "said"))
  /\ turn' = [turn EXCEPT ![t] = "over"] /\ stop' = [stop EXCEPT ![t] = "other"]
  /\ reason' = [reason EXCEPT ![t] = "unread"]
  /\ UNCHANGED <<made, overlapped, forked>>

-----------------------------------------------------------------------------
(* compact_session, uncompact_session and fork_session. *)

\* The newest turns of the main thread, by their first items.
Newest(keep) ==
  {t \in Turn : Of(t) # {} /\ Cardinality({u \in Turn : Of(u) # {} /\ First(u) > First(t)}) < keep}

\* The last item before the first of a turn that is kept; none of it when there is none.
CoversTo_Kept(keep) ==
  IF keep = 0 THEN Max(Main)
  ELSE LET kept == UNION {Of(t) : t \in Newest(keep)}
       IN IF \A t \in Turn : Of(t) = {} \/ t \in Newest(keep) THEN 0 ELSE Min(kept)
CoversTo(keep) ==
  IF keep = 0 THEN Max(Main)
  ELSE LET kept == UNION {Of(t) : t \in Newest(keep)}
       IN IF \A t \in Turn : Of(t) = {} \/ t \in Newest(keep) THEN 0
          ELSE Max({i \in Main : \A j \in kept : i < j} \union {0})

NewestActive == {c \in DOMAIN made : made[c].active /\ \A d \in DOMAIN made : d > c => ~made[d].active}

\* By hand, or by a running turn whose window is full. Never what the newest one covers.
Compacts(keep) ==
  /\ Len(made) < MaxCompactions /\ Main # {} /\ CoversTo(keep) > 0
  /\ \A c \in NewestActive : <<made[c].from, made[c].to>> # <<Min(Main), CoversTo(keep)>>
  /\ made' = Append(made, [from |-> Min(Main), to |-> CoversTo(keep), keep |-> keep, active |-> TRUE])
  /\ UNCHANGED <<log, turns, overlapped, forked>>

Uncompacts(c) ==
  /\ made[c].active /\ made' = [made EXCEPT ![c].active = FALSE]
  /\ UNCHANGED <<log, turns, overlapped, forked>>

\* Up to an item, helpers' among them: no turn, no helper and no summary comes along.
Copy(item) == Item(NoTurn, IF item.kind = "helper" THEN "said" ELSE item.kind)

Forks(cut) ==
  /\ ~forked /\ cut <= MaxForked /\ forked' = TRUE
  /\ log' = [i \in 1..cut |-> Copy(log[i])]
  /\ turn' = [t \in Turn |-> "none"] /\ stop' = [t \in Turn |-> "none"]
  /\ reason' = [t \in Turn |-> "unread"] /\ made' = <<>> /\ overlapped' = FALSE

Next ==
  \/ \E t \in Turn :
       \/ \E policy \in {"enqueue", "interrupt", "rollback"} : Submits(t, policy)
       \/ Claims(t) \/ Works(t) \/ Parks(t) \/ Answers(t) \/ Cancels(t)
       \/ Finishes(t) \/ Ends(t) \/ Restarts(t)
  \/ \E keep \in Keeps : Compacts(keep)
  \/ \E c \in DOMAIN made : Uncompacts(c)
  \/ \E cut \in DOMAIN log : Forks(cut)

Spec == Init /\ [][Next]_vars

-----------------------------------------------------------------------------
TypeOK ==
  /\ log \in Seq([turn : Turn \union {NoTurn}, kind : Kind]) /\ Len(log) <= MaxItems
  /\ turn \in [Turn -> {"none", "queued", "running", "parked", "over"}]
  /\ stop \in [Turn -> {"none", "rollback", "other"}]
  /\ reason \in [Turn -> {"unread", "none", "rollback", "other"}]
  /\ made \in Seq([from : 1..MaxItems, to : 1..MaxItems, keep : Keeps, active : BOOLEAN])
  /\ overlapped \in BOOLEAN /\ forked \in BOOLEAN

Running == {t \in Turn : turn[t] = "running"}

\* Everything a turn may read is read once: in full, or behind exactly one of the summaries
\* it is shown, however they were made, undone and made again.
ReadOnce ==
  \A t \in Running : \A i \in View(t) :
    LET behind == {c \in Shown(View(t)) : i \in Inside(c, View(t))}
    IN IF i \in Verbatim(t) THEN behind = {} ELSE Cardinality(behind) = 1

\* As long as no message was sent beside a live turn, and every summary was to keep a turn:
\* a running turn reads all it was asked and has said, and the newest of its results, and
\* a summary stands only for what it was written from.
TurnReadsItself ==
  ~overlapped /\ (\A c \in DOMAIN made : made[c].keep > 0) =>
    \A t \in Running :
      /\ \A full \in BOOLEAN : {i \in Of(t) : log[i].kind # "result"} \subseteq Read(t, full)
      /\ ToolResultsKept > 0 /\ Of(t) # {} /\ log[Max(Of(t))].kind = "result" => Max(Of(t)) \in Read(t, TRUE)
      /\ \A c \in Shown(View(t)) : Inside(c, View(t)) \subseteq Asked(c)

HistoryIsTold == ReadOnce /\ TurnReadsItself

-----------------------------------------------------------------------------
(* Promises the code makes and does not keep, once messages are queued. *)

\* "Newest turns stay in full": the message a turn answers lies between the items of an
\* older turn, which a range is widened to.
KeptTurnIsRead ==
  (\A c \in DOMAIN made : made[c].keep > 0) =>
    \A t \in Running : t \in Newest(1) /\ stop[t] # "rollback" => First(t) \in Verbatim(t)

\* "Snapping outwards can only ever summarise slightly more than was asked": the summary
\* was written from the range as it was asked for.
SummaryIsOfWhatItHides ==
  \A t \in Running : \A c \in Shown(View(t)) : Inside(c, View(t)) \subseteq Asked(c)

\* "A range is replaced whole or not at all": the widened range reaches into a turn that was
\* not touched, and is not widened to that one.
TurnIsReplacedWhole ==
  \A t \in Running : \A u \in Turn :
    \/ Of(u) \intersect View(t) \subseteq Verbatim(t)
    \/ Of(u) \intersect Verbatim(t) = {}

\* "A rollback hides the superseded turn's items."
RolledBackIsHidden ==
  [][\A t \in Turn : stop[t] = "rollback" /\ turn'[t] # "none" => stop'[t] = "rollback"]_vars

\* "A helper has its own item log; the parent must not see it": a fork's transcript is all
\* of the log, helpers' items among it.
ForkIsOfTheConversation ==
  [][forked' # forked => \A i \in DOMAIN log' : log[i].kind # "helper"]_vars
=============================================================================
