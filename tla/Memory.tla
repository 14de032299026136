-------------------------------- MODULE Memory --------------------------------
(***************************************************************************)
(* Notes about a person (packs/notes.py over clients/memory.py), kept by a *)
(* service of their own, and the index of their topics that every turn     *)
(* carries (memory/index.py, topics.py).                                   *)
(*                                                                         *)
(* A note is known by its trust and by the note it corrects; its words are *)
(* left out. The service is external: it keeps history, retrieves only     *)
(* what somebody vouched for, and may do what it is asked and have its     *)
(* answer lost.                                                            *)
(***************************************************************************)
EXTENDS Naturals, Sequences, FiniteSets, SequencesExt

CONSTANTS
  Conversation,  \* of one person, on one profile
  MaxNotes,      \* bound: notes that are ever written
  MaxCalls,      \* bound: operations that are ever begun
  MaxLessons,    \* how many lessons the persona service pins
  Limits         \* bound: memory_retrieval_limit, as it may be set

MemoryAssumption ==
  /\ IsFiniteSet(Conversation) /\ {MaxNotes, MaxCalls, MaxLessons} \subseteq Nat /\ Limits \subseteq Nat

VARIABLES
  note,     \* the notes, in the order they were written
  doing,    \* conversation -> the operation it is in the middle of
  known,    \* conversation -> the notes a result has named to it
  result,   \* the last result of an operation, and whose it is
  lesson,   \* lesson -> absent, pinned or unlearned
  index,    \* an index that was built: the cards, the limit and what is shown of them
  private,  \* the conversations that are incognito
  calls

vars == <<note, doing, known, result, lesson, index, private, calls>>

\* Most trusted first.
Ladder == <<"stated", "observed", "inferred", "untrusted">>
Place(trust) == CHOOSE i \in DOMAIN Ladder : Ladder[i] = trust
Floors == {"stated", "observed", "inferred"}
Everybody == "profile"

Idle == [op |-> "idle", left |-> {}, trust |-> "none", named |-> {}, gone |-> {}, kept |-> {}]
NoResult == [by |-> "nobody", of |-> "none", notes |-> {}, trusts |-> {}, floor |-> "none", label |-> "none",
             named |-> {}, gone |-> {}, kept |-> {}, untold |-> {}]

NoIndex == [cards |-> <<>>, limit |-> 0, shown |-> <<>>, withheld |-> 0, omitted |-> 0]

\* A topic as it is ranked: who vouches for it, its importance, how lately it was read.
Card == [trusted : BOOLEAN, importance : {0, 1}, seen : {0, 1}]

Init ==
  /\ note = <<>> /\ doing = [c \in Conversation |-> Idle]
  /\ known = [c \in Conversation |-> {}] /\ result = NoResult
  /\ lesson = [l \in 1..MaxLessons + 1 |-> "absent"]
  /\ index = NoIndex
  /\ private \in SUBSET Conversation /\ calls = 0

-----------------------------------------------------------------------------
(* The service. *)

New(trust, home, from) ==
  [trust |-> trust, confirmed |-> FALSE, state |-> "current", home |-> home, from |-> from,
   origin |-> trust]

Room == Len(note) < MaxNotes /\ index = NoIndex
Current == {n \in DOMAIN note : note[n].state = "current"}
Retrieved(c) ==
  {n \in Current : /\ note[n].trust # "untrusted" \/ note[n].confirmed
                   /\ note[n].home \in {Everybody, c}}

\* A page is distilled, or something is observed or inferred, without the hub.
Distils ==
  /\ Room /\ \E trust \in {"observed", "inferred", "untrusted"} :
               note' = Append(note, New(trust, Everybody, 0))
  /\ UNCHANGED <<doing, known, result, lesson, index, private, calls>>

\* What vouching does to the trust of a note is the service's to say.
Confirmed(n) == {[note EXCEPT ![n].confirmed = TRUE, ![n].trust = t] : t \in {note[n].trust, "stated"}}

\* A call does what it is asked and says so, does it and its answer is lost, or fails.
Outcome == {"done", "lost", "failed"}

-----------------------------------------------------------------------------
(* Results. *)

\* result_trust: as the least trusted note in it.
Label(notes) ==
  IF notes = {} THEN "observed"
  ELSE Ladder[CHOOSE i \in {Place(note'[n].trust) : n \in notes} :
                \A n \in notes : Place(note'[n].trust) <= i]

Answers(c, of, notes, floor) ==
  /\ result' = [NoResult EXCEPT !.by = c, !.of = of, !.notes = notes, !.floor = floor,
                                !.label = Label(notes), !.trusts = {note'[n].trust : n \in notes}]
  /\ known' = [known EXCEPT ![c] = @ \union notes]

Raises(c) ==
  /\ result' = [NoResult EXCEPT !.by = c, !.of = "error"]
  /\ UNCHANGED known

Begins(c) == doing[c] = Idle /\ index = NoIndex /\ calls < MaxCalls /\ calls' = calls + 1
Elsewhere == <<lesson, index, private>>

-----------------------------------------------------------------------------
(* Recalls. *)

\* Nothing, when how far down the ladder a recall may reach could not be read.
WithinFloor(notes, floor) ==
  IF floor = "unknown" THEN {} ELSE {n \in notes : Place(note[n].trust) <= Place(floor)}

\* search and aboutMe: the service ranks, and what it leaves beyond the limit is its choice.
Recalls(c) ==
  /\ Begins(c)
  /\ \E floor \in Floors \union {"unknown"}, found \in SUBSET Retrieved(c) :
       LET notes == IF c \in private THEN {} ELSE WithinFloor(found, floor) IN
       UNCHANGED note /\ Answers(c, "recall", notes, floor)
  /\ UNCHANGED <<doing, Elsewhere>>

\* A topic is opened as the service keeps it: it is where a note to be confirmed is found.
OpensTopic(c) ==
  /\ Begins(c)
  /\ \E topic \in SUBSET {n \in Current : note[n].home \in {Everybody, c}} :
       UNCHANGED note /\ Answers(c, "topic", IF c \in private THEN {} ELSE topic, "none")
  /\ UNCHANGED <<doing, Elsewhere>>

FailsToRecall(c) ==
  Begins(c) /\ c \notin private /\ Raises(c) /\ UNCHANGED <<note, doing, Elsewhere>>

-----------------------------------------------------------------------------
(* Writes, which an incognito conversation is denied. *)

May(c) == Begins(c) /\ c \notin private

\* setFact keeps it for the profile, remember for this conversation.
Writes(c) ==
  /\ May(c) /\ Room
  /\ \E home \in {Everybody, c}, how \in Outcome :
       /\ note' = (IF how = "failed" THEN note ELSE Append(note, New("stated", home, 0)))
       /\ IF how = "done" THEN Answers(c, "write", {Len(note')}, "none") ELSE Raises(c)
  /\ UNCHANGED <<doing, Elsewhere>>

Confirms(c) ==
  /\ May(c)
  /\ \E n \in known[c] \intersect Current, how \in Outcome :
       /\ note' \in (IF how = "failed" THEN {note} ELSE Confirmed(n))
       /\ IF how = "done" THEN Answers(c, "write", {n}, "none") ELSE Raises(c)
  /\ UNCHANGED <<doing, Elsewhere>>

\* A correction reads the whole note first, and sends it back with other words.
Carried_Words(n) == "stated"
Carried(n) == note[n].trust

ReadsToCorrect(c) ==
  /\ May(c)
  /\ \E n \in known[c] :
       doing' = [doing EXCEPT ![c] = [Idle EXCEPT !.op = "correct", !.left = {n}, !.trust = Carried(n)]]
  /\ UNCHANGED <<note, known, result, Elsewhere>>

\* The service writes a new note and keeps the old one as history; it refuses to correct
\* what is not current.
Corrects(c) ==
  /\ doing[c].op = "correct" /\ doing' = [doing EXCEPT ![c] = Idle]
  /\ \E n \in doing[c].left, how \in Outcome :
       IF how = "failed" \/ n \notin Current \/ ~ Room THEN UNCHANGED note /\ Raises(c)
       ELSE /\ note' = Append([note EXCEPT ![n].state = "replaced"],
                              New(doing[c].trust, note[n].home, n))
            /\ IF how = "done" THEN Answers(c, "write", {Len(note')}, "none") ELSE Raises(c)
  /\ UNCHANGED <<calls, Elsewhere>>

\* By one id, or every note a reference names, one after the other.
Forgets(c) ==
  /\ May(c)
  /\ \E named \in SUBSET known[c] \ {{}} :
       doing' = [doing EXCEPT ![c] = [Idle EXCEPT !.op = "forget", !.left = named, !.named = named]]
  /\ UNCHANGED <<note, known, result, Elsewhere>>

ForgetsOne(c) ==
  /\ doing[c].op = "forget"
  /\ \E n \in doing[c].left, how \in Outcome :
       /\ note' = (IF how = "failed" THEN note ELSE [note EXCEPT ![n].state = "hidden"])
       /\ doing' = [doing EXCEPT ![c].left = @ \ {n},
                                 ![c].gone = IF how = "done" THEN @ \union {n} ELSE @,
                                 ![c].kept = IF how = "done" THEN @ ELSE @ \union {n}]
  /\ UNCHANGED <<known, result, calls, Elsewhere>>

\* A token that cannot be minted is not a failure of one note (ExchangeError is neither of the
\* two that are caught): it ends the loop, and nothing is said of what is gone already.
Escapes(c) ==
  /\ doing[c].op = "forget" /\ doing[c].left # {} /\ doing' = [doing EXCEPT ![c] = Idle]
  /\ result' = [NoResult EXCEPT !.by = c, !.of = "error", !.untold = doing[c].gone]
  /\ UNCHANGED <<note, known, calls, Elsewhere>>

\* What became of every one; an error only when none is gone.
Tells(c) ==
  /\ doing[c].op = "forget" /\ doing[c].left = {} /\ doing' = [doing EXCEPT ![c] = Idle]
  /\ IF doing[c].gone = {} THEN Raises(c)
     ELSE /\ result' = [NoResult EXCEPT !.by = c, !.of = "forget", !.named = doing[c].named,
                                        !.gone = doing[c].gone, !.kept = doing[c].kept]
          /\ UNCHANGED known
  /\ UNCHANGED <<note, calls, Elsewhere>>

-----------------------------------------------------------------------------
(* Lessons, which the persona service pins, so many and no more. *)

Pinned == {l \in DOMAIN lesson : lesson[l] = "pinned"}

\* learn, reviseLesson and unlearn say "full" and "not_found" rather than fail.
Learns(c) ==
  /\ May(c)
  /\ IF Cardinality(Pinned) < MaxLessons
     THEN \E l \in DOMAIN lesson : lesson[l] = "absent" /\ lesson' = [lesson EXCEPT ![l] = "pinned"]
     ELSE UNCHANGED lesson
  /\ UNCHANGED <<note, doing, known, result, index, private>>

Unlearns(c) ==
  /\ May(c)
  /\ \E l \in DOMAIN lesson :
       lesson' = IF l \in Pinned THEN [lesson EXCEPT ![l] = "unlearned"] ELSE lesson
  /\ UNCHANGED <<note, doing, known, result, index, private>>

-----------------------------------------------------------------------------
(* The index. *)

\* Only what somebody vouches for is ranked at all.
Eligible(cards) == {i \in DOMAIN cards : cards[i].trusted}

\* Its position between the least and the greatest of the set, of two values.
Position(cards, value, i) ==
  IF \A j \in Eligible(cards) : cards[j][value] = cards[i][value] THEN 0 ELSE cards[i][value]
Score(cards, i) == 50 * Position(cards, "seen", i) + 35 * Position(cards, "importance", i)

\* Best first; equals in the order of their ids, which is that of the cards here.
Before(cards, i, j) ==
  Score(cards, i) > Score(cards, j) \/ (Score(cards, i) = Score(cards, j) /\ i < j)
Ranked(cards) ==
  {s \in [1..Cardinality(Eligible(cards)) -> Eligible(cards)] :
     \A i, j \in DOMAIN s : i < j => Before(cards, s[i], s[j])}

FirstOf(s, n) == SubSeq(s, 1, IF n < Len(s) THEN n ELSE Len(s))
AtLeastOne(n) == IF n = 0 THEN 1 ELSE n

\* MemoryIndex.fetch: a model's opinion may reorder the whole of what is eligible. (Bound: a
\* behaviour is of an index or of notes, which meet only in the service.)
Indexes(c) ==
  /\ c \notin private /\ index = NoIndex /\ note = <<>> /\ calls = 0
  /\ \E cards \in [1..3 -> Card], limit \in Limits, opinion \in {"none", "reversed"} :
     \E ranked \in Ranked(cards) :
       LET asked == opinion # "none" /\ limit > 0
           shown == FirstOf(IF asked THEN Reverse(ranked) ELSE ranked, AtLeastOne(limit)) IN
       index' = [cards |-> cards, limit |-> limit, shown |-> [i \in DOMAIN shown |-> cards[shown[i]]],
                 withheld |-> Len(cards) - Len(ranked), omitted |-> Len(ranked) - Len(shown)]
  /\ UNCHANGED <<note, doing, known, result, lesson, private, calls>>

Next ==
  \/ Distils
  \/ \E c \in Conversation :
       \/ Recalls(c) \/ OpensTopic(c) \/ FailsToRecall(c)
       \/ Writes(c) \/ Confirms(c) \/ ReadsToCorrect(c) \/ Corrects(c)
       \/ Forgets(c) \/ ForgetsOne(c) \/ Escapes(c) \/ Tells(c)
       \/ Learns(c) \/ Unlearns(c) \/ Indexes(c)

Spec == Init /\ [][Next]_vars

-----------------------------------------------------------------------------
\* The shape of every variable.
TypeOK ==
  /\ note \in Seq([trust : ToSet(Ladder), confirmed : BOOLEAN, from : Nat, origin : ToSet(Ladder),
                   state : {"current", "replaced", "hidden"}, home : Conversation \union {Everybody}])
  /\ \A c \in Conversation : doing[c].op \in {"idle", "correct", "forget"}
  /\ lesson \in [1..MaxLessons + 1 -> {"absent", "pinned", "unlearned"}]
  /\ private \subseteq Conversation /\ calls \in 0..MaxCalls

\* The notes a note descends from by corrections, itself among them.
Line(n) ==
  {m \in DOMAIN note : \A s \in SUBSET DOMAIN note :
     n \in s /\ (\A k \in s : note[k].from \in s \union {0}) => m \in s}

Vouched(n) ==
  \E m \in Line(n) : note[m].confirmed \/ (note[m].from = 0 /\ note[m].origin # "untrusted")

\* "Trust laundered by an edit" (CORRECTION_CARRIES): however notes are corrected, confirmed
\* and forgotten by conversations at once, a recall holds only what the person, or a source
\* the person lets Lucy rely on, stands behind, as far down as the person's floor.
RecallIsVouched ==
  result.of = "recall" =>
    \A n \in result.notes :
      Vouched(n) /\ note[n].home \in {Everybody, result.by} /\ result.floor \in Floors

\* Whatever holds a note is framed as no more trusted than the least trusted of its notes.
LabelIsTheLeast ==
  \A t \in result.trusts : Place(t) <= Place(result.label)

\* A forget that is answered says "what became of every one" it was asked for, and what it
\* says is gone is gone. (One that ends with an error says nothing: FailureHidesNothing.)
ForgottenIsTold ==
  result.of = "forget" => /\ result.named = result.gone \union result.kept
                          /\ \A n \in result.gone : note[n].state = "hidden"

\* What was not vouched for is neither in the index nor felt in its order.
IndexIsVouched ==
  /\ \A i \in DOMAIN index.shown : index.shown[i].trusted
  /\ Len(index.shown) + index.omitted + index.withheld = Len(index.cards)

\* The four together: what reaches a turn of what is remembered, and of what is forgotten.
NotesAreVouched == RecallIsVouched /\ LabelIsTheLeast /\ ForgottenIsTold /\ IndexIsVouched

-----------------------------------------------------------------------------
(* Refuted. *)

\* A note the person confirmed is used; a correction of it is a note nobody confirmed.
CorrectionStaysVouched ==
  \A n \in Current : note[n].from # 0 /\ note[note[n].from].confirmed
                     => note[n].confirmed \/ note[n].trust # "untrusted"

\* A note the person vouched for can be recalled: where the service keeps its trust as it
\* was, no floor admits it.
ConfirmedIsWithinAFloor ==
  \A n \in Current : note[n].confirmed => \E floor \in Floors : n \in WithinFloor({n}, floor)

\* The person's floor holds for whatever a recall shows: openTopic does not look at it.
FloorHoldsInTopics ==
  result.of = "topic" => "inferred" \notin result.trusts

\* "A failure part way must not hide which notes are already gone": one to mint a token does.
FailureHidesNothing == result.untold = {}

\* What is reported as kept is there: its answer may have been lost.
KeptIsThere == \A n \in result.kept : note[n].state # "hidden"

\* A limit of no memories shows no topic.
LimitIsKept == Len(index.shown) <= index.limit
=============================================================================
