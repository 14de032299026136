------------------------------- MODULE TurnLoop -------------------------------
(***************************************************************************)
(* The loop of one turn (turn/loop.py): ask the model, hold a reply back   *)
(* (turn/claims.py, turn/keeping.py), run its plan, and stop for one named *)
(* reason (turn/stop.py), with what the person reads while it runs         *)
(* (turn/project.py) beside what the transcript keeps.                     *)
(*                                                                         *)
(* A reply is whether it has words and how many steps it plans; what a     *)
(* plan does is how the executor answers it. Cancelling is another actor.  *)
(***************************************************************************)
EXTENDS Naturals, Sequences, FiniteSets, SequencesExt

CONSTANTS
  MaxIterations,  \* Budget.max_iterations
  MaxToolCalls,   \* Budget.max_tool_calls
  MaxRepairs,     \* MAX_PLAN_REPAIRS
  MaxSteps,       \* bound: the steps of a plan
  MaxItems,       \* bound: the items of the transcript the model remembers
  Resumes,          \* whether the turn resumes with an opening plan of approved calls
  HasFallback     \* whether there is a model to fall back to

TurnLoopAssumption ==
  /\ MaxIterations \in Nat \ {0} /\ MaxToolCalls \in Nat \ {0}
  /\ MaxRepairs \in Nat /\ MaxSteps \in Nat \ {0} /\ MaxItems \in Nat /\ MaxItems > MaxRepairs + 1
  /\ Resumes \in BOOLEAN /\ HasFallback \in BOOLEAN

VARIABLES
  at,         \* where the loop is
  reply,      \* the reply in hand
  spent,      \* rounds, tool calls, and whether the tokens or the clock have run out
  repairs,    \* replies rejected in a row
  heldBack,   \* the checks that have held a reply back, once each
  warned,     \* whether the notice of the last request warned of the rounds
  worked,     \* whether a step did something other than bookkeeping
  cancelled,  \* whether somebody asked the turn to stop
  items,      \* the last of what the turn appended to the transcript; a plan's results are one
  spoken,     \* StreamProjector._spoken: text of a call that has not reached its end
  read,       \* what the person was sent as text: whole replies, mixed ones, held ones
  end         \* Outcome.termination, once the loop has returned

told == <<items, spoken, read>>
vars == <<at, reply, spent, repairs, heldBack, warned, worked, cancelled, told, end>>

Checks == {"claims", "keeping"}
\* Whether the model wrote words, the steps of its plan, whether it declines; and whether the
\* note of a fallback was put in front.
Reply == [words : BOOLEAN, steps : 0..MaxSteps, refuses : BOOLEAN, noted : BOOLEAN]
NoReply == [words |-> FALSE, steps |-> 0, refuses |-> FALSE, noted |-> FALSE]

Init ==
  /\ at = IF Resumes THEN "opening" ELSE "top"
  /\ reply = NoReply
  /\ spent = [rounds |-> 0, calls |-> 0, over |-> FALSE]
  /\ repairs = 0 /\ heldBack = {} /\ warned = FALSE /\ worked = FALSE
  /\ cancelled = FALSE
  /\ items = << >> /\ spoken = FALSE /\ read = {}
  /\ end = "running"

Goes(there) == at' = there /\ UNCHANGED end
Stops(why) == at' = "ended" /\ end' = why

CancelTurn ==
  /\ ~cancelled /\ end = "running" /\ cancelled' = TRUE
  /\ UNCHANGED <<at, reply, spent, repairs, heldBack, warned, worked, told, end>>

-----------------------------------------------------------------------------
(* When to stop, and when to say so. *)

\* should_stop: time and tokens, then calls, then rounds.
LimitHit ==
  IF spent.over THEN "max_budget"
  ELSE IF spent.calls >= MaxToolCalls \/ spent.rounds >= MaxIterations THEN "max_iterations"
  ELSE "none"

\* warning_for names the rounds first, from four fifths of them.
WarnsOfRounds == 5 * spent.rounds >= 4 * MaxIterations

\* The top of the loop: a cancel, a limit, or another request with its notice.
Top ==
  /\ at = "top"
  /\ IF cancelled THEN Stops("cancelled") /\ UNCHANGED warned
     ELSE IF LimitHit # "none" THEN Stops(LimitHit) /\ UNCHANGED warned
     ELSE Goes("asking") /\ warned' = WarnsOfRounds
  /\ UNCHANGED <<reply, spent, repairs, heldBack, worked, cancelled, told>>

-----------------------------------------------------------------------------
(* One model call, with one retry on the fallback. *)

\* "Answered by ... because the chosen model was unavailable", the whole text of a reply that
\* had none.
MarksFallback(r) == [r EXCEPT !.noted = (at = "falling_back")]

\* A reply comes whole. Its text is sent on unless it plans something, with whatever an
\* earlier call had streamed before it broke; the note is not sent.
Answers(r) ==
  /\ at \in {"asking", "falling_back"} /\ Goes("replied") /\ reply' = MarksFallback(r)
  /\ \E over \in {spent.over, TRUE} : spent' = [spent EXCEPT !.rounds = @ + 1, !.over = over]
  /\ spoken' = FALSE
  /\ read' = IF r.steps > 0 \/ ~(r.words \/ spoken) THEN read
             ELSE read \union {IF spoken THEN "mixed" ELSE "whole"}
  /\ UNCHANGED <<repairs, heldBack, warned, worked, cancelled, items>>

\* It cannot be reached: the fallback is asked, once. Any other failure ends the turn.
Fails(how) ==
  /\ at \in {"asking", "falling_back"}
  /\ IF how = "unavailable" /\ HasFallback /\ at = "asking" THEN Goes("falling_back")
     ELSE Stops(IF how = "refused" THEN "refused" ELSE "failed")
  /\ spoken' \in {spoken, TRUE}
  /\ UNCHANGED <<reply, spent, repairs, heldBack, warned, worked, cancelled, items, read>>

-----------------------------------------------------------------------------
(* A reply. *)

\* Asked of a decision, and only of a reply that plans nothing: "claims" in a turn where
\* nothing was done, "keeping" in any. What was held back has been streamed already.
MayHold(check) ==
  /\ reply.steps = 0 /\ check \notin heldBack
  /\ check = "claims" => ~worked

HoldsBack(check) ==
  /\ at = "replied" /\ MayHold(check)
  /\ heldBack' = heldBack \union {check} /\ Goes("top")
  /\ read' = IF reply.words THEN read \union {"held"} ELSE read
  /\ UNCHANGED <<reply, spent, repairs, warned, worked, cancelled, items, spoken>>

Said(words, item) == IF words THEN << item >> ELSE << >>

\* Appends to the transcript; the model remembers the last of it.
Adds(new) ==
  LET all == items \o new IN items' = SubSeq(all, Max({1, Len(all) - MaxItems + 1}), Len(all))

\* The text of a reply: the model's words, the note, or both.
HasText == reply.words \/ reply.noted

\* Not _said_nothing: text, or the model declining.
Finished == HasText \/ reply.refuses

\* Prose is kept before the cancel is looked at, and a budget does not fail an answer that
\* has just been given.
Speaks ==
  /\ at = "replied" /\ reply.steps = 0
  /\ LET kept == Said(HasText, IF reply.words THEN "answer" ELSE "note") IN
       \/ /\ cancelled /\ Stops("cancelled") /\ Adds(kept) /\ UNCHANGED repairs
       \/ /\ ~cancelled /\ Finished
          /\ Stops(IF reply.refuses THEN "refused" ELSE "success")
          /\ Adds(kept) /\ UNCHANGED repairs
       \/ /\ ~cancelled /\ ~Finished
          /\ Adds(<< "error" >>)
          /\ IF repairs < MaxRepairs THEN Goes("top") /\ repairs' = repairs + 1
             ELSE Stops("failed") /\ UNCHANGED repairs
  /\ UNCHANGED <<reply, spent, heldBack, warned, worked, cancelled, spoken, read>>

\* A plan is run unless the turn was cancelled or has no more to spend.
Acts ==
  /\ at = "replied" /\ reply.steps > 0
  /\ IF cancelled THEN Stops("cancelled")
     ELSE IF LimitHit # "none" THEN Stops(LimitHit) ELSE Goes("running")
  /\ UNCHANGED <<reply, spent, repairs, heldBack, warned, worked, cancelled, told>>

-----------------------------------------------------------------------------
(* A plan, the model's or the opening one, which is a reply without words. *)

Running == at \in {"opening", "running"}
Planned == IF at = "opening" THEN {1} ELSE {reply.steps}
Beside == at = "running" /\ HasText

\* What was written beside the plan is said once the plan has run.
Ran ==
  /\ Running /\ Goes("top")
  /\ Adds(Said(Beside, "beside") \o << "results" >>)
  /\ repairs' = 0 /\ worked' \in {worked, TRUE}
  /\ \E steps \in Planned, over \in {spent.over, TRUE} :
       spent' = [spent EXCEPT !.calls = @ + steps, !.over = over]
  /\ UNCHANGED <<reply, heldBack, warned, cancelled, spoken, read>>

\* The gate asks about a write: the turn is parked, whatever was cancelled meanwhile.
Parks ==
  /\ Running /\ Stops("input_required")
  /\ UNCHANGED <<reply, spent, repairs, heldBack, warned, worked, cancelled, told>>

Denied_Said == Said(Beside, "beside") \o << "denied" >>
Denied == << "denied" >>

IsDenied_Free ==
  /\ Running /\ Goes("top") /\ Adds(Denied)
  /\ spent' = IF at = "running" THEN [spent EXCEPT !.rounds = @ - 1] ELSE spent
  /\ UNCHANGED <<reply, repairs, heldBack, warned, worked, cancelled, spoken, read>>
\* It refuses one: the model is told, and none of the plan ran.
IsDenied ==
  /\ Running /\ Goes("top")
  /\ Adds(Denied)
  /\ UNCHANGED <<reply, spent, repairs, heldBack, warned, worked, cancelled, spoken, read>>

\* It cannot be understood: handed back, until the repairs run out.
IsInvalid ==
  /\ Running
  /\ IF repairs < MaxRepairs
     THEN Goes("top") /\ Adds(<< "error" >>) /\ repairs' = repairs + 1
     ELSE Stops("failed") /\ Adds(<< "error", "results" >>) /\ UNCHANGED repairs
  /\ UNCHANGED <<reply, spent, heldBack, warned, worked, cancelled, spoken, read>>

Next ==
  \/ CancelTurn
  \/ Top
  \/ \E r \in Reply : ~r.noted /\ (r.refuses => r.steps = 0) /\ Answers(r)
  \/ \E how \in {"refused", "unavailable", "broken"} : Fails(how)
  \/ \E check \in Checks : HoldsBack(check)
  \/ Speaks \/ Acts
  \/ Ran \/ Parks \/ IsDenied \/ IsInvalid

Spec == Init /\ [][Next]_vars

\* The loop is served; a model call and a plan each end, at their own clocks if not before.
FairSpec == Spec /\ WF_vars(Next)

-----------------------------------------------------------------------------
TypeOK ==
  /\ at \in {"opening", "top", "asking", "falling_back", "replied", "running", "ended"}
  /\ reply \in Reply
  /\ spent.rounds \in 0..MaxIterations /\ spent.calls \in 0..(MaxToolCalls + MaxSteps)
  /\ spent.over \in BOOLEAN
  /\ repairs \in 0..MaxRepairs /\ heldBack \subseteq Checks
  /\ warned \in BOOLEAN /\ worked \in BOOLEAN /\ cancelled \in BOOLEAN
  /\ items \in Seq({"answer", "note", "beside", "results", "denied", "error"})
  /\ spoken \in BOOLEAN /\ read \subseteq {"whole", "mixed", "held"}
  /\ end \in {"running", "success", "max_iterations", "max_budget", "cancelled", "refused",
              "failed", "input_required"}

\* A turn that says it succeeded ends with what it said to the person: the model's words, or,
\* where it fell back to a model that wrote none, the note that it did.
NoSilentSuccess ==
  end = "success" =>
    items # << >> /\ (Last(items) = "answer" \/ (Last(items) = "note" /\ reply.noted))

\* Words beside a plan are only said when the plan ran: parked, denied, invalid, cut short by
\* a limit or a cancel, none of them reached the person.
NothingSaidThatDidNotRun ==
  \A i \in DOMAIN items : items[i] = "beside" => i < Len(items) /\ items[i + 1] = "results"

\* A model that is stopped for its rounds was told before its last one, whatever else the
\* rounds went into; so it is when there are five of them or more.
WarnedOfRounds ==
  MaxIterations >= 5 /\ end = "max_iterations" /\ spent.calls < MaxToolCalls => warned

\* A reply is rejected at most so often before one is taken, or the turn fails.
RejectionsEnd ==
  \A i \in DOMAIN items : \A n \in 0..(Len(items) - i) :
    (\A j \in i..(i + n) : items[j] = "error") => n <= MaxRepairs

\* Every turn ends, for whatever reason: denials, held replies and repairs use its rounds up.
EndsInTheEnd == <>(end # "running")

-----------------------------------------------------------------------------
(* Promises the code makes and does not keep. *)

\* "Fail rather than succeed silently": the note of a fallback is text enough to succeed, though
\* its model wrote nothing.
SuccessIsAnAnswer == end = "success" => items # << >> /\ Last(items) = "answer"

\* "Held back before it reaches the transcript: a false 'I've saved that' read once is
\* believed": the projector has sent it by then.
HeldBackIsNotRead == "held" \notin read

\* A reply reaches the person as the model wrote it: not after a call that broke halfway,
\* whose words are put in front of the fallback's.
ReadAsWritten == "mixed" \notin read

\* "What it was about to say is not lost: it answers again": not when it was the last round.
HeldBackAnswersAgain == heldBack # {} => end \notin {"max_iterations", "max_budget"}

\* "Told before it runs out": not of fewer than five rounds, nor of calls that come at once.
WarnedBeforeItRunsOut == end = "max_iterations" => warned

\* "A cancel ends the turn whatever it was doing": a turn resumed with approved calls runs
\* them first.
CancelEndsIt == [][(cancelled /\ at = "opening") => end' \in {"running", "cancelled"} /\ at' # "top"]_vars
=============================================================================
