------------------------------ MODULE Approvals ------------------------------
(***************************************************************************)
(* What one turn may do without asking, what it asks, and how the calls a  *)
(* person approved are run: the gate (permissions/gate.py), the cards      *)
(* (permissions/approvals.py), the grants (permissions/store.py), the      *)
(* replay (permissions/replay.py), and the part of turn/supervisor.py and  *)
(* turn/loop.py that uses them.                                            *)
(*                                                                         *)
(* A call is a step: the same step in two plans is the same operation with *)
(* the same arguments. A plan is the set of its steps, in the order of     *)
(* their numbers. A step of the model is one transaction or one plan.      *)
(***************************************************************************)
EXTENDS Naturals, Sequences, FiniteSets

CONSTANTS
  NumSteps,    \* the calls a model can plan are 1..NumSteps
  Permission,  \* the permissions the packs declare
  Covers,      \* permission -> the calls it is asked for
  EachCall,    \* calls that need a yes of their own (Permission.each_call)
  Always,      \* permissions that auto mode has to ask for (_approval_floor)
  Reads,       \* call -> the calls whose results it refers to
  MaxPlans,    \* bound: plans the model proposes
  MaxCards,    \* bound: cards the turn opens
  MaxEdits     \* bound: changes of the mode or of a grant by the person

Step == 1..NumSteps

ApprovalsAssumption ==
  /\ NumSteps \in Nat /\ MaxPlans \in Nat /\ MaxCards \in Nat /\ MaxEdits \in Nat
  /\ Covers \in [Permission -> SUBSET Step]
  /\ \A p, q \in Permission : p # q => Covers[p] \intersect Covers[q] = {}
  /\ EachCall \subseteq UNION {Covers[p] : p \in Permission}
  /\ Always \subseteq Permission
  /\ Reads \in [Step -> SUBSET Step] /\ \A s \in Step : \A r \in Reads[s] : r < s

Gated == UNION {Covers[p] : p \in Permission}
Of(s) == CHOOSE p \in Permission : s \in Covers[p]
Mode == {"ask", "auto", "plan"}
Decision == {"none", "allow", "deny"}

VARIABLES
  row,       \* turns.status: a turn that is over stays "over"
  task,      \* where the run of the turn is, or "none"
  mode,      \* sessions.permission_mode
  modeSeen,  \* PackContext.permission_mode
  standing,  \* permission_grants, for the widest grant of each permission
  allowed,   \* PackContext.grants by permission
  once,      \* PackContext.grants by call
  cards,     \* the approvals rows of the turn
  plan,      \* the plan that is being parked
  asking,    \* its calls whose card is still to open
  parked,    \* its calls that were asked about or denied
  opening,   \* opening_calls: <<card, call>> that the opening plan carries
  ran,       \* call -> how often it was run
  told,      \* <<card, call>> the model was told had been approved and did not run
  plans, edits

rows == <<row, mode, standing, cards>>
context == <<modeSeen, allowed, once>>
parking == <<plan, asking, parked>>
vars == <<rows, task, context, parking, opening, ran, told, plans, edits>>

CardOf == 1..Len(cards)

Init ==
  /\ row = "running" /\ task = "round"
  /\ mode \in Mode /\ modeSeen = mode
  /\ standing = [p \in Permission |-> "none"] /\ allowed = standing
  /\ once = [s \in Step |-> "none"]
  /\ cards = << >>
  /\ plan = {} /\ asking = {} /\ parked = {} /\ opening = {}
  /\ ran = [s \in Step |-> 0] /\ told = {}
  /\ plans = 0 /\ edits = 0

-----------------------------------------------------------------------------
(* The gate. *)

\* The person's answer to this call, or the grant that stands in for it.
Given(s) == IF once[s] # "none" THEN once[s] ELSE IF s \in EachCall THEN "none" ELSE allowed[Of(s)]

Denied(s) == s \in Gated /\ (modeSeen = "plan" \/ Given(s) = "deny")
Asked(s) ==
  /\ s \in Gated /\ modeSeen # "plan" /\ Given(s) = "none"
  /\ s \in EachCall \/ Of(s) \in Always \/ modeSeen # "auto"

-----------------------------------------------------------------------------
(* What a call needs from its plan. *)

\* A plan reads only from its own steps: the executor checks references first.
Closed(calls) == \A s \in calls : Reads[s] \subseteq calls

\* The call, and what it reads, at any remove: what every such plan with the call has in it.
ReadBy(s) == {r \in Step : \A calls \in SUBSET Step : s \in calls /\ Closed(calls) => r \in calls}

\* needs(): with the calls before it that were free to run.
Needs(s, of, held) ==
  of \intersect UNION {ReadBy(r) : r \in {s} \union {t \in of : t < s /\ t \notin held}}

\* What an approval stores of one call.
Entry(s, of, held) ==
  [plan |-> of, needs |-> Needs(s, of, held), gated |-> (Needs(s, of, held) \ {s}) \intersect held]

-----------------------------------------------------------------------------
(* A round of the loop. *)

\* assemble() reads the session again; the grants stay as they were at the claim.
Assembles ==
  /\ task = "round"
  /\ modeSeen' = mode /\ task' = "asked"
  /\ UNCHANGED <<rows, allowed, once, parking, opening, ran, told, plans, edits>>

Runs(calls) == ran' = [s \in Step |-> ran[s] + IF s \in calls THEN 1 ELSE 0]

\* A plan that has to ask is parked whole.
ParksOn(calls) ==
  /\ plan' = calls
  /\ asking' = {s \in calls : Asked(s)}
  /\ parked' = {s \in calls : Asked(s) \/ Denied(s)}
  /\ task' = "parking"
  /\ UNCHANGED ran

\* One that has only denied calls in it is refused whole, and the model is told.
Refuses(calls) ==
  /\ task' = "round"
  /\ UNCHANGED <<parking, ran>>

Executes(calls) ==
  IF \E s \in calls : Asked(s) THEN ParksOn(calls)
  ELSE IF \E s \in calls : Denied(s) THEN Refuses(calls)
  ELSE task' = "round" /\ Runs(calls) /\ UNCHANGED parking

Proposes(calls) ==
  /\ task = "asked" /\ plans < MaxPlans
  /\ calls # {} /\ Closed(calls)
  /\ plans' = plans + 1
  /\ Executes(calls)
  /\ UNCHANGED <<rows, context, opening, told, edits>>

\* What a run holds in memory goes with it.
LeavesRun ==
  /\ modeSeen' = "ask" /\ allowed' = [p \in Permission |-> "none"]
  /\ once' = [s \in Step |-> "none"]
  /\ plan' = {} /\ parked' = {}

\* The answer, a cancel, a budget: the turn is over.
Ends ==
  /\ task \in {"round", "asked"}
  /\ row' = "over" /\ task' = "none"
  /\ LeavesRun
  /\ UNCHANGED <<mode, standing, cards, asking, opening, ran, told, plans, edits>>

\* open_approval, for all the calls of one permission. A turn cancelled since the first card
\* takes no more of them.
OpensCard(p) ==
  LET calls == asking \intersect Covers[p] IN
  /\ task = "parking" /\ calls # {} /\ Len(cards) < MaxCards
  /\ IF row = "over" THEN UNCHANGED <<row, cards>> /\ asking' = {} /\ task' = "none"
     ELSE /\ row' = "input_required"
          /\ cards' = Append(cards,
               [status |-> "pending", executed |-> FALSE,
                calls |-> [s \in calls |-> Entry(s, plan, parked)]])
          /\ asking' = asking \ calls
          /\ task' = IF asking' = {} THEN "none" ELSE "parking"
  /\ IF task' = "none" THEN LeavesRun ELSE UNCHANGED <<context, plan, parked>>
  /\ UNCHANGED <<mode, standing, opening, ran, told, plans, edits>>

-----------------------------------------------------------------------------
(* The person. *)

Pending == {c \in CardOf : cards[c].status = "pending"}

\* answer_approval: for this call, or for good. No card is known before the last is open.
Answers(c, decision, forGood) ==
  /\ row = "input_required" /\ c \in Pending /\ task = "none"
  /\ cards' = [cards EXCEPT ![c].status = IF decision = "allow" THEN "granted" ELSE "denied"]
  /\ row' = IF Pending = {c} THEN "queued" ELSE row
  /\ standing' = IF ~forGood THEN standing
                 ELSE [p \in Permission |->
                         IF DOMAIN cards[c].calls \subseteq Covers[p] THEN decision ELSE standing[p]]
  /\ UNCHANGED <<mode, task, context, parking, opening, ran, told, plans, edits>>

\* PATCH of the session, PUT and DELETE of a permission: at any time
\* (of interest while the turn lives).
Edits ==
  /\ edits < MaxEdits /\ row # "over"
  /\ \/ mode' \in Mode \ {mode} /\ UNCHANGED standing
     \/ /\ \E p \in Permission, d \in Decision : standing' = [standing EXCEPT ![p] = d]
        /\ UNCHANGED mode
  /\ edits' = edits + 1
  /\ UNCHANGED <<row, cards, task, context, parking, opening, ran, told, plans>>

\* A turn that waits, for the person or for its slot, is cancelled on the spot.
Cancels ==
  /\ row \in {"input_required", "queued"}
  /\ row' = "over"
  /\ UNCHANGED <<mode, standing, cards, task, context, parking, opening, ran, told, plans, edits>>

-----------------------------------------------------------------------------
(* The run of a turn whose cards are answered. *)

\* grants_for: an answer on this turn that is not spent wins over what stands.
OnceFrom(s, status) ==
  \E c \in CardOf : s \in DOMAIN cards[c].calls /\ cards[c].status = status /\ ~cards[c].executed

Claims ==
  /\ row = "queued" /\ task = "none"
  /\ row' = "running" /\ task' = "claimed"
  /\ modeSeen' = mode /\ allowed' = standing
  /\ once' = [s \in Step |-> IF OnceFrom(s, "denied") THEN "deny"
                             ELSE IF OnceFrom(s, "granted") THEN "allow" ELSE "none"]
  /\ UNCHANGED <<mode, standing, cards, parking, opening, ran, told, plans, edits>>

\* approved_calls: what was granted and has not run.
Approved ==
  UNION {{<<c, s>> : s \in DOMAIN cards[c].calls} :
           c \in {d \in CardOf : cards[d].status = "granted" /\ ~cards[d].executed}}
PlanOf(a) == cards[a[1]].calls[a[2]].plan

\* replay(): a call that reads from one the person did not approve is held.
Held == {a \in Approved :
           \E g \in cards[a[1]].calls[a[2]].gated :
             ~\E b \in Approved : b[2] = g /\ PlanOf(b) = PlanOf(a)}

Spent(executed, calls) ==
  [c \in CardOf |-> IF \E a \in calls : a[1] = c THEN [cards[c] EXCEPT !.executed = executed]
                    ELSE cards[c]]

\* mark_executed comes before the calls run. A conversation over its budget ends here.
Marks ==
  /\ task = "claimed"
  /\ cards' = Spent(TRUE, Approved)
  /\ opening' = Approved \ Held
  /\ told' = told \union Held
  /\ once' = [s \in Step |-> IF \E a \in Held : a[2] = s THEN "none" ELSE once[s]]
  /\ \/ row' = "over" /\ task' = "none"
     \/ row' = "running" /\ task' = IF opening' = {} THEN "round" ELSE "opening"
  /\ UNCHANGED <<mode, standing, modeSeen, allowed, parking, ran, plans, edits>>

OpeningPlan == UNION {cards[a[1]].calls[a[2]].needs : a \in opening}

\* reopen(): the calls of a plan that parked again are given back as calls of that plan.
GivesBack_AsTheyWere(calls, asked) == Spent(FALSE, opening)
GivesBack(calls, asked) ==
  [c \in CardOf |->
     [Spent(FALSE, opening)[c] EXCEPT !.calls =
        [s \in DOMAIN @ |-> IF <<c, s>> \in opening THEN Entry(s, calls, asked) ELSE @[s]]]]

\* The opening plan goes through the gate again. Its approvals are used up either way.
Opens ==
  /\ task = "opening"
  /\ LET asked == {s \in OpeningPlan : Asked(s)} IN
       cards' = IF asked = {} THEN cards ELSE GivesBack(OpeningPlan, asked)
  /\ Executes(OpeningPlan)
  /\ once' = [s \in Step |-> IF \E a \in opening : a[2] = s THEN "none" ELSE once[s]]
  /\ opening' = {}
  /\ UNCHANGED <<row, mode, standing, modeSeen, allowed, told, plans, edits>>

\* The process dies: the next one fails what was running, and leaves what waited.
Crashes ==
  /\ task # "none"
  /\ task' = "none" /\ row' = IF row = "running" THEN "over" ELSE row
  /\ opening' = {} /\ asking' = {}
  /\ LeavesRun
  /\ UNCHANGED <<mode, standing, cards, ran, told, plans, edits>>

Next ==
  \/ Assembles \/ Ends \/ Claims \/ Marks \/ Opens
  \/ \E calls \in SUBSET Step : Proposes(calls)
  \/ \E p \in Permission : OpensCard(p)
  \/ \E c \in CardOf, d \in {"allow", "deny"}, forGood \in BOOLEAN : Answers(c, d, forGood)
  \/ Edits \/ Cancels \/ Crashes

Spec == Init /\ [][Next]_vars

\* The loop and the worker go on, and a queued turn is claimed (Turns!QueuedTurnStarts).
FairSpec ==
  /\ Spec
  /\ WF_vars(Claims) /\ WF_vars(Marks) /\ WF_vars(Opens)

-----------------------------------------------------------------------------
TypeOK ==
  /\ row \in {"running", "input_required", "queued", "over"}
  /\ task \in {"none", "round", "asked", "parking", "claimed", "opening"}
  /\ mode \in Mode /\ modeSeen \in Mode
  /\ standing \in [Permission -> Decision] /\ allowed \in [Permission -> Decision]
  /\ once \in [Step -> Decision]
  /\ \A c \in CardOf :
       /\ cards[c].status \in {"pending", "granted", "denied"}
       /\ cards[c].executed \in BOOLEAN
       /\ \A s \in DOMAIN cards[c].calls :
            cards[c].calls[s] \in [plan : SUBSET Step, needs : SUBSET Step, gated : SUBSET Step]
  /\ plan \subseteq Step /\ asking \subseteq parked /\ parked \subseteq plan
  /\ opening \subseteq CardOf \X Step /\ told \subseteq CardOf \X Step
  /\ ran \in [Step -> Nat]
  /\ plans \in 0..MaxPlans /\ edits \in 0..MaxEdits

Yeses(s) == Cardinality({c \in CardOf : s \in DOMAIN cards[c].calls /\ cards[c].status = "granted"})

\* A call that needs a yes of its own runs at most once for each yes the person gave to it,
\* whatever the mode, the grants, replays, crashes and plans in between
\* ("At most once is the promise an approval card makes").
EachRunHasItsYes == \A s \in EachCall : ran[s] <= Yeses(s)

Refused == {s \in Step : \E c \in CardOf : s \in DOMAIN cards[c].calls /\ cards[c].status = "denied"}

\* The plan that carries the approved calls reads only from its own steps, whatever plans it
\* was put together from; and it holds none refused, until a setting was changed and an
\* approved call had to be held (RefusedStaysRefused).
ReplayIsClosed ==
  task = "opening" =>
    /\ Closed(OpeningPlan)
    /\ told = {} \/ edits = 0 => OpeningPlan \intersect Refused = {}

\* An approval that is given back is one the next run finds: the turn parked because of it
\* waits for a card, and no call it carried has run meanwhile.
GivenBackIsUnspent ==
  [][\A c \in CardOf :
       cards[c].executed /\ ~cards'[c].executed =>
         task' = "parking" /\ asking' # {} /\ ran' = ran]_vars

\* Calls the person approved are taken up, once the last card is answered.
ApprovedIsTakenUp ==
  \A s \in Step :
    (row = "queued" /\ \E a \in Approved : a[2] = s)
      ~> (row = "over" \/ ~\E a \in Approved : a[2] = s)

-----------------------------------------------------------------------------
(* Promises the code makes and does not keep. *)

\* "An approved call in a plan that parked has not run and its approval is not spent": one
\* the gate denies, in plan mode or under a new deny, is spent and has not run.
SpentMeansRan ==
  \A c \in CardOf : (cards[c].executed /\ task \in {"round", "asked"}) =>
    \A s \in DOMAIN cards[c].calls : ran[s] > 0 \/ <<c, s>> \in told

\* "A call that reads from something the person refused is not run" (replay.py:23): a held
\* call is given back with the card it shares, and asked again on another; a no to that one
\* is dropped with the call that is held again, and its old yes lets through what reads it.
RefusedStaysRefused == [][\A s \in Refused : ran'[s] = ran[s]]_vars
=============================================================================
