-------------------------------- MODULE Binding --------------------------------
(***************************************************************************)
(* Which capabilities of a conversation can be called (packs/service.py,   *)
(* packs/registry.py): past a threshold only the most recently used stay   *)
(* bound, a plan that reaches for another one has it loaded, and the next  *)
(* round is told what is bound by then.                                    *)
(*                                                                         *)
(* The conversation's turn, its helpers and a request that invokes one     *)
(* tool share its recency; each has a catalogue of its own, of what was    *)
(* ready when it probed. A step is what runs between two awaits.           *)
(***************************************************************************)
EXTENDS Naturals, Sequences, FiniteSets, SequencesExt

CONSTANTS
  Actor,         \* who calls: of "turn", "helper" and "request"
  Pack,          \* the capabilities
  Catalogues,    \* what a probe of them may find ready: sets of packs
  Free,          \* ALWAYS: those that are never held back
  First,         \* pack -> its place when nothing was used: preferred, FIRST_LOADED, then id
  DeferAbove,    \* DEFER_ABOVE
  KeepRecent,    \* KEEP_RECENT
  Habits,        \* what recent_capabilities may answer: sequences of packs, each once
  Suggestions,   \* what suggest_capabilities may answer: sets of packs
  MaxSteps,      \* bound: capabilities a plan names
  MaxPlans       \* bound: plans, approved ones that run again included

BindingAssumption ==
  /\ Actor \subseteq {"turn", "helper", "request"} /\ Catalogues \subseteq SUBSET Pack
  /\ Free \subseteq Pack /\ First \in [Pack -> Nat]
  /\ DeferAbove \in Nat /\ KeepRecent \in Nat \ {0} /\ MaxSteps \in Nat /\ MaxPlans \in Nat
  /\ Habits \subseteq Seq(Pack) /\ Suggestions \subseteq SUBSET Pack

NoUses == << >>
Plan == UNION {[1..n -> Pack] : n \in 1..MaxSteps}

VARIABLES
  uses,       \* Capabilities._uses of the session: pack -> those used since it was, or all of
              \* them if it never was; NoUses while there is no entry
  place,      \* actor -> idle, seeding, probed, shown, planned, running, refused, parked, resumed
  ready,      \* actor -> what its catalogue says is ready
  suggested,  \* actor -> what its catalogue suggests
  plan,       \* actor -> the capabilities of the plan under way, in the order of its steps
  binds,      \* actor -> what a capabilities.use step of it asked for (context.bound_ids)
  lacked,     \* actor -> history: how many of the plan's capabilities were held back
  plans       \* plans so far

vars == <<uses, place, ready, suggested, plan, binds, lacked, plans>>

Init ==
  /\ uses = NoUses /\ plans = 0
  /\ place = [a \in Actor |-> "idle"] /\ ready = [a \in Actor |-> {}]
  /\ suggested = [a \in Actor |-> {}] /\ plan = [a \in Actor |-> <<>>]
  /\ binds = [a \in Actor |-> {}] /\ lacked = [a \in Actor |-> 0]

Goes(a, there) == place' = [place EXCEPT ![a] = there]
\* The plan under way is over.
Forgets(a) ==
  /\ plan' = [plan EXCEPT ![a] = <<>>] /\ binds' = [binds EXCEPT ![a] = {}]
  /\ lacked' = [lacked EXCEPT ![a] = 0]

-----------------------------------------------------------------------------
(* Recency, and what it binds. *)

Recent(used) == IF used = NoUses THEN [p \in Pack |-> Pack] ELSE used
Used(used) == {p \in Pack : p \notin Recent(used)[p]}

Remembered_AtTheEnd(used, p) ==
  [q \in Pack |-> IF q = p THEN Used(used) \ {p}
                  ELSE IF q \in Used(used) THEN Recent(used)[q] \ {p} ELSE Pack]
Remembered(used, p) == [q \in Pack |-> IF q = p THEN {} ELSE Recent(used)[q] \union {p}]

\* The order of what is kept: the most recently used first, then what comes first anyway.
Before(used, p, q) ==
  /\ p \in Recent(used)[q]
  /\ q \in Recent(used)[p] => First[p] < First[q]

\* choose_bound: the free ones are not charged to the slots.
Kept(used, able) ==
  IF Cardinality(able) <= DeferAbove THEN able
  ELSE {p \in able : \/ p \in Free
                     \/ Cardinality({q \in able \ Free : Before(used, q, p)}) < KeepRecent}

\* bound_for.
Bound(a, used) == Kept(used, ready[a]) \union (suggested[a] \intersect ready[a])
Deferred(a, used) == ready[a] \ Bound(a, used)

\* A guess fills all but one of the slots.
Guessed(habits) ==
  LET last == IF Len(habits) < KeepRecent THEN Len(habits) ELSE KeepRecent - 1
      at(p) == {i \in 1..last : habits[i] = p}
  IN [p \in Pack |-> IF at(p) = {} THEN Pack
                     ELSE {habits[j] : j \in {k \in 1..last : \E i \in at(p) : k < i}}]

-----------------------------------------------------------------------------
(* A turn, a helper or a request begins. *)

Probes(a, able) ==
  /\ ready' = [ready EXCEPT ![a] = able] /\ suggested' = [suggested EXCEPT ![a] = {}]
  /\ Goes(a, "probed")

\* A turn asks for the profile's habits when its conversation has no entry; a helper works
\* for a turn that has begun.
Begins(a) ==
  /\ place[a] = "idle"
  /\ IF a = "turn" /\ uses = NoUses
     THEN Goes(a, "seeding") /\ UNCHANGED <<ready, suggested>>
     ELSE /\ a = "helper" => uses # NoUses
          /\ \E able \in Catalogues : Probes(a, able)
  /\ UNCHANGED <<uses, plan, binds, lacked, plans>>

Seeds(a) ==
  /\ place[a] = "seeding"
  /\ \E habits \in Habits, able \in Catalogues : uses' = Guessed(habits) /\ Probes(a, able)
  /\ UNCHANGED <<plan, binds, lacked, plans>>

-----------------------------------------------------------------------------
(* Its rounds. *)

\* assemble: the prompt names what is bound now; a turn's first one may add what the request
\* seems to need.
Assembles(a) ==
  /\ place[a] = "probed" /\ a # "request"
  /\ Goes(a, "shown")
  /\ \/ UNCHANGED suggested
     \/ a = "turn" /\ suggested[a] = {}
        /\ \E s \in Suggestions : suggested' = [suggested EXCEPT ![a] = s \intersect ready[a]]
  /\ UNCHANGED <<uses, ready, plan, binds, lacked, plans>>

\* The model answers with a plan, or a request names one tool that is bound.
Plans(a) ==
  /\ plans < MaxPlans
  /\ \/ /\ place[a] = "shown"
        /\ \E p \in Plan, asks \in {{}} \union {{q} : q \in ready[a]} :
             plan' = [plan EXCEPT ![a] = p] /\ binds' = [binds EXCEPT ![a] = asks]
     \/ /\ place[a] = "probed" /\ a = "request"
        /\ \E p \in Bound(a, uses) : plan' = [plan EXCEPT ![a] = <<p>>]
        /\ UNCHANGED binds
  /\ plans' = plans + 1 /\ Goes(a, "planned")
  /\ UNCHANGED <<uses, ready, suggested, lacked>>

\* The first capability of the plan that is held back, as a set.
HeldBack(a) ==
  LET reached == {i \in DOMAIN plan[a] : plan[a][i] \in Deferred(a, uses)}
  IN {plan[a][i] : i \in {j \in reached : \A k \in reached : j <= k}}

\* execute, up to where the plan runs: what is held back is loaded, a plan with a step that
\* is still not bound is refused as invalid, and the gate may want a yes.
Executes(a) ==
  LET used == IF HeldBack(a) = {} THEN uses
              ELSE Remembered(uses, CHOOSE p \in HeldBack(a) : TRUE)
  IN /\ place[a] \in {"planned", "resumed"}
     /\ uses' = used
     /\ lacked' = [lacked EXCEPT ![a] = Cardinality(ToSet(plan[a]) \intersect Deferred(a, uses))]
     /\ IF ToSet(plan[a]) \subseteq Bound(a, used)
        THEN Goes(a, "running") \/ Goes(a, "parked") ELSE Goes(a, "refused")
     /\ UNCHANGED <<ready, suggested, plan, binds, plans>>

RememberedAll(used, packs) == FoldLeft(Remembered, used, packs)

\* What ran is recent, what was asked for is more recent still.
Ran(a) ==
  /\ place[a] = "running"
  /\ uses' = RememberedAll(uses, plan[a] \o SetToSeq(binds[a]))
  /\ Forgets(a) /\ Goes(a, "probed")
  /\ UNCHANGED <<ready, suggested, plans>>

\* Told that its plan was invalid, the model answers again.
Repairs(a) ==
  /\ place[a] = "refused" /\ Forgets(a) /\ Goes(a, "probed")
  /\ UNCHANGED <<uses, ready, suggested, plans>>

\* A parked turn was answered: the turn begins again, with the approved calls.
TakesUp(a) ==
  /\ place[a] = "parked" /\ a = "turn" /\ plans < MaxPlans
  /\ \E able \in Catalogues : ready' = [ready EXCEPT ![a] = able]
  /\ suggested' = [suggested EXCEPT ![a] = {}] /\ binds' = [binds EXCEPT ![a] = {}]
  /\ plans' = plans + 1 /\ Goes(a, "resumed")
  /\ UNCHANGED <<uses, plan, lacked>>

\* A turn is cut short or over; a request and a helper get no yes.
Ends(a) ==
  /\ place[a] \notin {"idle", "seeding"}
  /\ Forgets(a) /\ Goes(a, "idle")
  /\ ready' = [ready EXCEPT ![a] = {}] /\ suggested' = [suggested EXCEPT ![a] = {}]
  /\ UNCHANGED <<uses, plans>>

Next ==
  \E a \in Actor :
    \/ Begins(a) \/ Seeds(a) \/ Assembles(a) \/ Plans(a) \/ Executes(a) \/ Ran(a)
    \/ Repairs(a) \/ TakesUp(a) \/ Ends(a)

Spec == Init /\ [][Next]_vars

-----------------------------------------------------------------------------
(* Properties. *)

\* The shape of every variable.
TypeOK ==
  /\ uses \in [Pack -> SUBSET Pack] \union {NoUses} /\ plans \in 0..MaxPlans
  /\ place \in [Actor -> {"idle", "seeding", "probed", "shown", "planned", "running", "refused",
                          "parked", "resumed"}]
  /\ ready \in [Actor -> SUBSET Pack] /\ suggested \in [Actor -> SUBSET Pack]
  /\ binds \in [Actor -> SUBSET Pack] /\ plan \in [Actor -> Plan \union {<<>>}]
  /\ lacked \in [Actor -> 0..MaxSteps]

\* A plan whose steps are all of one capability that is ready runs, whatever was held back
\* and whatever the others made recent while the model answered (_held_back).
OneReachIsEnough ==
  \A a \in Actor :
    (place[a] = "refused" /\ Cardinality(ToSet(plan[a])) = 1) => ~ ToSet(plan[a]) \subseteq ready[a]

\* "Found, it is loaded and the plan runs" (_held_back): a plan with one capability that is
\* held back is not refused when all it names is ready.
LoadedAndRuns ==
  \A a \in Actor :
    (place[a] = "refused" /\ lacked[a] = 1) => ~ ToSet(plan[a]) \subseteq ready[a]

\* Seeding is "never over what the conversation itself used" (seed_recent). TLC refutes it: a
\* request that invokes a tool while the habits are read is forgotten.
SeedsNothingAway ==
  [][Used(uses) \subseteq Used(uses')]_vars
=============================================================================
