------------------------------- MODULE Window --------------------------------
(***************************************************************************)
(* How one prompt is fitted into its window: what was found out about now  *)
(* (context/feeds.py, sources.py, policy.py), the ladder by which the      *)
(* block that says so gives up lines (context/state.py), and the allocator *)
(* that fits the sections of a band under its ceiling (context/bands.py,   *)
(* put together by context/build.py).                                      *)
(*                                                                         *)
(* A line costs one. A text stands for what it costs and how much of the   *)
(* original it shows.                                                      *)
(***************************************************************************)
EXTENDS Integers, FiniteSets

CONSTANTS
  Source,    \* groups of the block that a source of its own fills
  Answers,   \* bound: how many entries a source may answer with
  Ceilings,  \* bound: what the pinned band may cost
  Costs      \* bound: what a section about the person may cost

\* The table QUOTAS: the order groups are given up in, worst rank first, how many entries
\* one shows when there is room, and how few still earn a header.
Quota == [finished |-> [rank |-> 10, ceiling |-> 4, floor |-> 2],
          pending |-> [rank |-> 20, ceiling |-> 5, floor |-> 2],
          trouble |-> [rank |-> 30, ceiling |-> 4, floor |-> 2],
          in_flight |-> [rank |-> 40, ceiling |-> 5, floor |-> 2],
          memory |-> [rank |-> 50, ceiling |-> 8, floor |-> 3],
          tasks |-> [rank |-> 60, ceiling |-> 6, floor |-> 2],
          capabilities |-> [rank |-> 70, ceiling |-> 6, floor |-> 2],
          feeds |-> [rank |-> 75, ceiling |-> 8, floor |-> 1],
          workspace |-> [rank |-> 80, ceiling |-> 6, floor |-> 0]]

WindowAssumption == Source \subseteq DOMAIN Quota \ {"trouble"} /\ Answers \union Ceilings \union Costs \subseteq Nat

Group == Source \union {"trouble"}
Person == {"person", "notes"}  \* sections about the person, in the band of the block
Priority == [person |-> 15, notes |-> 20, live |-> 0]
Section == Person \union {"live"}
Failed == -2
Answer == {Failed} \union Answers
Dropped == -1
Line == 1    \* whatever a line says of its piece of work, topic, feed or failure
Header == 3  \* the date, the conversation and how full the window is

VARIABLES
  found,    \* source -> how many entries it answered with, or Failed; 0 when it is not deployed
  flags,    \* the switches: feeds at all, personal ones hidden, and a conversation that is incognito
  ceiling,  \* what the band may cost
  phase,
  shown,    \* group -> entries its place in the block shows, or Dropped
  head,     \* header lines that stand
  fenced,   \* whether the delimiters stand
  confess,  \* how much of what was dropped the block says: full, short or none
  cost,     \* section -> what it costs
  looked,   \* sections the allocator has come to
  notices   \* section -> what became of it: whole, shortened or dropped

vars == <<found, flags, ceiling, phase, shown, head, fenced, confess, cost, looked, notices>>
answers == <<found, flags, ceiling>>
plan == <<shown, head, fenced, confess>>
bands == <<cost, looked, notices>>

Init ==
  /\ found \in [Source -> Answer]
  /\ flags \in [master : BOOLEAN, hidden : BOOLEAN, incognito : BOOLEAN]
  /\ "feeds" \notin Source => \A f \in DOMAIN flags : flags[f]
  /\ ceiling \in Ceilings
  /\ phase = "gather" /\ shown = [g \in Group |-> 0] /\ head = Header /\ fenced = TRUE /\ confess = "full"
  /\ \E c \in [Person -> Costs] : cost = [s \in Section |-> IF s = "live" THEN 0 ELSE c[s]]
  /\ looked = {} /\ notices = [s \in Section |-> "whole"]

-----------------------------------------------------------------------------
(* What was found out. *)

\* A feed switched off, or one about the person in an incognito conversation, has no lines.
Visible(s) ==
  s = "feeds" => flags.master /\ ~ (flags.incognito /\ flags.hidden)

\* A source that fails costs its group only, and is named among the trouble.
Read(s) == IF found[s] = Failed \/ ~ Visible(s) THEN 0 ELSE found[s]
Trouble == Cardinality({s \in Source : found[s] = Failed})
Entries(g) == IF g = "trouble" THEN Trouble ELSE Read(g)

\* Groups with something in them.
Groups == {g \in Group : Entries(g) > 0}
Smaller(a, b) == IF a <= b THEN a ELSE b

Gathers ==
  /\ phase = "gather" /\ phase' = "ladder"
  /\ shown' = [g \in Group |-> IF g \in Groups THEN Smaller(Entries(g), Quota[g].ceiling) ELSE 0]
  /\ UNCHANGED <<answers, head, fenced, confess, bands>>

-----------------------------------------------------------------------------
(* The ladder. *)

Standing == {g \in Groups : shown[g] # Dropped}
Gone == Groups \ Standing

\* The line that keeps a dropped group from vanishing, in one of its two sizes.
Omitted == IF Gone = {} \/ confess = "none" THEN 0
           ELSE IF confess = "full" THEN 1 + Cardinality(Gone) ELSE 1

\* A headline, which says how many entries it leaves out, and a line for each it shows.
Lines == {line \in Standing \X (0..8) : line[2] <= shown[line[1]]}

\* What the block costs at the rung it stands on.
Rendered == (IF fenced THEN 2 ELSE 0) + head + Omitted + Line * Cardinality(Lines)

Limit == (ceiling * 6) \div 10  \* LIVE_SHARE of the band

TooLong == phase = "ladder" /\ Rendered > Limit /\ UNCHANGED <<answers, phase, bands>>

Worst_First(groups) == {g \in groups : \A h \in groups : Quota[g].rank <= Quota[h].rank}
Worst(groups) == {g \in groups : \A h \in groups : Quota[g].rank >= Quota[h].rank}
AboveFloor == {g \in Standing : shown[g] > Quota[g].floor}

\* Every group bends to its floor before one goes.
Bends ==
  /\ TooLong /\ UNCHANGED <<head, fenced, confess>>
  /\ \E g \in Worst(AboveFloor) : shown' = [shown EXCEPT ![g] = Quota[g].floor]

Drops ==
  /\ TooLong /\ AboveFloor = {} /\ UNCHANGED <<head, fenced, confess>>
  /\ \E g \in Worst(Standing) : shown' = [shown EXCEPT ![g] = Dropped]

\* With no group left: the names of what went, the header lines, the delimiters, the count.
SaysLess ==
  /\ TooLong /\ Standing = {} /\ UNCHANGED <<shown, head, fenced>>
  /\ \/ confess = "full" /\ Gone # {} /\ confess' = "short"
     \/ confess = "short" /\ head = 1 /\ ~ fenced /\ confess' = "none"

LosesALine ==
  /\ TooLong /\ Standing = {} /\ (confess = "full" => Gone = {}) /\ head > 1
  /\ head' = head - 1 /\ UNCHANGED <<shown, fenced, confess>>

LosesItsFence ==
  /\ TooLong /\ Standing = {} /\ (confess = "full" => Gone = {}) /\ head = 1 /\ fenced
  /\ fenced' = FALSE /\ UNCHANGED <<shown, head, confess>>

Bottom == Standing = {} /\ head = 1 /\ ~ fenced /\ (confess = "none" \/ Gone = {})

\* It fits, or there is nothing left to give up: the date stands whatever it costs.
Renders ==
  /\ phase = "ladder" /\ (Rendered <= Limit \/ Bottom)
  /\ phase' = "fit" /\ cost' = [cost EXCEPT !["live"] = Rendered]
  /\ UNCHANGED <<answers, plan, looked, notices>>

-----------------------------------------------------------------------------
(* The allocator. *)

Total == cost["person"] + cost["notes"] + cost["live"]
Last_Any == {s \in Section \ looked : cost[s] > 0}
\* What is given up next; what costs nothing reclaims nothing.
Last == {s \in Last_Any : \A t \in Last_Any : Priority[s] >= Priority[t]}
Over == Total - ceiling

\* What an excerpt that fits shows, beside the line that says how much that is.
Excerpt(s) == cost[s] - Over - 1

Shortens(s) ==
  /\ phase = "fit" /\ Over > 0 /\ s \in Last /\ Excerpt(s) >= 1
  /\ cost' = [cost EXCEPT ![s] = Excerpt(s) + 1] /\ notices' = [notices EXCEPT ![s] = "shortened"]
  /\ looked' = looked \union {s} /\ UNCHANGED <<answers, phase, plan>>

\* Half a fact is a lie: what would show less than its floor goes whole.
GivesUp(s) ==
  /\ phase = "fit" /\ Over > 0 /\ s \in Last /\ Excerpt(s) < 1
  /\ cost' = [cost EXCEPT ![s] = 0] /\ notices' = [notices EXCEPT ![s] = "dropped"]
  /\ looked' = looked \union {s} /\ UNCHANGED <<answers, phase, plan>>

Fits ==
  /\ phase = "fit" /\ (Over <= 0 \/ Last = {}) /\ phase' = "done"
  /\ UNCHANGED <<answers, plan, bands>>

Next ==
  \/ Gathers \/ Bends \/ Drops \/ SaysLess \/ LosesALine \/ LosesItsFence \/ Renders \/ Fits
  \/ \E s \in Section : Shortens(s) \/ GivesUp(s)

Spec == Init /\ [][Next]_vars

-----------------------------------------------------------------------------
\* The shape of every variable.
TypeOK ==
  /\ phase \in {"gather", "ladder", "fit", "done"}
  /\ shown \in [Group -> {Dropped} \union 0..8] /\ head \in 1..Header /\ fenced \in BOOLEAN
  /\ confess \in {"full", "short", "none"} /\ cost \in [Section -> Nat]
  /\ looked \subseteq Section /\ notices \in [Section -> {"whole", "shortened", "dropped"}]

\* What is fitted loses what matters least, and says so. No group is gone while a worse one
\* stands or one stands above its floor; a source that could not be read is named, or the
\* block says that groups are missing, as long as it says anything but the date; the block
\* is cut by its own ladder only ("Whoever knows more should cut first", build.py:26), unless
\* the date alone is too much; and the band is under its ceiling with at most one section
\* shortened and none gone that comes before one that stands.
LeastGoesFirst ==
  /\ \A g \in Gone : AboveFloor = {} /\ \A h \in Standing : Quota[h].rank <= Quota[g].rank
  /\ phase \in {"fit", "done"} =>
       /\ (\E s \in Source : found[s] = Failed) => "trouble" \in Standing \/ Omitted > 0 \/ Bottom
       /\ notices["live"] # "whole" => Bottom /\ Rendered > Limit
  /\ phase = "done" =>
       /\ Total <= ceiling
       /\ Cardinality({s \in Section : notices[s] = "shortened"}) <= 1
       /\ \A s, t \in Section : notices[s] = "dropped" /\ cost[t] > 0 => Priority[t] <= Priority[s]

-----------------------------------------------------------------------------
(* Refuted. *)

\* A rung never costs more than the one above it: the line that names a dropped group may
\* cost as much as the group did.
EachRungSaves == [][phase = "ladder" /\ phase' = "ladder" => Rendered' < Rendered]_vars
=============================================================================
