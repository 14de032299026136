---------------------------- MODULE Wake_proofs -----------------------------
(***************************************************************************)
(* The safety of Wake for every number of endings and turns, every input   *)
(* policy and every number of restarts: an ending opens one turn, that     *)
(* turn runs with the authority lent to it and reads the notice it was     *)
(* opened for, although it may be claimed before either is there.          *)
(*                                                                         *)
(* The argument is about order. Whoever opens a turn joins the loop's      *)
(* queue before the claimer that finds it, and the claimer before the      *)
(* turn's task; whoever writes its notice joins the worker's queue before  *)
(* the task's reading. The invariant says so with Before, and the lemmas   *)
(* on moves say how a step changes the queues.                             *)
(***************************************************************************)
EXTENDS Wake, Integers, TLAPS, FiniteSetTheorems, WellFoundedInduction, SequenceTheorems

\* p comes before r in the queue q.
Before(q, p, r) == \E i, j \in DOMAIN q : i < j /\ q[i] = p /\ q[j] = r

\* A non-empty set of numbers has a least element.
LEMMA Least ==
  ASSUME NEW S, S \subseteq Nat, S # {}
  PROVE  \E x \in S : \A y \in S : x <= y
<1> DEFINE R == OpToRel(<, Nat)
<1>1. IsWellFoundedOn(R, Nat)
  BY NatLessThanWellFounded
<1>2. \E x \in S : \A y \in S : ~ (<<y, x>> \in R)
  <2> HIDE DEF R
  <2> QED BY <1>1, WFMin
<1>3. PICK x \in S : \A y \in S : ~ (<<y, x>> \in R)
  BY <1>2
<1>4. \A y \in S : ~ (y < x)
  BY <1>3 DEF OpToRel
<1> QED BY <1>4

\* What comes before or after something in a queue is in it.
LEMMA BeforeIsIn ==
  ASSUME NEW q, NEW a, NEW b, Before(q, a, b)
  PROVE  a \in Range(q) /\ b \in Range(q)
BY DEF Before, Range

\* A set of numbers has an oldest.
LEMMA OldestIs ==
  ASSUME NEW S, S \subseteq Nat, S # {}
  PROVE  Oldest(S) \in S /\ \A y \in S : Oldest(S) <= y
BY Least DEF Oldest

\* A queue that an element joins.
LEMMA Joined ==
  ASSUME NEW P, NEW q \in Seq(P), NEW x \in P
  PROVE  /\ Append(q, x) \in Seq(P)
         /\ Range(Append(q, x)) = Range(q) \union {x}
         /\ IsInjective(q) /\ x \notin Range(q) => IsInjective(Append(q, x))
         /\ \A a, b : Before(q, a, b) => Before(Append(q, x), a, b)
         /\ \A a \in Range(q) : Before(Append(q, x), a, x)
<1> DEFINE s == Append(q, x)
<1>1. /\ s \in Seq(P) /\ Len(s) = Len(q) + 1 /\ Len(q) \in Nat
      /\ DOMAIN q = 1..Len(q) /\ DOMAIN s = 1..(Len(q) + 1)
      /\ \A i \in 1..Len(q) : s[i] = q[i]
      /\ s[Len(q) + 1] = x
  OBVIOUS
<1> HIDE DEF s
<1>2. Range(s) = Range(q) \union {x}
  BY <1>1 DEF Range
<1>3. ASSUME IsInjective(q), x \notin Range(q) PROVE IsInjective(s)
  <2> SUFFICES ASSUME NEW a \in DOMAIN s, NEW b \in DOMAIN s, s[a] = s[b] PROVE a = b
    BY DEF IsInjective
  <2> QED BY <1>1, <1>3 DEF IsInjective, Range
<1>4. ASSUME NEW a, NEW b, Before(q, a, b) PROVE Before(s, a, b)
  BY <1>1, <1>4 DEF Before
<1>5. ASSUME NEW a \in Range(q) PROVE Before(s, a, x)
  <2>1. PICK i \in DOMAIN q : q[i] = a
    BY DEF Range
  <2> QED BY <1>1, <2>1 DEF Before
<1> QED BY <1>1, <1>2, <1>3, <1>4, <1>5 DEF s

\* A queue that its first element leaves.
LEMMA Left ==
  ASSUME NEW P, NEW q \in Seq(P), q # <<>>
  PROVE  /\ Tail(q) \in Seq(P)
         /\ Head(q) \in P /\ Range(q) = Range(Tail(q)) \union {Head(q)}
         /\ IsInjective(q) => /\ IsInjective(Tail(q)) /\ Head(q) \notin Range(Tail(q))
                              /\ \A a : ~ Before(q, a, Head(q))
         /\ \A a, b : Before(q, a, b) /\ a # Head(q) => Before(Tail(q), a, b)
<1> DEFINE s == Tail(q)
           h == Head(q)
<1>1. /\ s \in Seq(P) /\ Len(q) = Len(s) + 1 /\ Len(s) \in Nat /\ h \in P
      /\ DOMAIN s = 1..Len(s) /\ DOMAIN q = 1..(Len(s) + 1)
      /\ \A i \in 1..Len(s) : s[i] = q[i + 1]
      /\ q[1] = h
  OBVIOUS
<1> HIDE DEF s, h
<1>2. Range(q) = Range(s) \union {h}
  <2>1. ASSUME NEW i \in DOMAIN q PROVE q[i] \in Range(s) \union {h}
    <3>1. i = 1 \/ (i - 1 \in DOMAIN s /\ s[i - 1] = q[i])
      BY <1>1
    <3> QED BY <1>1, <3>1 DEF Range
  <2>2. ASSUME NEW i \in DOMAIN s PROVE s[i] \in Range(q)
    <3>1. i + 1 \in DOMAIN q /\ s[i] = q[i + 1]
      BY <1>1
    <3> QED BY <3>1 DEF Range
  <2>3. h \in Range(q)
    BY <1>1 DEF Range
  <2> QED BY <2>1, <2>2, <2>3 DEF Range
<1>3. ASSUME IsInjective(q) PROVE IsInjective(s) /\ h \notin Range(s) /\ \A a : ~ Before(q, a, h)
  <2>1. \A a, b \in DOMAIN q : q[a] = q[b] => a = b
    BY <1>3 DEF IsInjective
  <2>2. IsInjective(s)
    <3> SUFFICES ASSUME NEW a \in DOMAIN s, NEW b \in DOMAIN s, s[a] = s[b] PROVE a = b
      BY DEF IsInjective
    <3> QED BY <1>1, <2>1
  <2>3. h \notin Range(s)
    BY <1>1, <2>1 DEF Range
  <2>4. \A a : ~ Before(q, a, h)
    BY <1>1, <2>1 DEF Before
  <2> QED BY <2>2, <2>3, <2>4
<1>4. ASSUME NEW a, NEW b, Before(q, a, b), a # h PROVE Before(s, a, b)
  <2>1. PICK i \in DOMAIN q, j \in DOMAIN q : i < j /\ q[i] = a /\ q[j] = b
    BY <1>4 DEF Before
  <2>2. /\ i - 1 \in DOMAIN s /\ j - 1 \in DOMAIN s
        /\ i - 1 < j - 1 /\ s[i - 1] = a /\ s[j - 1] = b
    BY <1>1, <1>4, <2>1
  <2> QED BY <2>2 DEF Before
<1> QED BY <1>1, <1>2, <1>3, <1>4 DEF s, h

-----------------------------------------------------------------------------
(* The invariant. *)

\* What a coroutine waits for while its transaction is at the worker, and while the loop
\* has it to resume.
AtWorker == {"asking", "emitting", "opening", "noting", "telling", "claiming", "reading",
             "finishing", "parking", "checking"}
AtLoop == AtWorker \union {"starting", "claimed"}

\* No coroutine waits twice, and those that wait say so.
Placed(j, r, c) ==
  /\ c \in [Party -> Label] /\ j \in Seq(Party) /\ r \in Seq(Party)
  /\ IsInjective(j) /\ IsInjective(r) /\ Range(j) \intersect Range(r) = {}
  /\ \A p \in Range(j) : c[p] \in AtWorker
  /\ \A p \in Range(r) : c[p] \in AtLoop

Waiting == Placed(jobs, ready, pc)

\* The other variables.
Shape ==
  /\ policy \in Policies
  /\ status \in [Turn -> {"absent", "queued", "running", "parked", "ended"}]
  /\ opener \in [Turn -> Ending \union {NoEnding}]
  /\ noted \subseteq Turn /\ lent \subseteq Turn /\ prepared \subseteq Turn
  /\ held \in Seq(Ending) /\ fetched \subseteq Ending
  /\ todo \in [Party -> Seq(Ending)] /\ busy \in [Party -> BOOLEAN]
  /\ mine \in [Party -> Turn \union {NoTurn}]
  /\ woken \in BOOLEAN /\ answer \in Turn \union {NoTurn}
  /\ orphans \subseteq Turn /\ bare \subseteq Turn /\ blind \subseteq Turn
  /\ restarts \in 0..MaxRestarts

\* Who deliver endings: listeners, and the tasks of turns that have ended.
Crew == Ending \union Turn
OpenLabel == {"preparing", "opening", "noting", "telling"}
RunLabel == {"claimed", "reading", "rounds"}
EndLabel == {"finishing", "parking"}
FlushLabel == {"notifying", "checking", "left"} \union OpenLabel

\* What each kind of coroutine may wait for.
Roles ==
  /\ \A e \in Ending : pc[e] \in {"working", "asking", "emitting", "done"} \union OpenLabel
  /\ pc[Claimer] \in {"off", "starting", "claiming"}
  /\ \A t \in Turn : pc[t] \in {"off"} \union RunLabel \union EndLabel \union FlushLabel
  /\ \A p \in Crew : pc[p] = "noting" => mine[p] # NoTurn

\* A turn's task is where its row says, one transaction apart.
TasksFollowRows ==
  \A t \in Turn :
    /\ status[t] \in {"absent", "queued"} => pc[t] = "off"
    /\ status[t] = "parked" => pc[t] \in {"off", "parking"}
    /\ pc[t] \in RunLabel => status[t] = "running"
    /\ pc[t] \in EndLabel => \/ t \in Range(jobs) /\ status[t] = "running"
                             \/ t \in Range(ready) /\ status[t] \in {"parked", "ended"}
    /\ pc[t] = "finishing" /\ t \in Range(ready) => status[t] = "ended"
    /\ pc[t] \in FlushLabel => status[t] = "ended"

\* A turn the claimer has taken and not started yet; a turn that does not exist.
Follows ==
  /\ TasksFollowRows
  /\ answer # NoTurn => /\ pc[Claimer] = "claiming" /\ Claimer \in Range(ready)
                        /\ status[answer] = "running" /\ pc[answer] = "off"
  /\ \A t \in Turn : status[t] = "absent" => t \notin lent /\ opener[t] = NoEnding

\* p has opened turn t and is about to lend it its authority.
Opening(p, t) == p \in Range(ready) /\ pc[p] = "opening" /\ mine[p] = t

\* p has handed the worker the notice of turn t.
Noting(p, t) == p \in Range(jobs) /\ pc[p] = "noting" /\ mine[p] = t

\* Until a turn's task has begun, its authority is there or comes first: whoever lends it is
\* resumed before the claimer, which is resumed before the task. A restart takes it from the
\* turns that are queued; it leaves no other before its start.
AuthorityOf(t) ==
  /\ status[t] = "queued" => t \in prepared \/ \E p \in Crew : Opening(p, t)
  /\ answer = t => t \in prepared \/ \E p \in Crew : Opening(p, t) /\ Before(ready, p, Claimer)
  /\ pc[t] = "claimed" => t \in prepared

Authority == bare \subseteq orphans /\ \A t \in lent \ orphans : AuthorityOf(t)

\* Likewise its notice: it is written, or handed to the worker before the turn's reading.
NoticeOf(t) ==
  /\ status[t] = "queued" => \E p \in Crew : Opening(p, t) \/ Noting(p, t)
  /\ answer = t => \E p \in Crew : (Opening(p, t) /\ Before(ready, p, Claimer)) \/ Noting(p, t)
  /\ pc[t] = "claimed" => \E p \in Crew : Noting(p, t)
  /\ pc[t] = "reading" => \E p \in Crew : Noting(p, t) /\ Before(jobs, p, t)
  /\ pc[t] \notin {"rounds"} \union EndLabel /\ status[t] # "parked"

\* Woken turns whose notice is not there yet.
Unnoted == {t \in Turn : opener[t] # NoEnding /\ t \notin noted}

Notice == restarts = 0 => blind = {} /\ \A t \in Unnoted : NoticeOf(t)

\* p has endings to open turns for, the first of them included; or the first has its turn.
Carrying(p) ==
  \/ pc[p] \in {"working", "asking", "emitting", "checking", "preparing"}
  \/ pc[p] = "opening" /\ p \in Range(jobs)
Spent(p) ==
  \/ pc[p] \in {"noting", "telling"}
  \/ pc[p] = "opening" /\ p \in Range(ready) /\ mine[p] # NoTurn

\* The endings p may still open a turn for.
Load(p) ==
  CASE Carrying(p) -> Range(todo[p])
    [] ~ Carrying(p) /\ Spent(p) -> Range(Tail(todo[p]))
    [] OTHER -> {}

\* An ending that may still wake the session has not, and is in one place.
Once ==
  /\ IsInjective(held)
  /\ \A p \in Crew : /\ IsInjective(todo[p])
                     /\ Carrying(p) \/ Spent(p) => todo[p] # <<>>
                     /\ p \in Ending /\ Carrying(p) => todo[p] = <<p>>
  /\ \A e \in Range(held) : Woke(e) = {} /\ \A p \in Crew : e \notin Load(p)
  /\ \A p \in Crew : \A e \in Load(p) : Woke(e) = {} /\ \A q \in Crew \ {p} : e \notin Load(q)
  /\ \A t, u \in Turn : opener[t] = opener[u] /\ opener[t] # NoEnding => t = u

\* The inductive invariant.
IInv == Shape /\ Waiting /\ Roles /\ Follows /\ Authority /\ Notice /\ Once

-----------------------------------------------------------------------------
(* Where coroutines wait. *)

\* A transaction done.
LEMMA PlacedServed ==
  ASSUME NEW j, NEW r, NEW c, Placed(j, r, c), j # <<>>
  PROVE  /\ Placed(Tail(j), Append(r, Head(j)), c)
         /\ Head(j) \in Party /\ Head(j) \notin Range(r)
BY Joined, Left DEF Placed, AtLoop

\* A coroutine resumed.
LEMMA PlacedResumed ==
  ASSUME NEW j, NEW r, NEW c, Placed(j, r, c), r # <<>>
  PROVE  /\ Placed(j, Tail(r), c)
         /\ Head(r) \in Party /\ Head(r) \notin Range(j) /\ Head(r) \notin Range(Tail(r))
BY Left DEF Placed

\* A coroutine that waits nowhere comes to wait for something, in a queue or in none.
LEMMA PlacedAnew ==
  ASSUME NEW j, NEW r, NEW c, Placed(j, r, c), NEW p \in Party,
         p \notin Range(j), p \notin Range(r), NEW label \in Label
  PROVE  /\ Placed(j, r, [c EXCEPT ![p] = label])
         /\ label \in AtWorker => Placed(Append(j, p), r, [c EXCEPT ![p] = label])
         /\ label \in AtLoop => Placed(j, Append(r, p), [c EXCEPT ![p] = label])
<1> DEFINE d == [c EXCEPT ![p] = label]
<1>1. /\ d \in [Party -> Label] /\ d[p] = label
      /\ \A x \in Party : x # p => d[x] = c[x]
  BY DEF Placed
<1>2. /\ j \in Seq(Party) /\ r \in Seq(Party)
      /\ Range(j) \subseteq Party /\ Range(r) \subseteq Party
  BY RangeOfSeq DEF Placed
<1> HIDE DEF d
<1>3. Placed(j, r, d)
  BY <1>1, <1>2 DEF Placed
<1>4. label \in AtWorker => Placed(Append(j, p), r, d)
  BY <1>1, <1>2, Joined DEF Placed
<1>5. label \in AtLoop => Placed(j, Append(r, p), d)
  BY <1>1, <1>2, Joined DEF Placed
<1> QED BY <1>3, <1>4, <1>5 DEF d

\* A coroutine that waits for neither queue is in neither.
LEMMA WaitsNowhere ==
  ASSUME NEW j, NEW r, NEW c, Placed(j, r, c), NEW p, c[p] \notin AtLoop
  PROVE  p \notin Range(j) /\ p \notin Range(r)
BY DEF Placed, AtLoop

\* A coroutine that stops, and wakes the claimer.
LEMMA PlacedAndWoken ==
  ASSUME NEW r, Placed(jobs, r, pc), NEW p \in Ending \union Turn,
         p \notin Range(jobs), p \notin Range(r), NEW label \in Label,
         StopsAndWakes(p, label, r)
  PROVE  /\ Placed(jobs', ready', pc')
         /\ \A x \in Party : x \notin {p, Claimer} => pc'[x] = pc[x]
         /\ pc'[p] = label /\ pc'[Claimer] = (IF pc[Claimer] = "off" THEN "starting" ELSE pc[Claimer])
<1> USE WakeAssumption
<1> DEFINE d == [pc EXCEPT ![p] = label]
<1>1. p \in Party /\ Claimer \in Party /\ p # Claimer /\ pc \in [Party -> Label]
  BY DEF Party, Placed
<1>2. Placed(jobs, r, d) /\ d[Claimer] = pc[Claimer]
  BY <1>1, PlacedAnew
<1>3. CASE pc[Claimer] = "off"
  <2>1. Claimer \notin Range(jobs) /\ Claimer \notin Range(r)
    BY <1>2, <1>3, WaitsNowhere DEF AtLoop, AtWorker
  <2>2. "starting" \in Label /\ "starting" \in AtLoop
    BY DEF Label, AtLoop
  <2>3. Placed(jobs, Append(r, Claimer), [d EXCEPT ![Claimer] = "starting"])
    BY <1>1, <1>2, <2>1, <2>2, PlacedAnew
  <2>4. pc' = [d EXCEPT ![Claimer] = "starting"] /\ jobs' = jobs /\ ready' = Append(r, Claimer)
    BY <1>1, <1>3 DEF StopsAndWakes
  <2>5. /\ Placed(jobs', ready', pc')
    BY <2>3, <2>4
  <2>6. pc'[p] = label /\ pc'[Claimer] = "starting"
        /\ \A x \in Party : x \notin {p, Claimer} => pc'[x] = pc[x]
    BY <1>1, <2>4
  <2> QED BY <1>3, <2>5, <2>6
<1>4. CASE pc[Claimer] # "off"
  <2>1. pc' = d /\ jobs' = jobs /\ ready' = r
    BY <1>1, <1>4 DEF StopsAndWakes
  <2> QED BY <1>1, <1>2, <1>4, <2>1
<1> QED BY <1>3, <1>4

-----------------------------------------------------------------------------
(* What a step that does not concern a property leaves alone. *)

\* Whoever is about to lend a turn its authority stays where it is.
OpeningsStay ==
  \A p \in Crew : p \in Range(ready) /\ pc[p] = "opening" /\ mine[p] # NoTurn =>
    /\ p \in Range(ready') /\ pc'[p] = "opening" /\ mine'[p] = mine[p]
    /\ Before(ready, p, Claimer) => Before(ready', p, Claimer)

\* Whoever is about to write a notice stays where it is.
NotingsStay ==
  \A p \in Crew : p \in Range(jobs) /\ pc[p] = "noting" =>
    /\ p \in Range(jobs') /\ pc'[p] = "noting" /\ mine'[p] = mine[p]
    /\ \A t \in Turn : Before(jobs, p, t) => Before(jobs', p, t)

\* A turn does not come to where its authority and its notice matter.
TurnStays(t) ==
  /\ status'[t] \in {"queued", "parked"} => status'[t] = status[t]
  /\ pc'[t] \in RunLabel \union EndLabel => pc'[t] = pc[t]
  /\ answer' = t => answer = t

NoTurnMoves == \A t \in Turn : TurnStays(t)

\* Nobody comes to have endings it had not.
LoadsShrink ==
  \A p \in Crew :
    /\ Load(p)' \subseteq Load(p)
    /\ (Carrying(p) \/ Spent(p))' => Carrying(p) \/ Spent(p)
    /\ p \in Ending /\ Carrying(p)' => Carrying(p)

\* Turns are numbers, and none of them is no turn.
LEMMA TurnIsNumber == Turn \subseteq Nat /\ NoTurn \notin Turn
BY WakeAssumption DEF Turn, NoTurn

\* The claimer's turn waits for its task, and absent turns are absent.
LEMMA FollowsStays ==
  ASSUME IInv, TasksFollowRows', answer' \in {answer, NoTurn}, UNCHANGED <<lent, opener>>,
         answer' # NoTurn /\ Claimer \in Range(ready) =>
           Claimer \in Range(ready') /\ pc'[Claimer] = pc[Claimer],
         \A t \in Turn : /\ status[t] = "running" /\ pc[t] = "off" =>
                              status'[t] = "running" /\ pc'[t] = "off"
                         /\ status'[t] = "absent" => status[t] = "absent"
  PROVE  Follows'
<1>1. answer' # NoTurn => answer' = answer /\ answer \in Turn
  BY DEF IInv, Shape
<1>2. answer' # NoTurn => /\ pc'[Claimer] = "claiming" /\ Claimer \in Range(ready')
                          /\ status'[answer'] = "running" /\ pc'[answer'] = "off"
  BY <1>1 DEF IInv, Follows
<1>3. \A t \in Turn : status'[t] = "absent" => t \notin lent' /\ opener'[t] = NoEnding
  BY DEF IInv, Follows
<1> QED BY <1>2, <1>3 DEF Follows

\* What a turn needs for its authority survives a step that does not concern it.
LEMMA AuthorityStaysOf ==
  ASSUME IInv, OpeningsStay, NEW t \in Turn, AuthorityOf(t), TurnStays(t),
         t \in prepared => t \in prepared'
  PROVE  AuthorityOf(t)'
<1>1. ASSUME NEW p \in Crew, Opening(p, t)
      PROVE  Opening(p, t)' /\ (Before(ready, p, Claimer) => Before(ready, p, Claimer)')
  BY <1>1, TurnIsNumber DEF OpeningsStay, Opening
<1>2. /\ status'[t] = "queued" => status[t] = "queued"
      /\ pc'[t] = "claimed" => pc[t] = "claimed"
      /\ answer' = t => answer = t
  BY DEF TurnStays, RunLabel
<1> QED BY <1>1, <1>2 DEF AuthorityOf

\* So does Authority.
LEMMA AuthorityStays ==
  ASSUME IInv, OpeningsStay, NoTurnMoves, UNCHANGED <<lent, orphans, bare>>, prepared \subseteq prepared'
  PROVE  Authority'
<1>1. \A t \in lent \ orphans : t \in Turn /\ AuthorityOf(t) /\ TurnStays(t)
  BY DEF IInv, Shape, Authority, NoTurnMoves
<1>2. \A t \in lent \ orphans : AuthorityOf(t)'
  BY <1>1, AuthorityStaysOf
<1> QED BY <1>2 DEF IInv, Authority

\* What a turn needs for its notice survives a step that does not concern it.
LEMMA NoticeStaysOf ==
  ASSUME IInv, OpeningsStay, NotingsStay, NEW t \in Turn, NoticeOf(t), TurnStays(t)
  PROVE  NoticeOf(t)'
<1>1. ASSUME NEW p \in Crew
      PROVE  /\ Opening(p, t) => Opening(p, t)' /\ (Before(ready, p, Claimer) => Before(ready, p, Claimer)')
             /\ Noting(p, t) => Noting(p, t)' /\ (Before(jobs, p, t) => Before(jobs, p, t)')
  BY TurnIsNumber DEF OpeningsStay, Opening, NotingsStay, Noting
<1>2. /\ status'[t] \in {"queued", "parked"} => status'[t] = status[t]
      /\ pc'[t] \in RunLabel \union EndLabel => pc'[t] = pc[t]
      /\ answer' = t => answer = t
  BY DEF TurnStays
<1> QED BY <1>1, <1>2 DEF NoticeOf, RunLabel, EndLabel

\* So does Notice.
LEMMA NoticeStays ==
  ASSUME IInv, OpeningsStay, NotingsStay, NoTurnMoves, UNCHANGED <<opener, noted, blind, restarts>>
  PROVE  Notice'
<1> SUFFICES ASSUME restarts = 0 PROVE Notice'
  BY DEF Notice
<1>1. blind' = {} /\ Unnoted' = Unnoted
  BY DEF IInv, Notice, Unnoted
<1>2. \A t \in Unnoted : t \in Turn /\ NoticeOf(t) /\ TurnStays(t)
  BY DEF IInv, Notice, NoTurnMoves, Unnoted
<1>3. \A t \in Unnoted : NoticeOf(t)'
  BY <1>2, NoticeStaysOf
<1> QED BY <1>1, <1>3 DEF Notice

\* A step that opens no turn and gives nobody endings keeps Once.
LEMMA OnceStays ==
  ASSUME IInv, LoadsShrink, UNCHANGED <<opener, held, todo>>
  PROVE  Once'
<1> USE DEF IInv
<1>1. \A e : Woke(e)' = Woke(e)
  BY DEF Woke
<1>2. \A p \in Crew : /\ IsInjective(todo'[p])
                      /\ (Carrying(p) \/ Spent(p))' => todo'[p] # <<>>
                      /\ p \in Ending /\ Carrying(p)' => todo'[p] = <<p>>
  BY DEF Once, LoadsShrink
<1>3. \A e \in Range(held') : Woke(e)' = {} /\ \A p \in Crew : e \notin Load(p)'
  BY <1>1 DEF Once, LoadsShrink
<1>4. \A p \in Crew : \A e \in Load(p)' : Woke(e)' = {} /\ \A q \in Crew \ {p} : e \notin Load(q)'
  BY <1>1 DEF Once, LoadsShrink
<1>5. IsInjective(held') /\ \A t, u \in Turn : opener'[t] = opener'[u] /\ opener'[t] # NoEnding => t = u
  BY DEF Once
<1> QED BY <1>2, <1>3, <1>4, <1>5 DEF Once

-----------------------------------------------------------------------------
(* What moves of coroutines do to the queues. *)

\* The parties are the crew and the claimer, and labels are of three kinds.
LEMMA Parties ==
  /\ Crew \subseteq Party /\ Claimer \in Party /\ Claimer \notin Crew
  /\ Crew = Ending \union Turn /\ Ending \intersect Turn = {}
  /\ Label = AtLoop \union {"off", "working", "done", "preparing", "rounds", "notifying", "left"}
BY WakeAssumption DEF Crew, Party, Label, AtLoop, AtWorker

\* The worker serves p.
LEMMA ServedMoves ==
  ASSUME IInv, NEW p, NEW label, Serves(p, label)
  PROVE  /\ p \in Party /\ pc[p] = label /\ p \in Range(jobs) /\ p \notin Range(ready)
         /\ UNCHANGED <<memory, todo, pc, woken, restarts>>
         /\ Waiting'
         /\ Range(jobs') = Range(jobs) \ {p} /\ Range(ready') = Range(ready) \union {p}
         /\ \A a, b : Before(ready, a, b) => Before(ready', a, b)
         /\ \A a \in Range(ready) : Before(ready', a, p)
         /\ \A a, b : a # p /\ Before(jobs, a, b) => Before(jobs', a, b)
         /\ \A a : ~ Before(jobs, a, p)
<1>1. /\ Placed(jobs, ready, pc) /\ jobs # <<>> /\ p = Head(jobs)
      /\ jobs' = Tail(jobs) /\ ready' = Append(ready, p) /\ pc[p] = label
      /\ UNCHANGED <<memory, todo, pc, woken, restarts>>
  BY DEF IInv, Waiting, Serves
<1>2. jobs \in Seq(Party) /\ ready \in Seq(Party) /\ IsInjective(jobs)
  BY <1>1 DEF Placed
<1>3. p \in Party /\ p \notin Range(ready) /\ Waiting'
  BY <1>1, PlacedServed DEF Waiting
<1>4. /\ p \in Range(jobs) /\ Range(jobs') = Range(jobs) \ {p}
      /\ \A a, b : a # p /\ Before(jobs, a, b) => Before(jobs', a, b)
      /\ \A a : ~ Before(jobs, a, p)
  <2>1. /\ Range(jobs) = Range(Tail(jobs)) \union {Head(jobs)}
        /\ Head(jobs) \notin Range(Tail(jobs))
        /\ \A a : ~ Before(jobs, a, Head(jobs))
        /\ \A a, b : Before(jobs, a, b) /\ a # Head(jobs) => Before(Tail(jobs), a, b)
    BY <1>1, <1>2, Left
  <2> QED BY <1>1, <2>1
<1>5. /\ Range(ready') = Range(ready) \union {p}
      /\ \A a, b : Before(ready, a, b) => Before(ready', a, b)
      /\ \A a \in Range(ready) : Before(ready', a, p)
  BY <1>1, <1>2, <1>3, Joined
<1> QED BY <1>1, <1>3, <1>4, <1>5

\* The loop resumes p.
LEMMA ResumedLeaves ==
  ASSUME IInv, NEW p, NEW label, Resumes(p, label)
  PROVE  /\ p \in Party /\ pc[p] = label /\ p \in Range(ready) /\ p \notin Range(jobs)
         /\ UNCHANGED <<rows, restarts>>
         /\ Placed(jobs, Tail(ready), pc)
         /\ Range(Tail(ready)) = Range(ready) \ {p}
         /\ \A a, b : a # p /\ Before(ready, a, b) => Before(Tail(ready), a, b)
         /\ \A a : ~ Before(ready, a, p)
<1>1. /\ Placed(jobs, ready, pc) /\ ready # <<>> /\ p = Head(ready) /\ pc[p] = label
      /\ UNCHANGED <<rows, restarts>>
  BY DEF IInv, Waiting, Resumes
<1>2. ready \in Seq(Party) /\ IsInjective(ready)
  BY <1>1 DEF Placed
<1>3. /\ p \in Party /\ p \notin Range(jobs) /\ Placed(jobs, Tail(ready), pc)
  BY <1>1, PlacedResumed
<1>4. /\ p \in Range(ready) /\ Range(Tail(ready)) = Range(ready) \ {p}
      /\ \A a, b : a # p /\ Before(ready, a, b) => Before(Tail(ready), a, b)
      /\ \A a : ~ Before(ready, a, p)
  <2>1. /\ Range(ready) = Range(Tail(ready)) \union {Head(ready)}
        /\ Head(ready) \notin Range(Tail(ready))
        /\ \A a : ~ Before(ready, a, Head(ready))
        /\ \A a, b : Before(ready, a, b) /\ a # Head(ready) => Before(Tail(ready), a, b)
    BY <1>1, <1>2, Left
  <2> QED BY <1>1, <2>1
<1> QED BY <1>1, <1>3, <1>4

\* p, which waits nowhere, hands the worker a transaction; or it stops.
LEMMA SubmitsJoins ==
  ASSUME NEW p \in Party, NEW r, Placed(jobs, r, pc), p \notin Range(jobs), p \notin Range(r),
         ready' = r, NEW label \in Label,
         \/ Submits(p, label) /\ label \in AtWorker
         \/ Stops(p, label)
  PROVE  /\ Waiting'
         /\ pc' \in [Party -> Label] /\ pc'[p] = label /\ \A x \in Party : x # p => pc'[x] = pc[x]
         /\ Range(jobs') = IF Submits(p, label) THEN Range(jobs) \union {p} ELSE Range(jobs)
         /\ \A a, b : Before(jobs, a, b) => Before(jobs', a, b)
         /\ Submits(p, label) => \A a \in Range(jobs) : Before(jobs', a, p)
<1>1. jobs \in Seq(Party) /\ pc \in [Party -> Label]
  BY DEF Placed
<1>2. pc' = [pc EXCEPT ![p] = label]
  BY DEF Submits, Stops
<1>3. pc' \in [Party -> Label] /\ pc'[p] = label /\ \A x \in Party : x # p => pc'[x] = pc[x]
  BY <1>1, <1>2
<1>4. CASE Submits(p, label) /\ label \in AtWorker
  <2>1. jobs' = Append(jobs, p)
    BY <1>4 DEF Submits
  <2>2. Waiting'
    BY <1>2, <1>4, <2>1, PlacedAnew DEF Waiting
  <2>3. /\ Range(jobs') = Range(jobs) \union {p}
        /\ \A a, b : Before(jobs, a, b) => Before(jobs', a, b)
        /\ \A a \in Range(jobs) : Before(jobs', a, p)
    BY <1>1, <2>1, Joined
  <2> QED BY <1>3, <1>4, <2>2, <2>3
<1>5. CASE Stops(p, label)
  <2>1. jobs' = jobs
    BY <1>5 DEF Stops
  <2>2. Waiting'
    BY <1>2, <2>1, PlacedAnew DEF Waiting
  <2>3. ~ Submits(p, label)
    <3>1. Append(jobs, p) # jobs
      BY <1>1, AppendProperties
    <3> QED BY <2>1, <3>1 DEF Submits
  <2> QED BY <1>3, <2>1, <2>2, <2>3
<1> QED BY <1>4, <1>5

\* p, which waits nowhere, stops and wakes the claimer.
LEMMA WakesTheClaimer ==
  ASSUME NEW p \in Crew, NEW r, Placed(jobs, r, pc), p \notin Range(jobs), p \notin Range(r),
         NEW label \in Label, StopsAndWakes(p, label, r), pc[Claimer] \in {"off", "starting", "claiming"}
  PROVE  /\ Waiting' /\ jobs' = jobs
         /\ pc' \in [Party -> Label] /\ pc'[p] = label
         /\ \A x \in Party : x \notin {p, Claimer} => pc'[x] = pc[x]
         /\ pc'[Claimer] \in {"starting", "claiming"} /\ (pc[Claimer] # "off" => pc'[Claimer] = pc[Claimer])
         /\ Range(r) \subseteq Range(ready') /\ Range(ready') \subseteq Range(r) \union {Claimer}
         /\ \A a, b : Before(r, a, b) => Before(ready', a, b)
         /\ woken' = (pc[Claimer] # "off" \/ woken)
<1>1. r \in Seq(Party) /\ Claimer \in Party
  BY Parties DEF Placed
<1>2. /\ Waiting' /\ pc'[p] = label
      /\ \A x \in Party : x \notin {p, Claimer} => pc'[x] = pc[x]
      /\ pc'[Claimer] = IF pc[Claimer] = "off" THEN "starting" ELSE pc[Claimer]
  BY PlacedAndWoken DEF Waiting, Crew
<1>3. pc' \in [Party -> Label] /\ jobs' = jobs /\ woken' = (pc[Claimer] # "off" \/ woken)
  BY <1>2 DEF Waiting, Placed, StopsAndWakes
<1>4. \/ ready' = r \/ ready' = Append(r, Claimer)
  BY DEF StopsAndWakes
<1>5. /\ Range(r) \subseteq Range(ready') /\ Range(ready') \subseteq Range(r) \union {Claimer}
      /\ \A a, b : Before(r, a, b) => Before(ready', a, b)
  <2>1. /\ Range(Append(r, Claimer)) = Range(r) \union {Claimer}
        /\ \A a, b : Before(r, a, b) => Before(Append(r, Claimer), a, b)
    BY <1>1, Joined
  <2> QED BY <1>4, <2>1
<1> QED BY <1>2, <1>3, <1>5

-----------------------------------------------------------------------------
(* Steps of one coroutine that change no row. *)

\* p goes from one await to the next, or stops, and its row, if it is a turn, allows it.
\* Nothing is opened, noted, held or read by it.
LEMMA MovesOn ==
  ASSUME IInv, NEW p \in Crew, NEW from \in AtLoop, NEW label \in Label,
         Resumes(p, from), ready' = Tail(ready),
         \/ Submits(p, label) /\ label \in AtWorker
         \/ Stops(p, label) /\ label \notin {"working", "asking", "emitting", "checking"},
         from # "opening" \/ mine[p] = NoTurn, mine' = mine
  PROVE  /\ Waiting' /\ OpeningsStay /\ NotingsStay
         /\ Range(ready') = Range(ready) \ {p} /\ p \in Range(ready) /\ p \notin Range(jobs)
         /\ Range(jobs') = IF Submits(p, label) THEN Range(jobs) \union {p} ELSE Range(jobs)
         /\ pc[p] = from /\ pc' \in [Party -> Label]
         /\ pc'[p] = label /\ \A x \in Party : x # p => pc'[x] = pc[x]
         /\ \A a, b : Before(jobs, a, b) => Before(jobs', a, b)
         /\ Submits(p, label) => \A a \in Range(jobs) : Before(jobs', a, p)
         /\ UNCHANGED <<rows, restarts>>
<1>1. /\ p \in Party /\ pc[p] = from /\ p \in Range(ready) /\ p \notin Range(jobs)
      /\ UNCHANGED <<rows, restarts>>
      /\ Placed(jobs, Tail(ready), pc)
      /\ Range(Tail(ready)) = Range(ready) \ {p}
      /\ \A a, b : a # p /\ Before(ready, a, b) => Before(Tail(ready), a, b)
  BY ResumedLeaves
<1>2. p \notin Range(Tail(ready))
  BY <1>1
<1>3. /\ Waiting'
      /\ pc' \in [Party -> Label] /\ pc'[p] = label /\ \A x \in Party : x # p => pc'[x] = pc[x]
      /\ Range(jobs') = IF Submits(p, label) THEN Range(jobs) \union {p} ELSE Range(jobs)
      /\ \A a, b : Before(jobs, a, b) => Before(jobs', a, b)
      /\ Submits(p, label) => \A a \in Range(jobs) : Before(jobs', a, p)
  BY <1>1, <1>2, SubmitsJoins
<1>4. OpeningsStay
  BY <1>1, <1>3, Parties DEF OpeningsStay
<1>5. NotingsStay
  BY <1>1, <1>3, Parties DEF NotingsStay
<1> QED BY <1>1, <1>3, <1>4, <1>5

\* A listener has looked at the turns.
LEMMA AskedStep ==
  ASSUME IInv, NEW e \in Ending, Asked(e)
  PROVE  IInv'
<1> USE Parties
<1>1. /\ e \in Crew /\ Resumes(e, "asking") /\ Submits(e, "emitting") /\ ready' = Tail(ready)
      /\ UNCHANGED <<memory, locals, woken, answer, seen>>
      /\ "asking" \in AtLoop /\ "emitting" \in AtWorker /\ "emitting" \in Label
  BY DEF Asked, AtLoop, AtWorker, Label
<1>2. /\ Waiting' /\ OpeningsStay /\ NotingsStay
      /\ Range(ready') = Range(ready) \ {e} /\ e \in Range(ready) /\ e \notin Range(jobs)
      /\ Range(jobs') = Range(jobs) \union {e}
      /\ pc[e] = "asking" /\ pc' \in [Party -> Label]
      /\ pc'[e] = "emitting" /\ \A x \in Party : x # e => pc'[x] = pc[x]
      /\ UNCHANGED <<rows, restarts>>
  BY <1>1, MovesOn DEF locals
<1>3. Shape'
  BY <1>1, <1>2 DEF IInv, Shape, rows, memory, locals, seen
<1>4. Roles'
  BY <1>1, <1>2 DEF IInv, Roles, locals
<1>5. Follows'
  <2>1. TasksFollowRows'
    BY <1>1, <1>2 DEF IInv, Follows, TasksFollowRows, rows
  <2> QED BY <1>1, <1>2, <2>1, FollowsStays DEF rows
<1>6. NoTurnMoves
  BY <1>1, <1>2 DEF NoTurnMoves, TurnStays, rows
<1>7. LoadsShrink
  BY <1>1, <1>2 DEF LoadsShrink, Load, Carrying, Spent, locals
<1>8. Authority' /\ Notice' /\ Once'
  BY <1>1, <1>2, <1>6, <1>7, AuthorityStays, NoticeStays, OnceStays DEF rows, memory, locals, seen
<1> QED BY <1>2, <1>3, <1>4, <1>5, <1>8 DEF IInv

\* p waits for neither queue, or the loop has just resumed it, the queue of the loop being r,
\* and it lends no turn its authority.
Awake(p, r) ==
  \/ r = ready /\ pc[p] \notin AtLoop
  \/ r = Tail(ready) /\ \E from \in AtLoop \ {"opening"} : Resumes(p, from)
  \/ r = Tail(ready) /\ Resumes(p, "opening") /\ mine[p] = NoTurn

\* A coroutine that is awake is in neither queue.
LEMMA AwakeIsOut ==
  ASSUME IInv, NEW p \in Crew, NEW r, Awake(p, r)
  PROVE  /\ Placed(jobs, r, pc) /\ p \notin Range(jobs) /\ p \notin Range(r)
         /\ Range(r) = Range(ready) \ {p}
         /\ \A a, b : a # p /\ Before(ready, a, b) => Before(r, a, b)
         /\ p \notin Range(ready) \/ pc[p] # "opening" \/ mine[p] = NoTurn
<1>1. CASE r = ready /\ pc[p] \notin AtLoop
  BY <1>1, WaitsNowhere DEF IInv, Waiting
<1>2. ASSUME r = Tail(ready), NEW from \in AtLoop, Resumes(p, from)
      PROVE  /\ Placed(jobs, r, pc) /\ p \notin Range(jobs) /\ p \notin Range(r)
             /\ Range(r) = Range(ready) \ {p} /\ pc[p] = from
             /\ \A a, b : a # p /\ Before(ready, a, b) => Before(r, a, b)
  BY <1>2, ResumedLeaves
<1> QED BY <1>1, <1>2 DEF Awake, AtLoop, AtWorker

\* p is over, and wakes the claimer.
LEMMA MovesOff ==
  ASSUME IInv, NEW p \in Crew, NEW r, NEW label \in Label, StopsAndWakes(p, label, r),
         Awake(p, r), mine' = mine
  PROVE  /\ Waiting' /\ OpeningsStay /\ NotingsStay
         /\ p \notin Range(jobs) /\ jobs' = jobs
         /\ \A x \in Crew : x \in Range(ready') <=> x \in Range(ready) /\ x # p
         /\ Claimer \in Range(ready) => Claimer \in Range(ready')
         /\ pc' \in [Party -> Label] /\ pc'[p] = label
         /\ \A x \in Crew : x # p => pc'[x] = pc[x]
         /\ pc'[Claimer] \in {"starting", "claiming"} /\ (pc[Claimer] # "off" => pc'[Claimer] = pc[Claimer])
         /\ woken' = (pc[Claimer] # "off" \/ woken)
<1> USE Parties
<1>1. /\ Placed(jobs, r, pc) /\ p \notin Range(jobs) /\ p \notin Range(r)
      /\ Range(r) = Range(ready) \ {p}
      /\ \A a, b : a # p /\ Before(ready, a, b) => Before(r, a, b)
      /\ p \notin Range(ready) \/ pc[p] # "opening" \/ mine[p] = NoTurn
  BY AwakeIsOut
<1>2. /\ Waiting' /\ jobs' = jobs
      /\ pc' \in [Party -> Label] /\ pc'[p] = label
      /\ \A x \in Party : x \notin {p, Claimer} => pc'[x] = pc[x]
      /\ pc'[Claimer] \in {"starting", "claiming"} /\ (pc[Claimer] # "off" => pc'[Claimer] = pc[Claimer])
      /\ Range(r) \subseteq Range(ready') /\ Range(ready') \subseteq Range(r) \union {Claimer}
      /\ \A a, b : Before(r, a, b) => Before(ready', a, b)
      /\ woken' = (pc[Claimer] # "off" \/ woken)
  BY <1>1, WakesTheClaimer DEF IInv, Roles
<1>3. OpeningsStay
  BY <1>1, <1>2 DEF OpeningsStay
<1>4. NotingsStay
  BY <1>1, <1>2 DEF NotingsStay
<1> QED BY <1>1, <1>2, <1>3, <1>4

\* The turn of p is there and its notice is written.
LEMMA NotedStep ==
  ASSUME IInv, NEW p \in Crew, Noted(p)
  PROVE  IInv'
<1> USE Parties
<1>1. /\ Resumes(p, "noting") /\ Submits(p, "telling") /\ ready' = Tail(ready)
      /\ UNCHANGED <<memory, locals, woken, answer, seen>>
      /\ "noting" \in AtLoop /\ "telling" \in AtWorker /\ "telling" \in Label
  BY DEF Noted, AfterOpening, Authorized, AuthorizesAfter, AtLoop, AtWorker, Label, memory
<1>2. /\ Waiting' /\ OpeningsStay /\ NotingsStay
      /\ Range(ready') = Range(ready) \ {p} /\ p \in Range(ready) /\ p \notin Range(jobs)
      /\ Range(jobs') = Range(jobs) \union {p}
      /\ pc[p] = "noting" /\ pc' \in [Party -> Label]
      /\ pc'[p] = "telling" /\ \A x \in Party : x # p => pc'[x] = pc[x]
      /\ UNCHANGED <<rows, restarts>>
  BY <1>1, MovesOn DEF locals
<1>3. Shape'
  BY <1>1, <1>2 DEF IInv, Shape, rows, memory, locals, seen
<1>4. Roles'
  BY <1>1, <1>2 DEF IInv, Roles, locals, OpenLabel, FlushLabel
<1>5. Follows'
  <2>1. TasksFollowRows'
    BY <1>1, <1>2 DEF IInv, Follows, TasksFollowRows, rows, FlushLabel, OpenLabel, RunLabel, EndLabel
  <2>2. \A t \in Turn : pc[t] = "off" => pc'[t] = "off"
    BY <1>2
  <2> QED BY <1>1, <1>2, <2>1, <2>2, FollowsStays DEF rows
<1>6. NoTurnMoves
  BY <1>1, <1>2 DEF NoTurnMoves, TurnStays, rows, RunLabel, EndLabel
<1>7. LoadsShrink
  BY <1>1, <1>2 DEF LoadsShrink, Load, Carrying, Spent, locals
<1>8. Authority' /\ Notice' /\ Once'
  BY <1>1, <1>2, <1>6, <1>7, AuthorityStays, NoticeStays, OnceStays DEF rows, memory, locals, seen
<1> QED BY <1>2, <1>3, <1>4, <1>5, <1>8 DEF IInv

\* A listener is over.
LEMMA DeliveredStep ==
  ASSUME IInv, NEW e \in Ending, Delivered(e)
  PROVE  IInv'
<1> USE Parties
<1>1. /\ UNCHANGED <<memory, locals, answer, seen, rows, restarts>>
      /\ \/ Resumes(e, "telling") /\ StopsAndWakes(e, "done", Tail(ready))
         \/ /\ Resumes(e, "opening") /\ mine[e] = NoTurn
            /\ Stops(e, "done") /\ ready' = Tail(ready) /\ UNCHANGED woken
      /\ "opening" \in AtLoop /\ "telling" \in AtLoop /\ "done" \in Label
  BY DEF Delivered, AfterOpening, AtLoop, AtWorker, Label, Resumes
<1>2. /\ Waiting' /\ OpeningsStay /\ NotingsStay /\ e \notin Range(jobs) /\ Range(jobs') = Range(jobs)
      /\ \A x \in Crew : x \in Range(ready') <=> x \in Range(ready) /\ x # e
      /\ Claimer \in Range(ready) => Claimer \in Range(ready')
      /\ pc' \in [Party -> Label] /\ pc'[e] = "done"
      /\ \A x \in Crew : x # e => pc'[x] = pc[x]
      /\ pc'[Claimer] \in {"off", "starting", "claiming"} /\ (pc[Claimer] # "off" => pc'[Claimer] = pc[Claimer])
      /\ woken' \in BOOLEAN
  <2>1. CASE Resumes(e, "telling") /\ StopsAndWakes(e, "done", Tail(ready))
    <3>1. Awake(e, Tail(ready))
      BY <2>1 DEF Awake, AtLoop, AtWorker
    <3>2. mine' = mine /\ woken \in BOOLEAN /\ StopsAndWakes(e, "done", Tail(ready))
      BY <1>1, <2>1 DEF locals, IInv, Shape
    <3>3. /\ Waiting' /\ OpeningsStay /\ NotingsStay
          /\ e \notin Range(jobs) /\ jobs' = jobs
          /\ \A x \in Crew : x \in Range(ready') <=> x \in Range(ready) /\ x # e
          /\ Claimer \in Range(ready) => Claimer \in Range(ready')
          /\ pc' \in [Party -> Label] /\ pc'[e] = "done"
          /\ \A x \in Crew : x # e => pc'[x] = pc[x]
          /\ pc'[Claimer] \in {"starting", "claiming"} /\ (pc[Claimer] # "off" => pc'[Claimer] = pc[Claimer])
          /\ woken' = (pc[Claimer] # "off" \/ woken)
      BY <1>1, <3>1, <3>2, MovesOff
    <3> QED BY <3>2, <3>3
  <2>2. CASE Resumes(e, "opening") /\ mine[e] = NoTurn /\ Stops(e, "done") /\ ready' = Tail(ready) /\ UNCHANGED woken
    <3>1. jobs' = jobs /\ mine' = mine
      BY <1>1, <2>2 DEF Stops, locals
    <3>2. /\ Waiting' /\ OpeningsStay /\ NotingsStay
          /\ Range(ready') = Range(ready) \ {e} /\ e \in Range(ready) /\ e \notin Range(jobs)
          /\ pc' \in [Party -> Label]
          /\ pc'[e] = "done" /\ \A x \in Party : x # e => pc'[x] = pc[x]
      BY <1>1, <2>2, <3>1, MovesOn
    <3> QED BY <2>2, <3>1, <3>2 DEF IInv, Shape, Roles
  <2> QED BY <1>1, <2>1, <2>2
<1>3. Shape'
  BY <1>1, <1>2 DEF IInv, Shape, rows, memory, locals, seen
<1>4. Roles'
  BY <1>1, <1>2 DEF IInv, Roles, locals
<1>5. Follows'
  <2>1. TasksFollowRows'
    BY <1>1, <1>2 DEF IInv, Follows, TasksFollowRows, rows
  <2>2. \A t \in Turn : pc[t] = "off" => pc'[t] = "off"
    BY <1>2
  <2>3. answer # NoTurn => pc[Claimer] = "claiming"
    BY DEF IInv, Follows
  <2> QED BY <1>1, <1>2, <2>1, <2>2, <2>3, FollowsStays DEF rows
<1>6. NoTurnMoves
  BY <1>1, <1>2 DEF NoTurnMoves, TurnStays, rows
<1>7. LoadsShrink
  BY <1>1, <1>2 DEF LoadsShrink, Load, Carrying, Spent, locals
<1>8. Authority' /\ Notice' /\ Once'
  BY <1>1, <1>2, <1>6, <1>7, AuthorityStays, NoticeStays, OnceStays DEF rows, memory, locals, seen
<1> QED BY <1>2, <1>3, <1>4, <1>5, <1>8 DEF IInv

\* A listener has announced its ending.
LEMMA WakesOrHoldsStep ==
  ASSUME IInv, NEW e \in Ending, WakesOrHolds(e)
  PROVE  IInv'
<1> USE Parties
<1> DEFINE label == IF busy[e] THEN "done" ELSE "preparing"
<1>1. /\ e \in Crew /\ Resumes(e, "emitting") /\ Stops(e, label) /\ ready' = Tail(ready)
      /\ held' = IF busy[e] THEN Append(held, e) ELSE held
      /\ UNCHANGED <<prepared, fetched, locals, woken, answer, seen>>
      /\ jobs' = jobs /\ mine' = mine
      /\ "emitting" \in AtLoop
      /\ label \in Label /\ label \in {"done", "preparing"}
  BY DEF WakesOrHolds, AtLoop, AtWorker, Label, Stops, locals
<1>2. /\ Waiting' /\ OpeningsStay /\ NotingsStay
      /\ Range(ready') = Range(ready) \ {e} /\ e \in Range(ready) /\ e \notin Range(jobs)
      /\ pc[e] = "emitting" /\ pc' \in [Party -> Label]
      /\ pc'[e] = label /\ \A x \in Party : x # e => pc'[x] = pc[x]
      /\ UNCHANGED <<rows, restarts>>
  <2> HIDE DEF label
  <2> QED BY <1>1, MovesOn
<1>3. Shape'
  <2>1. Append(held, e) \in Seq(Ending)
    BY DEF IInv, Shape
  <2> QED BY <1>1, <1>2, <2>1 DEF IInv, Shape, rows, locals, seen
<1>4. Roles'
  BY <1>1, <1>2 DEF IInv, Roles, OpenLabel
<1>5. Follows'
  <2>1. TasksFollowRows'
    BY <1>1, <1>2 DEF IInv, Follows, TasksFollowRows, rows
  <2>2. \A t \in Turn : pc[t] = "off" => pc'[t] = "off"
    BY <1>2
  <2> QED BY <1>1, <1>2, <2>1, <2>2, FollowsStays DEF rows
<1>6. NoTurnMoves
  BY <1>1, <1>2 DEF NoTurnMoves, TurnStays, rows
<1>7. Authority' /\ Notice'
  BY <1>1, <1>2, <1>6, AuthorityStays, NoticeStays DEF rows, seen
<1>8. Once'
  <2>1. LoadsShrink
    BY <1>1, <1>2 DEF LoadsShrink, Load, Carrying, Spent, locals
  <2>2. CASE ~ busy[e]
    BY <1>1, <1>2, <2>1, <2>2, OnceStays DEF rows, locals
  <2>3. CASE busy[e]
    <3>1. /\ todo[e] = <<e>> /\ Load(e) = Range(todo[e]) /\ Load(e)' = {}
      BY <1>1, <1>2, <2>3 DEF IInv, Once, Load, Carrying, Spent, locals
    <3>2. e \in Load(e)
      BY <3>1 DEF Range
    <3>3. e \notin Range(held) /\ Woke(e) = {} /\ \A q \in Crew \ {e} : e \notin Load(q)
      BY <1>1, <3>2 DEF IInv, Once
    <3>4. held \in Seq(Ending) /\ held' = Append(held, e) /\ IsInjective(held)
      BY <1>1, <2>3 DEF IInv, Shape, Once
    <3>5. Range(held') = Range(held) \union {e} /\ IsInjective(held')
      BY <3>3, <3>4, Joined
    <3>6. \A x : Woke(x)' = Woke(x)
      BY <1>2 DEF Woke, rows
    <3>7. \A p \in Crew : /\ IsInjective(todo'[p])
                          /\ (Carrying(p) \/ Spent(p))' => todo'[p] # <<>>
                          /\ p \in Ending /\ Carrying(p)' => todo'[p] = <<p>>
      BY <1>1, <2>1 DEF IInv, Once, LoadsShrink, locals
    <3>8. \A x \in Range(held') : Woke(x)' = {} /\ \A p \in Crew : x \notin Load(p)'
      BY <2>1, <3>1, <3>3, <3>5, <3>6 DEF IInv, Once, LoadsShrink
    <3>9. \A p \in Crew : \A x \in Load(p)' : Woke(x)' = {} /\ \A q \in Crew \ {p} : x \notin Load(q)'
      BY <2>1, <3>6 DEF IInv, Once, LoadsShrink
    <3>10. opener' = opener
      BY <1>2 DEF rows
    <3> QED BY <3>5, <3>7, <3>8, <3>9, <3>10 DEF IInv, Once
  <2> QED BY <2>2, <2>3
<1> QED BY <1>2, <1>3, <1>4, <1>5, <1>7, <1>8 DEF IInv

\* A turn's task begins: whoever lends its authority has done so.
LEMMA BeginsStep ==
  ASSUME IInv, NEW t \in Turn, Begins(t)
  PROVE  IInv'
<1> USE Parties
<1>1. /\ t \in Crew /\ Resumes(t, "claimed") /\ Submits(t, "reading") /\ ready' = Tail(ready)
      /\ bare' = (IF t \in lent \ prepared THEN bare \union {t} ELSE bare)
      /\ prepared' = prepared \ {t}
      /\ UNCHANGED <<held, fetched, locals, woken, answer, orphans, blind>>
      /\ "claimed" \in AtLoop /\ "reading" \in AtWorker /\ "reading" \in Label
  BY DEF Begins, AtLoop, AtWorker, Label
<1>2. /\ Waiting' /\ OpeningsStay /\ NotingsStay
      /\ Range(ready') = Range(ready) \ {t} /\ t \in Range(ready) /\ t \notin Range(jobs)
      /\ Range(jobs') = Range(jobs) \union {t}
      /\ pc[t] = "claimed" /\ pc' \in [Party -> Label]
      /\ pc'[t] = "reading" /\ \A x \in Party : x # t => pc'[x] = pc[x]
      /\ \A a \in Range(jobs) : Before(jobs', a, t)
      /\ UNCHANGED <<rows, restarts>>
  BY <1>1, MovesOn DEF locals
<1>3. Shape'
  BY <1>1, <1>2 DEF IInv, Shape, rows, locals
<1>4. Roles'
  BY <1>1, <1>2 DEF IInv, Roles, locals, RunLabel
<1>5. Follows'
  <2>1. TasksFollowRows'
    BY <1>1, <1>2 DEF IInv, Follows, TasksFollowRows, rows, FlushLabel, OpenLabel, RunLabel, EndLabel
  <2>2. \A u \in Turn : pc[u] = "off" => pc'[u] = "off"
    BY <1>2
  <2> QED BY <1>1, <1>2, <2>1, <2>2, FollowsStays DEF rows
<1>6. \A u \in Turn \ {t} : TurnStays(u)
  BY <1>1, <1>2 DEF TurnStays, rows
<1>7. status[t] = "running" /\ answer # t
  BY <1>2, TurnIsNumber DEF IInv, Follows, TasksFollowRows, RunLabel
<1>8. Authority'
  <2>1. t \in lent \ orphans => t \in prepared
    BY <1>2 DEF IInv, Authority, AuthorityOf
  <2>2. bare' \subseteq orphans /\ orphans' = orphans
    BY <1>1, <2>1 DEF IInv, Authority
  <2>3. ASSUME NEW u \in lent \ orphans, u # t PROVE AuthorityOf(u)'
    <3>1. u \in Turn /\ AuthorityOf(u) /\ TurnStays(u)
      BY <1>6, <2>3 DEF IInv, Shape, Authority
    <3> QED BY <1>1, <1>2, <2>3, <3>1, AuthorityStaysOf
  <2>4. AuthorityOf(t)'
    BY <1>1, <1>2, <1>7 DEF AuthorityOf, rows
  <2> QED BY <1>2, <2>2, <2>3, <2>4 DEF Authority, rows
<1>9. Notice'
  <2> SUFFICES ASSUME restarts = 0 PROVE blind' = {} /\ \A u \in Unnoted' : NoticeOf(u)'
    BY <1>2 DEF Notice
  <2>1. blind' = {} /\ Unnoted' = Unnoted
    BY <1>1, <1>2 DEF IInv, Notice, Unnoted, rows
  <2>2. ASSUME NEW u \in Unnoted, u # t PROVE NoticeOf(u)'
    <3>1. u \in Turn /\ NoticeOf(u) /\ TurnStays(u)
      BY <1>6, <2>2 DEF IInv, Unnoted, Notice
    <3> QED BY <1>2, <3>1, NoticeStaysOf
  <2>3. ASSUME t \in Unnoted PROVE NoticeOf(t)'
    <3>1. NoticeOf(t)
      BY <2>3 DEF IInv, Notice
    <3>2. PICK p \in Crew : Noting(p, t)
      BY <1>2, <3>1 DEF NoticeOf
    <3>3. Noting(p, t)' /\ Before(jobs, p, t)'
      BY <1>2, <3>2 DEF Noting, NotingsStay
    <3> QED BY <1>1, <1>2, <1>7, <3>3 DEF NoticeOf, rows, EndLabel
  <2> QED BY <2>1, <2>2, <2>3
<1>10. LoadsShrink
  BY <1>1, <1>2 DEF LoadsShrink, Load, Carrying, Spent, locals
<1>11. Once'
  BY <1>1, <1>2, <1>10, OnceStays DEF rows, locals
<1> QED BY <1>2, <1>3, <1>4, <1>5, <1>8, <1>9, <1>11 DEF IInv

\* The rounds of a turn begin: it has read its notice.
LEMMA StartsStep ==
  ASSUME IInv, NEW t \in Turn, Starts(t)
  PROVE  IInv'
<1> USE Parties
<1>1. /\ t \in Crew /\ Resumes(t, "reading") /\ Stops(t, "rounds") /\ ready' = Tail(ready)
      /\ UNCHANGED <<memory, locals, woken, answer, seen>> /\ jobs' = jobs
      /\ "reading" \in AtLoop /\ "rounds" \in Label
  BY DEF Starts, AtLoop, AtWorker, Label, Stops
<1>2. /\ Waiting' /\ OpeningsStay /\ NotingsStay
      /\ Range(ready') = Range(ready) \ {t} /\ t \in Range(ready) /\ t \notin Range(jobs)
      /\ pc[t] = "reading" /\ pc' \in [Party -> Label]
      /\ pc'[t] = "rounds" /\ \A x \in Party : x # t => pc'[x] = pc[x]
      /\ UNCHANGED <<rows, restarts>>
  BY <1>1, MovesOn DEF locals
<1>3. Shape'
  BY <1>1, <1>2 DEF IInv, Shape, rows, locals, memory, seen
<1>4. Roles'
  BY <1>1, <1>2 DEF IInv, Roles, locals, RunLabel
<1>5. Follows'
  <2>1. TasksFollowRows'
    BY <1>1, <1>2 DEF IInv, Follows, TasksFollowRows, rows, FlushLabel, OpenLabel, RunLabel, EndLabel
  <2>2. \A u \in Turn : pc[u] = "off" => pc'[u] = "off"
    BY <1>2
  <2> QED BY <1>1, <1>2, <2>1, <2>2, FollowsStays DEF rows
<1>6. \A u \in Turn \ {t} : TurnStays(u)
  BY <1>1, <1>2 DEF TurnStays, rows
<1>7. Authority'
  <2>1. bare' \subseteq orphans /\ orphans' = orphans
    BY <1>1 DEF IInv, Authority, seen
  <2>2. ASSUME NEW u \in lent \ orphans, u # t PROVE AuthorityOf(u)'
    <3>1. u \in Turn /\ AuthorityOf(u) /\ TurnStays(u)
      BY <1>6, <2>2 DEF IInv, Shape, Authority
    <3> QED BY <1>1, <1>2, <2>2, <3>1, AuthorityStaysOf DEF memory
  <2>3. AuthorityOf(t)'
    <3>1. status[t] = "running" /\ answer # t
      BY <1>2, TurnIsNumber DEF IInv, Follows, TasksFollowRows, RunLabel
    <3> QED BY <1>1, <1>2, <3>1 DEF AuthorityOf, rows
  <2> QED BY <1>2, <2>1, <2>2, <2>3 DEF Authority, rows
<1>8. Notice'
  <2> SUFFICES ASSUME restarts = 0 PROVE blind' = {} /\ \A u \in Unnoted' : NoticeOf(u)'
    BY <1>2 DEF Notice
  <2>1. blind' = {} /\ Unnoted' = Unnoted
    BY <1>1, <1>2 DEF IInv, Notice, Unnoted, rows, seen
  <2>2. ASSUME NEW u \in Unnoted, u # t PROVE NoticeOf(u)'
    <3>1. u \in Turn /\ NoticeOf(u) /\ TurnStays(u)
      BY <1>6, <2>2 DEF IInv, Unnoted, Notice
    <3> QED BY <1>2, <3>1, NoticeStaysOf
  <2>3. t \notin Unnoted
    <3> SUFFICES ASSUME t \in Unnoted PROVE FALSE
      OBVIOUS
    <3>1. \E p \in Crew : Before(jobs, p, t)
      BY <1>2 DEF IInv, Notice, NoticeOf
    <3> QED BY <1>2, <3>1, BeforeIsIn
  <2> QED BY <2>1, <2>2, <2>3
<1>9. LoadsShrink
  BY <1>1, <1>2 DEF LoadsShrink, Load, Carrying, Spent, locals
<1>10. Once'
  BY <1>1, <1>2, <1>9, OnceStays DEF rows, locals, memory
<1> QED BY <1>2, <1>3, <1>4, <1>5, <1>7, <1>8, <1>10 DEF IInv

\* The task of a turn that has parked is over; that of one that has ended sends its webhooks.
LEMMA SignalsStep ==
  ASSUME IInv, NEW t \in Turn, Signals(t)
  PROVE  IInv'
<1> USE Parties
<1>1. /\ t \in Crew /\ UNCHANGED <<memory, locals, answer, seen, rows, restarts>>
      /\ \/ /\ Resumes(t, "finishing")
            /\ Stops(t, "notifying") /\ ready' = Tail(ready) /\ UNCHANGED woken
         \/ Resumes(t, "parking") /\ StopsAndWakes(t, "off", Tail(ready))
      /\ {"finishing", "parking"} \subseteq AtLoop \ {"opening"}
      /\ "notifying" \in Label /\ "off" \in Label /\ mine' = mine
  BY DEF Signals, AtLoop, AtWorker, Label, Resumes, locals
<1>2. /\ Waiting' /\ OpeningsStay /\ NotingsStay /\ t \notin Range(jobs) /\ jobs' = jobs
      /\ t \in Range(ready)
      /\ \A x \in Crew : x \in Range(ready') <=> x \in Range(ready) /\ x # t
      /\ Claimer \in Range(ready) => Claimer \in Range(ready')
      /\ pc' \in [Party -> Label]
      /\ \/ pc[t] = "finishing" /\ pc'[t] = "notifying"
         \/ pc[t] = "parking" /\ pc'[t] = "off"
      /\ \A x \in Crew : x # t => pc'[x] = pc[x]
      /\ pc'[Claimer] \in {"off", "starting", "claiming"} /\ (pc[Claimer] # "off" => pc'[Claimer] = pc[Claimer])
      /\ woken' \in BOOLEAN
  <2>1. CASE Resumes(t, "finishing") /\ Stops(t, "notifying") /\ ready' = Tail(ready) /\ UNCHANGED woken
    <3>1. jobs' = jobs
      BY <2>1 DEF Stops
    <3>2. /\ Waiting' /\ OpeningsStay /\ NotingsStay
          /\ Range(ready') = Range(ready) \ {t} /\ t \in Range(ready) /\ t \notin Range(jobs)
          /\ pc' \in [Party -> Label] /\ pc[t] = "finishing"
          /\ pc'[t] = "notifying" /\ \A x \in Party : x # t => pc'[x] = pc[x]
      BY <1>1, <2>1, <3>1, MovesOn
    <3> QED BY <2>1, <3>1, <3>2 DEF IInv, Shape, Roles
  <2>2. CASE Resumes(t, "parking") /\ StopsAndWakes(t, "off", Tail(ready))
    <3>1. Awake(t, Tail(ready))
      BY <1>1, <2>2 DEF Awake
    <3>2. /\ Waiting' /\ OpeningsStay /\ NotingsStay
          /\ t \notin Range(jobs) /\ jobs' = jobs
          /\ \A x \in Crew : x \in Range(ready') <=> x \in Range(ready) /\ x # t
          /\ Claimer \in Range(ready) => Claimer \in Range(ready')
          /\ pc' \in [Party -> Label] /\ pc'[t] = "off"
          /\ \A x \in Crew : x # t => pc'[x] = pc[x]
          /\ pc'[Claimer] \in {"starting", "claiming"} /\ (pc[Claimer] # "off" => pc'[Claimer] = pc[Claimer])
          /\ woken' = (pc[Claimer] # "off" \/ woken)
      BY <1>1, <2>2, <3>1, MovesOff
    <3>3. pc[t] = "parking" /\ t \in Range(ready)
      BY <2>2, ResumedLeaves
    <3> QED BY <3>2, <3>3 DEF IInv, Shape
  <2> QED BY <1>1, <2>1, <2>2
<1>3. Shape'
  BY <1>1, <1>2 DEF IInv, Shape, rows, memory, locals, seen
<1>4. Roles'
  BY <1>1, <1>2 DEF IInv, Roles, locals, FlushLabel
<1>5. Follows'
  <2>1. TasksFollowRows'
    BY <1>1, <1>2 DEF IInv, Follows, TasksFollowRows, rows, RunLabel, EndLabel, FlushLabel, OpenLabel
  <2>2. \A u \in Turn : pc[u] = "off" => pc'[u] = "off"
    BY <1>2
  <2>3. answer # NoTurn => pc[Claimer] = "claiming"
    BY DEF IInv, Follows
  <2> QED BY <1>1, <1>2, <2>1, <2>2, <2>3, FollowsStays DEF rows
<1>6. NoTurnMoves
  BY <1>1, <1>2 DEF NoTurnMoves, TurnStays, rows, RunLabel, EndLabel
<1>7. LoadsShrink
  BY <1>1, <1>2 DEF LoadsShrink, Load, Carrying, Spent, locals
<1>8. Authority' /\ Notice' /\ Once'
  BY <1>1, <1>2, <1>6, <1>7, AuthorityStays, NoticeStays, OnceStays DEF rows, memory, locals, seen
<1> QED BY <1>2, <1>3, <1>4, <1>5, <1>8 DEF IInv

\* A coroutine has opened a turn: it lends it its authority before anything else awaits.
LEMMA OpenedStep ==
  ASSUME IInv, NEW p \in Crew, Opened(p)
  PROVE  IInv'
<1> USE Parties
<1>1. /\ Resumes(p, "opening") /\ Submits(p, "noting") /\ ready' = Tail(ready)
      /\ mine[p] # NoTurn
      /\ prepared' = IF mine[p] \in lent THEN prepared \union {mine[p]} ELSE prepared
      /\ UNCHANGED <<held, fetched, locals, woken, answer, seen>> /\ mine' = mine
      /\ "noting" \in AtWorker /\ "noting" \in Label
  BY DEF Opened, AfterOpening, Authorized, AuthorizesAfter, AtLoop, AtWorker, Label, locals
<1>2. /\ p \in Party /\ pc[p] = "opening" /\ p \in Range(ready) /\ p \notin Range(jobs)
      /\ UNCHANGED <<rows, restarts>>
      /\ Placed(jobs, Tail(ready), pc)
      /\ Range(Tail(ready)) = Range(ready) \ {p}
      /\ \A a, b : a # p /\ Before(ready, a, b) => Before(Tail(ready), a, b)
  BY <1>1, ResumedLeaves
<1>3. p \notin Range(Tail(ready))
  BY <1>2
<1>4. /\ Waiting'
      /\ pc' \in [Party -> Label] /\ pc'[p] = "noting" /\ \A x \in Party : x # p => pc'[x] = pc[x]
      /\ Range(jobs') = Range(jobs) \union {p}
      /\ \A a, b : Before(jobs, a, b) => Before(jobs', a, b)
  BY <1>1, <1>2, <1>3, SubmitsJoins
<1>5. Shape'
  BY <1>1, <1>2 DEF IInv, Shape, rows, locals, seen
<1>6. Roles'
  BY <1>1, <1>4 DEF IInv, Roles, OpenLabel, FlushLabel
<1>7. Follows'
  <2>1. TasksFollowRows'
    BY <1>1, <1>2, <1>4 DEF IInv, Follows, TasksFollowRows, rows, FlushLabel, OpenLabel, RunLabel, EndLabel
  <2>2. \A t \in Turn : pc[t] = "off" => pc'[t] = "off"
    BY <1>2, <1>4
  <2> QED BY <1>1, <1>2, <1>4, <2>1, <2>2, FollowsStays DEF rows
<1>8. \A t \in Turn : TurnStays(t)
  BY <1>1, <1>2, <1>4 DEF TurnStays, rows, RunLabel, EndLabel
<1>9. ASSUME NEW q \in Crew, NEW t \in Turn
      PROVE  /\ Opening(q, t) /\ q # p =>
                  Opening(q, t)' /\ (Before(ready, q, Claimer) => Before(ready, q, Claimer)')
             /\ Opening(p, t) => Noting(p, t)' /\ (t \in lent => t \in prepared')
             /\ Noting(q, t) => Noting(q, t)' /\ (Before(jobs, q, t) => Before(jobs, q, t)')
  BY <1>1, <1>2, <1>4 DEF Opening, Noting
<1>10. Authority'
  <2>1. ASSUME NEW t \in lent \ orphans PROVE AuthorityOf(t)'
    <3>1. t \in Turn /\ AuthorityOf(t) /\ TurnStays(t)
      BY <1>8 DEF IInv, Shape, Authority
    <3>2. prepared \subseteq prepared'
      BY <1>1
    <3> QED BY <1>9, <3>1, <3>2 DEF AuthorityOf, TurnStays, RunLabel
  <2> QED BY <1>1, <1>2, <2>1 DEF IInv, Authority, rows, seen
<1>11. Notice'
  <2> SUFFICES ASSUME restarts = 0 PROVE blind' = {} /\ \A u \in Unnoted' : NoticeOf(u)'
    BY <1>2 DEF Notice
  <2>1. blind' = {} /\ Unnoted' = Unnoted
    BY <1>1, <1>2 DEF IInv, Notice, Unnoted, rows, seen
  <2>2. ASSUME NEW t \in Unnoted PROVE NoticeOf(t)'
    <3>1. t \in Turn /\ NoticeOf(t) /\ TurnStays(t)
      BY <1>8 DEF IInv, Unnoted, Notice
    <3> QED BY <1>9, <3>1 DEF NoticeOf, TurnStays, RunLabel, EndLabel
  <2> QED BY <2>1, <2>2
<1>12. LoadsShrink
  BY <1>1, <1>2, <1>4 DEF LoadsShrink, Load, Carrying, Spent, locals
<1>13. Once'
  BY <1>1, <1>2, <1>12, OnceStays DEF rows, locals
<1> QED BY <1>4, <1>5, <1>6, <1>7, <1>10, <1>11, <1>13, <1>2 DEF IInv

-----------------------------------------------------------------------------
(* The claimer. *)

\* The claimer asks, starts a task for the turn it got, or stops.
LEMMA ClaimingStep ==
  ASSUME IInv, Claiming
  PROVE  IInv'
<1> USE Parties
<1>1. /\ UNCHANGED <<memory, locals, seen>> /\ answer' = NoTurn /\ mine' = mine
      /\ \E from \in {"starting", "claiming"} : Resumes(Claimer, from)
      /\ woken' \in BOOLEAN
  BY DEF Claiming, IInv, Shape, locals
<1>2. /\ Claimer \in Range(ready) /\ Claimer \notin Range(jobs)
      /\ UNCHANGED <<rows, restarts>>
      /\ Placed(jobs, Tail(ready), pc)
      /\ Range(Tail(ready)) = Range(ready) \ {Claimer}
      /\ \A a, b : a # Claimer /\ Before(ready, a, b) => Before(Tail(ready), a, b)
      /\ \A a : ~ Before(ready, a, Claimer)
  BY <1>1, ResumedLeaves
<1>3. Claimer \notin Range(Tail(ready)) /\ Tail(ready) \in Seq(Party)
  BY <1>2 DEF Placed
<1>4. Shape'
  BY <1>1, <1>2 DEF IInv, Shape, rows, locals, memory, seen
<1>5. CASE answer = NoTurn \/ pc[Claimer] # "claiming"
  <2>1. ready' = Tail(ready) /\ (Submits(Claimer, "claiming") \/ Stops(Claimer, "off"))
    BY <1>5 DEF Claiming
  <2>2. /\ Waiting' /\ pc' \in [Party -> Label] /\ pc'[Claimer] \in {"claiming", "off"}
        /\ \A x \in Crew : pc'[x] = pc[x]
        /\ \A x \in Crew : x \in Range(jobs') <=> x \in Range(jobs)
        /\ \A a, b : Before(jobs, a, b) => Before(jobs', a, b)
    <3>1. CASE Submits(Claimer, "claiming")
      <4>1. "claiming" \in AtWorker /\ "claiming" \in Label
        BY DEF AtWorker, Label
      <4> QED BY <1>2, <1>3, <2>1, <3>1, <4>1, SubmitsJoins
    <3>2. CASE Stops(Claimer, "off")
      <4>1. "off" \in Label /\ jobs' = jobs
        BY <3>2 DEF Label, Stops
      <4> QED BY <1>2, <1>3, <2>1, <3>2, <4>1, SubmitsJoins
    <3> QED BY <2>1, <3>1, <3>2
  <2>3. answer = NoTurn
    BY <1>5 DEF IInv, Follows
  <2>4. Roles'
    BY <1>1, <2>2 DEF IInv, Roles
  <2>5. TasksFollowRows'
    BY <1>1, <1>2, <2>1, <2>2 DEF IInv, Follows, TasksFollowRows, rows
  <2>6. Follows'
    BY <1>1, <1>2, <2>2, <2>5, FollowsStays DEF rows
  <2>7. OpeningsStay
    BY <1>1, <1>2, <2>1, <2>2 DEF OpeningsStay
  <2>8. NotingsStay
    BY <1>1, <2>2 DEF NotingsStay
  <2>9. NoTurnMoves
    BY <1>1, <1>2, <2>2, TurnIsNumber DEF NoTurnMoves, TurnStays, rows
  <2>10. LoadsShrink
    BY <1>1, <1>2, <2>1, <2>2 DEF LoadsShrink, Load, Carrying, Spent, locals
  <2>11. Authority' /\ Notice' /\ Once'
    BY <1>1, <1>2, <2>7, <2>8, <2>9, <2>10, AuthorityStays, NoticeStays, OnceStays DEF rows, memory, locals, seen
  <2> QED BY <1>4, <2>2, <2>4, <2>6, <2>11 DEF IInv
<1>6. CASE answer # NoTurn /\ pc[Claimer] = "claiming"
  <2>0. PICK t \in Turn : t = answer
    BY <1>6 DEF IInv, Shape
  <2>1. /\ t \in Turn /\ status[t] = "running" /\ pc[t] = "off"
    BY <1>6, <2>0 DEF IInv, Follows
  <2>2. /\ pc' = [pc EXCEPT ![t] = "claimed"] /\ jobs' = Append(jobs, Claimer)
        /\ ready' = Append(Tail(ready), t) /\ woken' = FALSE
    BY <1>6, <2>0 DEF Claiming
  <2>3. t \notin Range(jobs) /\ t \notin Range(ready)
    BY <2>1, WaitsNowhere DEF IInv, Waiting, AtLoop, AtWorker
  <2>4. "claimed" \in Label /\ "claimed" \in AtLoop /\ pc[Claimer] \in AtWorker /\ pc[Claimer] \in Label
    BY <1>6 DEF Label, AtLoop, AtWorker
  <2>5. Placed(jobs, ready', pc')
    BY <1>2, <2>1, <2>2, <2>3, <2>4, PlacedAnew
  <2>6. pc' \in [Party -> Label] /\ pc'[t] = "claimed" /\ \A x \in Party : x # t => pc'[x] = pc[x]
    BY <2>1, <2>2, <2>5 DEF Placed
  <2>7. /\ Range(ready') = (Range(ready) \ {Claimer}) \union {t}
        /\ \A a, b : a # Claimer /\ Before(ready, a, b) => Before(ready', a, b)
    <3>1. PICK q \in Seq(Party) : q = Tail(ready)
      BY <1>3
    <3>2. /\ Range(Append(q, t)) = Range(q) \union {t}
          /\ \A a, b : Before(q, a, b) => Before(Append(q, t), a, b)
      BY <2>1, Joined
    <3> QED BY <1>2, <2>2, <3>1, <3>2
  <2>8. jobs \in Seq(Party)
    BY <1>2 DEF Placed
  <2>9. /\ Range(jobs') = Range(jobs) \union {Claimer}
        /\ \A a, b : Before(jobs, a, b) => Before(jobs', a, b)
    <3>1. /\ Range(Append(jobs, Claimer)) = Range(jobs) \union {Claimer}
          /\ \A a, b : Before(jobs, a, b) => Before(Append(jobs, Claimer), a, b)
      BY <2>8, Joined
    <3> QED BY <2>2, <3>1
  <2>10. Waiting'
    <3>1. pc'[Claimer] = pc[Claimer] /\ Claimer \notin Range(ready')
      BY <2>1, <2>6, <2>7
    <3>2. Placed(Append(jobs, Claimer), ready', [pc' EXCEPT ![Claimer] = pc[Claimer]])
      BY <1>2, <2>4, <2>5, <3>1, PlacedAnew
    <3>3. [pc' EXCEPT ![Claimer] = pc[Claimer]] = pc'
      BY <2>6, <3>1
    <3> QED BY <2>2, <3>2, <3>3 DEF Waiting
  <2>11. Roles'
    BY <1>1, <2>1, <2>6 DEF IInv, Roles, RunLabel
  <2>12. Follows'
    <3>1. TasksFollowRows'
      BY <1>1, <1>2, <2>1, <2>6, <2>7, <2>9 DEF IInv, Follows, TasksFollowRows, rows, RunLabel, EndLabel, FlushLabel, OpenLabel
    <3> QED BY <1>1, <1>2, <3>1 DEF IInv, Follows, rows
  <2>13. OpeningsStay /\ NotingsStay
    BY <1>1, <2>1, <2>3, <2>6, <2>7, <2>9 DEF OpeningsStay, NotingsStay
  <2>14. \A u \in Turn \ {t} : TurnStays(u)
    BY <1>1, <1>2, <2>1, <2>6, TurnIsNumber DEF TurnStays, rows
  <2>15. Authority'
    <3>1. ASSUME NEW u \in lent \ orphans, u # t PROVE AuthorityOf(u)'
      <4>1. u \in Turn /\ AuthorityOf(u) /\ TurnStays(u)
        BY <2>14, <3>1 DEF IInv, Shape, Authority
      <4>2. prepared' = prepared
        BY <1>1 DEF memory
      <4> QED BY <2>13, <4>1, <4>2, AuthorityStaysOf
    <3>2. ASSUME t \in lent \ orphans PROVE AuthorityOf(t)'
      <4>1. t \in prepared
        BY <1>2, <2>0, <3>2 DEF IInv, Authority, AuthorityOf
      <4>2. t \in prepared' /\ answer' # t /\ status'[t] = "running"
        BY <1>1, <1>2, <2>1, <4>1, TurnIsNumber DEF memory, rows
      <4> QED BY <4>2 DEF AuthorityOf
    <3> QED BY <1>1, <1>2, <3>1, <3>2 DEF IInv, Authority, rows, seen
  <2>16. Notice'
    <3> SUFFICES ASSUME restarts = 0 PROVE blind' = {} /\ \A u \in Unnoted' : NoticeOf(u)'
      BY <1>2 DEF Notice
    <3>1. blind' = {} /\ Unnoted' = Unnoted
      BY <1>1, <1>2 DEF IInv, Notice, Unnoted, rows, seen
    <3>2. ASSUME NEW u \in Unnoted, u # t PROVE NoticeOf(u)'
      <4>1. u \in Turn /\ NoticeOf(u) /\ TurnStays(u)
        BY <2>14, <3>2 DEF IInv, Unnoted, Notice
      <4> QED BY <2>13, <4>1, NoticeStaysOf
    <3>3. ASSUME t \in Unnoted PROVE NoticeOf(t)'
      <4>1. NoticeOf(t) /\ answer = t
        BY <2>0, <3>3 DEF IInv, Notice
      <4>2. PICK p \in Crew : Noting(p, t)
        BY <1>2, <4>1 DEF NoticeOf
      <4>3. Noting(p, t)'
        BY <2>13, <4>2 DEF Noting, NotingsStay
      <4>4. answer' # t /\ status'[t] = "running" /\ pc'[t] = "claimed"
        BY <1>1, <1>2, <2>1, <2>6, TurnIsNumber DEF rows
      <4> QED BY <4>3, <4>4 DEF NoticeOf, EndLabel
    <3> QED BY <3>1, <3>2, <3>3
  <2>17. LoadsShrink
    BY <1>1, <2>1, <2>3, <2>6, <2>7, <2>9 DEF LoadsShrink, Load, Carrying, Spent, locals
  <2>18. Once'
    BY <1>1, <1>2, <2>17, OnceStays DEF rows, locals, memory
  <2> QED BY <1>4, <2>10, <2>11, <2>12, <2>15, <2>16, <2>18 DEF IInv
<1> QED BY <1>5, <1>6

-----------------------------------------------------------------------------
(* The flush. *)

\* What is left of the endings a flush goes through.
LEMMA UnreadIs ==
  ASSUME NEW s \in Seq(Ending), IsInjective(s)
  PROVE  /\ Unread(s) \in Seq(Ending) /\ IsInjective(Unread(s))
         /\ Range(Unread(s)) \subseteq Range(s)
<1> DEFINE fresh == {i \in DOMAIN s : s[i] \notin fetched}
<1>1. CASE fresh = {}
  <2>1. Unread(s) = <<>>
    BY <1>1 DEF Unread
  <2>2. <<>> \in Seq(Ending) /\ DOMAIN <<>> = {}
    OBVIOUS
  <2> QED BY <2>1, <2>2 DEF IsInjective, Range
<1>2. CASE fresh # {}
  <2>1. fresh \subseteq Nat /\ fresh \subseteq 1..Len(s) /\ Len(s) \in Nat
    OBVIOUS
  <2>2. Oldest(fresh) \in 1..Len(s)
    BY <1>2, <2>1, OldestIs
  <2>3. PICK k \in 1..Len(s) : Unread(s) = SubSeq(s, k, Len(s))
    BY <1>2, <2>2 DEF Unread
  <2> DEFINE u == SubSeq(s, k, Len(s))
  <2>4. /\ u \in Seq(Ending) /\ DOMAIN u = 1..(Len(s) - k + 1)
        /\ \A i \in 1..(Len(s) - k + 1) : u[i] = s[k + i - 1]
    BY <2>1, SubSeqProperties
  <2> HIDE DEF u
  <2>5. \A i \in DOMAIN u : k + i - 1 \in DOMAIN s /\ u[i] = s[k + i - 1]
    BY <2>1, <2>4
  <2>6. Range(u) \subseteq Range(s)
    BY <2>5 DEF Range
  <2>7. IsInjective(u)
    <3> SUFFICES ASSUME NEW a \in DOMAIN u, NEW b \in DOMAIN u, u[a] = u[b] PROVE a = b
      BY DEF IsInjective
    <3>1. k + a - 1 = k + b - 1
      BY <2>5 DEF IsInjective
    <3> QED BY <2>1, <2>4, <3>1
  <2> QED BY <2>3, <2>4, <2>6, <2>7 DEF u
<1> QED BY <1>1, <1>2

\* t goes on with what is left, or is over.
LEMMA FlushMoves ==
  ASSUME IInv, NEW t \in Turn, NEW r, NEW s \in Seq(Ending), IsInjective(s),
         Awake(t, r), Continues(t, s, r), mine' = mine
  PROVE  /\ Waiting' /\ OpeningsStay /\ NotingsStay
         /\ Range(jobs) \subseteq Range(jobs') /\ Range(jobs') \subseteq Range(jobs) \union {t}
         /\ \A x \in Crew : x \in Range(ready') <=> x \in Range(ready) /\ x # t
         /\ Claimer \in Range(ready) => Claimer \in Range(ready')
         /\ pc' \in [Party -> Label]
         /\ \/ pc'[t] = "checking" /\ todo'[t] # <<>>
            \/ pc'[t] = "left"
         /\ \A x \in Crew : x # t => pc'[x] = pc[x]
         /\ pc'[Claimer] \in {"off", "starting", "claiming"} /\ (pc[Claimer] # "off" => pc'[Claimer] = pc[Claimer])
         /\ woken' \in BOOLEAN
         /\ todo' \in [Party -> Seq(Ending)] /\ \A x \in Crew : x # t => todo'[x] = todo[x]
         /\ Range(todo'[t]) \subseteq Range(s) /\ IsInjective(todo'[t])
<1> USE Parties
<1>1. /\ Unread(s) \in Seq(Ending) /\ IsInjective(Unread(s)) /\ Range(Unread(s)) \subseteq Range(s)
  BY UnreadIs
<1>2. /\ todo' = [todo EXCEPT ![t] = Unread(s)] /\ todo \in [Party -> Seq(Ending)]
      /\ woken \in BOOLEAN /\ t \in Party /\ t \in Crew
  BY DEF Continues, IInv, Shape
<1>3. /\ todo' \in [Party -> Seq(Ending)] /\ todo'[t] = Unread(s)
      /\ \A x \in Crew : x # t => todo'[x] = todo[x]
  BY <1>1, <1>2
<1>4. CASE Unread(s) = <<>>
  <2>1. StopsAndWakes(t, "left", r) /\ "left" \in Label
    BY <1>4 DEF Continues, Label
  <2>2. /\ Waiting' /\ OpeningsStay /\ NotingsStay
        /\ t \notin Range(jobs) /\ jobs' = jobs
        /\ \A x \in Crew : x \in Range(ready') <=> x \in Range(ready) /\ x # t
        /\ Claimer \in Range(ready) => Claimer \in Range(ready')
        /\ pc' \in [Party -> Label] /\ pc'[t] = "left"
        /\ \A x \in Crew : x # t => pc'[x] = pc[x]
        /\ pc'[Claimer] \in {"starting", "claiming"} /\ (pc[Claimer] # "off" => pc'[Claimer] = pc[Claimer])
        /\ woken' = (pc[Claimer] # "off" \/ woken)
    BY <1>2, <2>1, MovesOff
  <2> QED BY <1>1, <1>2, <1>3, <2>2
<1>5. CASE Unread(s) # <<>>
  <2>1. /\ Submits(t, "checking") /\ ready' = r /\ woken' = woken
        /\ "checking" \in Label /\ "checking" \in AtWorker
    BY <1>5 DEF Continues, Label, AtWorker
  <2>2. /\ Placed(jobs, r, pc) /\ t \notin Range(jobs) /\ t \notin Range(r)
        /\ Range(r) = Range(ready) \ {t}
        /\ \A a, b : a # t /\ Before(ready, a, b) => Before(r, a, b)
        /\ t \notin Range(ready) \/ pc[t] # "opening" \/ mine[t] = NoTurn
    BY <1>2, AwakeIsOut
  <2>3. /\ Waiting'
        /\ pc' \in [Party -> Label] /\ pc'[t] = "checking" /\ \A x \in Party : x # t => pc'[x] = pc[x]
        /\ Range(jobs') = Range(jobs) \union {t}
        /\ \A a, b : Before(jobs, a, b) => Before(jobs', a, b)
    BY <1>2, <2>1, <2>2, SubmitsJoins
  <2>4. OpeningsStay /\ NotingsStay
    BY <2>1, <2>2, <2>3 DEF OpeningsStay, NotingsStay
  <2> QED BY <1>1, <1>2, <1>3, <1>5, <2>1, <2>2, <2>3, <2>4 DEF IInv, Roles
<1> QED BY <1>4, <1>5

\* A flush has looked: the rest is held again, or one is opened.
LEMMA CheckedStep ==
  ASSUME IInv, NEW t \in Turn, Checked(t)
  PROVE  IInv'
<1> USE Parties
<1>1. /\ t \in Crew /\ Resumes(t, "checking") /\ UNCHANGED <<prepared, fetched, locals, answer, seen, rows, restarts>>
      /\ IF busy[t] THEN held' = todo[t] /\ StopsAndWakes(t, "left", Tail(ready))
                    ELSE /\ Stops(t, "preparing") /\ ready' = Tail(ready)
                         /\ UNCHANGED <<held, woken>>
      /\ "checking" \in AtLoop \ {"opening"} /\ "left" \in Label /\ "preparing" \in Label
      /\ mine' = mine /\ todo' = todo /\ opener' = opener
  BY DEF Checked, Rest, AtLoop, AtWorker, Label, Resumes, locals, rows
<1>2. pc[t] = "checking" /\ t \in Range(ready)
  BY <1>1, ResumedLeaves
<1>3. /\ Waiting' /\ OpeningsStay /\ NotingsStay /\ t \notin Range(jobs) /\ jobs' = jobs
      /\ \A x \in Crew : x \in Range(ready') <=> x \in Range(ready) /\ x # t
      /\ Claimer \in Range(ready) => Claimer \in Range(ready')
      /\ pc' \in [Party -> Label] /\ pc'[t] = (IF busy[t] THEN "left" ELSE "preparing")
      /\ \A x \in Crew : x # t => pc'[x] = pc[x]
      /\ pc'[Claimer] \in {"off", "starting", "claiming"} /\ (pc[Claimer] # "off" => pc'[Claimer] = pc[Claimer])
      /\ woken' \in BOOLEAN
  <2>1. CASE busy[t]
    <3>1. Awake(t, Tail(ready))
      BY <1>1 DEF Awake
    <3>2. /\ Waiting' /\ OpeningsStay /\ NotingsStay
          /\ t \notin Range(jobs) /\ jobs' = jobs
          /\ \A x \in Crew : x \in Range(ready') <=> x \in Range(ready) /\ x # t
          /\ Claimer \in Range(ready) => Claimer \in Range(ready')
          /\ pc' \in [Party -> Label] /\ pc'[t] = "left"
          /\ \A x \in Crew : x # t => pc'[x] = pc[x]
          /\ pc'[Claimer] \in {"starting", "claiming"} /\ (pc[Claimer] # "off" => pc'[Claimer] = pc[Claimer])
          /\ woken' = (pc[Claimer] # "off" \/ woken)
      BY <1>1, <2>1, <3>1, MovesOff
    <3> QED BY <2>1, <3>2 DEF IInv, Shape
  <2>2. CASE ~ busy[t]
    <3>1. jobs' = jobs
      BY <1>1, <2>2 DEF Stops
    <3>2. /\ Waiting' /\ OpeningsStay /\ NotingsStay
          /\ Range(ready') = Range(ready) \ {t} /\ t \in Range(ready) /\ t \notin Range(jobs)
          /\ pc' \in [Party -> Label]
          /\ pc'[t] = "preparing" /\ \A x \in Party : x # t => pc'[x] = pc[x]
      BY <1>1, <2>2, <3>1, MovesOn
    <3> QED BY <1>1, <2>2, <3>1, <3>2 DEF IInv, Shape, Roles
  <2> QED BY <2>1, <2>2
<1>4. Shape'
  <2>1. todo[t] \in Seq(Ending)
    BY <1>1 DEF IInv, Shape
  <2> QED BY <1>1, <1>3, <2>1 DEF IInv, Shape, rows, locals, seen
<1>5. Roles'
  BY <1>1, <1>3 DEF IInv, Roles, FlushLabel, OpenLabel
<1>6. Follows'
  <2>1. TasksFollowRows'
    BY <1>1, <1>2, <1>3 DEF IInv, Follows, TasksFollowRows, rows, RunLabel, EndLabel, FlushLabel, OpenLabel
  <2>2. \A u \in Turn : pc[u] = "off" => pc'[u] = "off"
    BY <1>2, <1>3
  <2>3. answer # NoTurn => pc[Claimer] = "claiming"
    BY DEF IInv, Follows
  <2> QED BY <1>1, <1>3, <2>1, <2>2, <2>3, FollowsStays DEF rows
<1>7. NoTurnMoves
  BY <1>1, <1>3 DEF NoTurnMoves, TurnStays, rows, RunLabel, EndLabel
<1>8. Authority' /\ Notice'
  BY <1>1, <1>3, <1>7, AuthorityStays, NoticeStays DEF rows, seen
<1>9. LoadsShrink
  BY <1>1, <1>2, <1>3 DEF LoadsShrink, Load, Carrying, Spent
<1>10. Once'
  <2>1. CASE ~ busy[t]
    BY <1>1, <1>9, <2>1, OnceStays
  <2>2. CASE busy[t]
    <3>1. held' = todo[t] /\ Load(t) = Range(todo[t]) /\ Load(t)' = {}
      BY <1>1, <1>2, <1>3, <2>2 DEF Load, Carrying, Spent
    <3>2. \A x : Woke(x)' = Woke(x)
      BY <1>1 DEF Woke
    <3>3. \A p \in Crew : /\ IsInjective(todo'[p])
                          /\ (Carrying(p) \/ Spent(p))' => todo'[p] # <<>>
                          /\ p \in Ending /\ Carrying(p)' => todo'[p] = <<p>>
      BY <1>1, <1>9 DEF IInv, Once, LoadsShrink
    <3>4. \A x \in Range(held') : Woke(x)' = {} /\ \A p \in Crew : x \notin Load(p)'
      BY <1>1, <1>9, <3>1, <3>2 DEF IInv, Once, LoadsShrink
    <3>5. \A p \in Crew : \A x \in Load(p)' : Woke(x)' = {} /\ \A q \in Crew \ {p} : x \notin Load(q)'
      BY <1>9, <3>2 DEF IInv, Once, LoadsShrink
    <3>6. IsInjective(held')
      BY <1>1, <3>1 DEF IInv, Once
    <3> QED BY <1>1, <3>3, <3>4, <3>5, <3>6 DEF IInv, Once
  <2> QED BY <2>1, <2>2
<1> QED BY <1>3, <1>4, <1>5, <1>6, <1>8, <1>10 DEF IInv

\* A flush takes what is held, or goes on to the next ending, or ends at a refusal.
LEMMA FlushStep ==
  ASSUME IInv, NEW t \in Turn, Flushes(t) \/ GoesOn(t)
  PROVE  IInv'
<1> USE Parties
<1>1. /\ t \in Crew /\ UNCHANGED <<rows, restarts, prepared, fetched, busy, mine, answer, seen>>
      /\ mine' = mine /\ opener' = opener
      /\ \/ /\ pc[t] = "notifying" /\ held' = <<>> /\ Continues(t, held, ready)
         \/ /\ Resumes(t, "telling") /\ Continues(t, Tail(todo[t]), Tail(ready)) /\ held' = held
         \/ /\ Resumes(t, "opening") /\ mine[t] = NoTurn
            /\ StopsAndWakes(t, "left", Tail(ready)) /\ todo' = todo /\ held' = held
      /\ "telling" \in AtLoop \ {"opening"} /\ "notifying" \notin AtLoop /\ "left" \in Label
  BY DEF Flushes, GoesOn, AfterOpening, AtLoop, AtWorker, Label, Resumes, rows, memory
<1>2. /\ pc[t] \in {"notifying", "telling", "opening"}
      /\ \/ pc[t] = "notifying" /\ held' = <<>> /\ Awake(t, ready) /\ Continues(t, held, ready)
         \/ /\ pc[t] = "telling" /\ Awake(t, Tail(ready)) /\ Continues(t, Tail(todo[t]), Tail(ready))
            /\ held' = held
         \/ /\ pc[t] = "opening" /\ mine[t] = NoTurn /\ Awake(t, Tail(ready))
            /\ t \in Range(ready) /\ t \notin Range(jobs)
            /\ StopsAndWakes(t, "left", Tail(ready)) /\ todo' = todo /\ held' = held
  BY <1>1, ResumedLeaves DEF Awake
<1>3. \A p \in Crew : IsInjective(todo[p]) /\ todo[p] \in Seq(Ending)
  BY DEF IInv, Once, Shape
<1>4. /\ Waiting' /\ OpeningsStay /\ NotingsStay
      /\ Range(jobs) \subseteq Range(jobs') /\ Range(jobs') \subseteq Range(jobs) \union {t}
      /\ \A x \in Crew : x \in Range(ready') <=> x \in Range(ready) /\ x # t
      /\ Claimer \in Range(ready) => Claimer \in Range(ready')
      /\ pc' \in [Party -> Label]
      /\ \/ pc'[t] = "checking" /\ todo'[t] # <<>>
         \/ pc'[t] = "left"
      /\ \A x \in Crew : x # t => pc'[x] = pc[x]
      /\ pc'[Claimer] \in {"off", "starting", "claiming"} /\ (pc[Claimer] # "off" => pc'[Claimer] = pc[Claimer])
      /\ woken' \in BOOLEAN
      /\ todo' \in [Party -> Seq(Ending)] /\ \A x \in Crew : x # t => todo'[x] = todo[x]
      /\ IsInjective(todo'[t])
      /\ pc'[t] = "checking" => \/ held' = <<>> /\ Range(todo'[t]) \subseteq Range(held)
                                \/ held' = held /\ Range(todo'[t]) \subseteq Load(t)
      /\ held' \in Seq(Ending) /\ IsInjective(held') /\ Range(held') \subseteq Range(held)
  <2>0. held \in Seq(Ending) /\ IsInjective(held) /\ <<>> \in Seq(Ending)
        /\ IsInjective(<<>>) /\ Range(<<>>) = {}
    BY DEF IInv, Shape, Once, IsInjective, Range
  <2>1. CASE pc[t] = "notifying" /\ held' = <<>> /\ Awake(t, ready) /\ Continues(t, held, ready)
    BY <1>1, <2>0, <2>1, FlushMoves
  <2>2. CASE /\ pc[t] = "telling" /\ Awake(t, Tail(ready)) /\ Continues(t, Tail(todo[t]), Tail(ready))
             /\ held' = held
    <3>1. todo[t] # <<>> /\ Load(t) = Range(Tail(todo[t]))
      BY <1>1, <2>2 DEF IInv, Once, Carrying, Spent, Load
    <3>2. PICK s \in Seq(Ending) : s = Tail(todo[t]) /\ IsInjective(s)
      BY <1>1, <1>3, <3>1, Left
    <3>3. Awake(t, Tail(ready)) /\ Continues(t, s, Tail(ready)) /\ mine' = mine
      BY <1>1, <2>2, <3>2
    <3>4. /\ Waiting' /\ OpeningsStay /\ NotingsStay
          /\ Range(jobs) \subseteq Range(jobs') /\ Range(jobs') \subseteq Range(jobs) \union {t}
          /\ \A x \in Crew : x \in Range(ready') <=> x \in Range(ready) /\ x # t
          /\ Claimer \in Range(ready) => Claimer \in Range(ready')
          /\ pc' \in [Party -> Label]
          /\ \/ pc'[t] = "checking" /\ todo'[t] # <<>>
             \/ pc'[t] = "left"
          /\ \A x \in Crew : x # t => pc'[x] = pc[x]
          /\ pc'[Claimer] \in {"off", "starting", "claiming"} /\ (pc[Claimer] # "off" => pc'[Claimer] = pc[Claimer])
          /\ woken' \in BOOLEAN
          /\ todo' \in [Party -> Seq(Ending)] /\ \A x \in Crew : x # t => todo'[x] = todo[x]
          /\ Range(todo'[t]) \subseteq Range(s) /\ IsInjective(todo'[t])
      BY <3>2, <3>3, FlushMoves
    <3> QED BY <2>0, <2>2, <3>1, <3>2, <3>4
  <2>3. CASE /\ pc[t] = "opening" /\ mine[t] = NoTurn /\ Awake(t, Tail(ready))
             /\ StopsAndWakes(t, "left", Tail(ready)) /\ todo' = todo /\ held' = held
    <3>1. /\ Waiting' /\ OpeningsStay /\ NotingsStay
          /\ t \notin Range(jobs) /\ jobs' = jobs
          /\ \A x \in Crew : x \in Range(ready') <=> x \in Range(ready) /\ x # t
          /\ Claimer \in Range(ready) => Claimer \in Range(ready')
          /\ pc' \in [Party -> Label] /\ pc'[t] = "left"
          /\ \A x \in Crew : x # t => pc'[x] = pc[x]
          /\ pc'[Claimer] \in {"starting", "claiming"} /\ (pc[Claimer] # "off" => pc'[Claimer] = pc[Claimer])
          /\ woken' = (pc[Claimer] # "off" \/ woken)
      BY <1>1, <2>3, MovesOff
    <3> QED BY <1>1, <1>3, <2>0, <2>3, <3>1 DEF IInv, Shape
  <2> QED BY <1>2, <2>1, <2>2, <2>3
<1>5. Shape'
  BY <1>1, <1>4 DEF IInv, Shape, rows, seen
<1>6. Roles'
  BY <1>1, <1>4 DEF IInv, Roles, FlushLabel
<1>7. Follows'
  <2>1. TasksFollowRows'
    BY <1>1, <1>2, <1>4 DEF IInv, Follows, TasksFollowRows, rows, RunLabel, EndLabel, FlushLabel, OpenLabel
  <2>2. \A u \in Turn : pc[u] = "off" => pc'[u] = "off"
    BY <1>2, <1>4
  <2>3. answer # NoTurn => pc[Claimer] = "claiming"
    BY DEF IInv, Follows
  <2> QED BY <1>1, <1>4, <2>1, <2>2, <2>3, FollowsStays DEF rows
<1>8. NoTurnMoves
  BY <1>1, <1>4 DEF NoTurnMoves, TurnStays, rows, RunLabel, EndLabel
<1>9. Authority' /\ Notice'
  BY <1>1, <1>4, <1>8, AuthorityStays, NoticeStays DEF rows, seen
<1>10. \A x \in Crew \ {t} : /\ Load(x)' = Load(x)
                             /\ (Carrying(x) <=> Carrying(x)') /\ (Spent(x) <=> Spent(x)')
  BY <1>1, <1>4 DEF Load, Carrying, Spent
<1>11. /\ Load(t)' = IF pc'[t] = "checking" THEN Range(todo'[t]) ELSE {}
       /\ (Carrying(t) \/ Spent(t))' => todo'[t] # <<>>
  BY <1>4 DEF Load, Carrying, Spent
<1>12. \A x : Woke(x)' = Woke(x)
  BY <1>1 DEF Woke
<1>13. Once'
  <2>1. \A p \in Crew : /\ IsInjective(todo'[p])
                        /\ (Carrying(p) \/ Spent(p))' => todo'[p] # <<>>
                        /\ p \in Ending /\ Carrying(p)' => todo'[p] = <<p>>
    BY <1>4, <1>10, <1>11 DEF IInv, Once
  <2>2. \A x \in Load(t)' : /\ (x \in Range(held) /\ held' = <<>>) \/ (x \in Load(t) /\ held' = held)
                            /\ Woke(x) = {} /\ \A q \in Crew \ {t} : x \notin Load(q)
    BY <1>1, <1>4, <1>11 DEF IInv, Once
  <2>3. Range(<<>>) = {}
    BY DEF Range
  <2>4. \A x \in Range(held') : Woke(x)' = {} /\ \A p \in Crew : x \notin Load(p)'
    <3> SUFFICES ASSUME NEW x \in Range(held')
                 PROVE  Woke(x)' = {} /\ \A p \in Crew : x \notin Load(p)'
      OBVIOUS
    <3>1. x \in Range(held) /\ Woke(x) = {} /\ \A p \in Crew : x \notin Load(p)
      BY <1>4 DEF IInv, Once
    <3>2. held' # <<>>
      BY <2>3
    <3>3. x \notin Load(t)'
      BY <1>1, <2>2, <3>1, <3>2
    <3> QED BY <1>10, <1>12, <3>1, <3>3
  <2>5. \A p \in Crew : \A x \in Load(p)' : Woke(x)' = {} /\ \A q \in Crew \ {p} : x \notin Load(q)'
    BY <1>10, <1>12, <2>2 DEF IInv, Once
  <2> QED BY <1>1, <1>4, <2>1, <2>4, <2>5 DEF IInv, Once
<1> QED BY <1>4, <1>5, <1>6, <1>7, <1>9, <1>13 DEF IInv

-----------------------------------------------------------------------------
(* Transactions. *)

\* What the worker does for p, whatever it writes.
LEMMA ServedCrew ==
  ASSUME IInv, NEW p \in Crew, NEW label, Serves(p, label), \A x \in Crew : x # p => mine'[x] = mine[x]
  PROVE  /\ Waiting' /\ OpeningsStay
         /\ pc[p] = label /\ p \in Range(jobs) /\ p \notin Range(ready)
         /\ UNCHANGED <<memory, todo, pc, woken, restarts>>
         /\ Range(jobs') = Range(jobs) \ {p} /\ Range(ready') = Range(ready) \union {p}
         /\ \A q \in Crew \ {p} : q \in Range(jobs) /\ pc[q] = "noting" =>
              /\ q \in Range(jobs') /\ pc'[q] = "noting" /\ mine'[q] = mine[q]
              /\ \A t \in Turn : Before(jobs, q, t) => Before(jobs', q, t)
         /\ label # "noting" => NotingsStay
         /\ \A a : ~ Before(jobs, a, p)
<1>1. /\ p \in Party /\ pc[p] = label /\ p \in Range(jobs) /\ p \notin Range(ready)
      /\ UNCHANGED <<memory, todo, pc, woken, restarts>>
      /\ Waiting'
      /\ Range(jobs') = Range(jobs) \ {p} /\ Range(ready') = Range(ready) \union {p}
      /\ \A a, b : Before(ready, a, b) => Before(ready', a, b)
      /\ \A a, b : a # p /\ Before(jobs, a, b) => Before(jobs', a, b)
      /\ \A a : ~ Before(jobs, a, p)
  BY ServedMoves
<1>2. OpeningsStay
  BY <1>1 DEF OpeningsStay
<1>3. \A q \in Crew \ {p} : q \in Range(jobs) /\ pc[q] = "noting" =>
              /\ q \in Range(jobs') /\ pc'[q] = "noting" /\ mine'[q] = mine[q]
              /\ \A t \in Turn : Before(jobs, q, t) => Before(jobs', q, t)
  BY <1>1
<1>4. label # "noting" => NotingsStay
  BY <1>1, <1>3 DEF NotingsStay
<1> QED BY <1>1, <1>2, <1>3, <1>4

\* The worker writes nothing that matters here, or looks at the turns.
LEMMA WritesStep ==
  ASSUME IInv, NEW p \in Crew, NEW label \in {"asking", "emitting", "telling", "checking"},
         Looks(p, label) \/ Writes(p, label)
  PROVE  IInv'
<1> USE Parties
<1>1. /\ Serves(p, label) /\ UNCHANGED <<rows, mine, answer, seen>> /\ mine' = mine
      /\ busy' \in [Party -> BOOLEAN]
  BY DEF Looks, Writes, IInv, Shape
<1>2. /\ Waiting' /\ OpeningsStay /\ NotingsStay
      /\ pc[p] = label /\ p \in Range(jobs) /\ p \notin Range(ready)
      /\ UNCHANGED <<memory, todo, pc, woken, restarts>>
      /\ Range(jobs') = Range(jobs) \ {p} /\ Range(ready') = Range(ready) \union {p}
  BY <1>1, ServedCrew
<1>3. Shape'
  BY <1>1, <1>2 DEF IInv, Shape, rows, memory, seen
<1>4. Roles'
  BY <1>1, <1>2 DEF IInv, Roles
<1>5. Follows'
  <2>1. TasksFollowRows'
    BY <1>1, <1>2 DEF IInv, Follows, TasksFollowRows, rows, EndLabel
  <2> QED BY <1>1, <1>2, <2>1, FollowsStays DEF rows
<1>6. NoTurnMoves
  BY <1>1, <1>2 DEF NoTurnMoves, TurnStays, rows
<1>7. LoadsShrink
  BY <1>1, <1>2 DEF LoadsShrink, Load, Carrying, Spent
<1>8. Authority' /\ Notice' /\ Once'
  BY <1>1, <1>2, <1>6, <1>7, AuthorityStays, NoticeStays, OnceStays DEF rows, memory, seen
<1> QED BY <1>2, <1>3, <1>4, <1>5, <1>8 DEF IInv

\* A turn reads the transcript: its notice is there.
LEMMA ReadsStep ==
  ASSUME IInv, NEW t \in Turn, Reads(t)
  PROVE  IInv'
<1> USE Parties
<1>1. /\ t \in Crew /\ Serves(t, "reading") /\ UNCHANGED <<rows, busy, mine, answer, orphans, bare>> /\ mine' = mine
      /\ blind' = IF opener[t] # NoEnding /\ t \notin noted THEN blind \union {t} ELSE blind
  BY DEF Reads
<1>2. /\ Waiting' /\ OpeningsStay /\ NotingsStay
      /\ pc[t] = "reading" /\ t \in Range(jobs) /\ t \notin Range(ready)
      /\ UNCHANGED <<memory, todo, pc, woken, restarts>>
      /\ Range(jobs') = Range(jobs) \ {t} /\ Range(ready') = Range(ready) \union {t}
      /\ \A a : ~ Before(jobs, a, t)
  BY <1>1, ServedCrew
<1>3. Shape'
  BY <1>1, <1>2 DEF IInv, Shape, rows, memory
<1>4. Roles'
  BY <1>1, <1>2 DEF IInv, Roles
<1>5. Follows'
  <2>1. TasksFollowRows'
    BY <1>1, <1>2 DEF IInv, Follows, TasksFollowRows, rows, EndLabel
  <2> QED BY <1>1, <1>2, <2>1, FollowsStays DEF rows
<1>6. NoTurnMoves
  BY <1>1, <1>2 DEF NoTurnMoves, TurnStays, rows
<1>7. LoadsShrink
  BY <1>1, <1>2 DEF LoadsShrink, Load, Carrying, Spent
<1>8. Authority' /\ Once'
  BY <1>1, <1>2, <1>6, <1>7, AuthorityStays, OnceStays DEF rows, memory
<1>9. Notice'
  <2>1. restarts = 0 => t \notin Unnoted
    BY <1>2 DEF IInv, Notice, NoticeOf
  <2>2. restarts = 0 => blind' = blind
    BY <1>1, <2>1 DEF Unnoted
  <2>3. CASE restarts = 0
    BY <1>1, <1>2, <1>6, <2>2, <2>3, NoticeStays DEF rows
  <2>4. CASE restarts # 0
    BY <1>2, <2>4 DEF Notice
  <2> QED BY <2>3, <2>4
<1> QED BY <1>2, <1>3, <1>4, <1>5, <1>8, <1>9 DEF IInv

\* A notice is written.
LEMMA NotesStep ==
  ASSUME IInv, NEW p \in Crew, Notes(p)
  PROVE  IInv'
<1> USE Parties
<1>1. /\ Serves(p, "noting") /\ UNCHANGED <<policy, status, opener, lent, busy, mine, answer, seen>>
      /\ mine' = mine /\ noted' = noted \union {mine[p]}
  BY DEF Notes
<1>2. /\ Waiting' /\ OpeningsStay
      /\ pc[p] = "noting" /\ p \in Range(jobs) /\ p \notin Range(ready)
      /\ UNCHANGED <<memory, todo, pc, woken, restarts>>
      /\ Range(jobs') = Range(jobs) \ {p} /\ Range(ready') = Range(ready) \union {p}
      /\ \A q \in Crew \ {p} : q \in Range(jobs) /\ pc[q] = "noting" =>
           /\ q \in Range(jobs') /\ pc'[q] = "noting" /\ mine'[q] = mine[q]
           /\ \A t \in Turn : Before(jobs, q, t) => Before(jobs', q, t)
  BY <1>1, ServedCrew
<1>3. Shape'
  <2>1. mine[p] \in Turn
    BY <1>2 DEF IInv, Shape, Roles
  <2> QED BY <1>1, <1>2, <2>1 DEF IInv, Shape, memory, seen
<1>4. Roles'
  BY <1>1, <1>2 DEF IInv, Roles
<1>5. Follows'
  <2>1. TasksFollowRows'
    BY <1>1, <1>2 DEF IInv, Follows, TasksFollowRows, EndLabel
  <2> QED BY <1>1, <1>2, <2>1, FollowsStays
<1>6. NoTurnMoves
  BY <1>1, <1>2 DEF NoTurnMoves, TurnStays
<1>7. LoadsShrink
  BY <1>1, <1>2 DEF LoadsShrink, Load, Carrying, Spent
<1>8. Authority' /\ Once'
  BY <1>1, <1>2, <1>6, <1>7, AuthorityStays, OnceStays DEF memory, seen
<1>9. Notice'
  <2> SUFFICES ASSUME restarts = 0 PROVE blind' = {} /\ \A u \in Unnoted' : NoticeOf(u)'
    BY <1>2 DEF Notice
  <2>1. blind' = {} /\ Unnoted' = Unnoted \ {mine[p]}
    BY <1>1, <1>2 DEF IInv, Notice, Unnoted, seen
  <2>2. ASSUME NEW t \in Unnoted \ {mine[p]} PROVE NoticeOf(t)'
    <3>1. t \in Turn /\ NoticeOf(t) /\ TurnStays(t)
      BY <1>6 DEF IInv, Unnoted, Notice, NoTurnMoves
    <3>2. \A q \in Crew :
             /\ Opening(q, t) => Opening(q, t)' /\ (Before(ready, q, Claimer) => Before(ready, q, Claimer)')
             /\ Noting(q, t) => Noting(q, t)' /\ (Before(jobs, q, t) => Before(jobs, q, t)')
      BY <1>2, <3>1, TurnIsNumber DEF Opening, OpeningsStay, Noting
    <3> QED BY <3>1, <3>2 DEF NoticeOf, TurnStays, RunLabel, EndLabel
  <2> QED BY <2>1, <2>2
<1> QED BY <1>2, <1>3, <1>4, <1>5, <1>8, <1>9 DEF IInv

\* finish_turn, or open_approval.
LEMMA FinishStep ==
  ASSUME IInv, NEW t \in Turn, Finish(t)
  PROVE  IInv'
<1> USE Parties
<1>1. /\ t \in Crew /\ UNCHANGED <<policy, opener, noted, lent, busy, mine, answer, seen>> /\ mine' = mine
      /\ \/ Serves(t, "finishing") /\ status' = [status EXCEPT ![t] = "ended"]
         \/ Serves(t, "parking") /\ status' = [status EXCEPT ![t] = "parked"]
  BY DEF Finish
<1>2. /\ Waiting' /\ OpeningsStay /\ NotingsStay
      /\ \/ pc[t] = "finishing" /\ status' = [status EXCEPT ![t] = "ended"]
         \/ pc[t] = "parking" /\ status' = [status EXCEPT ![t] = "parked"]
      /\ t \in Range(jobs) /\ t \notin Range(ready)
      /\ UNCHANGED <<memory, todo, pc, woken, restarts>>
      /\ Range(jobs') = Range(jobs) \ {t} /\ Range(ready') = Range(ready) \union {t}
  BY <1>1, ServedCrew
<1>3. /\ status' \in [Turn -> {"absent", "queued", "running", "parked", "ended"}]
      /\ status'[t] = (IF pc[t] = "finishing" THEN "ended" ELSE "parked")
      /\ \A u \in Turn : u # t => status'[u] = status[u]
  BY <1>2 DEF IInv, Shape
<1>4. Shape'
  BY <1>1, <1>2, <1>3 DEF IInv, Shape, memory, seen
<1>5. Roles'
  BY <1>1, <1>2 DEF IInv, Roles
<1>6. Follows'
  <2>1. TasksFollowRows'
    BY <1>2, <1>3 DEF IInv, Follows, TasksFollowRows, EndLabel, RunLabel, FlushLabel, OpenLabel
  <2> QED BY <1>1, <1>2, <1>3, <2>1, FollowsStays
<1>7. \A u \in Turn \ {t} : TurnStays(u)
  BY <1>1, <1>2, <1>3 DEF TurnStays
<1>8. answer # t /\ status'[t] # "queued" /\ pc[t] \in EndLabel
  BY <1>2, <1>3, TurnIsNumber DEF IInv, Follows, EndLabel
<1>9. Authority'
  <2>1. ASSUME NEW u \in lent \ orphans, u # t PROVE AuthorityOf(u)'
    <3>1. u \in Turn /\ AuthorityOf(u) /\ TurnStays(u)
      BY <1>7, <2>1 DEF IInv, Shape, Authority
    <3> QED BY <1>2, <3>1, AuthorityStaysOf DEF memory
  <2>2. AuthorityOf(t)'
    BY <1>1, <1>2, <1>8 DEF AuthorityOf, EndLabel
  <2> QED BY <1>1, <2>1, <2>2 DEF IInv, Authority, seen
<1>10. Notice'
  <2> SUFFICES ASSUME restarts = 0 PROVE blind' = {} /\ \A u \in Unnoted' : NoticeOf(u)'
    BY <1>2 DEF Notice
  <2>1. blind' = {} /\ Unnoted' = Unnoted
    BY <1>1, <1>2 DEF IInv, Notice, Unnoted, seen
  <2>2. t \notin Unnoted
    BY <1>8 DEF IInv, Notice, NoticeOf
  <2>3. ASSUME NEW u \in Unnoted PROVE NoticeOf(u)'
    <3>1. u \in Turn /\ NoticeOf(u) /\ TurnStays(u)
      BY <1>7, <2>2 DEF IInv, Unnoted, Notice
    <3> QED BY <1>2, <3>1, NoticeStaysOf
  <2> QED BY <2>1, <2>3
<1>11. LoadsShrink
  BY <1>1, <1>2 DEF LoadsShrink, Load, Carrying, Spent
<1>12. Once'
  BY <1>1, <1>2, <1>11, OnceStays DEF memory
<1> QED BY <1>2, <1>4, <1>5, <1>6, <1>9, <1>10, <1>12 DEF IInv

\* What _displace_live does to the rows.
LEMMA DisplacedIs ==
  ASSUME IInv
  PROVE  /\ Displaced \in [Turn -> {"absent", "queued", "running", "parked", "ended"}]
         /\ \A t \in Turn : \/ Displaced[t] = status[t]
                            \/ status[t] \in {"queued", "parked"} /\ Displaced[t] = "ended"
<1>1. status \in [Turn -> {"absent", "queued", "running", "parked", "ended"}]
  BY DEF IInv, Shape
<1>2. CASE Displaced = status
  BY <1>1, <1>2
<1>3. CASE Displaced # status
  <2>1. /\ Live # {} /\ status[Oldest(Live)] # "running"
        /\ Displaced = [status EXCEPT ![Oldest(Live)] = "ended"]
    BY <1>3 DEF Displaced
  <2>2. Live \subseteq Nat
    BY TurnIsNumber DEF Live
  <2>3. Oldest(Live) \in Live
    BY <2>1, <2>2, OldestIs
  <2>4. status[Oldest(Live)] \in {"queued", "parked"} /\ Oldest(Live) \in Turn
    BY <2>1, <2>3 DEF Live
  <2> QED BY <1>1, <2>1, <2>4
<1> QED BY <1>2, <1>3

\* The next turn to be created does not exist yet.
LEMMA OldestAbsent ==
  ASSUME Absent # {}
  PROVE  Oldest(Absent) \in Absent
<1>1. Absent \subseteq Nat
  BY TurnIsNumber DEF Absent
<1> QED BY <1>1, OldestIs

\* The worker opens a turn for p, or refuses to.
LEMMA OpensStep ==
  ASSUME IInv, NEW p \in Crew, Opens(p)
  PROVE  IInv'
<1> USE Parties
<1>1. /\ Serves(p, "opening") /\ UNCHANGED <<busy, answer, seen, policy, noted>>
      /\ \/ mine' = [mine EXCEPT ![p] = NoTurn] /\ UNCHANGED rows
         \/ /\ Absent # {} /\ status' = [Displaced EXCEPT ![Oldest(Absent)] = "queued"]
            /\ opener' = [opener EXCEPT ![Oldest(Absent)] = Head(todo[p])]
            /\ lent' \in {lent, lent \union {Oldest(Absent)}}
            /\ mine' = [mine EXCEPT ![p] = Oldest(Absent)]
  BY DEF Opens, rows
<1>2. mine \in [Party -> Turn \union {NoTurn}]
  BY DEF IInv, Shape
<1>3. \A x \in Crew : x # p => mine'[x] = mine[x]
  BY <1>1, <1>2
<1>4. /\ Waiting' /\ OpeningsStay /\ NotingsStay
      /\ pc[p] = "opening" /\ p \in Range(jobs) /\ p \notin Range(ready)
      /\ UNCHANGED <<memory, todo, pc, woken, restarts>>
      /\ Range(jobs') = Range(jobs) \ {p} /\ Range(ready') = Range(ready) \union {p}
  BY <1>1, <1>3, ServedCrew
<1>5. CASE mine' = [mine EXCEPT ![p] = NoTurn] /\ UNCHANGED rows
  <2>1. mine' \in [Party -> Turn \union {NoTurn}] /\ mine'[p] = NoTurn
    BY <1>2, <1>5
  <2>2. Shape'
    BY <1>1, <1>4, <1>5, <2>1 DEF IInv, Shape, rows, memory, seen
  <2>3. Roles'
    BY <1>3, <1>4 DEF IInv, Roles
  <2>4. Follows'
    <3>1. TasksFollowRows'
      BY <1>4, <1>5 DEF IInv, Follows, TasksFollowRows, rows, EndLabel
    <3> QED BY <1>1, <1>4, <1>5, <3>1, FollowsStays DEF rows
  <2>5. NoTurnMoves
    BY <1>1, <1>4, <1>5 DEF NoTurnMoves, TurnStays, rows
  <2>6. LoadsShrink
    BY <1>3, <1>4, <2>1 DEF LoadsShrink, Load, Carrying, Spent
  <2>7. Authority' /\ Notice' /\ Once'
    BY <1>1, <1>4, <1>5, <2>5, <2>6, AuthorityStays, NoticeStays, OnceStays DEF rows, memory, seen
  <2> QED BY <1>4, <2>2, <2>3, <2>4, <2>7 DEF IInv
<1>6. CASE mine' # [mine EXCEPT ![p] = NoTurn] \/ ~ UNCHANGED rows
  <2>1. PICK t \in Absent :
          /\ status' = [Displaced EXCEPT ![t] = "queued"]
          /\ opener' = [opener EXCEPT ![t] = Head(todo[p])]
          /\ lent' \in {lent, lent \union {t}}
          /\ mine' = [mine EXCEPT ![p] = t]
    BY <1>1, <1>6, OldestAbsent
  <2>2. /\ t \in Turn /\ status[t] = "absent" /\ pc[t] = "off"
        /\ t \notin lent /\ opener[t] = NoEnding /\ answer # t
    BY <2>1, TurnIsNumber DEF Absent, IInv, Follows, TasksFollowRows
  <2>3. /\ status' \in [Turn -> {"absent", "queued", "running", "parked", "ended"}]
        /\ status'[t] = "queued"
        /\ \A u \in Turn \ {t} : \/ status'[u] = status[u]
                                 \/ status[u] \in {"queued", "parked"} /\ status'[u] = "ended"
    BY <2>1, <2>2, DisplacedIs
  <2>4. /\ todo[p] \in Seq(Ending) /\ todo[p] # <<>> /\ IsInjective(todo[p])
        /\ Load(p) = Range(todo[p])
    BY <1>4 DEF IInv, Shape, Once, Carrying, Load
  <2>5. /\ Head(todo[p]) \in Ending /\ Head(todo[p]) \in Load(p)
        /\ Load(p)' = Range(Tail(todo[p])) /\ Head(todo[p]) \notin Load(p)' /\ Load(p)' \subseteq Load(p)
    <3>1. /\ Range(todo[p]) = Range(Tail(todo[p])) \union {Head(todo[p])}
          /\ Head(todo[p]) \notin Range(Tail(todo[p])) /\ Head(todo[p]) \in Ending
      BY <2>4, Left
    <3>2. Load(p)' = Range(Tail(todo[p]))
      BY <1>2, <1>4, <2>1, <2>2, TurnIsNumber DEF Load, Carrying, Spent
    <3> QED BY <2>4, <3>1, <3>2
  <2>6. /\ mine' \in [Party -> Turn \union {NoTurn}] /\ mine'[p] = t
        /\ opener' \in [Turn -> Ending \union {NoEnding}] /\ opener'[t] = Head(todo[p])
        /\ \A u \in Turn \ {t} : opener'[u] = opener[u]
    BY <1>2, <2>1, <2>2, <2>5 DEF IInv, Shape
  <2>7. Shape'
    BY <1>1, <1>4, <2>1, <2>2, <2>3, <2>6 DEF IInv, Shape, memory, seen
  <2>8. Roles'
    BY <1>3, <1>4 DEF IInv, Roles
  <2>9. Follows'
    <3>1. TasksFollowRows'
      BY <1>4, <2>2, <2>3 DEF IInv, Follows, TasksFollowRows, EndLabel, RunLabel, FlushLabel, OpenLabel
    <3>2. answer' # NoTurn => /\ pc'[Claimer] = "claiming" /\ Claimer \in Range(ready')
                              /\ status'[answer'] = "running" /\ pc'[answer'] = "off"
      BY <1>1, <1>4, <2>2, <2>3 DEF IInv, Follows, Shape
    <3>3. \A u \in Turn : status'[u] = "absent" => u \notin lent' /\ opener'[u] = NoEnding
      BY <2>1, <2>3, <2>6 DEF IInv, Follows
    <3> QED BY <3>1, <3>2, <3>3 DEF Follows
  <2>10. \A u \in Turn \ {t} : TurnStays(u)
    BY <1>1, <1>4, <2>3 DEF TurnStays
  <2>11. Opening(p, t)' /\ answer' # t /\ pc'[t] = "off"
    BY <1>1, <1>4, <2>2, <2>6 DEF Opening
  <2>12. Authority'
    <3>1. ASSUME NEW u \in lent \ orphans, u # t PROVE AuthorityOf(u)'
      <4>1. u \in Turn /\ AuthorityOf(u) /\ TurnStays(u)
        BY <2>10, <3>1 DEF IInv, Shape, Authority
      <4> QED BY <1>4, <4>1, AuthorityStaysOf DEF memory
    <3>2. AuthorityOf(t)'
      BY <2>11 DEF AuthorityOf
    <3> QED BY <1>1, <2>1, <3>1, <3>2 DEF IInv, Authority, seen
  <2>13. Notice'
    <3> SUFFICES ASSUME restarts = 0 PROVE blind' = {} /\ \A u \in Unnoted' : NoticeOf(u)'
      BY <1>4 DEF Notice
    <3>1. blind' = {} /\ Unnoted' \subseteq Unnoted \union {t}
      BY <1>1, <2>6 DEF IInv, Notice, Unnoted, seen
    <3>2. ASSUME NEW u \in Unnoted, u # t PROVE NoticeOf(u)'
      <4>1. u \in Turn /\ NoticeOf(u) /\ TurnStays(u)
        BY <2>10, <3>2 DEF IInv, Unnoted, Notice
      <4> QED BY <1>4, <4>1, NoticeStaysOf
    <3>3. NoticeOf(t)'
      BY <2>3, <2>11 DEF NoticeOf, EndLabel
    <3> QED BY <3>1, <3>2, <3>3
  <2>14. \A x \in Crew \ {p} : /\ Load(x)' = Load(x)
                               /\ (Carrying(x) <=> Carrying(x)') /\ (Spent(x) <=> Spent(x)')
    BY <1>3, <1>4 DEF Load, Carrying, Spent
  <2>15. ~ Carrying(p)' /\ Carrying(p)
    BY <1>4 DEF Carrying
  <2> DEFINE h == Head(todo[p])
  <2>16. \A x \in Ending : x # h => Woke(x)' = Woke(x)
    BY <2>2, <2>6, WakeAssumption DEF Woke
  <2>17. /\ Woke(h) = {} /\ h \notin Range(held) /\ \A x \in Crew : h \notin Load(x)'
    BY <2>5, <2>14 DEF IInv, Once
  <2>18. Once'
    <3>1. \A x \in Crew : /\ IsInjective(todo'[x])
                          /\ (Carrying(x) \/ Spent(x))' => todo'[x] # <<>>
                          /\ x \in Ending /\ Carrying(x)' => todo'[x] = <<x>>
      BY <1>4, <2>4, <2>14, <2>15 DEF IInv, Once
    <3>2. \A x \in Crew : Load(x)' \subseteq Load(x) /\ Load(x) \subseteq Ending
      <4>1. ASSUME NEW x \in Crew PROVE Load(x) \subseteq Ending
        <5>1. todo[x] \in Seq(Ending) /\ (Carrying(x) \/ Spent(x) => todo[x] # <<>>)
          BY DEF IInv, Shape, Once
        <5>2. Range(todo[x]) \subseteq Ending
          BY <5>1, RangeOfSeq
        <5>3. todo[x] # <<>> => Range(Tail(todo[x])) \subseteq Range(todo[x])
          BY <5>1, Left
        <5> QED BY <5>1, <5>2, <5>3 DEF Load
      <4> QED BY <2>5, <2>14, <4>1
    <3>3. \A e \in Range(held') : Woke(e)' = {} /\ \A x \in Crew : e \notin Load(x)'
      <4>1. held' = held /\ Range(held) \subseteq Ending
        BY <1>4, RangeOfSeq DEF IInv, Shape, memory
      <4> QED BY <2>16, <2>17, <3>2, <4>1 DEF IInv, Once
    <3>4. \A x \in Crew : \A e \in Load(x)' : Woke(e)' = {} /\ \A q \in Crew \ {x} : e \notin Load(q)'
      BY <2>16, <2>17, <3>2 DEF IInv, Once
    <3>5. \A u, v \in Turn : opener'[u] = opener'[v] /\ opener'[u] # NoEnding => u = v
      BY <2>6, <2>17 DEF IInv, Once, Woke
    <3>6. IsInjective(held')
      BY <1>4 DEF IInv, Once, memory
    <3> QED BY <3>1, <3>3, <3>4, <3>5, <3>6 DEF Once
  <2> QED BY <1>4, <2>7, <2>8, <2>9, <2>12, <2>13, <2>18 DEF IInv
<1> QED BY <1>5, <1>6

\* The claimer's transaction.
LEMMA ClaimsStep ==
  ASSUME IInv, Claims
  PROVE  IInv'
<1> USE Parties
<1>1. /\ Serves(Claimer, "claiming") /\ UNCHANGED <<policy, opener, noted, lent, busy, mine, seen>> /\ mine' = mine
  BY DEF Claims
<1>2. /\ pc[Claimer] = "claiming" /\ Claimer \in Range(jobs) /\ Claimer \notin Range(ready)
      /\ UNCHANGED <<memory, todo, pc, woken, restarts>>
      /\ Waiting'
      /\ Range(jobs') = Range(jobs) \ {Claimer} /\ Range(ready') = Range(ready) \union {Claimer}
      /\ \A a, b : Before(ready, a, b) => Before(ready', a, b)
      /\ \A a \in Range(ready) : Before(ready', a, Claimer)
      /\ \A a, b : a # Claimer /\ Before(jobs, a, b) => Before(jobs', a, b)
  BY <1>1, ServedMoves
<1>3. answer = NoTurn
  BY <1>2 DEF IInv, Follows
<1>4. OpeningsStay /\ NotingsStay
  BY <1>1, <1>2 DEF OpeningsStay, NotingsStay
<1>5. LoadsShrink
  BY <1>1, <1>2 DEF LoadsShrink, Load, Carrying, Spent
<1>6. Roles' /\ Once'
  BY <1>1, <1>2, <1>5, OnceStays DEF IInv, Roles, memory
<1>7. CASE answer' = NoTurn /\ status' = status
  <2>1. Shape'
    BY <1>1, <1>2, <1>7 DEF IInv, Shape, memory, seen
  <2>2. Follows'
    <3>1. TasksFollowRows'
      BY <1>2, <1>7 DEF IInv, Follows, TasksFollowRows, EndLabel
    <3> QED BY <1>1, <1>2, <1>7, <3>1, FollowsStays
  <2>3. NoTurnMoves
    BY <1>2, <1>7, TurnIsNumber DEF NoTurnMoves, TurnStays
  <2>4. Authority' /\ Notice'
    BY <1>1, <1>2, <1>4, <2>3, AuthorityStays, NoticeStays DEF memory, seen
  <2> QED BY <1>2, <1>6, <2>1, <2>2, <2>4 DEF IInv
<1>8. CASE ~ (answer' = NoTurn /\ status' = status)
  <2>1. PICK t \in Turn : /\ status[t] = "queued" /\ answer' = t
                          /\ status' = [status EXCEPT ![t] = "running"]
    <3> DEFINE queued == {u \in Turn : status[u] = "queued"}
    <3>1. /\ queued # {} /\ answer' = Oldest(queued)
          /\ status' = [status EXCEPT ![Oldest(queued)] = "running"]
      BY <1>8 DEF Claims
    <3>2. queued \subseteq Nat
      BY TurnIsNumber
    <3>3. Oldest(queued) \in queued
      <4> HIDE DEF queued
      <4> QED BY <3>1, <3>2, OldestIs
    <3> QED BY <3>1, <3>3
  <2>2. /\ status' \in [Turn -> {"absent", "queued", "running", "parked", "ended"}]
        /\ status'[t] = "running" /\ \A u \in Turn \ {t} : status'[u] = status[u]
    BY <2>1 DEF IInv, Shape
  <2>3. pc[t] = "off" /\ t # Claimer
    BY <2>1 DEF IInv, Follows, TasksFollowRows
  <2>4. Shape'
    BY <1>1, <1>2, <2>1, <2>2 DEF IInv, Shape, memory, seen
  <2>5. Follows'
    <3>1. TasksFollowRows'
      BY <1>2, <2>2, <2>3 DEF IInv, Follows, TasksFollowRows, EndLabel, RunLabel, FlushLabel, OpenLabel
    <3> QED BY <1>1, <1>2, <2>1, <2>2, <2>3, <3>1 DEF IInv, Follows
  <2>6. \A u \in Turn \ {t} : TurnStays(u)
    BY <1>2, <2>1, <2>2 DEF TurnStays
  <2>7. Authority'
    <3>1. ASSUME NEW u \in lent \ orphans, u # t PROVE AuthorityOf(u)'
      <4>1. u \in Turn /\ AuthorityOf(u) /\ TurnStays(u)
        BY <2>6, <3>1 DEF IInv, Shape, Authority
      <4> QED BY <1>2, <1>4, <4>1, AuthorityStaysOf DEF memory
    <3>2. ASSUME t \in lent \ orphans PROVE AuthorityOf(t)'
      <4>1. t \in prepared \/ \E p \in Crew : Opening(p, t)
        BY <2>1, <3>2 DEF IInv, Authority, AuthorityOf
      <4>2. t \in prepared' \/ \E p \in Crew : Opening(p, t)' /\ Before(ready', p, Claimer)
        BY <1>1, <1>2, <4>1 DEF Opening, memory
      <4> QED BY <1>2, <2>2, <2>3, <4>2 DEF AuthorityOf
    <3> QED BY <1>1, <3>1, <3>2 DEF IInv, Authority, seen
  <2>8. Notice'
    <3> SUFFICES ASSUME restarts = 0 PROVE blind' = {} /\ \A u \in Unnoted' : NoticeOf(u)'
      BY <1>2 DEF Notice
    <3>1. blind' = {} /\ Unnoted' = Unnoted
      BY <1>1 DEF IInv, Notice, Unnoted, seen
    <3>2. ASSUME NEW u \in Unnoted, u # t PROVE NoticeOf(u)'
      <4>1. u \in Turn /\ NoticeOf(u) /\ TurnStays(u)
        BY <2>6, <3>2 DEF IInv, Unnoted, Notice
      <4> QED BY <1>4, <4>1, NoticeStaysOf
    <3>3. ASSUME t \in Unnoted PROVE NoticeOf(t)'
      <4>1. PICK p \in Crew : Opening(p, t) \/ Noting(p, t)
        BY <2>1, <3>3 DEF IInv, Notice, NoticeOf
      <4>2. (Opening(p, t)' /\ Before(ready', p, Claimer)) \/ Noting(p, t)'
        BY <1>1, <1>2, <4>1 DEF Opening, Noting
      <4> QED BY <1>2, <2>2, <2>3, <4>2 DEF NoticeOf, EndLabel
    <3> QED BY <3>1, <3>2, <3>3
  <2> QED BY <1>2, <1>6, <2>4, <2>5, <2>7, <2>8 DEF IInv
<1> QED BY <1>7, <1>8

-----------------------------------------------------------------------------
(* What happens outside the process, and what people ask for. *)

\* prepare has answered; work has ended; a run is over or parks.
LEMMA SubmitsStep ==
  ASSUME IInv, NEW p \in Crew, NEW label \in {"opening", "asking", "finishing", "parking"},
         Submits(p, label), UNCHANGED <<rows, memory, locals, ready, woken, answer, seen, restarts>>,
         \/ p \in Crew /\ pc[p] = "preparing" /\ label = "opening"
         \/ p \in Ending /\ pc[p] = "working" /\ label = "asking"
         \/ p \in Turn /\ pc[p] = "rounds" /\ label \in EndLabel
  PROVE  IInv'
<1> USE Parties
<1>1. /\ Awake(p, ready) /\ label \in AtWorker /\ label \in Label /\ ready' = ready /\ p \in Party
      /\ mine' = mine /\ todo' = todo
  BY DEF Awake, AtLoop, AtWorker, Label, EndLabel, locals
<1>2. /\ Placed(jobs, ready, pc) /\ p \notin Range(jobs) /\ p \notin Range(ready)
  BY <1>1, WaitsNowhere DEF IInv, Waiting, AtLoop, AtWorker, EndLabel
<1>3. /\ Waiting'
      /\ pc' \in [Party -> Label] /\ pc'[p] = label /\ \A x \in Party : x # p => pc'[x] = pc[x]
      /\ Range(jobs') = Range(jobs) \union {p}
      /\ \A a, b : Before(jobs, a, b) => Before(jobs', a, b)
  BY <1>1, <1>2, SubmitsJoins
<1>4. OpeningsStay /\ NotingsStay
  BY <1>1, <1>2, <1>3 DEF OpeningsStay, NotingsStay
<1>5. Shape'
  BY <1>1 DEF IInv, Shape, rows, memory, locals, seen
<1>6. Roles'
  BY <1>1, <1>3 DEF IInv, Roles, OpenLabel, FlushLabel, EndLabel
<1>7. Follows'
  <2>1. TasksFollowRows'
    BY <1>1, <1>2, <1>3 DEF IInv, Follows, TasksFollowRows, rows, EndLabel, RunLabel, FlushLabel, OpenLabel
  <2>2. \A t \in Turn : pc[t] = "off" => pc'[t] = "off"
    BY <1>3
  <2> QED BY <1>1, <1>3, <2>1, <2>2, FollowsStays DEF rows
<1>8. LoadsShrink
  BY <1>1, <1>2, <1>3 DEF LoadsShrink, Load, Carrying, Spent, EndLabel
<1>9. Once'
  BY <1>1, <1>8, OnceStays DEF rows, memory
<1>10. \A u \in Turn : u # p \/ label \notin EndLabel => TurnStays(u)
  BY <1>3 DEF TurnStays, rows, RunLabel, EndLabel
<1>11. label \in EndLabel => p \in Turn /\ pc[p] = "rounds" /\ status[p] = "running" /\ answer # p
  BY TurnIsNumber DEF IInv, Follows, TasksFollowRows, EndLabel, RunLabel
<1>12. Authority'
  <2>1. ASSUME NEW u \in lent \ orphans PROVE AuthorityOf(u)'
    <3>1. u \in Turn /\ AuthorityOf(u)
      BY DEF IInv, Shape, Authority
    <3>2. CASE u # p \/ label \notin EndLabel
      BY <1>4, <1>10, <3>1, <3>2, AuthorityStaysOf DEF memory
    <3>3. CASE u = p /\ label \in EndLabel
      BY <1>3, <1>11, <3>3 DEF AuthorityOf, rows, EndLabel
    <3> QED BY <3>2, <3>3
  <2> QED BY <2>1 DEF IInv, Authority, rows, seen
<1>13. Notice'
  <2> SUFFICES ASSUME restarts = 0 PROVE blind' = {} /\ \A u \in Unnoted' : NoticeOf(u)'
    BY DEF Notice
  <2>1. blind' = {} /\ Unnoted' = Unnoted
    BY DEF IInv, Notice, Unnoted, rows, seen
  <2>2. ASSUME NEW u \in Unnoted PROVE NoticeOf(u)'
    <3>1. u \in Turn /\ NoticeOf(u)
      BY DEF IInv, Unnoted, Notice
    <3>2. u # p \/ label \notin EndLabel
      BY <1>11, <3>1 DEF NoticeOf
    <3> QED BY <1>4, <1>10, <3>1, <3>2, NoticeStaysOf
  <2> QED BY <2>1, <2>2
<1> QED BY <1>3, <1>5, <1>6, <1>7, <1>9, <1>12, <1>13 DEF IInv

\* A result is read: nothing the invariant speaks of changes.
LEMMA FetchesStep ==
  ASSUME IInv, NEW e \in Ending, Fetches(e)
  PROVE  IInv'
<1>1. /\ fetched' = fetched \union {e}
      /\ UNCHANGED <<rows, prepared, held, locals, pc, jobs, ready, woken, answer, seen, restarts>>
  BY DEF Fetches
<1>2. Shape' /\ Waiting' /\ Roles' /\ Follows'
  BY <1>1 DEF IInv, Shape, Waiting, Roles, Follows, TasksFollowRows, rows, locals, seen
<1>3. OpeningsStay /\ NotingsStay /\ NoTurnMoves /\ LoadsShrink
  BY <1>1 DEF OpeningsStay, NotingsStay, NoTurnMoves, TurnStays, LoadsShrink, Load, Carrying, Spent, rows, locals
<1>4. Authority' /\ Notice' /\ Once'
  BY <1>1, <1>3, AuthorityStays, NoticeStays, OnceStays DEF rows, locals, seen
<1> QED BY <1>2, <1>4 DEF IInv

\* A message, or an approval's answer: a turn is queued and the claimer woken.
LEMMA QueuedStep ==
  ASSUME IInv, NEW t \in Turn, Submit(t) \/ Answer(t)
  PROVE  IInv'
<1> USE Parties
<1>1. /\ t \in Crew /\ UNCHANGED <<policy, opener, noted, lent, held, fetched, locals, answer, seen, restarts>>
      /\ StopsAndWakes(t, "off", ready) /\ "off" \in Label /\ mine' = mine /\ todo' = todo
      /\ \/ /\ status[t] = "absent" /\ status' = [Displaced EXCEPT ![t] = "queued"]
            /\ prepared' = prepared
         \/ /\ status[t] = "parked" /\ status' = [status EXCEPT ![t] = "queued"]
            /\ prepared' = prepared \union {t}
  BY DEF Submit, Answer, Absent, memory, locals, Label
<1>2. pc[t] = "off" /\ answer # t
  BY <1>1, TurnIsNumber DEF Answer, Submit, Absent, IInv, Follows, TasksFollowRows
<1>3. Awake(t, ready)
  BY <1>2 DEF Awake, AtLoop, AtWorker
<1>4. /\ Waiting' /\ OpeningsStay /\ NotingsStay
      /\ t \notin Range(jobs) /\ jobs' = jobs
      /\ \A x \in Crew : x \in Range(ready') <=> x \in Range(ready) /\ x # t
      /\ Claimer \in Range(ready) => Claimer \in Range(ready')
      /\ pc' \in [Party -> Label] /\ pc'[t] = "off"
      /\ \A x \in Crew : x # t => pc'[x] = pc[x]
      /\ pc'[Claimer] \in {"starting", "claiming"} /\ (pc[Claimer] # "off" => pc'[Claimer] = pc[Claimer])
      /\ woken' = (pc[Claimer] # "off" \/ woken)
  BY <1>1, <1>3, MovesOff
<1>5. \A x \in Crew : pc'[x] = pc[x]
  BY <1>2, <1>4
<1>6. \A x \in Crew : x \in Range(ready') <=> x \in Range(ready)
  BY <1>2, <1>4, WaitsNowhere DEF IInv, Waiting, AtLoop, AtWorker
<1>7. /\ status' \in [Turn -> {"absent", "queued", "running", "parked", "ended"}]
      /\ status'[t] = "queued"
      /\ \A u \in Turn \ {t} : \/ status'[u] = status[u]
                               \/ status[u] \in {"queued", "parked"} /\ status'[u] = "ended"
  BY <1>1, DisplacedIs DEF IInv, Shape
<1>8. Shape'
  BY <1>1, <1>4, <1>7 DEF IInv, Shape, locals, seen
<1>9. Roles'
  BY <1>1, <1>4, <1>5 DEF IInv, Roles
<1>10. Follows'
  <2>1. TasksFollowRows'
    BY <1>2, <1>4, <1>5, <1>6, <1>7 DEF IInv, Follows, TasksFollowRows, EndLabel, RunLabel, FlushLabel, OpenLabel
  <2>2. \A u \in Turn : /\ status[u] = "running" /\ pc[u] = "off" => status'[u] = "running" /\ pc'[u] = "off"
                        /\ status'[u] = "absent" => status[u] = "absent"
    BY <1>1, <1>5, <1>7
  <2>3. answer # NoTurn => pc[Claimer] = "claiming"
    BY DEF IInv, Follows
  <2> QED BY <1>1, <1>4, <2>1, <2>2, <2>3, FollowsStays
<1>11. \A u \in Turn \ {t} : TurnStays(u)
  BY <1>1, <1>5, <1>7 DEF TurnStays
<1>12. Authority'
  <2>1. ASSUME NEW u \in lent \ orphans, u # t PROVE AuthorityOf(u)'
    <3>1. u \in Turn /\ AuthorityOf(u) /\ TurnStays(u)
      BY <1>11, <2>1 DEF IInv, Shape, Authority
    <3> QED BY <1>1, <1>4, <3>1, AuthorityStaysOf
  <2>2. t \in lent => t \in prepared'
    BY <1>1 DEF IInv, Follows
  <2>3. t \in lent => AuthorityOf(t)'
    BY <1>1, <1>2, <1>4, <2>2 DEF AuthorityOf
  <2> QED BY <1>1, <2>1, <2>3 DEF IInv, Authority, seen
<1>13. Notice'
  <2> SUFFICES ASSUME restarts = 0 PROVE blind' = {} /\ \A u \in Unnoted' : NoticeOf(u)'
    BY <1>1 DEF Notice
  <2>1. blind' = {} /\ Unnoted' = Unnoted
    BY <1>1 DEF IInv, Notice, Unnoted, seen
  <2>2. t \notin Unnoted
    BY <1>1 DEF IInv, Notice, NoticeOf, Follows, Unnoted
  <2>3. ASSUME NEW u \in Unnoted PROVE NoticeOf(u)'
    <3>1. u \in Turn /\ NoticeOf(u) /\ TurnStays(u)
      BY <1>11, <2>2 DEF IInv, Unnoted, Notice
    <3> QED BY <1>4, <3>1, NoticeStaysOf
  <2> QED BY <2>1, <2>3
<1>14. LoadsShrink
  BY <1>1, <1>4, <1>5, <1>6 DEF LoadsShrink, Load, Carrying, Spent
<1>15. Once'
  BY <1>1, <1>14, OnceStays
<1> QED BY <1>4, <1>8, <1>9, <1>10, <1>12, <1>13, <1>15 DEF IInv

\* A turn nothing runs is cancelled.
LEMMA CancelStep ==
  ASSUME IInv, NEW t \in Turn, Cancel(t)
  PROVE  IInv'
<1> USE Parties
<1>1. /\ status[t] \in {"queued", "parked"} /\ status' = [status EXCEPT ![t] = "ended"]
      /\ prepared' = prepared \ {t}
      /\ UNCHANGED <<policy, opener, noted, lent, held, fetched, locals, pc, jobs, ready, woken,
                     answer, seen, restarts>>
      /\ mine' = mine /\ todo' = todo
  BY DEF Cancel, locals
<1>2. /\ status' \in [Turn -> {"absent", "queued", "running", "parked", "ended"}]
      /\ status'[t] = "ended" /\ \A u \in Turn \ {t} : status'[u] = status[u]
  BY <1>1 DEF IInv, Shape
<1>3. pc[t] \in {"off", "parking"} /\ answer # t
  BY <1>1, TurnIsNumber DEF IInv, Follows, TasksFollowRows
<1>4. Shape' /\ Waiting' /\ Roles'
  BY <1>1, <1>2 DEF IInv, Shape, Waiting, Roles, locals, seen
<1>5. Follows'
  <2>1. TasksFollowRows'
    BY <1>1, <1>2, <1>3 DEF IInv, Follows, TasksFollowRows, EndLabel, RunLabel, FlushLabel, OpenLabel
  <2> QED BY <1>1, <1>2, <2>1, FollowsStays
<1>6. OpeningsStay /\ NotingsStay /\ NoTurnMoves /\ LoadsShrink
  BY <1>1, <1>2 DEF OpeningsStay, NotingsStay, NoTurnMoves, TurnStays, LoadsShrink, Load, Carrying, Spent
<1>7. Authority'
  <2>1. ASSUME NEW u \in lent \ orphans, u # t PROVE AuthorityOf(u)'
    <3>1. u \in Turn /\ AuthorityOf(u) /\ TurnStays(u)
      BY <1>6, <2>1 DEF IInv, Shape, Authority, NoTurnMoves
    <3> QED BY <1>1, <1>6, <2>1, <3>1, AuthorityStaysOf
  <2>2. AuthorityOf(t)'
    BY <1>1, <1>2, <1>3 DEF AuthorityOf
  <2> QED BY <1>1, <2>1, <2>2 DEF IInv, Authority, seen
<1>8. Notice' /\ Once'
  BY <1>1, <1>6, NoticeStays, OnceStays DEF seen
<1> QED BY <1>4, <1>5, <1>7, <1>8 DEF IInv

\* The process restarts: nobody carries anything.
LEMMA RestartStep ==
  ASSUME IInv, Restart
  PROVE  IInv'
<1> USE Parties
<1>1. /\ restarts' = restarts + 1 /\ restarts < MaxRestarts
      /\ status' = [u \in Turn |-> IF status[u] = "running" THEN "ended" ELSE status[u]]
      /\ prepared' = {} /\ held' = <<>>
      /\ orphans' = orphans \union {t \in lent : status[t] = "queued"}
      /\ todo' = [p \in Party |-> <<>>] /\ busy' = [p \in Party |-> FALSE]
      /\ mine' = [p \in Party |-> NoTurn]
      /\ jobs' = <<>> /\ ready' = <<Claimer>> /\ woken' = FALSE /\ answer' = NoTurn
      /\ UNCHANGED <<policy, opener, noted, lent, fetched, bare, blind>>
  BY DEF Restart
<1>2. /\ pc' = [p \in Party |-> IF p \in Ending THEN "done"
                            ELSE IF p = Claimer THEN "starting"
                            ELSE IF pc[p] = "off" \/ status'[p] # "ended" THEN "off" ELSE "left"]
  BY DEF Restart
<1>3. /\ pc' \in [Party -> Label] /\ pc'[Claimer] = "starting"
      /\ \A e \in Ending : pc'[e] = "done"
      /\ \A t \in Turn : pc'[t] = IF pc[t] = "off" \/ status'[t] # "ended" THEN "off" ELSE "left"
  BY <1>2 DEF Label
<1>4. /\ <<>> \in Seq(Party) /\ <<Claimer>> \in Seq(Party)
      /\ IsInjective(<<>>) /\ IsInjective(<<Claimer>>)
      /\ Range(<<>>) = {} /\ Range(<<Claimer>>) = {Claimer}
  BY DEF IsInjective, Range
<1>5. Waiting'
  BY <1>1, <1>3, <1>4 DEF Waiting, Placed, AtLoop
<1>6. \A t \in Turn : status'[t] = IF status[t] = "running" THEN "ended" ELSE status[t]
  BY <1>1
<1>7. Shape'
  <2>1. <<>> \in Seq(Ending)
    OBVIOUS
  <2>2. /\ todo' \in [Party -> Seq(Ending)] /\ busy' \in [Party -> BOOLEAN]
        /\ mine' \in [Party -> Turn \union {NoTurn}]
    BY <1>1, <2>1
  <2>3. restarts' \in 0..MaxRestarts
    BY <1>1, WakeAssumption DEF IInv, Shape
  <2>4. status' \in [Turn -> {"absent", "queued", "running", "parked", "ended"}]
    BY <1>1 DEF IInv, Shape
  <2> QED BY <1>1, <2>1, <2>2, <2>3, <2>4 DEF IInv, Shape, seen
<1>8. Roles'
  BY <1>3 DEF Roles, FlushLabel
<1>9. Follows'
  <2>1. TasksFollowRows'
    BY <1>3, <1>6 DEF IInv, Follows, Shape, TasksFollowRows, EndLabel, RunLabel, FlushLabel, OpenLabel
  <2> QED BY <1>1, <1>6, <2>1 DEF IInv, Follows
<1>10. Authority'
  <2>1. ASSUME NEW t \in lent \ orphans' PROVE AuthorityOf(t)'
    <3>1. t \in Turn /\ status'[t] # "queued" /\ answer' # t /\ pc'[t] # "claimed"
      BY <1>1, <1>3, <1>6, <2>1, TurnIsNumber DEF IInv, Shape
    <3> QED BY <3>1 DEF AuthorityOf
  <2> QED BY <1>1, <2>1 DEF IInv, Authority
<1>11. Notice'
  <2>1. restarts' # 0
    BY <1>1 DEF IInv, Shape
  <2> QED BY <2>1 DEF Notice
<1>12. Once'
  <2>1. \A p \in Crew : ~ Carrying(p)' /\ ~ Spent(p)' /\ Load(p)' = {}
    BY <1>3 DEF Carrying, Spent, Load
  <2>2. \A p \in Crew : IsInjective(todo'[p])
    BY <1>1, <1>4
  <2>3. opener' = opener /\ IsInjective(held') /\ Range(held') = {}
    BY <1>1, <1>4
  <2> QED BY <2>1, <2>2, <2>3 DEF IInv, Once
<1> QED BY <1>5, <1>7, <1>8, <1>9, <1>10, <1>11, <1>12 DEF IInv

\* The invariant holds initially.
LEMMA InitHolds == Init => IInv
<1> SUFFICES ASSUME Init PROVE IInv
  OBVIOUS
<1> USE Parties
<1>1. /\ <<>> \in Seq(Party) /\ <<>> \in Seq(Ending)
      /\ IsInjective(<<>>) /\ Range(<<>>) = {}
      /\ \A e \in Ending : /\ <<e>> \in Seq(Ending) /\ IsInjective(<<e>>)
                           /\ Range(<<e>>) = {e} /\ <<e>> # <<>>
  BY DEF IsInjective, Range
<1>2. /\ pc \in [Party -> Label] /\ pc[Claimer] = "off"
      /\ \A e \in Ending : pc[e] = "working" /\ todo[e] = <<e>>
      /\ \A t \in Turn : pc[t] = "off" /\ todo[t] = <<>> /\ status[t] = "absent" /\ opener[t] = NoEnding
      /\ jobs = <<>> /\ ready = <<>> /\ held = <<>> /\ answer = NoTurn /\ lent = {}
      /\ orphans = {} /\ bare = {} /\ blind = {}
  BY DEF Init, Label
<1>3. Shape
  <2>1. /\ todo \in [Party -> Seq(Ending)] /\ busy \in [Party -> BOOLEAN]
        /\ mine \in [Party -> Turn \union {NoTurn}]
    BY <1>1 DEF Init
  <2>2. restarts \in 0..MaxRestarts
    BY WakeAssumption DEF Init
  <2> QED BY <1>1, <2>1, <2>2 DEF Init, Shape
<1>4. Waiting
  BY <1>1, <1>2 DEF Waiting, Placed
<1>5. Roles
  BY <1>2 DEF Roles
<1>6. Follows
  BY <1>2 DEF Follows, TasksFollowRows, EndLabel, RunLabel, FlushLabel, OpenLabel
<1>7. Authority /\ Notice
  BY <1>2 DEF Authority, Notice, Unnoted
<1>8. Once
  <2>1. \A t \in Turn : Load(t) = {} /\ ~ Carrying(t) /\ ~ Spent(t)
    BY <1>2 DEF Load, Carrying, Spent
  <2>2. \A e \in Ending : Load(e) = {e}
    BY <1>1, <1>2 DEF Load, Carrying
  <2>3. \A e \in Ending : Woke(e) = {}
    BY <1>2, WakeAssumption DEF Woke
  <2>4. \A p \in Crew : /\ IsInjective(todo[p])
                        /\ Carrying(p) \/ Spent(p) => todo[p] # <<>>
                        /\ p \in Ending /\ Carrying(p) => todo[p] = <<p>>
    BY <1>1, <1>2, <2>1
  <2>5. \A p \in Crew : \A e \in Load(p) : Woke(e) = {} /\ \A q \in Crew \ {p} : e \notin Load(q)
    BY <2>1, <2>2, <2>3
  <2> QED BY <1>1, <1>2, <2>4, <2>5 DEF Once
<1> QED BY <1>3, <1>4, <1>5, <1>6, <1>7, <1>8 DEF IInv

\* Every step keeps the invariant.
LEMMA StepHolds == IInv /\ [Next]_vars => IInv'
<1> SUFFICES ASSUME IInv, [Next]_vars PROVE IInv'
  OBVIOUS
<1> USE Parties
<1>1. CASE UNCHANGED vars
  <2>1. UNCHANGED <<policy, status, opener, noted, lent, prepared, held, fetched, todo, busy, mine>>
        /\ UNCHANGED <<pc, jobs, ready, woken, answer, orphans, bare, blind, restarts>>
    BY <1>1 DEF vars, rows, memory, locals, seen
  <2>2. Shape' /\ Waiting' /\ Roles' /\ Follows'
    BY <2>1 DEF IInv, Shape, Waiting, Roles, Follows, TasksFollowRows
  <2>3. OpeningsStay /\ NotingsStay /\ NoTurnMoves /\ LoadsShrink
    BY <2>1 DEF OpeningsStay, NotingsStay, NoTurnMoves, TurnStays, LoadsShrink, Load, Carrying, Spent
  <2>4. Authority' /\ Notice' /\ Once'
    BY <2>1, <2>3, AuthorityStays, NoticeStays, OnceStays
  <2> QED BY <2>2, <2>4 DEF IInv
<1>2. ASSUME NEW e \in Ending, Asked(e) \/ WakesOrHolds(e) \/ Delivered(e) \/ Looks(e, "asking") \/ Writes(e, "emitting")
      PROVE  IInv'
  BY <1>2, AskedStep, WakesOrHoldsStep, DeliveredStep, WritesStep
<1>3. CASE Claims \/ Claiming
  BY <1>3, ClaimsStep, ClaimingStep
<1>4. ASSUME NEW t \in Turn,
             \/ Begins(t) \/ Reads(t) \/ Starts(t) \/ Finish(t) \/ Signals(t)
             \/ Looks(t, "checking") \/ Checked(t) \/ GoesOn(t)
      PROVE  IInv'
  BY <1>4, BeginsStep, ReadsStep, StartsStep, FinishStep, SignalsStep, WritesStep, CheckedStep, FlushStep
<1>5. ASSUME NEW p \in Ending \union Turn, Opens(p) \/ Opened(p) \/ Notes(p) \/ Noted(p) \/ Writes(p, "telling")
      PROVE  IInv'
  BY <1>5, OpensStep, OpenedStep, NotesStep, NotedStep, WritesStep
<1>6. ASSUME NEW p \in Ending \union Turn, Outside(p) PROVE IInv'
  <2>1. CASE Prepares(p)
    BY <2>1, SubmitsStep DEF Prepares
  <2>2. CASE p \in Turn /\ RunEnds(p)
    <3>1. PICK label \in {"finishing", "parking"} : Submits(p, label)
      BY <2>2 DEF RunEnds
    <3>2. label \in EndLabel /\ pc[p] = "rounds"
          /\ UNCHANGED <<rows, memory, locals, ready, woken, answer, seen, restarts>>
      BY <2>2 DEF RunEnds, EndLabel
    <3> QED BY <2>2, <3>1, <3>2, SubmitsStep
  <2>3. CASE p \in Turn /\ Flushes(p)
    BY <2>3, FlushStep
  <2> QED BY <1>6, <2>1, <2>2, <2>3 DEF Outside
<1>7. ASSUME NEW t \in Turn, Submit(t) \/ Answer(t) \/ Cancel(t) PROVE IInv'
  BY <1>7, QueuedStep, CancelStep
<1>8. ASSUME NEW e \in Ending, Finishes(e) \/ Fetches(e) PROVE IInv'
  BY <1>8, SubmitsStep, FetchesStep DEF Finishes
<1>9. CASE Restart
  BY <1>9, RestartStep
<1> QED BY <1>1, <1>2, <1>3, <1>4, <1>5, <1>6, <1>7, <1>8, <1>9 DEF Next, System

-----------------------------------------------------------------------------
(* The theorems. *)

\* The inductive invariant holds throughout.
THEOREM Invariance == Spec => []IInv
<1>1. Init => IInv  BY InitHolds
<1>2. IInv /\ [Next]_vars => IInv'  BY StepHolds
<1> QED BY <1>1, <1>2, PTL DEF Spec

\* Every variable keeps its shape, and no coroutine waits twice in SqlWorker and the loop.
THEOREM TypeCorrect == Spec => []TypeOK
<1>1. IInv => TypeOK  BY DEF IInv, Shape, Waiting, Placed, TypeOK
<1> QED BY <1>1, Invariance, PTL

\* A woken turn never runs without the authority prepared for it, at whatever yield the
\* supervisor claims it (_open, supervisor._claim), unless a restart found it queued: that
\* keeps the turn and loses the authority (supervisor._prepared).
THEOREM AuthorityFirst == Spec => []WokenTurnHasItsAuthority
<1>1. IInv => WokenTurnHasItsAuthority  BY DEF IInv, Authority, WokenTurnHasItsAuthority
<1> QED BY <1>1, Invariance, PTL

\* An ending opens at most one turn, however often it is held, taken and held again, and
\* unless the process died in between that turn reads the notice of it (flush, _open).
THEOREM OneTurnAndItsNotice == Spec => []NoticeWakesOneTurn
<1>1. ASSUME IInv PROVE NoticeWakesOneTurn
  <2>1. WokenTurnReadsItsNotice
    BY <1>1 DEF IInv, Shape, Notice, WokenTurnReadsItsNotice
  <2>2. ASSUME NEW e \in Ending PROVE Cardinality(Woke(e)) <= 1
    <3>1. \A t, u \in Woke(e) : t = u
      BY <1>1, WakeAssumption DEF IInv, Once, Woke
    <3>2. CASE Woke(e) = {}
      BY <3>2, FS_EmptySet
    <3>3. CASE Woke(e) # {}
      <4>1. PICK t \in Woke(e) : TRUE
        BY <3>3
      <4>2. Woke(e) = {t}
        BY <3>1, <4>1
      <4> QED BY <4>2, FS_Singleton
    <3> QED BY <3>2, <3>3
  <2> QED BY <2>1, <2>2 DEF NoticeWakesOneTurn, WokenOnce
<1> QED BY <1>1, Invariance, PTL
=============================================================================
