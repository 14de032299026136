------------------------ MODULE WorkRegistry_proofs -------------------------
(***************************************************************************)
(* The safety of WorkRegistry for every number of pieces of work, cap,     *)
(* group and retention: endings happen once and are told once, nothing     *)
(* unread is forgotten, nobody is left waiting, groups are told of, the    *)
(* caps hold and no slot stands idle.                                      *)
(***************************************************************************)
EXTENDS WorkRegistry, Integers, TLAPS, FiniteSetTheorems, WellFoundedInduction

InFlight == {"created", "doomed", "live", "stopping"}

\* A task in flight works for a running record: what makes an ending the first.
TasksRun == \A w \in Work : task[w] \in InFlight => state[w] = "running"

\* Notices are of finished records, and the teams told of are in teamed.
ReadIsFinished ==
  /\ \A w \in noticed : state[w] \in Finished
  /\ \A w \in kept : state[w] # "absent"
  /\ \A T \in teams : T \subseteq teamed

\* What has not started has no time of a start, and the next start is later than any so far.
StartsInOrder ==
  /\ \A w \in Work : state[w] \in {"absent", "queued"} => startedAt[w] = 0
  /\ \A w \in Work : startedAt[w] <= Cardinality(Started)

\* The caps, and that nothing idles under them.
CapsInOrder == CapHeld /\ StartsInOrder /\ LaneHeld /\ NoIdleSlot

\* What each of the safety properties needs besides itself.
Books ==
  /\ TypeOK
  /\ TasksRun
  /\ ReadIsFinished
  /\ ToldOnce
  /\ NothingUnreadForgotten
  /\ NobodyWaitsForStarted

\* The inductive invariant.
IInv == Books /\ GroupIsTold /\ CapsInOrder

-----------------------------------------------------------------------------
(* Sets of naturals. *)

\* A non-empty set of naturals has a least element.
LEMMA Least ==
  ASSUME NEW T, T \subseteq Nat, T # {}
  PROVE  \E x \in T : \A y \in T : x <= y
<1>1. PICK x \in T : \A y \in T : ~(<<y, x>> \in OpToRel(<, Nat))
  BY NatLessThanWellFounded, WFMin
<1>2. \A y \in T : ~(y < x)
  BY <1>1 DEF OpToRel
<1> QED
  BY <1>2

\* A non-empty set of work has a youngest member.
LEMMA Youngest ==
  ASSUME NEW T, T \subseteq Work, T # {}
  PROVE  \E x \in T : \A y \in T : y <= x
<1> USE RegistryAssumption DEF Work
<1> DEFINE U == {b \in Nat : \A y \in T : y <= b}
<1>1. U \subseteq Nat /\ NumWork \in U
  OBVIOUS
<1>2. PICK u \in U : \A v \in U : u <= v
  BY <1>1, Least
<1>3. ASSUME u \notin T PROVE FALSE
  <2>1. PICK y \in T : TRUE
    OBVIOUS
  <2>2. u > 0
    BY <2>1
  <2>3. \A z \in T : z <= u - 1
    BY <1>3
  <2> QED
    BY <1>2, <2>2, <2>3
<1> QED
  BY <1>3

\* Sets of work are finite, and a larger one has no smaller cardinality.
LEMMA SetsOfWork ==
  ASSUME NEW S, S \subseteq Work
  PROVE  /\ IsFiniteSet(S)
         /\ Cardinality(S) \in Nat
         /\ \A T \in SUBSET S : Cardinality(T) <= Cardinality(S)
         /\ \A w : Cardinality(S \union {w}) <= Cardinality(S) + 1
<1>1. IsFiniteSet(Work)
  BY FS_Interval, RegistryAssumption DEF Work
<1>2. IsFiniteSet(S)
  BY <1>1, FS_Subset
<1>3. Cardinality(S) \in Nat
  BY <1>2, FS_CardinalityType
<1>4. \A T \in SUBSET S : Cardinality(T) <= Cardinality(S)
  BY <1>2, FS_Subset
<1>5. ASSUME NEW w PROVE Cardinality(S \union {w}) <= Cardinality(S) + 1
  <2>1. Cardinality(S \union {w}) = IF w \in S THEN Cardinality(S) ELSE Cardinality(S) + 1
    BY <1>2, FS_AddElement
  <2> QED
    BY <1>3, <2>1
<1> QED
  BY <1>2, <1>3, <1>4, <1>5

\* Room for more work is room for less: _has_room is monotone.
LEMMA RoomShrinks ==
  ASSUME NEW A, NEW B, A \subseteq B, B \subseteq Work, NEW n \in Nat, HasRoom(B, n)
  PROVE  HasRoom(A, n)
<1>1. /\ Cardinality(A) <= Cardinality(B)
      /\ Cardinality(A) \in Nat /\ Cardinality(B) \in Nat
  BY SetsOfWork
<1>2. /\ Helpers(A) \subseteq Helpers(B)
      /\ Helpers(B) \subseteq Work
  BY DEF Helpers
<1>3. /\ Cardinality(Helpers(A)) <= Cardinality(Helpers(B))
      /\ Cardinality(Helpers(A)) \in Nat /\ Cardinality(Helpers(B)) \in Nat
  BY <1>2, SetsOfWork
<1> QED
  BY <1>1, <1>3, RegistryAssumption DEF HasRoom

\* The work that starts together starts after all that has, in the order it was recorded.
LEMMA BegunLater ==
  ASSUME TypeOK, NEW next, next \subseteq Work, Begun(next)
  PROVE  /\ startedAt' \in [Work -> Nat]
         /\ \A v \in Work : startedAt'[v] = IF v \in next THEN 1 + Cardinality(Started)
                                                           ELSE startedAt[v]
<1>1. Cardinality(Started) \in Nat
  BY SetsOfWork DEF Started
<1> QED
  BY <1>1 DEF Begun, TypeOK

\* Who started before whom, after such a step.
LEMMA BegunInOrder ==
  ASSUME TypeOK, NEW next, next \subseteq Work, Begun(next),
         \A v \in next : startedAt[v] = 0,
         \A v \in Work : startedAt[v] <= Cardinality(Started)
  PROVE  /\ \A v \in Work : startedAt'[v] <= Cardinality(Started')
         /\ \A u \in Work, v \in Work \ next :
              StartedNoLater(u, v)' => u \notin next /\ StartedNoLater(u, v)
         /\ \A u \in next, v \in next : StartedNoLater(u, v)' => u <= v
<1> DEFINE c == Cardinality(Started)
<1>1. c \in Nat /\ Started \subseteq Work
  BY SetsOfWork DEF Started
<1>2. /\ startedAt \in [Work -> Nat]
      /\ \A v \in Work : startedAt'[v] = IF v \in next THEN 1 + c ELSE startedAt[v]
  BY BegunLater DEF TypeOK
<1>3. Work \subseteq Nat
  BY RegistryAssumption DEF Work
<1>4. Started' = Started \union next
  BY <1>1, <1>2 DEF Started
<1>5. Cardinality(Started') \in Nat /\ c <= Cardinality(Started')
  BY <1>1, <1>4, SetsOfWork
<1>6. ASSUME NEW m \in next PROVE 1 + c <= Cardinality(Started')
  <2>1. m \notin Started
    BY DEF Started
  <2>2. Cardinality(Started \union {m}) = c + 1
    BY <1>1, <2>1, SetsOfWork, FS_AddElement
  <2>3. Started \union {m} \subseteq Started' /\ Started' \subseteq Work
    BY <1>1, <1>4
  <2>4. Cardinality(Started \union {m}) <= Cardinality(Started')
    BY <2>3, SetsOfWork
  <2> QED
    BY <2>2, <2>4, <1>1
<1> HIDE DEF c
<1>7. \A v \in Work : startedAt'[v] <= Cardinality(Started')
  <2> TAKE v \in Work
  <2>1. CASE v \in next
    BY <2>1, <1>2, <1>6
  <2>2. CASE v \notin next
    <3>1. startedAt'[v] = startedAt[v] /\ startedAt[v] \in Nat /\ startedAt[v] <= c
      BY <2>2, <1>2 DEF c
    <3> QED
      BY <3>1, <1>1, <1>5
  <2> QED
    BY <2>1, <2>2
<1>8. ASSUME NEW u \in Work, NEW v \in Work \ next, StartedNoLater(u, v)'
      PROVE  u \notin next /\ StartedNoLater(u, v)
  <2>1. startedAt'[v] = startedAt[v] /\ startedAt[v] \in Nat /\ startedAt[v] <= c
    BY <1>2 DEF c
  <2>2. startedAt'[u] <= startedAt'[v]
    BY <1>8, <1>1, <1>2 DEF StartedNoLater
  <2>3. u \notin next
    BY <2>1, <2>2, <1>1, <1>2
  <2> QED
    BY <2>1, <2>3, <1>2, <1>8 DEF StartedNoLater
<1>9. ASSUME NEW u \in next, NEW v \in next, StartedNoLater(u, v)' PROVE u <= v
  BY <1>1, <1>2, <1>3, <1>9 DEF StartedNoLater
<1> QED
  BY <1>7, <1>8, <1>9

-----------------------------------------------------------------------------
(* What an ending does. *)

\* The records as w ends as `how`, before anybody is promoted.
After(w, how) == [state EXCEPT ![w] = how]

\* What Ended means for a running record: the older records are as they were, but for
\* those that leave the queue, and only read ones are forgotten.
EndedAs(w, how, tell, next) ==
  /\ state[w] = "running" /\ w \notin next /\ next \subseteq Queued
  /\ state' = [v \in Work |-> IF v \in next THEN "running"
                              ELSE IF v = w THEN how ELSE state[v]]
  /\ \A v \in Work : task'[v] \in InFlight => v \in next \/ (v # w /\ task[v] \in InFlight)
  /\ blocked' = blocked \ next
  /\ Begun(next)
  /\ kept' \subseteq kept
  /\ \A v \in kept \ kept' : v # w /\ v \in noticed /\ state[v] \in Finished
  /\ Tell(w, tell)
  /\ UNCHANGED <<kind, slots, group, noticed, closing>>
  /\ \A v \in Queued :
       v \in next <=> ~closing /\ Promotes(After(w, how), v, next)

\* Every ending of a running record is such a step.
LEMMA EndedIsEndedAs ==
  ASSUME Books, NEW w \in Work, NEW how \in Finished, NEW tell, NEW over \in {"ended", "cancelled"},
         state[w] = "running", Ended(w, how, tell, over)
  PROVE  \E next \in SUBSET Queued : EndedAs(w, how, tell, next)
<1> DEFINE st == After(w, how)
<1>1. PICK next \in SUBSET Queued :
        /\ IsPromoted(st, kept', next)
        /\ state' = [v \in Work |-> IF v \in next THEN "running" ELSE st[v]]
        /\ task' = [v \in Work |-> IF v \in next THEN "created"
                                   ELSE IF v = w THEN over ELSE task[v]]
        /\ blocked' = blocked \ next
        /\ Begun(next)
  BY DEF Ended, After
<1>2. /\ Tell(w, tell)
      /\ kept' = KeptAfter(st, noticed)
      /\ UNCHANGED <<kind, slots, group, noticed, closing>>
  BY DEF Ended, After
<1>3. st = [v \in Work |-> IF v = w THEN how ELSE state[v]]
  BY DEF After, Books, TypeOK
<1>4. w \notin next
  BY DEF Queued
<1>5. kept' \subseteq kept
  BY <1>2 DEF KeptAfter
<1>6. \A v \in kept \ kept' : v # w /\ v \in noticed /\ state[v] \in Finished
  <2>1. \A v \in kept \ kept' : v \in noticed
    BY <1>2 DEF KeptAfter, Forgettable
  <2>2. \A v \in noticed : state[v] \in Finished
    BY DEF Books, ReadIsFinished
  <2> QED
    BY <2>1, <2>2 DEF Finished
<1>7. \A v \in Work : task'[v] \in InFlight => v \in next \/ (v # w /\ task[v] \in InFlight)
  BY <1>1 DEF InFlight
<1>8. ASSUME NEW v \in Queued
      PROVE  v \in next <=> ~closing /\ Promotes(st, v, next)
  <2>1. v \in Work /\ state[v] = "queued" /\ v # w
    BY DEF Queued
  <2>2. v \in kept
    BY <2>1 DEF Books, NothingUnreadForgotten, Finished
  <2>3. v \in kept' /\ st[v] = "queued"
    BY <2>1, <2>2, <1>3, <1>6 DEF Finished
  <2> QED
    BY <2>3, <1>1 DEF IsPromoted
<1>9. state' = [v \in Work |-> IF v \in next THEN "running"
                               ELSE IF v = w THEN how ELSE state[v]]
  BY <1>1, <1>3
<1>10. EndedAs(w, how, tell, next)
  BY <1>1, <1>2, <1>4, <1>5, <1>6, <1>7, <1>8, <1>9 DEF EndedAs
<1> QED
  BY <1>10

\* The steps that end started work: an ending, or a callback with nothing to do.
LEMMA EndingSteps ==
  ASSUME Books, NEW w \in Work, NeverRan(w) \/ \E h \in Finished : RunEnds(w, h)
  PROVE  \/ UNCHANGED <<records, task, blocked, closing, told, teams>>
         \/ \E how \in Finished, tell \in BOOLEAN, next \in SUBSET Queued :
              /\ EndedAs(w, how, tell, next)
              /\ ~closing => tell
<1> DEFINE Ends == \E how \in Finished, tell \in BOOLEAN, next \in SUBSET Queued :
                     EndedAs(w, how, tell, next) /\ (~closing => tell)
<1>1. ASSUME Stopped(w), state[w] = "running" PROVE Ends
  <2>1. CASE closing
    <3>1. Ended(w, "failed", kind[w] # "helper", "cancelled")
      BY <1>1, <2>1 DEF Stopped
    <3>2. \E next \in SUBSET Queued : EndedAs(w, "failed", kind[w] # "helper", next)
      BY <1>1, <3>1, EndedIsEndedAs DEF Finished
    <3> QED
      BY <3>2, <2>1 DEF Finished
  <2>2. CASE ~closing
    <3>1. Ended(w, "cancelled", TRUE, "cancelled")
      BY <1>1, <2>2 DEF Stopped
    <3>2. \E next \in SUBSET Queued : EndedAs(w, "cancelled", TRUE, next)
      BY <1>1, <3>1, EndedIsEndedAs DEF Finished
    <3> QED
      BY <3>2 DEF Finished
  <2> QED
    BY <2>1, <2>2
<1>2. CASE NeverRan(w)
  <2>1. StillOpen(w) => Stopped(w) /\ state[w] = "running"
    BY <1>2 DEF NeverRan, StillOpen
  <2>2. ~StillOpen(w) => UNCHANGED <<records, task, blocked, closing, told, teams>>
    BY <1>2 DEF NeverRan
  <2> QED
    BY <2>1, <2>2, <1>1
<1>3. ASSUME NEW h \in Finished, RunEnds(w, h) PROVE Ends
  <2>1. state[w] = "running"
    BY <1>3 DEF RunEnds, Books, TasksRun, InFlight
  <2>2. CASE Ended(w, h, TRUE, "ended")
    BY <2>1, <2>2, EndedIsEndedAs
  <2>3. CASE Stopped(w)
    BY <2>1, <2>3, <1>1
  <2> QED
    BY <1>3, <2>2, <2>3 DEF RunEnds
<1> QED
  BY <1>2, <1>3

\* What start() and queue() record: a new piece of work, running where there is room and
\* waiting where there is none.
NewWork(w, k, n, g, st) ==
  /\ IsNext(w) /\ Recorded(w, k, n, g, st)
  /\ st = "running" => Cardinality(Running(state)) < MaxConcurrent
  /\ st = "running" /\ k = "helper" => Cardinality(Helpers(Running(state))) < n
  /\ st = "queued" => ~HasRoom(Running(state), n)

\* start() and queue() are such steps.
LEMMA NewWorkSteps ==
  ASSUME NEW w \in Work, NEW g, Start(w, g) \/ \E n \in Caps : Queue(w, n, g)
  PROVE  \E k \in Kind, n \in Caps \union {0}, st \in {"queued", "running"} :
           NewWork(w, k, n, g, st)
<1>1. CASE Start(w, g)
  <2>1. NewWork(w, "command", 0, g, "running")
    BY <1>1 DEF Start, NewWork
  <2> QED
    BY <2>1 DEF Kind
<1>2. ASSUME NEW n \in Caps, Queue(w, n, g)
      PROVE  \E st \in {"queued", "running"} : NewWork(w, "helper", n, g, st)
  <2>1. CASE HasRoom(Running(state), n) /\ Recorded(w, "helper", n, g, "running")
    BY <1>2, <2>1 DEF Queue, NewWork, HasRoom
  <2>2. CASE ~HasRoom(Running(state), n) /\ Recorded(w, "helper", n, g, "queued")
    BY <1>2, <2>2 DEF Queue, NewWork
  <2> QED
    BY <1>2, <2>1, <2>2 DEF Queue
<1> QED
  BY <1>1, <1>2 DEF Kind

-----------------------------------------------------------------------------
(* The books. *)

\* They are in order at first.
LEMMA InitBooks == Init => Books
<1> SUFFICES ASSUME Init PROVE Books
  OBVIOUS
<1> USE RegistryAssumption DEF Init
<1>1. TypeOK
  BY DEF TypeOK, Kind
<1>2. TasksRun /\ NothingUnreadForgotten
  BY DEF TasksRun, InFlight, NothingUnreadForgotten
<1>3. ReadIsFinished /\ ToldOnce /\ NobodyWaitsForStarted
  BY DEF ReadIsFinished, ToldOnce, NobodyWaitsForStarted
<1> QED
  BY <1>1, <1>2, <1>3 DEF Books

\* New work keeps them in order.
LEMMA NewWorkBooks ==
  ASSUME Books, NEW w \in Work, NEW k \in Kind, NEW n \in Caps \union {0},
         NEW g \in Group \union {NoGroup}, NEW st \in {"queued", "running"},
         NewWork(w, k, n, g, st)
  PROVE  Books'
<1> USE DEF Books, NewWork, Recorded
<1>1. state[w] = "absent"
  BY DEF IsNext
<1>2. TypeOK'
  <2>1. startedAt' \in [Work -> Nat]
    BY BegunLater
  <2> QED
    BY <2>1 DEF TypeOK
<1>3. TasksRun'
  BY <1>1 DEF TasksRun, TypeOK, InFlight
<1>4. ReadIsFinished'
  BY <1>1 DEF ReadIsFinished, TypeOK, Finished
<1>5. ToldOnce'
  BY <1>1 DEF ToldOnce, TypeOK, Finished
<1>6. NothingUnreadForgotten'
  BY <1>1 DEF NothingUnreadForgotten, TypeOK
<1>7. NobodyWaitsForStarted'
  BY <1>1 DEF NobodyWaitsForStarted, TypeOK
<1> QED
  BY <1>2, <1>3, <1>4, <1>5, <1>6, <1>7

\* So does work recorded as lost.
LEMMA RecordLostBooks ==
  ASSUME Books, NEW w \in Work, NEW g \in Group \union {NoGroup}, RecordLost(w, g)
  PROVE  Books'
<1> USE DEF Books, RecordLost
<1>1. state[w] = "absent"
  BY DEF IsNext
<1>2. TypeOK'
  BY DEF TypeOK, Kind, Finished
<1>3. TasksRun'
  BY <1>1 DEF TasksRun, TypeOK, InFlight
<1>4. ReadIsFinished'
  BY <1>1 DEF ReadIsFinished, TypeOK, Finished
<1>5. ToldOnce'
  BY <1>1 DEF ToldOnce, TypeOK, Finished
<1>6. NothingUnreadForgotten'
  BY <1>1 DEF NothingUnreadForgotten, TypeOK
<1>7. NobodyWaitsForStarted'
  BY <1>1 DEF NobodyWaitsForStarted, TypeOK
<1> QED
  BY <1>2, <1>3, <1>4, <1>5, <1>6, <1>7

\* Telling of an ending keeps the accounts of what was told.
LEMMA TellBooks ==
  ASSUME Books, NEW w \in Work, NEW tell \in BOOLEAN, Tell(w, tell), state[w] \notin Finished,
         \A v \in Work : v # w /\ state[v] \in Finished => state'[v] \in Finished,
         state'[w] \in Finished
  PROVE  /\ endedAt' \in [Work -> Nat]
         /\ told' \in [Work -> Nat]
         /\ teamed' \subseteq Work /\ teams' \subseteq SUBSET Work
         /\ teamed \subseteq teamed'
         /\ \A T \in teams' : T \subseteq teamed'
         /\ ToldOnce'
<1> USE DEF Books
<1>1. Cardinality({v \in Work : endedAt[v] > 0}) \in Nat
  BY SetsOfWork
<1>2. endedAt' \in [Work -> Nat]
  BY <1>1 DEF Tell, TypeOK
<1>3. told[w] = 0
  BY DEF ToldOnce, TypeOK
<1>4. /\ told' \in [Work -> Nat]
      /\ \A v \in Work : told'[v] <= 1 /\ (told'[v] = 1 => state'[v] \in Finished)
  BY <1>3 DEF Tell, ToldOnce, TypeOK
<1>5. Members(group[w]) \subseteq Work /\ Members(group[w]) \cap teamed = {}
  BY DEF Members, TypeOK
<1>6. \/ UNCHANGED <<teamed, teams>>
      \/ teamed' = teamed \union Members(group[w]) /\ teams' = teams \union {Members(group[w])}
  BY DEF Tell
<1>7. /\ teamed' \subseteq Work /\ teams' \subseteq SUBSET Work
      /\ teamed \subseteq teamed'
      /\ \A T \in teams' : T \subseteq teamed'
  BY <1>5, <1>6 DEF TypeOK, ReadIsFinished
<1>8. \A a, b \in teams' : a # b => a \cap b = {}
  BY <1>5, <1>6 DEF ToldOnce, ReadIsFinished
<1> QED
  BY <1>2, <1>4, <1>7, <1>8 DEF ToldOnce

\* An ending keeps them in order.
LEMMA EndedBooks ==
  ASSUME Books, NEW w \in Work, NEW how \in Finished, NEW tell \in BOOLEAN,
         NEW next \in SUBSET Queued, EndedAs(w, how, tell, next),
         task' \in [Work -> {"none", "created", "doomed", "live", "stopping", "ended", "cancelled"}],
         watched' \subseteq Work
  PROVE  Books'
<1> USE DEF Books
<1>1. /\ state' = [v \in Work |-> IF v \in next THEN "running"
                                  ELSE IF v = w THEN how ELSE state[v]]
      /\ state[w] = "running" /\ w \notin next
      /\ \A v \in next : v \in Work /\ state[v] = "queued"
      /\ UNCHANGED <<kind, slots, group, noticed, closing>>
      /\ kept' \subseteq kept /\ blocked' = blocked \ next
  BY DEF EndedAs, Queued
<1>2. \A v \in Work : v # w /\ state[v] \in Finished => state'[v] = state[v]
  BY <1>1 DEF Finished
<1>3. state'[w] = how /\ state[w] \notin Finished
  BY <1>1 DEF Finished
<1>4. /\ endedAt' \in [Work -> Nat]
      /\ told' \in [Work -> Nat]
      /\ teamed' \subseteq Work /\ teams' \subseteq SUBSET Work
      /\ \A T \in teams' : T \subseteq teamed'
      /\ ToldOnce'
  BY <1>2, <1>3, TellBooks DEF EndedAs
<1>5. state' \in [Work -> {"absent", "queued", "running"} \union Finished]
  BY <1>1 DEF TypeOK
<1>6. TypeOK'
  <2>1. startedAt' \in [Work -> Nat]
    BY <1>1, BegunLater DEF EndedAs
  <2> QED
    BY <2>1, <1>1, <1>4, <1>5 DEF TypeOK
<1>7. TasksRun'
  BY <1>1 DEF TasksRun, EndedAs
<1>8. ReadIsFinished'
  BY <1>1, <1>2, <1>3, <1>4 DEF ReadIsFinished, TypeOK, Finished
<1>9. NothingUnreadForgotten'
  <2> SUFFICES ASSUME NEW v \in Work, state'[v] # "absent", v \notin kept'
               PROVE  state'[v] \in Finished /\ v \in noticed'
    BY DEF NothingUnreadForgotten
  <2>1. CASE v \in kept
    BY <2>1, <1>1, <1>2 DEF EndedAs
  <2>2. CASE v \notin kept
    BY <2>2, <1>1, <1>2, <1>3 DEF NothingUnreadForgotten, Finished
  <2> QED
    BY <2>1, <2>2
<1>10. NobodyWaitsForStarted'
  BY <1>1 DEF NobodyWaitsForStarted, TypeOK
<1> QED
  BY <1>4, <1>6, <1>7, <1>8, <1>9, <1>10

\* What an ending does to the tasks and the callbacks.
LEMMA EndingTasks ==
  ASSUME TypeOK, NEW w \in Work, NeverRan(w) \/ \E h \in Finished : RunEnds(w, h)
  PROVE  /\ task' \in [Work -> {"none", "created", "doomed", "live", "stopping", "ended", "cancelled"}]
         /\ watched' \subseteq Work
<1> USE DEF TypeOK
<1>1. ASSUME NEW how, NEW tell, NEW over \in {"ended", "cancelled"}, Ended(w, how, tell, over)
      PROVE  task' \in [Work -> {"none", "created", "doomed", "live", "stopping", "ended", "cancelled"}]
  BY <1>1 DEF Ended
<1>2. ASSUME Stopped(w)
      PROVE  task' \in [Work -> {"none", "created", "doomed", "live", "stopping", "ended", "cancelled"}]
  BY <1>2, <1>1 DEF Stopped
<1> QED
  BY <1>1, <1>2 DEF NeverRan, RunEnds

\* Cancelling keeps the books in order.
LEMMA CancelBooks == ASSUME Books, NEW w \in Work, Cancel(w) PROVE Books'
<1> USE DEF Books
<1>1. CASE state[w] = "queued"
  <2>1. /\ state' = [state EXCEPT ![w] = "cancelled"]
        /\ Tell(w, TRUE) /\ blocked' = blocked \ {w}
        /\ UNCHANGED <<kind, slots, group, kept, noticed, startedAt, task, watched, closing>>
    BY <1>1 DEF Cancel, LeftQueue
  <2>2. /\ \A v \in Work : v # w => state'[v] = state[v]
        /\ state'[w] = "cancelled" /\ state[w] \notin Finished
    BY <2>1, <1>1 DEF TypeOK, Finished
  <2>3. /\ endedAt' \in [Work -> Nat]
        /\ told' \in [Work -> Nat]
        /\ teamed' \subseteq Work /\ teams' \subseteq SUBSET Work
        /\ \A T \in teams' : T \subseteq teamed'
        /\ ToldOnce'
    BY <2>1, <2>2, TellBooks DEF Finished
  <2>4. TypeOK'
    BY <2>1, <2>3 DEF TypeOK, Finished
  <2>5. TasksRun'
    BY <1>1, <2>1, <2>2 DEF TasksRun
  <2>6. ReadIsFinished' /\ NothingUnreadForgotten'
    BY <1>1, <2>1, <2>2, <2>3 DEF ReadIsFinished, NothingUnreadForgotten, TypeOK, Finished
  <2>7. NobodyWaitsForStarted'
    BY <2>1, <2>2 DEF NobodyWaitsForStarted, TypeOK
  <2> QED
    BY <2>3, <2>4, <2>5, <2>6, <2>7
<1>2. CASE state[w] = "running"
  <2>1. /\ task' = [task EXCEPT ![w] = Asked(w)]
        /\ UNCHANGED <<records, blocked, told, teams, watched, closing>>
    BY <1>2 DEF Cancel
  <2>2. TypeOK'
    BY <2>1 DEF TypeOK, records, Asked
  <2>3. TasksRun'
    BY <1>2, <2>1 DEF TasksRun, records, TypeOK
  <2> QED
    BY <2>1, <2>2, <2>3
       DEF records, ReadIsFinished, ToldOnce, NothingUnreadForgotten, NobodyWaitsForStarted
<1> QED
  BY <1>1, <1>2 DEF Cancel

\* Reading keeps the books in order.
LEMMA DrainBooks == ASSUME Books, Drain PROVE Books'
<1> USE DEF Books
<1> DEFINE news == noticed \union {w \in kept : state[w] \in Finished}
<1>1. /\ noticed' = news /\ kept' = KeptAfter(state, news)
      /\ UNCHANGED <<state, kind, slots, group, startedAt, endedAt, teamed, task, watched,
                     blocked, closing, told, teams>>
  BY DEF Drain
<1>2. kept' \subseteq kept /\ \A v \in kept \ kept' : v \in news /\ state[v] \in Finished
  BY <1>1 DEF KeptAfter, Forgettable
<1>3. news \subseteq Work /\ \A v \in news : state[v] \in Finished
  BY DEF TypeOK, ReadIsFinished
<1>4. TypeOK'
  BY <1>1, <1>2, <1>3 DEF TypeOK
<1>5. TasksRun' /\ ToldOnce' /\ NobodyWaitsForStarted'
  BY <1>1 DEF TasksRun, ToldOnce, NobodyWaitsForStarted
<1>6. ReadIsFinished' /\ NothingUnreadForgotten'
  BY <1>1, <1>2, <1>3 DEF ReadIsFinished, NothingUnreadForgotten
<1> QED
  BY <1>4, <1>5, <1>6

\* Every step keeps the books in order.
LEMMA BooksStep == ASSUME Books, [Next]_vars PROVE Books'
<1>1. ASSUME NEW w \in Work, NEW g \in Group \union {NoGroup},
             Start(w, g) \/ \E n \in Caps : Queue(w, n, g)
      PROVE  Books'
  BY <1>1, NewWorkSteps, NewWorkBooks
<1>2. ASSUME NEW w \in Work, NEW g \in Group \union {NoGroup}, RecordLost(w, g) PROVE Books'
  BY <1>2, RecordLostBooks
<1>3. ASSUME NEW w \in Work, NeverRan(w) \/ \E h \in Finished : RunEnds(w, h) PROVE Books'
  <2>1. /\ task' \in [Work -> {"none", "created", "doomed", "live", "stopping", "ended", "cancelled"}]
        /\ watched' \subseteq Work
    BY <1>3, EndingTasks DEF Books
  <2>2. CASE UNCHANGED <<records, task, blocked, closing, told, teams>>
    BY <2>1, <2>2 DEF records, Books, TypeOK, TasksRun, ReadIsFinished, ToldOnce,
                      NothingUnreadForgotten, NobodyWaitsForStarted
  <2>3. ASSUME NEW how \in Finished, NEW tell \in BOOLEAN, NEW next \in SUBSET Queued,
               EndedAs(w, how, tell, next)
        PROVE  Books'
    BY <2>1, <2>3, EndedBooks
  <2> QED
    BY <1>3, <2>2, <2>3, EndingSteps
<1>4. ASSUME NEW w \in Work, FirstStep(w) PROVE Books'
  BY <1>4 DEF FirstStep, records, Books, TypeOK, TasksRun, InFlight, ReadIsFinished, ToldOnce,
              NothingUnreadForgotten, NobodyWaitsForStarted
<1>5. ASSUME NEW w \in Work, Cancel(w) PROVE Books'
  BY <1>5, CancelBooks
<1>6. ASSUME NEW w \in Work, Wait(w) \/ WaitTimesOut(w) PROVE Books'
  BY <1>6 DEF Wait, WaitTimesOut, records, Books, TypeOK, TasksRun, ReadIsFinished, ToldOnce,
              NothingUnreadForgotten, NobodyWaitsForStarted
<1>7. CASE Drain
  BY <1>7, DrainBooks
<1>8. CASE Shutdown
  BY <1>8 DEF Shutdown, Asked, records, Books, TypeOK, TasksRun, InFlight, ReadIsFinished,
              ToldOnce, NothingUnreadForgotten, NobodyWaitsForStarted
<1>9. CASE UNCHANGED vars
  BY <1>9 DEF vars, records, Books, TypeOK, TasksRun, ReadIsFinished, ToldOnce,
              NothingUnreadForgotten, NobodyWaitsForStarted
<1> QED
  BY <1>1, <1>2, <1>3, <1>4, <1>5, <1>6, <1>7, <1>8, <1>9 DEF Next

-----------------------------------------------------------------------------
(* Groups and caps. *)

\* Queued work that is cancelled ends where it waits.
CancelQueued(w) == Cancel(w) /\ state[w] = "queued"

\* The steps that write records: new work, lost work, an ending, a cancel in the queue, a
\* read. Every other step leaves them alone.
LEMMA StepKinds ==
  ASSUME Books, [Next]_vars
  PROVE  \/ \E w \in Work, k \in Kind, n \in Caps \union {0}, g \in Group \union {NoGroup},
               st \in {"queued", "running"} : NewWork(w, k, n, g, st)
         \/ \E w \in Work, g \in Group \union {NoGroup} : RecordLost(w, g)
         \/ \E w \in Work, how \in Finished, tell \in BOOLEAN, next \in SUBSET Queued :
              EndedAs(w, how, tell, next) /\ (~closing => tell)
         \/ \E w \in Work : CancelQueued(w)
         \/ Drain
         \/ UNCHANGED records /\ (closing => closing')
<1>1. ASSUME NEW w \in Work, NEW g \in Group \union {NoGroup},
             Start(w, g) \/ \E n \in Caps : Queue(w, n, g)
      PROVE  \E k \in Kind, n \in Caps \union {0}, st \in {"queued", "running"} :
               NewWork(w, k, n, g, st)
  BY <1>1, NewWorkSteps
<1>2. ASSUME NEW w \in Work, NeverRan(w) \/ \E h \in Finished : RunEnds(w, h)
      PROVE  \/ \E how \in Finished, tell \in BOOLEAN, next \in SUBSET Queued :
                  EndedAs(w, how, tell, next) /\ (~closing => tell)
             \/ UNCHANGED records /\ (closing => closing')
  BY <1>2, EndingSteps
<1>3. ASSUME NEW w \in Work, Cancel(w)
      PROVE  CancelQueued(w) \/ (UNCHANGED records /\ (closing => closing'))
  BY <1>3 DEF Cancel, CancelQueued
<1>4. ASSUME NEW w \in Work, FirstStep(w) \/ Wait(w) \/ WaitTimesOut(w)
      PROVE  UNCHANGED records /\ (closing => closing')
  BY <1>4 DEF FirstStep, Wait, WaitTimesOut
<1>5. Shutdown \/ UNCHANGED vars => UNCHANGED records /\ (closing => closing')
  BY DEF Shutdown, vars
<1> QED
  BY <1>1, <1>2, <1>3, <1>4, <1>5 DEF Next

\* What an ending does to who runs and who waits.
LEMMA EndedRunning ==
  ASSUME Books, NEW w \in Work, NEW how \in Finished, NEW tell, NEW next \in SUBSET Queued,
         EndedAs(w, how, tell, next)
  PROVE  /\ Running(After(w, how)) = Running(state) \ {w}
         /\ Running(state') = Running(After(w, how)) \union next
         /\ Queued' = Queued \ next
         /\ \A v \in Work : state'[v] \in Finished <=> (v = w \/ state[v] \in Finished)
<1> USE DEF Books, EndedAs
<1>1. After(w, how) = [v \in Work |-> IF v = w THEN how ELSE state[v]]
  BY DEF After, TypeOK
<1>2. /\ \A v \in Work : After(w, how)[v] = "running" <=> v # w /\ state[v] = "running"
      /\ \A v \in next : v \in Work /\ state[v] = "queued"
  BY <1>1 DEF Finished, Queued
<1>3. \A v \in Work : state'[v] = "running" <=> (v \in next \/ (v # w /\ state[v] = "running"))
  BY <1>2 DEF Finished
<1>4. \A v \in Work : state'[v] = "queued" <=> (v \notin next /\ state[v] = "queued")
  BY <1>2 DEF Finished
<1>5. \A v \in Work : state'[v] \in Finished <=> (v = w \/ state[v] \in Finished)
  BY <1>2 DEF Finished
<1> QED
  BY <1>2, <1>3, <1>4, <1>5 DEF Running, Queued

\* A group's ending is told by the ending of its last member, and by no less: what else
\* changes its members only adds one still to end, or forgets one that has.
LEMMA GroupStep == ASSUME Books, GroupIsTold, [Next]_vars PROVE GroupIsTold'
<1> USE DEF Books
<1>1. ASSUME closing => closing',
             ~closing => \A g \in Group :
               (\A v \in kept' : group'[v] = g => state'[v] \in Finished) =>
                 \A v \in kept' : group'[v] = g => v \in teamed'
      PROVE  GroupIsTold'
  BY <1>1 DEF GroupIsTold
<1>2. ASSUME ~closing, NEW g \in Group, \A v \in kept : group[v] = g => state[v] \in Finished,
             NEW v \in kept, group[v] = g
      PROVE  v \in teamed
  BY <1>2 DEF GroupIsTold
<1>3. ASSUME NEW w \in Work, NEW k \in Kind, NEW n \in Caps \union {0},
             NEW h \in Group \union {NoGroup}, NEW st \in {"queued", "running"},
             NewWork(w, k, n, h, st)
      PROVE  GroupIsTold'
  <2>1. /\ state' = [state EXCEPT ![w] = st] /\ group' = [group EXCEPT ![w] = h]
        /\ kept' = kept \union {w}
        /\ UNCHANGED <<teamed, closing>>
        /\ state[w] = "absent"
    BY <1>3 DEF NewWork, Recorded, IsNext
  <2>2. w \notin kept
    BY <2>1 DEF ReadIsFinished
  <2>3. ASSUME ~closing, NEW g \in Group,
               \A v \in kept' : group'[v] = g => state'[v] \in Finished
        PROVE  \A v \in kept' : group'[v] = g => v \in teamed'
    <3>1. group'[w] # g
      BY <2>1, <2>3 DEF TypeOK, Finished
    <3> QED
      BY <1>2, <2>1, <2>2, <2>3, <3>1 DEF TypeOK
  <2> QED
    BY <1>1, <2>1, <2>3
<1>4. ASSUME NEW w \in Work, NEW h \in Group \union {NoGroup}, RecordLost(w, h)
      PROVE  GroupIsTold'
  <2>1. /\ state' = [state EXCEPT ![w] = "failed"] /\ group' = [group EXCEPT ![w] = h]
        /\ kept' = kept \union {w} /\ teamed' = teamed \union {w}
        /\ closing' = closing /\ state[w] = "absent"
    BY <1>4 DEF RecordLost, IsNext
  <2>2. w \notin kept
    BY <2>1 DEF ReadIsFinished
  <2>3. ASSUME ~closing, NEW g \in Group,
               \A v \in kept' : group'[v] = g => state'[v] \in Finished
        PROVE  \A v \in kept' : group'[v] = g => v \in teamed'
    BY <1>2, <2>1, <2>2, <2>3 DEF TypeOK
  <2> QED
    BY <1>1, <2>1, <2>3
<1>5. ASSUME NEW w \in Work, NEW how \in Finished, NEW tell \in BOOLEAN,
             NEW next \in SUBSET Queued, EndedAs(w, how, tell, next), ~closing => tell
      PROVE  GroupIsTold'
  <2>1. /\ \A v \in Work : state'[v] \in Finished <=> (v = w \/ state[v] \in Finished)
        /\ kept' \subseteq kept /\ \A v \in kept \ kept' : v # w /\ state[v] \in Finished
        /\ group' = group /\ closing' = closing
        /\ Tell(w, tell)
    BY <1>5, EndedRunning DEF EndedAs
  <2>2. ASSUME ~closing, NEW g \in Group,
               \A v \in kept' : group'[v] = g => state'[v] \in Finished
        PROVE  \A v \in kept' : group'[v] = g => v \in teamed'
    <3>1. \A v \in kept : group[v] = g => v = w \/ state[v] \in Finished
      BY <2>1, <2>2 DEF TypeOK
    <3>2. teamed \subseteq teamed'
      BY <2>1 DEF Tell
    <3>3. CASE group[w] = g
      <4>1. AllEnded(w, Members(g))
        BY <3>1 DEF AllEnded, Members
      <4>2. teamed' = teamed \union Members(g)
        BY <3>3, <4>1, <2>1, <2>2, <1>5, RegistryAssumption DEF Tell
      <4> QED
        BY <4>2, <2>1 DEF Members
    <3>4. CASE group[w] # g
      BY <3>1, <3>2, <3>4, <1>2, <2>1, <2>2
    <3> QED
      BY <3>3, <3>4
  <2> QED
    BY <1>1, <2>1, <2>2
<1>6. ASSUME NEW w \in Work, CancelQueued(w) PROVE GroupIsTold'
  <2>1. /\ state' = [state EXCEPT ![w] = "cancelled"] /\ Tell(w, TRUE)
        /\ UNCHANGED <<kept, group, closing>>
    BY <1>6 DEF CancelQueued, Cancel
  <2>2. ASSUME ~closing, NEW g \in Group,
               \A v \in kept' : group'[v] = g => state'[v] \in Finished
        PROVE  \A v \in kept' : group'[v] = g => v \in teamed'
    <3>1. \A v \in kept : group[v] = g => v = w \/ state[v] \in Finished
      BY <2>1, <2>2 DEF TypeOK
    <3>2. teamed \subseteq teamed'
      BY <2>1 DEF Tell
    <3>3. CASE group[w] = g
      <4>1. AllEnded(w, Members(g))
        BY <3>1 DEF AllEnded, Members
      <4>2. teamed' = teamed \union Members(g)
        BY <3>3, <4>1, <2>1, RegistryAssumption DEF Tell
      <4> QED
        BY <4>2, <2>1 DEF Members
    <3>4. CASE group[w] # g
      BY <3>1, <3>2, <3>4, <1>2, <2>1, <2>2
    <3> QED
      BY <3>3, <3>4
  <2> QED
    BY <1>1, <2>1, <2>2
<1>7. CASE Drain
  <2>1. /\ kept' \subseteq kept /\ \A v \in kept \ kept' : state[v] \in Finished
        /\ UNCHANGED <<state, group, teamed, closing>>
    BY <1>7 DEF Drain, KeptAfter, Forgettable
  <2> QED
    BY <1>1, <1>2, <2>1
<1>8. CASE UNCHANGED records /\ (closing => closing')
  BY <1>1, <1>2, <1>8 DEF records
<1> QED
  BY <1>3, <1>4, <1>5, <1>6, <1>7, <1>8, StepKinds

\* A cap is a number.
LEMMA SlotsAreNaturals == ASSUME TypeOK PROVE \A w \in Work : slots[w] \in Nat
<1>1. Caps \union {0} \subseteq Nat
  BY RegistryAssumption
<1> QED
  BY <1>1 DEF TypeOK

\* A step after which the same work runs and waits, or less waits, keeps them.
LEMMA SameRunning ==
  ASSUME CapsInOrder, Running(state)' = Running(state), Queued' \subseteq Queued,
         Helpers(Running(state))' = Helpers(Running(state)),
         \A w \in Running(state) \union Queued : slots'[w] = slots[w],
         \A w \in Work : state'[w] \in {"absent", "queued"} => state[w] \in {"absent", "queued"},
         startedAt' = startedAt,
         closing => closing'
  PROVE  CapsInOrder'
<1>1. CapHeld'
  BY DEF CapsInOrder, CapHeld
<1>4. StartsInOrder'
  BY DEF CapsInOrder, StartsInOrder, Started
<1>2. LaneHeld'
  BY DEF CapsInOrder, LaneHeld, StartedNoLater, Helpers
<1>3. NoIdleSlot'
  BY DEF CapsInOrder, NoIdleSlot, HasRoom
<1> QED
  BY <1>1, <1>2, <1>3, <1>4 DEF CapsInOrder

\* New work keeps the caps, and takes no room that queued work could have.
LEMMA NewWorkCaps ==
  ASSUME Books, CapsInOrder, NEW w \in Work, NEW k \in Kind, NEW n \in Caps \union {0},
         NEW g \in Group \union {NoGroup}, NEW st \in {"queued", "running"},
         NewWork(w, k, n, g, st)
  PROVE  CapsInOrder'
<1> USE RegistryAssumption DEF Books
<1> DEFINE R == Running(state)
           H == Helpers(R)
<1>1. /\ state' = [state EXCEPT ![w] = st] /\ kind' = [kind EXCEPT ![w] = k]
      /\ slots' = [slots EXCEPT ![w] = n]
      /\ closing' = closing /\ state[w] = "absent"
  BY DEF NewWork, Recorded, IsNext
<1>2. R \subseteq Work /\ H \subseteq R /\ w \notin R /\ w \notin Queued
  BY <1>1 DEF Running, Helpers, Queued
<1> DEFINE next == IF st = "running" THEN {w} ELSE {}
<1>5. /\ Begun(next) /\ next \subseteq Work /\ startedAt[w] = 0
      /\ startedAt \in [Work -> Nat]
      /\ \A v \in Work : startedAt[v] <= Cardinality(Started)
  BY <1>1 DEF NewWork, Recorded, CapsInOrder, StartsInOrder, TypeOK
<1>6. /\ \A v \in Work : startedAt'[v] <= Cardinality(Started')
      /\ \A u \in Work, v \in Work \ next :
           StartedNoLater(u, v)' => u \notin next /\ StartedNoLater(u, v)
      /\ \A v \in Work \ next : startedAt'[v] = startedAt[v]
  BY <1>5, BegunInOrder, BegunLater
<1>7. StartsInOrder'
  <2>1. ASSUME NEW v \in Work, state'[v] \in {"absent", "queued"} PROVE startedAt'[v] = 0
    <3>1. v \notin next
      BY <1>1, <2>1 DEF TypeOK
    <3>2. startedAt[v] = 0
      BY <1>1, <1>5, <2>1 DEF CapsInOrder, StartsInOrder, TypeOK
    <3> QED
      BY <1>6, <3>1, <3>2
  <2> QED
    BY <1>6, <2>1 DEF StartsInOrder
<1> HIDE DEF next
<1>3. CASE st = "queued"
  <2>1. Running(state)' = R /\ Helpers(Running(state))' = H
    BY <1>1, <1>2, <1>3 DEF Running, Helpers, TypeOK
  <2>2. Queued' = Queued \union {w}
    BY <1>1, <1>3 DEF Queued, TypeOK
  <2>3. slots'[w] = n /\ \A v \in R \union Queued : slots'[v] = slots[v]
    BY <1>1, <1>2 DEF TypeOK, Queued
  <2>4. ~HasRoom(R, n)
    BY <1>3 DEF NewWork
  <2>5. CapHeld'
    BY <2>1 DEF CapsInOrder, CapHeld
  <2>6. LaneHeld'
    <3> SUFFICES ASSUME NEW v \in H
                 PROVE  Cardinality({u \in H : StartedNoLater(u, v)'}) <= slots'[v]
      BY <2>1 DEF LaneHeld
    <3>1. v \in Work \ next /\ H \subseteq Work
      BY <1>2, <1>3 DEF next
    <3>2. {u \in H : StartedNoLater(u, v)'} \subseteq {u \in H : StartedNoLater(u, v)}
      BY <1>6, <3>1
    <3> DEFINE before == {u \in H : StartedNoLater(u, v)'}
               earlier == {u \in H : StartedNoLater(u, v)}
    <3>3. /\ Cardinality(before) <= Cardinality(earlier)
          /\ Cardinality(before) \in Nat /\ Cardinality(earlier) \in Nat
      BY <3>1, <3>2, SetsOfWork
    <3>4. Cardinality(earlier) <= slots[v]
      BY DEF CapsInOrder, LaneHeld
    <3>5. slots'[v] = slots[v] /\ slots[v] \in Nat
      BY <1>2, <2>3, <3>1, SlotsAreNaturals
    <3> QED
      BY <3>3, <3>4, <3>5
  <2>7. NoIdleSlot'
    BY <1>1, <2>1, <2>2, <2>3, <2>4 DEF CapsInOrder, NoIdleSlot, HasRoom
  <2> QED
    BY <1>7, <2>5, <2>6, <2>7 DEF CapsInOrder
<1>4. CASE st = "running"
  <2>1. Running(state)' = R \union {w} /\ Queued' = Queued
    BY <1>1, <1>4 DEF Running, Queued, TypeOK
  <2>2. Helpers(Running(state))' = IF k = "helper" THEN H \union {w} ELSE H
    <3>1. Helpers(Running(state))' = {v \in R \union {w} : kind'[v] = "helper"}
      BY <2>1 DEF Helpers
    <3>2. kind'[w] = k /\ \A v \in R : kind'[v] = kind[v]
      BY <1>1, <1>2 DEF TypeOK
    <3>3. H = {v \in R : kind[v] = "helper"}
      BY DEF Helpers
    <3> HIDE DEF R, H
    <3>4. \A v : v \in Helpers(Running(state))' <=> (v \in H \/ (v = w /\ k = "helper"))
      BY <3>1, <3>2, <3>3
    <3> QED
      BY <3>4
  <2>3. slots'[w] = n /\ \A v \in R \union Queued : slots'[v] = slots[v]
    BY <1>1, <1>2 DEF TypeOK, Queued
  <2>4. /\ Cardinality(R) < MaxConcurrent /\ (k = "helper" => Cardinality(H) < n)
        /\ n \in Nat
    BY <1>4 DEF NewWork
  <2>5. /\ Cardinality(R) \in Nat /\ Cardinality(R \union {w}) \in Nat
        /\ Cardinality(R) <= Cardinality(R \union {w})
        /\ Cardinality(R \union {w}) <= Cardinality(R) + 1
    BY <1>2, SetsOfWork
  <2>6. CapHeld'
    BY <2>1, <2>4, <2>5 DEF CapHeld
  <2>7. LaneHeld'
    <3> DEFINE helpers == Helpers(Running(state))'
    <3> SUFFICES ASSUME NEW v \in helpers
                 PROVE  Cardinality({u \in helpers : StartedNoLater(u, v)'}) <= slots'[v]
      BY DEF LaneHeld
    <3> DEFINE before == {u \in helpers : StartedNoLater(u, v)'}
    <3>1. H \subseteq Work /\ helpers \subseteq H \union {w} /\ next = {w}
      BY <1>2, <1>4, <2>2 DEF next
    <3>2. CASE v # w
      <4> DEFINE earlier == {u \in H : StartedNoLater(u, v)}
      <4>1. v \in H /\ v \in Work \ next
        BY <3>1, <3>2
      <4>2. before \subseteq earlier
        BY <1>6, <3>1, <4>1
      <4>3. /\ Cardinality(before) <= Cardinality(earlier)
            /\ Cardinality(before) \in Nat /\ Cardinality(earlier) \in Nat
        BY <3>1, <4>2, SetsOfWork
      <4>4. Cardinality(earlier) <= slots[v]
        BY <4>1 DEF CapsInOrder, LaneHeld
      <4>5. slots'[v] = slots[v] /\ slots[v] \in Nat
        BY <1>2, <2>3, <4>1, SlotsAreNaturals
      <4> QED
        BY <4>3, <4>4, <4>5
    <3>3. CASE v = w
      <4>1. k = "helper"
        BY <1>2, <2>2, <3>3
      <4>2. /\ Cardinality(H) \in Nat /\ Cardinality(before) \in Nat
            /\ Cardinality(before) <= Cardinality(H \union {w})
            /\ Cardinality(H \union {w}) \in Nat
            /\ Cardinality(H \union {w}) <= Cardinality(H) + 1
        <5>1. before \subseteq H \union {w} /\ H \union {w} \subseteq Work
          BY <3>1
        <5> HIDE DEF before
        <5> QED
          BY <5>1, <3>1, SetsOfWork
      <4>3. Cardinality(before) <= n
        BY <4>1, <4>2, <2>4
      <4> QED
        BY <4>3, <3>3, <2>3
    <3> QED
      BY <3>2, <3>3
  <2>8. NoIdleSlot'
    <3> SUFFICES ASSUME ~closing, NEW v \in Queued,
                        Cardinality(R \union {w}) < MaxConcurrent,
                        Cardinality(Helpers(Running(state))') < slots'[v]
                 PROVE  FALSE
      BY <1>1, <2>1 DEF NoIdleSlot, HasRoom
    <3>1. /\ Cardinality(H) \in Nat /\ Cardinality(H \union {w}) \in Nat
          /\ Cardinality(H) <= Cardinality(H \union {w})
      BY <1>2, SetsOfWork
    <3>2. slots'[v] = slots[v]
      BY <2>3
    <3>3. Cardinality(H) <= Cardinality(Helpers(Running(state))')
      <4>1. CASE k = "helper"
        BY <4>1, <3>1, <2>2
      <4>2. CASE k # "helper"
        <5>1. Helpers(Running(state))' = H
          BY <4>2, <2>2
        <5> QED
          BY <5>1, <3>1
      <4> QED
        BY <4>1, <4>2
    <3>5. Cardinality(Helpers(Running(state))') \in Nat
      <4>1. Helpers(Running(state))' \subseteq Work
        BY <1>2, <2>2
      <4> QED
        BY <4>1, SetsOfWork
    <3>7. slots[v] \in Nat
      BY SlotsAreNaturals DEF Queued
    <3>8. Cardinality(Helpers(Running(state))') < slots[v]
      BY <3>2
    <3>6. Cardinality(H) < slots[v]
      BY <3>1, <3>3, <3>5, <3>7, <3>8
    <3>4. HasRoom(R, slots[v])
      BY <3>6, <2>5 DEF HasRoom
    <3> QED
      BY <3>4 DEF CapsInOrder, NoIdleSlot
  <2> QED
    BY <1>7, <2>6, <2>7, <2>8 DEF CapsInOrder
<1> QED
  BY <1>3, <1>4

\* The youngest of those an ending promotes had room beside all the others.
LEMMA YoungestHadRoom ==
  ASSUME TypeOK, NEW w \in Work, NEW how \in Finished, NEW tell, NEW next \in SUBSET Queued,
         EndedAs(w, how, tell, next),
         NEW m \in next, NEW P, P \subseteq next, \A v \in P : v <= m
  PROVE  HasRoom(Running(After(w, how)) \union (P \ {m}), slots[m])
<1>1. HasRoom(Running(After(w, how)) \union {v \in next : v < m}, slots[m])
  BY DEF EndedAs, Promotes
<1>2. P \ {m} \subseteq {v \in next : v < m}
  BY RegistryAssumption DEF Queued, Work
<1>3. Running(After(w, how)) \union {v \in next : v < m} \subseteq Work
  BY DEF Running, Queued
<1>4. slots[m] \in Nat
  BY SlotsAreNaturals DEF Queued
<1> QED
  BY <1>1, <1>2, <1>3, <1>4, RoomShrinks

\* An ending keeps the caps, and hands on the room it makes.
LEMMA EndedCaps ==
  ASSUME Books, CapsInOrder, NEW w \in Work, NEW how \in Finished, NEW tell,
         NEW next \in SUBSET Queued, EndedAs(w, how, tell, next)
  PROVE  CapsInOrder'
<1> USE DEF Books
<1> DEFINE R == Running(After(w, how))
<1>1. /\ R \subseteq Running(state) /\ Running(state)' = R \union next
      /\ Queued' = Queued \ next
  BY EndedRunning
<1>2. kind' = kind /\ slots' = slots /\ closing' = closing
  BY DEF EndedAs
<1>3. Running(state) \subseteq Work /\ next \subseteq Work
  BY DEF Running, Queued
<1> HIDE DEF R
<1>4. CapHeld'
  <2>1. CASE next = {}
    <3>1. Cardinality(R \union next) <= Cardinality(Running(state))
      BY <1>1, <1>3, <2>1, SetsOfWork
    <3>2. Cardinality(R \union next) \in Nat /\ Cardinality(Running(state)) \in Nat
      BY <1>1, <1>3, SetsOfWork
    <3> QED
      BY <1>1, <3>1, <3>2, RegistryAssumption DEF CapsInOrder, CapHeld
  <2>2. CASE next # {}
    <3>1. PICK m \in next : \A v \in next : v <= m
      BY <2>2, <1>3, Youngest
    <3>2. HasRoom(R \union (next \ {m}), slots[m])
      BY <3>1, YoungestHadRoom DEF R
    <3>3. R \union next = (R \union (next \ {m})) \union {m}
      OBVIOUS
    <3>4. /\ Cardinality(R \union (next \ {m})) \in Nat
          /\ Cardinality(R \union next) \in Nat
          /\ Cardinality(R \union next) <= Cardinality(R \union (next \ {m})) + 1
      BY <3>3, <1>1, <1>3, SetsOfWork
    <3>5. Cardinality(R \union (next \ {m})) < MaxConcurrent
      BY <3>2 DEF HasRoom
    <3> QED
      BY <1>1, <3>4, <3>5, RegistryAssumption DEF CapHeld
  <2> QED
    BY <2>1, <2>2
<1>7. /\ Begun(next)
      /\ \A v \in next : startedAt[v] = 0
      /\ \A v \in Work : startedAt[v] <= Cardinality(Started)
  BY <1>3 DEF EndedAs, CapsInOrder, StartsInOrder, Queued
<1>8. /\ \A v \in Work : startedAt'[v] <= Cardinality(Started')
      /\ \A u \in Work, v \in Work \ next :
           StartedNoLater(u, v)' => u \notin next /\ StartedNoLater(u, v)
      /\ \A u \in next, v \in next : StartedNoLater(u, v)' => u <= v
      /\ \A v \in Work \ next : startedAt'[v] = startedAt[v]
  BY <1>3, <1>7, BegunInOrder, BegunLater
<1>9. StartsInOrder'
  <2>1. ASSUME NEW v \in Work, state'[v] \in {"absent", "queued"} PROVE startedAt'[v] = 0
    <3>1. v \notin next /\ state[v] \in {"absent", "queued"}
      BY <2>1 DEF EndedAs, Finished
    <3> QED
      BY <3>1, <1>8 DEF CapsInOrder, StartsInOrder
  <2> QED
    BY <1>8, <2>1 DEF StartsInOrder
<1>5. LaneHeld'
  <2> DEFINE helpers == Helpers(R \union next)
  <2> SUFFICES ASSUME NEW v \in helpers
               PROVE  Cardinality({u \in helpers : StartedNoLater(u, v)'}) <= slots[v]
    BY <1>1, <1>2 DEF LaneHeld, Helpers
  <2> DEFINE before == {u \in helpers : StartedNoLater(u, v)'}
  <2>0. helpers \subseteq Work /\ v \in Work /\ slots[v] \in Nat
    BY <1>1, <1>3, SlotsAreNaturals DEF Helpers
  <2>1. CASE v \notin next
    <3> DEFINE earlier == {u \in Helpers(Running(state)) : StartedNoLater(u, v)}
    <3>1. before \subseteq earlier
      BY <1>1, <1>8, <2>0, <2>1 DEF Helpers
    <3>2. v \in Helpers(Running(state)) /\ Helpers(Running(state)) \subseteq Work
      BY <1>1, <1>3, <2>1 DEF Helpers
    <3>3. /\ Cardinality(before) <= Cardinality(earlier)
          /\ Cardinality(before) \in Nat /\ Cardinality(earlier) \in Nat
      BY <3>1, <3>2, SetsOfWork
    <3>4. Cardinality(earlier) <= slots[v]
      BY <3>2 DEF CapsInOrder, LaneHeld
    <3> QED
      BY <2>0, <3>3, <3>4
  <2>2. CASE v \in next
    <3> DEFINE busy == R \union {u \in next : u < v}
    <3>1. HasRoom(busy, slots[v])
      BY <2>2 DEF EndedAs, Promotes, R
    <3>2. before \subseteq Helpers(busy) \union {v} /\ Helpers(busy) \subseteq Work
      <4>1. ASSUME NEW u \in before, u # v PROVE u \in Helpers(busy)
        <5>1. CASE u \in next
          <6>1. u <= v /\ u \in Nat /\ v \in Nat
            BY <5>1, <2>2, <1>3, <1>8, RegistryAssumption DEF Work
          <6> QED
            BY <6>1, <5>1, <4>1 DEF Helpers
        <5>2. CASE u \notin next
          BY <5>2 DEF Helpers
        <5> QED
          BY <5>1, <5>2
      <4> QED
        BY <4>1, <1>1, <1>3 DEF Helpers
    <3> HIDE DEF busy, before
    <3>3. /\ Cardinality(before) \in Nat /\ Cardinality(Helpers(busy)) \in Nat
          /\ Cardinality(Helpers(busy) \union {v}) \in Nat
          /\ Cardinality(before) <= Cardinality(Helpers(busy) \union {v})
          /\ Cardinality(Helpers(busy) \union {v}) <= Cardinality(Helpers(busy)) + 1
      <4>1. Helpers(busy) \union {v} \subseteq Work
        BY <3>2, <2>0
      <4> QED
        BY <3>2, <4>1, SetsOfWork
    <3>4. Cardinality(Helpers(busy)) < slots[v]
      BY <3>1 DEF HasRoom
    <3>5. Cardinality(before) <= slots[v]
      BY <2>0, <3>3, <3>4
    <3> QED
      BY <3>5 DEF before
  <2> QED
    BY <2>1, <2>2
<1>6. NoIdleSlot'
  <2> SUFFICES ASSUME ~closing, NEW v \in Queued \ next, HasRoom(R \union next, slots[v])
               PROVE  FALSE
    BY <1>1, <1>2 DEF NoIdleSlot, HasRoom, Helpers
  <2>1. slots[v] \in Nat
    BY SlotsAreNaturals DEF Queued
  <2>2. R \union {u \in next : u < v} \subseteq R \union next /\ R \union next \subseteq Work
    BY <1>1, <1>3
  <2>3. HasRoom(R \union {u \in next : u < v}, slots[v])
    BY <2>1, <2>2, RoomShrinks
  <2> QED
    BY <2>3 DEF EndedAs, Promotes, R
<1> QED
  BY <1>4, <1>5, <1>6, <1>9 DEF CapsInOrder

\* Every step keeps the caps, and leaves no room to queued work that has none.
LEMMA CapsStep == ASSUME Books, CapsInOrder, [Next]_vars PROVE CapsInOrder'
<1> USE DEF Books
<1>1. ASSUME NEW w \in Work, NEW g \in Group \union {NoGroup}, RecordLost(w, g) PROVE CapsInOrder'
  <2>1. /\ state' = [state EXCEPT ![w] = "failed"] /\ kind' = [kind EXCEPT ![w] = "helper"]
        /\ UNCHANGED <<slots, startedAt, closing>> /\ state[w] = "absent"
    BY <1>1 DEF RecordLost, IsNext
  <2>2. /\ Running(state)' = Running(state) /\ Queued' = Queued
    BY <2>1 DEF Running, Queued, TypeOK
  <2>3. Helpers(Running(state))' = Helpers(Running(state))
    BY <2>1, <2>2 DEF Helpers, Running, TypeOK
  <2>4. \A v \in Work : state'[v] \in {"absent", "queued"} => state[v] \in {"absent", "queued"}
    BY <2>1 DEF TypeOK
  <2> QED
    BY <2>1, <2>2, <2>3, <2>4, SameRunning
<1>2. ASSUME NEW w \in Work, CancelQueued(w) PROVE CapsInOrder'
  <2>1. /\ state' = [state EXCEPT ![w] = "cancelled"] /\ state[w] = "queued"
        /\ UNCHANGED <<kind, slots, startedAt, closing>>
    BY <1>2 DEF CancelQueued, Cancel
  <2>2. /\ Running(state)' = Running(state) /\ Queued' \subseteq Queued
    BY <2>1 DEF Running, Queued, TypeOK
  <2>3. Helpers(Running(state))' = Helpers(Running(state))
    BY <2>1, <2>2 DEF Helpers
  <2>4. \A v \in Work : state'[v] \in {"absent", "queued"} => state[v] \in {"absent", "queued"}
    BY <2>1 DEF TypeOK
  <2> QED
    BY <2>1, <2>2, <2>3, <2>4, SameRunning
<1>3. CASE Drain \/ (UNCHANGED records /\ (closing => closing'))
  <2>1. UNCHANGED <<state, kind, slots, startedAt>> /\ (closing => closing')
    BY <1>3 DEF Drain, records
  <2>2. /\ Running(state)' = Running(state) /\ Queued' = Queued
        /\ Helpers(Running(state))' = Helpers(Running(state))
    BY <2>1 DEF Running, Queued, Helpers
  <2> QED
    BY <2>1, <2>2, SameRunning
<1> QED
  BY <1>1, <1>2, <1>3, StepKinds, NewWorkCaps, EndedCaps

-----------------------------------------------------------------------------
(* The theorems. *)

\* The inductive invariant holds at first.
LEMMA InitIInv == Init => IInv
<1> SUFFICES ASSUME Init PROVE IInv
  OBVIOUS
<1> USE RegistryAssumption DEF Init
<1>1. Books
  BY InitBooks
<1>2. GroupIsTold
  BY DEF GroupIsTold
<1>3. Running(state) = {} /\ Queued = {}
  BY DEF Running, Queued
<1>4. Cardinality({}) = 0
  BY FS_EmptySet
<1>6. StartsInOrder
  BY SetsOfWork DEF StartsInOrder, Started
<1>5. CapsInOrder
  BY <1>3, <1>4, <1>6 DEF CapsInOrder, CapHeld, LaneHeld, NoIdleSlot, Helpers
<1> QED
  BY <1>1, <1>2, <1>5 DEF IInv

\* Every step preserves it.
LEMMA NextIInv == IInv /\ [Next]_vars => IInv'
  BY BooksStep, GroupStep, CapsStep DEF IInv

\* The inductive invariant of the registry.
THEOREM Invariance == Spec => []IInv
<1> QED
  BY InitIInv, NextIInv, PTL DEF Spec

\* Every variable keeps its shape.
THEOREM TypeCorrect == Spec => []TypeOK
<1>1. IInv => TypeOK
  BY DEF IInv, Books
<1> QED
  BY <1>1, Invariance, PTL

\* Listeners hear of an ending once, and of no record in two endings of a group.
THEOREM NewsOnce == Spec => []ToldOnce
<1>1. IInv => ToldOnce
  BY DEF IInv, Books
<1> QED
  BY <1>1, Invariance, PTL

\* The records keep every completion until a turn has read it.
THEOREM UnreadIsKept == Spec => []NothingUnreadForgotten
<1>1. IInv => NothingUnreadForgotten
  BY DEF IInv, Books
<1> QED
  BY <1>1, Invariance, PTL

\* No wait() goes on for work that has left the queue.
THEOREM WaitersAreReleased == Spec => []NobodyWaitsForStarted
<1>1. IInv => NobodyWaitsForStarted
  BY DEF IInv, Books
<1> QED
  BY <1>1, Invariance, PTL

\* A group whose remembered members have all ended has been told of.
THEOREM TeamsAreTold == Spec => []GroupIsTold
<1>1. IInv => GroupIsTold
  BY DEF IInv
<1> QED
  BY <1>1, Invariance, PTL

\* Nobody misses an ending, or hears of one twice: what the three say together.
THEOREM NewsIsKept == Spec => []NewsIsTold
<1>1. ToldOnce /\ GroupIsTold /\ NothingUnreadForgotten => NewsIsTold
  BY DEF NewsIsTold
<1> QED
  BY <1>1, NewsOnce, TeamsAreTold, UnreadIsKept, PTL

\* The session never runs more than it may, and every running helper, with those running
\* that started before it, is within the cap it was given, promotions of several helpers at
\* once included.
THEOREM Capped == Spec => []CapsHeld
<1>1. IInv => CapHeld
  BY DEF IInv, CapsInOrder
<1>2. IInv => LaneHeld
  BY DEF IInv, CapsInOrder
<1>3. IInv => CapsHeld
  BY <1>1, <1>2 DEF CapsHeld
<1> QED
  BY <1>3, Invariance, PTL

\* No helper is left in the queue beside room it could have.
THEOREM NoRoomIdles == Spec => []NoIdleSlot
<1>1. IInv => NoIdleSlot
  BY DEF IInv, CapsInOrder
<1> QED
  BY <1>1, Invariance, PTL

\* No ending is written over, although _finish has no guard.
THEOREM EndingsStay == Spec => EndsOnce
<1> DEFINE Stays == \A w \in Work : state[w] \in Finished => state'[w] = state[w]
<1>1. ASSUME IInv, [Next]_vars PROVE Stays
  <2>1. Books
    BY <1>1 DEF IInv
  <2>2. ASSUME NEW w \in Work, NEW k \in Kind, NEW n \in Caps \union {0},
               NEW g \in Group \union {NoGroup}, NEW st \in {"queued", "running"},
               NewWork(w, k, n, g, st)
        PROVE  Stays
    BY <2>1, <2>2 DEF NewWork, Recorded, IsNext, Books, TypeOK, Finished
  <2>3. ASSUME NEW w \in Work, NEW how \in Finished, NEW tell, NEW next \in SUBSET Queued,
               EndedAs(w, how, tell, next)
        PROVE  Stays
    BY <2>3 DEF EndedAs, Queued, Finished
  <2>4. ASSUME NEW w \in Work, CancelQueued(w) PROVE Stays
    BY <2>1, <2>4 DEF CancelQueued, Cancel, Books, TypeOK, Finished
  <2>5. CASE Drain \/ UNCHANGED records
    BY <2>5 DEF Drain, records
  <2>6. ASSUME NEW w \in Work, NEW g \in Group \union {NoGroup}, RecordLost(w, g)
        PROVE  Stays
    BY <2>1, <2>6 DEF RecordLost, IsNext, Books, TypeOK, Finished
  <2> QED
    BY <1>1, <2>1, <2>2, <2>3, <2>4, <2>5, <2>6, StepKinds
<1>2. IInv /\ [Next]_vars => [Stays]_vars
  BY <1>1
<1> QED
  BY <1>2, Invariance, PTL DEF Spec, EndsOnce
=============================================================================
