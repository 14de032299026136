------------------------- MODULE Subscriptions_proofs -------------------------
(***************************************************************************)
(* The safety of Subscriptions for every set of check-ins and watches,     *)
(* every cap and every number of restarts: an open row is followed, what   *)
(* the conversation is told is what the row says, nothing rings for work   *)
(* that is over, and the whole implements WatchPromise.                    *)
(*                                                                         *)
(* The argument follows an ending from outside. Once it is on its way the  *)
(* sibling's answer does not change any more; the one that wins the row    *)
(* writes that answer; and the future, and from it the record, can only    *)
(* get an answer from the one that won.                                    *)
(***************************************************************************)
EXTENDS Subscriptions, TLAPS

\* A subscription whose call has not started its work yet: nothing is known of it but,
\* perhaps, its row.
Untouched(s) ==
  /\ record[s] = "none" /\ future[s] = "none" /\ finishing[s] = "off"
  /\ s \notin waiting /\ s \notin timers /\ s \notin attached
  /\ \A v \in Via : ending[s][v] = "off"
  /\ sibling[s] = "unasked"

Fresh ==
  \A s \in Sub :
    /\ opening[s] \in {"idle", "counted"} => Untouched(s) /\ row[s] = "absent"
    /\ opening[s] = "inserted" => Untouched(s) /\ row[s] = "running"
    /\ row[s] = "absent" => opening[s] \in {"idle", "counted", "over"}

\* A process that is not up remembers nothing.
Still ==
  up # "up" => \A s \in Sub :
    /\ opening[s] \in {"idle", "over"}
    /\ record[s] = "none" /\ future[s] = "none" /\ finishing[s] = "off"
    /\ s \notin waiting /\ s \notin timers
    /\ \A v \in Via : ending[s][v] = "off"

\* An ending on its way has the sibling's last word, and the one that won wrote it.
Answered ==
  \A s \in Sub, v \in Via :
    /\ v # "timer" /\ ending[s][v] \in {"sent", "dropped", "won"} => sibling[s] \in Signals
    /\ ending[s][v] = "won" => row[s] = Outcome(s, v)

\* A future that is resolved holds what the row says.
Resolved == \A s \in Sub : future[s] \in Signals => row[s] = future[s]

\* The listener is told of records that are over.
Told == \A s \in Sub : finishing[s] # "off" => record[s] \in Final

IInv ==
  /\ TypeOK /\ Fresh /\ Still /\ Answered /\ Resolved /\ Told
  /\ OpenRowIsFollowed /\ ToldWhatTheRowSays /\ NothingRingsForTheDead

USE SubscriptionsAssumption
USE DEF rows, memory, coroutines, process, Sub, Via, Signals, Final

-----------------------------------------------------------------------------
(* Each step keeps the invariant. *)

\* A check-in that is counted changes nothing but its call.
LEMMA CountsKeeps ==
  ASSUME IInv, NEW s \in Sub, Counts(s)
  PROVE  IInv'
<1> USE DEF IInv, TypeOK, Counts
<1>1. TypeOK'  OBVIOUS
<1>2. Fresh'  BY DEF Fresh, Untouched
<1>3. Still'  BY DEF Still
<1>4. Answered'  BY DEF Answered, Outcome, Fresh, Untouched
<1>5. Resolved'  BY DEF Resolved
<1>6. Told'  BY DEF Told
<1>7. OpenRowIsFollowed'  BY DEF OpenRowIsFollowed, Open
<1>8. ToldWhatTheRowSays'  BY DEF ToldWhatTheRowSays
<1>9. NothingRingsForTheDead'  BY DEF NothingRingsForTheDead
<1> QED BY <1>1, <1>2, <1>3, <1>4, <1>5, <1>6, <1>7, <1>8, <1>9

\* The row that is written is the first of its subscription.
LEMMA InsertsKeeps ==
  ASSUME IInv, NEW s \in Sub, Inserts(s)
  PROVE  IInv'
<1> USE DEF IInv, TypeOK, Inserts
<1>1. TypeOK'  OBVIOUS
<1>2. Fresh'  BY DEF Fresh, Untouched
<1>3. Still'  BY DEF Still
<1>4. Answered'  BY DEF Answered, Outcome, Fresh, Untouched
<1>5. Resolved'  BY DEF Resolved, Fresh, Untouched
<1>6. Told'  BY DEF Told
<1>7. OpenRowIsFollowed'  BY DEF OpenRowIsFollowed, Open
<1>8. ToldWhatTheRowSays'  BY DEF ToldWhatTheRowSays, Fresh, Untouched
<1>9. NothingRingsForTheDead'  BY DEF NothingRingsForTheDead
<1> QED BY <1>1, <1>2, <1>3, <1>4, <1>5, <1>6, <1>7, <1>8, <1>9

\* The work that starts is that of a row nobody ended.
LEMMA StartsKeeps ==
  ASSUME IInv, NEW s \in Sub, Starts(s)
  PROVE  IInv'
<1> USE DEF IInv, TypeOK, Starts, Active
<1>1. TypeOK'  OBVIOUS
<1>2. Fresh'  BY DEF Fresh, Untouched
<1>3. Still'  BY DEF Still
<1>4. Answered'  BY DEF Answered, Outcome, Fresh, Untouched
<1>5. Resolved'  BY DEF Resolved
<1>6. Told'  BY DEF Told, Fresh, Untouched
<1>7. OpenRowIsFollowed'  BY DEF OpenRowIsFollowed, Open
<1>8. ToldWhatTheRowSays'  BY DEF ToldWhatTheRowSays
<1>9. NothingRingsForTheDead'  BY DEF NothingRingsForTheDead
<1> QED BY <1>1, <1>2, <1>3, <1>4, <1>5, <1>6, <1>7, <1>8, <1>9

\* A signal is sent when the sibling has its answer.
LEMMA SignalledKeeps ==
  ASSUME IInv, NEW s \in Sub, Signalled(s)
  PROVE  IInv'
<1> USE DEF IInv, TypeOK, Signalled, Sent
<1>1. TypeOK'  OBVIOUS
<1>2. Fresh'  BY DEF Fresh, Untouched
<1>3. Still'  BY DEF Still
<1>4. Answered'  BY DEF Answered, Outcome, Fresh, Untouched
<1>5. Resolved'  BY DEF Resolved
<1>6. Told'  BY DEF Told
<1>7. OpenRowIsFollowed'  BY DEF OpenRowIsFollowed, Open
<1>8. ToldWhatTheRowSays'  BY DEF ToldWhatTheRowSays
<1>9. NothingRingsForTheDead'  BY DEF NothingRingsForTheDead
<1> QED BY <1>1, <1>2, <1>3, <1>4, <1>5, <1>6, <1>7, <1>8, <1>9

\* Asking moves nothing.
LEMMA AsksKeeps ==
  ASSUME IInv, NEW s \in Sub, Asks(s)
  PROVE  IInv'
<1> USE DEF IInv, TypeOK, Asks
<1>1. TypeOK'  OBVIOUS
<1>2. Fresh'  BY DEF Fresh, Untouched
<1>3. Still'  BY DEF Still
<1>4. Answered'  BY DEF Answered, Outcome, Fresh, Untouched
<1>5. Resolved'  BY DEF Resolved
<1>6. Told'  BY DEF Told
<1>7. OpenRowIsFollowed'  BY DEF OpenRowIsFollowed, Open
<1>8. ToldWhatTheRowSays'  BY DEF ToldWhatTheRowSays
<1>9. NothingRingsForTheDead'  BY DEF NothingRingsForTheDead
<1> QED BY <1>1, <1>2, <1>3, <1>4, <1>5, <1>6, <1>7, <1>8, <1>9

\* Nor does an answer that is none.
LEMMA HearsNothingKeeps ==
  ASSUME IInv, NEW s \in Sub, HearsNothing(s)
  PROVE  IInv'
<1> USE DEF IInv, TypeOK, HearsNothing
<1>1. TypeOK'  OBVIOUS
<1>2. Fresh'  BY DEF Fresh, Untouched
<1>3. Still'  BY DEF Still
<1>4. Answered'  BY DEF Answered, Outcome, Fresh, Untouched
<1>5. Resolved'  BY DEF Resolved
<1>6. Told'  BY DEF Told
<1>7. OpenRowIsFollowed'  BY DEF OpenRowIsFollowed, Open
<1>8. ToldWhatTheRowSays'  BY DEF ToldWhatTheRowSays
<1>9. NothingRingsForTheDead'  BY DEF NothingRingsForTheDead
<1> QED BY <1>1, <1>2, <1>3, <1>4, <1>5, <1>6, <1>7, <1>8, <1>9

\* The sweep hears an answer the sibling has.
LEMMA HearsKeeps ==
  ASSUME IInv, NEW s \in Sub, Hears(s)
  PROVE  IInv'
<1> USE DEF IInv, TypeOK, Hears, Sent
<1>1. TypeOK'  OBVIOUS
<1>2. Fresh'  BY DEF Fresh, Untouched
<1>3. Still'  BY DEF Still
<1>4. Answered'  BY DEF Answered, Outcome, Fresh, Untouched
<1>5. Resolved'  BY DEF Resolved
<1>6. Told'  BY DEF Told
<1>7. OpenRowIsFollowed'  BY DEF OpenRowIsFollowed, Open
<1>8. ToldWhatTheRowSays'  BY DEF ToldWhatTheRowSays
<1>9. NothingRingsForTheDead'  BY DEF NothingRingsForTheDead
<1> QED BY <1>1, <1>2, <1>3, <1>4, <1>5, <1>6, <1>7, <1>8, <1>9

\* A timer is armed only while its record runs.
LEMMA DueKeeps ==
  ASSUME IInv, NEW s \in Sub, Due(s)
  PROVE  IInv'
<1> USE DEF IInv, TypeOK, Due, Sent
<1>1. TypeOK'  OBVIOUS
<1>2. Fresh'  BY DEF Fresh, Untouched
<1>3. Still'  BY DEF Still
<1>4. Answered'  BY DEF Answered, Outcome, Fresh, Untouched
<1>5. Resolved'  BY DEF Resolved
<1>6. Told'  BY DEF Told
<1>7. OpenRowIsFollowed'  BY DEF OpenRowIsFollowed, Open
<1>8. ToldWhatTheRowSays'  BY DEF ToldWhatTheRowSays
<1>9. NothingRingsForTheDead'  BY DEF NothingRingsForTheDead
<1> QED BY <1>1, <1>2, <1>3, <1>4, <1>5, <1>6, <1>7, <1>8, <1>9

\* The one ending that finds the row running writes the answer, and wins.
LEMMA CommitsKeeps ==
  ASSUME IInv, NEW s \in Sub, NEW v \in Via, Commits(s, v)
  PROVE  IInv'
<1> USE DEF IInv, TypeOK, Commits
<1>1. TypeOK'  BY DEF Answered, Outcome
<1>2. Fresh'  BY DEF Fresh, Untouched, Answered, Outcome
<1>3. Still'  BY DEF Still
<1>4. Answered'  BY DEF Answered, Outcome, Fresh, Untouched
<1>5. Resolved'  BY DEF Resolved
<1>6. Told'  BY DEF Told
<1>7. OpenRowIsFollowed'  BY DEF OpenRowIsFollowed, Open
<1>8. ToldWhatTheRowSays'  BY DEF ToldWhatTheRowSays
<1>9. NothingRingsForTheDead'  BY DEF NothingRingsForTheDead
<1> QED BY <1>1, <1>2, <1>3, <1>4, <1>5, <1>6, <1>7, <1>8, <1>9

\* An ending that is dropped is forgotten.
LEMMA DropsKeeps ==
  ASSUME IInv, NEW s \in Sub, NEW v \in Via, Drops(s, v)
  PROVE  IInv'
<1> USE DEF IInv, TypeOK, Drops
<1>1. TypeOK'  OBVIOUS
<1>2. Fresh'  BY DEF Fresh, Untouched
<1>3. Still'  BY DEF Still
<1>4. Answered'  BY DEF Answered, Outcome, Fresh, Untouched
<1>5. Resolved'  BY DEF Resolved
<1>6. Told'  BY DEF Told
<1>7. OpenRowIsFollowed'  BY DEF OpenRowIsFollowed, Open
<1>8. ToldWhatTheRowSays'  BY DEF ToldWhatTheRowSays
<1>9. NothingRingsForTheDead'  BY DEF NothingRingsForTheDead
<1> QED BY <1>1, <1>2, <1>3, <1>4, <1>5, <1>6, <1>7, <1>8, <1>9

\* The future gets the answer of the ending that won, which the row has.
LEMMA ResolvesKeeps ==
  ASSUME IInv, NEW s \in Sub, NEW v \in Via, Resolves(s, v)
  PROVE  IInv'
<1> USE DEF IInv, TypeOK, Resolves, Disarmed
<1>1. TypeOK'  BY DEF Answered, Outcome
<1>2. Fresh'  BY DEF Fresh, Untouched
<1>3. Still'  BY DEF Still
<1>4. Answered'  BY DEF Answered, Outcome, Fresh, Untouched
<1>5. Resolved'  BY DEF Resolved, Answered, Outcome
<1>6. Told'  BY DEF Told
<1>7. OpenRowIsFollowed'  BY DEF OpenRowIsFollowed, Open
<1>8. ToldWhatTheRowSays'  BY DEF ToldWhatTheRowSays
<1>9. NothingRingsForTheDead'  BY DEF NothingRingsForTheDead
<1> QED BY <1>1, <1>2, <1>3, <1>4, <1>5, <1>6, <1>7, <1>8, <1>9

\* A cancel leaves the row and the record to their task.
LEMMA CancelsKeeps ==
  ASSUME IInv, NEW s \in Sub, Cancels(s)
  PROVE  IInv'
<1> USE DEF IInv, TypeOK, Cancels, Cancelled
<1>1. TypeOK'  OBVIOUS
<1>2. Fresh'  BY DEF Fresh, Untouched
<1>3. Still'  BY DEF Still
<1>4. Answered'  BY DEF Answered, Outcome, Fresh, Untouched
<1>5. Resolved'  BY DEF Resolved
<1>6. Told'  BY DEF Told
<1>7. OpenRowIsFollowed'  BY DEF OpenRowIsFollowed, Open
<1>8. ToldWhatTheRowSays'  BY DEF ToldWhatTheRowSays
<1>9. NothingRingsForTheDead'  BY DEF NothingRingsForTheDead
<1> QED BY <1>1, <1>2, <1>3, <1>4, <1>5, <1>6, <1>7, <1>8, <1>9

\* So does a lifetime that is over.
LEMMA ExpiresKeeps ==
  ASSUME IInv, NEW s \in Sub, Expires(s)
  PROVE  IInv'
<1> USE DEF IInv, TypeOK, Expires
<1>1. TypeOK'  OBVIOUS
<1>2. Fresh'  BY DEF Fresh, Untouched
<1>3. Still'  BY DEF Still
<1>4. Answered'  BY DEF Answered, Outcome, Fresh, Untouched
<1>5. Resolved'  BY DEF Resolved
<1>6. Told'  BY DEF Told
<1>7. OpenRowIsFollowed'  BY DEF OpenRowIsFollowed, Open
<1>8. ToldWhatTheRowSays'  BY DEF ToldWhatTheRowSays
<1>9. NothingRingsForTheDead'  BY DEF NothingRingsForTheDead
<1> QED BY <1>1, <1>2, <1>3, <1>4, <1>5, <1>6, <1>7, <1>8, <1>9

\* The record ends with its stop, or with the answer the row has.
LEMMA FinishesKeeps ==
  ASSUME IInv, NEW s \in Sub, Finishes(s)
  PROVE  IInv'
<1> USE DEF IInv, TypeOK, Finishes
<1>1. TypeOK'  OBVIOUS
<1>2. Fresh'  BY DEF Fresh, Untouched
<1>3. Still'  BY DEF Still
<1>4. Answered'  BY DEF Answered, Outcome, Fresh, Untouched
<1>5. Resolved'  BY DEF Resolved
<1>6. Told'  BY DEF Told
<1>7. OpenRowIsFollowed'  BY DEF OpenRowIsFollowed, Open
<1>8. ToldWhatTheRowSays'  BY DEF ToldWhatTheRowSays, Resolved
<1>9. NothingRingsForTheDead'  BY DEF NothingRingsForTheDead
<1> QED BY <1>1, <1>2, <1>3, <1>4, <1>5, <1>6, <1>7, <1>8, <1>9

\* The listener forgets the timer and the future.
LEMMA LetsGoKeeps ==
  ASSUME IInv, NEW s \in Sub, LetsGo(s)
  PROVE  IInv'
<1> USE DEF IInv, TypeOK, LetsGo, Disarmed
<1>1. TypeOK'  OBVIOUS
<1>2. Fresh'  BY DEF Fresh, Untouched
<1>3. Still'  BY DEF Still
<1>4. Answered'  BY DEF Answered, Outcome, Fresh, Untouched
<1>5. Resolved'  BY DEF Resolved
<1>6. Told'  BY DEF Told
<1>7. OpenRowIsFollowed'  BY DEF OpenRowIsFollowed, Open
<1>8. ToldWhatTheRowSays'  BY DEF ToldWhatTheRowSays
<1>9. NothingRingsForTheDead'  BY DEF NothingRingsForTheDead
<1> QED BY <1>1, <1>2, <1>3, <1>4, <1>5, <1>6, <1>7, <1>8, <1>9

\* The listener ends a row nobody ended.
LEMMA UpdatesKeeps ==
  ASSUME IInv, NEW s \in Sub, Updates(s)
  PROVE  IInv'
<1> USE DEF IInv, TypeOK, Updates
<1>1. TypeOK'  BY DEF Told
<1>2. Fresh'  BY DEF Fresh, Untouched
<1>3. Still'  BY DEF Still
<1>4. Answered'  BY DEF Answered, Outcome, Fresh, Untouched
<1>5. Resolved'  BY DEF Resolved
<1>6. Told'  BY DEF Told
<1>7. OpenRowIsFollowed'  BY DEF OpenRowIsFollowed, Open
<1>8. ToldWhatTheRowSays'  BY DEF ToldWhatTheRowSays, Told
<1>9. NothingRingsForTheDead'  BY DEF NothingRingsForTheDead
<1> QED BY <1>1, <1>2, <1>3, <1>4, <1>5, <1>6, <1>7, <1>8, <1>9

\* A sibling with an answer is not released.
LEMMA ReleasesKeeps ==
  ASSUME IInv, NEW s \in Sub, Releases(s)
  PROVE  IInv'
<1> USE DEF IInv, TypeOK, Releases
<1>1. TypeOK'  OBVIOUS
<1>2. Fresh'  BY DEF Fresh, Untouched
<1>3. Still'  BY DEF Still
<1>4. Answered'  BY DEF Answered, Outcome, Fresh, Untouched
<1>5. Resolved'  BY DEF Resolved
<1>6. Told'  BY DEF Told
<1>7. OpenRowIsFollowed'  BY DEF OpenRowIsFollowed, Open
<1>8. ToldWhatTheRowSays'  BY DEF ToldWhatTheRowSays
<1>9. NothingRingsForTheDead'  BY DEF NothingRingsForTheDead
<1> QED BY <1>1, <1>2, <1>3, <1>4, <1>5, <1>6, <1>7, <1>8, <1>9

\* A sibling that is asked has no answer yet.
LEMMA SubscribesKeeps ==
  ASSUME IInv, NEW s \in Watch, Subscribes(s)
  PROVE  IInv'
<1> USE DEF IInv, TypeOK, Subscribes
<1>1. TypeOK'  OBVIOUS
<1>2. Fresh'  BY DEF Fresh, Untouched
<1>3. Still'  BY DEF Still
<1>4. Answered'  BY DEF Answered, Outcome, Fresh, Untouched
<1>5. Resolved'  BY DEF Resolved
<1>6. Told'  BY DEF Told
<1>7. OpenRowIsFollowed'  BY DEF OpenRowIsFollowed, Open
<1>8. ToldWhatTheRowSays'  BY DEF ToldWhatTheRowSays
<1>9. NothingRingsForTheDead'  BY DEF NothingRingsForTheDead
<1> QED BY <1>1, <1>2, <1>3, <1>4, <1>5, <1>6, <1>7, <1>8, <1>9

\* Its yes changes nothing but the call.
LEMMA SubscribedKeeps ==
  ASSUME IInv, NEW s \in Watch, Subscribed(s)
  PROVE  IInv'
<1> USE DEF IInv, TypeOK, Subscribed
<1>1. TypeOK'  OBVIOUS
<1>2. Fresh'  BY DEF Fresh, Untouched
<1>3. Still'  BY DEF Still
<1>4. Answered'  BY DEF Answered, Outcome, Fresh, Untouched
<1>5. Resolved'  BY DEF Resolved
<1>6. Told'  BY DEF Told
<1>7. OpenRowIsFollowed'  BY DEF OpenRowIsFollowed, Open
<1>8. ToldWhatTheRowSays'  BY DEF ToldWhatTheRowSays
<1>9. NothingRingsForTheDead'  BY DEF NothingRingsForTheDead
<1> QED BY <1>1, <1>2, <1>3, <1>4, <1>5, <1>6, <1>7, <1>8, <1>9

\* Nor does its name on the row.
LEMMA AttachesKeeps ==
  ASSUME IInv, NEW s \in Watch, Attaches(s)
  PROVE  IInv'
<1> USE DEF IInv, TypeOK, Attaches
<1>1. TypeOK'  OBVIOUS
<1>2. Fresh'  BY DEF Fresh, Untouched
<1>3. Still'  BY DEF Still
<1>4. Answered'  BY DEF Answered, Outcome, Fresh, Untouched
<1>5. Resolved'  BY DEF Resolved
<1>6. Told'  BY DEF Told
<1>7. OpenRowIsFollowed'  BY DEF OpenRowIsFollowed, Open
<1>8. ToldWhatTheRowSays'  BY DEF ToldWhatTheRowSays
<1>9. NothingRingsForTheDead'  BY DEF NothingRingsForTheDead
<1> QED BY <1>1, <1>2, <1>3, <1>4, <1>5, <1>6, <1>7, <1>8, <1>9

\* An abandoned call cancels its work.
LEMMA AbandonsKeeps ==
  ASSUME IInv, NEW s \in Watch, Abandons(s)
  PROVE  IInv'
<1> USE DEF IInv, TypeOK, Abandons, Cancelled
<1>1. TypeOK'  OBVIOUS
<1>2. Fresh'  BY DEF Fresh, Untouched
<1>3. Still'  BY DEF Still
<1>4. Answered'  BY DEF Answered, Outcome, Fresh, Untouched
<1>5. Resolved'  BY DEF Resolved
<1>6. Told'  BY DEF Told
<1>7. OpenRowIsFollowed'  BY DEF OpenRowIsFollowed, Open
<1>8. ToldWhatTheRowSays'  BY DEF ToldWhatTheRowSays
<1>9. NothingRingsForTheDead'  BY DEF NothingRingsForTheDead
<1> QED BY <1>1, <1>2, <1>3, <1>4, <1>5, <1>6, <1>7, <1>8, <1>9

\* A sibling answers once.
LEMMA FiresKeeps ==
  ASSUME IInv, NEW s \in Watch, Fires(s)
  PROVE  IInv'
<1> USE DEF IInv, TypeOK, Fires
<1>1. TypeOK'  OBVIOUS
<1>2. Fresh'  BY DEF Fresh, Untouched
<1>3. Still'  BY DEF Still
<1>4. Answered'  BY DEF Answered, Outcome, Fresh, Untouched
<1>5. Resolved'  BY DEF Resolved
<1>6. Told'  BY DEF Told
<1>7. OpenRowIsFollowed'  BY DEF OpenRowIsFollowed, Open
<1>8. ToldWhatTheRowSays'  BY DEF ToldWhatTheRowSays
<1>9. NothingRingsForTheDead'  BY DEF NothingRingsForTheDead
<1> QED BY <1>1, <1>2, <1>3, <1>4, <1>5, <1>6, <1>7, <1>8, <1>9

\* A process that stops remembers nothing, and the rows stay.
LEMMA StopsKeeps ==
  ASSUME IInv, Stops
  PROVE  IInv'
<1> USE DEF IInv, TypeOK, Stops
<1>1. TypeOK'  OBVIOUS
<1>2. Fresh'  BY DEF Fresh, Untouched
<1>3. Still'  BY DEF Still
<1>4. Answered'  BY DEF Answered, Outcome, Fresh, Untouched
<1>5. Resolved'  BY DEF Resolved
<1>6. Told'  BY DEF Told
<1>7. OpenRowIsFollowed'  BY DEF OpenRowIsFollowed, Open
<1>8. ToldWhatTheRowSays'  BY DEF ToldWhatTheRowSays
<1>9. NothingRingsForTheDead'  BY DEF NothingRingsForTheDead
<1> QED BY <1>1, <1>2, <1>3, <1>4, <1>5, <1>6, <1>7, <1>8, <1>9

\* Every open row is taken up again.
LEMMA RestoresKeeps ==
  ASSUME IInv, Restores
  PROVE  IInv'
<1> USE DEF IInv, TypeOK, Restores, Open
<1>1. TypeOK'
  <2>1. CASE Cardinality(Open) > MaxConcurrent  BY <2>1
  <2>2. CASE ~(Cardinality(Open) > MaxConcurrent)
    <3>1. record' \in [Sub -> {"none", "running"} \union Final]  BY <2>2
    <3>2. future' \in [Sub -> {"none", "pending", "cancelled"} \union Signals]  BY <2>2
    <3>3. waiting' \subseteq Sub /\ timers' \subseteq Checkin  BY <2>2
    <3> QED BY <2>2, <3>1, <3>2, <3>3
  <2> QED BY <2>1, <2>2
<1>2. Fresh'  BY DEF Fresh, Untouched, Still
<1>3. Still'  BY DEF Still
<1>4. Answered'  BY DEF Answered, Outcome, Fresh, Untouched
<1>5. Resolved'  BY DEF Resolved
<1>6. Told'  BY DEF Told, Still
<1>7. OpenRowIsFollowed'  BY DEF OpenRowIsFollowed, Open
<1>8. ToldWhatTheRowSays'  BY DEF ToldWhatTheRowSays
<1>9. NothingRingsForTheDead'  BY DEF NothingRingsForTheDead
<1> QED BY <1>1, <1>2, <1>3, <1>4, <1>5, <1>6, <1>7, <1>8, <1>9

-----------------------------------------------------------------------------
(* The theorems. *)

\* It holds when nothing has been opened.
LEMMA InitHolds == Init => IInv
BY DEF Init, IInv, TypeOK, Fresh, Untouched, Still, Answered, Resolved, Told, OpenRowIsFollowed,
       Open, ToldWhatTheRowSays, NothingRingsForTheDead

\* It survives every step.
LEMMA StepHolds == ASSUME IInv, [Next]_vars PROVE IInv'
<1>1. CASE \E s \in Sub : Counts(s)  BY <1>1, CountsKeeps
<1>2. CASE \E s \in Sub : Inserts(s)  BY <1>2, InsertsKeeps
<1>3. CASE \E s \in Sub : Starts(s)  BY <1>3, StartsKeeps
<1>4. CASE \E s \in Sub : Signalled(s)  BY <1>4, SignalledKeeps
<1>5. CASE \E s \in Sub : Asks(s)  BY <1>5, AsksKeeps
<1>6. CASE \E s \in Sub : HearsNothing(s)  BY <1>6, HearsNothingKeeps
<1>7. CASE \E s \in Sub : Hears(s)  BY <1>7, HearsKeeps
<1>8. CASE \E s \in Sub : Due(s)  BY <1>8, DueKeeps
<1>9. CASE \E s \in Sub, v \in Via : Commits(s, v)  BY <1>9, CommitsKeeps
<1>10. CASE \E s \in Sub, v \in Via : Drops(s, v)  BY <1>10, DropsKeeps
<1>11. CASE \E s \in Sub, v \in Via : Resolves(s, v)  BY <1>11, ResolvesKeeps
<1>12. CASE \E s \in Sub : Cancels(s)  BY <1>12, CancelsKeeps
<1>13. CASE \E s \in Sub : Expires(s)  BY <1>13, ExpiresKeeps
<1>14. CASE \E s \in Sub : Finishes(s)  BY <1>14, FinishesKeeps
<1>15. CASE \E s \in Sub : LetsGo(s)  BY <1>15, LetsGoKeeps
<1>16. CASE \E s \in Sub : Updates(s)  BY <1>16, UpdatesKeeps
<1>17. CASE \E s \in Sub : Releases(s)  BY <1>17, ReleasesKeeps
<1>18. CASE \E s \in Watch : Subscribes(s)  BY <1>18, SubscribesKeeps
<1>19. CASE \E s \in Watch : Subscribed(s)  BY <1>19, SubscribedKeeps
<1>20. CASE \E s \in Watch : Attaches(s)  BY <1>20, AttachesKeeps
<1>21. CASE \E s \in Watch : Abandons(s)  BY <1>21, AbandonsKeeps
<1>22. CASE \E s \in Watch : Fires(s)  BY <1>22, FiresKeeps
<1>23. CASE Stops  BY <1>23, StopsKeeps
<1>24. CASE Restores  BY <1>24, RestoresKeeps
<1>25. CASE UNCHANGED vars
  BY <1>25 DEF IInv, vars, TypeOK, Fresh, Untouched, Still, Answered, Outcome, Resolved, Told,
     OpenRowIsFollowed, Open, ToldWhatTheRowSays, NothingRingsForTheDead
<1> QED BY <1>1, <1>2, <1>3, <1>4, <1>5, <1>6, <1>7, <1>8, <1>9, <1>10, <1>11, <1>12, <1>13, <1>14, <1>15, <1>16, <1>17, <1>18, <1>19, <1>20, <1>21, <1>22, <1>23, <1>24, <1>25
     DEF Next

\* The inductive invariant holds throughout.
THEOREM Invariance == Spec => []IInv
<1>1. Init => IInv  BY InitHolds
<1>2. IInv /\ [Next]_vars => IInv'  BY StepHolds
<1> QED BY <1>1, <1>2, PTL DEF Spec

\* Every variable keeps its shape: an ending that is written is one a sibling, a timer or the
\* hub can give, and only a sibling's subscription has its name on the row.
THEOREM TypeCorrect == Spec => []TypeOK
<1>1. IInv => TypeOK  BY DEF IInv
<1> QED BY <1>1, Invariance, PTL

\* However a signal, the sweep, the timer, a cancel, the lifetime and a restart race to end
\* it, a subscription whose row is open is followed by somebody, and a conversation that is
\* told it succeeded or failed is told what the row says (_end, _finished, restore).
THEOREM RowAndRecordAgree == Spec => []RowIsTheTruth
<1>1. IInv => RowIsTheTruth  BY DEF IInv, RowIsTheTruth
<1> QED BY <1>1, Invariance, PTL

\* No timer is armed and no future is kept for work that is over (_disarm, _finished).
THEOREM NothingRings == Spec => []NothingRingsForTheDead
<1>1. IInv => NothingRingsForTheDead  BY DEF IInv
<1> QED BY <1>1, Invariance, PTL

-----------------------------------------------------------------------------
(* The refinement. *)

\* What a step does to the rows and the records is a step of WatchPromise, or none.
LEMMA StepIsPromised ==
  ASSUME IInv, [Next]_vars
  PROVE  [Promise!Next]_<<row, record>>
<1> USE DEF IInv, TypeOK
<1> DEFINE Promised == Promise!Next \/ UNCHANGED <<row, record>>
<1> SUFFICES Promised  OBVIOUS
<1> HIDE DEF Promised
<1>1. ASSUME NEW s \in Sub, Inserts(s)  PROVE Promise!Open(s)
  BY <1>1 DEF Inserts, Fresh, Untouched, Promise!Open
<1>2. ASSUME NEW s \in Sub, Starts(s)
      PROVE  Promise!Follow({s}) \/ UNCHANGED <<row, record>>
  <2>1. row[s] = "running" /\ record[s] = "none"  BY <1>2 DEF Starts, Fresh, Untouched
  <2> QED BY <1>2, <2>1 DEF Starts, Promise!Follow
<1>3. ASSUME NEW s \in Sub, NEW v \in Via, Commits(s, v)
      PROVE  Promise!End(s) \/ UNCHANGED <<row, record>>
  <2>1. Outcome(s, v) \in Promise!Endings
    BY <1>3 DEF Commits, Answered, Outcome, Promise!Endings, Promise!Decided
  <2>2. row' = IF row[s] = "running" THEN [row EXCEPT ![s] = Outcome(s, v)] ELSE row
    BY <1>3 DEF Commits
  <2> QED BY <1>3, <2>1, <2>2 DEF Commits, Promise!End
<1>4. ASSUME NEW s \in Sub, Finishes(s)  PROVE Promise!Hear(s)
  <2>1. (IF stop[s] # "no" THEN stop[s] ELSE future[s])
          \in Promise!Decided \union ({row[s]} \ {"running"})
    BY <1>4 DEF Finishes, Resolved, Promise!Decided
  <2> QED BY <1>4, <2>1 DEF Finishes, Promise!Hear
<1>5. ASSUME NEW s \in Sub, Updates(s)
      PROVE  Promise!End(s) \/ UNCHANGED <<row, record>>
  <2>1. record[s] \in Promise!Endings
    BY <1>5 DEF Updates, Told, Promise!Endings, Promise!Decided
  <2>2. row' = IF row[s] = "running" THEN [row EXCEPT ![s] = record[s]] ELSE row
    BY <1>5 DEF Updates
  <2> QED BY <1>5, <2>1, <2>2 DEF Updates, Promise!End
<1>6. ASSUME Stops PROVE Promise!Restart  BY <1>6 DEF Stops, Promise!Restart
<1>7. ASSUME Restores
      PROVE  Promise!Follow(Open) \/ UNCHANGED <<row, record>>
  <2>1. \A s \in Sub : record[s] = "none"  BY <1>7 DEF Restores, Still
  <2> QED BY <1>7, <2>1 DEF Restores, Open, Promise!Follow
<1>8. Open \in SUBSET Sub  BY DEF Open
<1>9. CASE \E s \in Sub : Counts(s) \/ Signalled(s) \/ Asks(s) \/ HearsNothing(s) \/ Hears(s) \/ Due(s)
                          \/ Cancels(s) \/ Expires(s) \/ LetsGo(s) \/ Releases(s)
                          \/ \E v \in Via : Drops(s, v) \/ Resolves(s, v)
  BY <1>9 DEF Promised, Counts, Signalled, Asks, HearsNothing, Hears, Due, Cancels, Expires, LetsGo,
              Releases, Drops, Resolves
<1>10. CASE \E s \in Watch : Subscribes(s) \/ Subscribed(s) \/ Attaches(s) \/ Abandons(s) \/ Fires(s)
  BY <1>10 DEF Promised, Subscribes, Subscribed, Attaches, Abandons, Fires
<1>11. CASE UNCHANGED vars  BY <1>11 DEF Promised, vars
<1>12. CASE \E s \in Sub : Inserts(s)  BY <1>1, <1>12 DEF Promised, Promise!Next
<1>13. CASE \E s \in Sub : Starts(s)
  <2>1. PICK s \in Sub : Starts(s)  BY <1>13
  <2>2. {s} \in SUBSET Sub  OBVIOUS
  <2> QED BY <1>2, <2>1, <2>2 DEF Promised, Promise!Next
<1>14. CASE \E s \in Sub, v \in Via : Commits(s, v)  BY <1>3, <1>14 DEF Promised, Promise!Next
<1>15. CASE \E s \in Sub : Finishes(s) \/ Updates(s)  BY <1>4, <1>5, <1>15 DEF Promised, Promise!Next
<1>16. CASE Stops \/ Restores  BY <1>6, <1>7, <1>8, <1>16 DEF Promised, Promise!Next
<1>17. CASE UNCHANGED <<row, record>>  BY <1>17 DEF Promised
<1> QED BY <1>9, <1>10, <1>11, <1>12, <1>13, <1>14, <1>15, <1>16, <1>17 DEF Next

\* Whatever is lost, repeated, late or restarted, a piece of work is opened once and ends
\* once in its row, and the conversation hears one ending of it while the process lives: the
\* row's, or one the hub itself decided. Subscriptions implements WatchPromise.
THEOREM Refinement == Spec => KeepsThePromise
<1>1. Init => Promise!Init  BY DEF Init, Promise!Init
<1>2. IInv /\ [Next]_vars => [Promise!Next]_<<row, record>>  BY StepIsPromised
<1> QED BY <1>1, <1>2, Invariance, PTL DEF Spec, KeepsThePromise, Promise!Spec
=============================================================================
