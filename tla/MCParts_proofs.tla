--------------------------- MODULE MCParts_proofs ---------------------------
(***************************************************************************)
(* Proofs about the parts of MCParts, for every value of the constants.    *)
(* Each has an inductive invariant of its own, over its own variables: what *)
(* the other parts do leaves it alone.                                     *)
(***************************************************************************)
EXTENDS MCParts, TLAPS, SequenceTheorems, FiniteSetTheorems, WellFoundedInduction

-----------------------------------------------------------------------------
(* Coder. A turn that is told a message was preceded by a settled one that  *)
(* was told the brief: every copy of a row that counts a turn is evidence of *)
(* it, so it does not matter which copy was written last.                    *)

Columns == [state : {"absent", "idle", "queued", "running", "failed", "cancelled"}, turns : Nat,
            queue : Seq(Nat), resumable : BOOLEAN]

Phase == {"spawning", "running", "killed", "ok", "not_ok", "writes_ok", "writes_not_ok", "settled"}
Turn == [task : Coder!Task, told : Nat, phase : Phase]

CoderRows ==
  /\ row \in [Coder!Task -> Columns]
  /\ messaging \in [Coder!Task -> Columns]
  /\ cancelling \in [Coder!Task -> Columns]
  /\ settling \in [Coder!TurnId -> Columns]
  /\ looping \in [Coder!Task -> Columns]
  /\ turn \in Seq(Turn)
  /\ sent \in Nat

\* A settled turn of the task was told the brief.
Briefed(t) == \E j \in DOMAIN turn : turn[j].task = t /\ turn[j].told = Coder!Brief
                                       /\ turn[j].phase = "settled"

CopiesFollow ==
  /\ \A t \in Coder!Task :
       /\ row[t].turns > 0 => Briefed(t)
       /\ messaging[t].turns > 0 => Briefed(t)
       /\ cancelling[t].turns > 0 => Briefed(t)
       /\ looping[t].turns > 0 => Briefed(t)
       /\ (looping[t].state = "queued" /\ looping[t].turns > 0) => looping[t].queue # << >>
  /\ \A k \in DOMAIN turn \intersect Coder!TurnId :
       settling[k].turns > 0 => Briefed(turn[k].task)
  /\ \A k \in Coder!TurnId \ DOMAIN turn : settling[k].turns = 0

CoderInv == CoderRows /\ CopiesFollow /\ Coder!PumpFindsAMessage /\ Coder!BriefComesFirst

\* The row nobody has written.
LEMMA NoRowIsOne == Coder!NoRow \in Columns /\ Coder!NoRow.turns = 0 /\ Coder!NoRow.state = "absent"
<1>1. <<>> \in Seq(Nat)  OBVIOUS
<1> QED BY <1>1 DEF Columns, Coder!NoRow

\* What a step may write over a row: one that counts no turn its task has not had, and is
\* queued for a message if it counts one. The turns stay as they are.
LEMMA RowIsWritten ==
  ASSUME CoderInv, NEW t \in Coder!Task, NEW c \in Columns,
         row' = [row EXCEPT ![t] = c],
         c.turns > 0 => Briefed(t),
         c.state = "queued" /\ c.turns > 0 => c.queue # << >>,
         UNCHANGED turn
  PROVE  /\ row' \in [Coder!Task -> Columns]
         /\ \A u \in Coder!Task : row'[u].turns > 0 => Briefed(u)'
         /\ Coder!PumpFindsAMessage' /\ Coder!BriefComesFirst'
<1> USE DEF CoderInv, CoderRows, CopiesFollow
<1>1. row' \in [Coder!Task -> Columns]  OBVIOUS
<1>2. \A u \in Coder!Task : row'[u].turns > 0 => Briefed(u)'  BY DEF Briefed
<1>3. Coder!PumpFindsAMessage'  BY DEF Coder!PumpFindsAMessage, Coder!Queued
<1>4. Coder!BriefComesFirst'  BY DEF Coder!BriefComesFirst
<1> QED BY <1>1, <1>2, <1>3, <1>4

\* What a step may do to the turns when it leaves the rows: move one that is not settled.
LEMMA TurnMoves ==
  ASSUME CoderInv, NEW k \in DOMAIN turn, NEW p \in Phase, turn[k].phase # "settled",
         turn' = [turn EXCEPT ![k].phase = p]
  PROVE  /\ turn' \in Seq(Turn) /\ DOMAIN turn' = DOMAIN turn /\ Len(turn') = Len(turn)
         /\ \A j \in DOMAIN turn : turn'[j].task = turn[j].task /\ turn'[j].told = turn[j].told
         /\ \A j \in DOMAIN turn : turn[j].phase = "settled" => turn'[j].phase = "settled"
         /\ turn'[k].phase = p
         /\ \A u \in Coder!Task : Briefed(u) => Briefed(u)'
         /\ Coder!BriefComesFirst'
<1> USE DEF CoderInv, CoderRows
<1>0. turn[k] \in Turn  OBVIOUS
<1>1. [turn[k] EXCEPT !.phase = p] \in Turn  BY <1>0 DEF Turn
<1>2. turn' = [turn EXCEPT ![k] = [turn[k] EXCEPT !.phase = p]]  OBVIOUS
<1>3. turn' \in Seq(Turn) /\ DOMAIN turn' = DOMAIN turn /\ Len(turn') = Len(turn)  BY <1>1, <1>2
<1>4. \A j \in DOMAIN turn : turn'[j] = IF j = k THEN [turn[k] EXCEPT !.phase = p] ELSE turn[j]
  BY <1>2
<1>5. \A j \in DOMAIN turn : turn'[j].task = turn[j].task /\ turn'[j].told = turn[j].told
  BY <1>0, <1>4 DEF Turn
<1>6. \A j \in DOMAIN turn : turn[j].phase = "settled" => turn'[j].phase = "settled"
  BY <1>4
<1>7. \A u \in Coder!Task : Briefed(u) => Briefed(u)'  BY <1>3, <1>5, <1>6 DEF Briefed
<1>8. Coder!BriefComesFirst'
  <2> SUFFICES ASSUME NEW i \in DOMAIN turn, turn[i].told # Coder!Brief
               PROVE  \E j \in 1..(i - 1) : turn'[j].task = turn'[i].task
                        /\ turn'[j].told = Coder!Brief /\ turn'[j].phase = "settled"
    BY <1>3, <1>5 DEF Coder!BriefComesFirst
  <2>1. PICK j \in 1..(i - 1) : turn[j].task = turn[i].task /\ turn[j].told = Coder!Brief
                                  /\ turn[j].phase = "settled"
    BY DEF Coder!BriefComesFirst
  <2>2. j \in DOMAIN turn  OBVIOUS
  <2> QED BY <1>5, <1>6, <2>1, <2>2
<1>9. turn'[k].phase = p  BY <1>0, <1>4 DEF Turn
<1> QED BY <1>3, <1>5, <1>6, <1>7, <1>8, <1>9

\* A task opens with its brief.
LEMMA CoderStarts == ASSUME CoderInv, NEW t \in Coder!Task, Coder!Starts(t) PROVE CoderInv'
<1> DEFINE c == [Coder!NoRow EXCEPT !.state = "queued"]
<1>1. c \in Columns /\ c.turns = 0  BY NoRowIsOne DEF Columns
<1>2. row' = [row EXCEPT ![t] = c] /\ UNCHANGED <<turn, messaging, cancelling, settling, looping, sent>>
  BY DEF Coder!Starts, Coder!With, Coder!copies
<1> HIDE DEF c
<1>4. ~ (c.turns > 0)  BY <1>1
<1>3. /\ row' \in [Coder!Task -> Columns] /\ \A u \in Coder!Task : row'[u].turns > 0 => Briefed(u)'
      /\ Coder!PumpFindsAMessage' /\ Coder!BriefComesFirst'
  BY <1>1, <1>2, <1>4, RowIsWritten
<1> QED BY <1>2, <1>3 DEF CoderInv, CoderRows, CopiesFollow, Briefed

\* message(): the copy read before the await is written back whole, a message at its end.
LEMMA CoderSends == ASSUME CoderInv, NEW t \in Coder!Task, Coder!Sends(t) PROVE CoderInv'
<1> USE DEF CoderInv, CoderRows, CopiesFollow
<1> DEFINE q == Append(messaging[t].queue, sent')
           s == IF messaging[t].state \in Coder!LiveState THEN messaging[t].state ELSE "queued"
           c == [messaging[t] EXCEPT !.queue = q, !.state = s]
<1>1. messaging[t] \in Columns /\ sent' \in Nat  BY DEF Coder!Sends
<1>2. q \in Seq(Nat) /\ q # << >>
  <2>1. messaging[t].queue \in Seq(Nat)  BY <1>1 DEF Columns
  <2>2. q \in Seq(Nat) /\ Len(q) = Len(messaging[t].queue) + 1  BY <1>1, <2>1
  <2> HIDE DEF q
  <2>3. Len(q) > 0  BY <2>1, <2>2
  <2> QED BY <2>2, <2>3
<1>3. s \in {"queued", "running"}  BY DEF Coder!LiveState
<1> HIDE DEF q, s
<1>4. c \in Columns /\ c.turns = messaging[t].turns /\ c.queue # << >>  BY <1>1, <1>2, <1>3 DEF Columns
<1>5. row' = [row EXCEPT ![t] = c] /\ messaging' = [messaging EXCEPT ![t] = Coder!NoRow]
      /\ UNCHANGED <<turn, cancelling, settling, looping>>
  BY DEF Coder!Sends, Coder!With, Coder!Done, q, s
<1> HIDE DEF c
<1>6. /\ row' \in [Coder!Task -> Columns] /\ \A u \in Coder!Task : row'[u].turns > 0 => Briefed(u)'
      /\ Coder!PumpFindsAMessage' /\ Coder!BriefComesFirst'
  BY <1>4, <1>5, RowIsWritten
<1> QED BY <1>1, <1>5, <1>6, NoRowIsOne DEF Briefed

\* cancel() writes its copy back, with the queue thrown away.
LEMMA CoderCancels == ASSUME CoderInv, NEW t \in Coder!Task, Coder!Cancels(t) PROVE CoderInv'
<1> USE DEF CoderInv, CoderRows, CopiesFollow
<1> DEFINE r == cancelling[t].resumable \/ cancelling[t].state = "running"
           c == [cancelling[t] EXCEPT !.state = "cancelled", !.queue = << >>, !.resumable = r]
<1>1. cancelling[t] \in Columns /\ r \in BOOLEAN  BY DEF Columns
<1>2. << >> \in Seq(Nat)  OBVIOUS
<1>3. row' = [row EXCEPT ![t] = c] /\ cancelling' = [cancelling EXCEPT ![t] = Coder!NoRow]
      /\ UNCHANGED <<turn, messaging, settling, looping, sent>>
  BY DEF Coder!Cancels, Coder!With, Coder!Done
<1> HIDE DEF r
<1>4. c \in Columns /\ c.turns = cancelling[t].turns /\ c.state = "cancelled"
  BY <1>1, <1>2 DEF Columns
<1> HIDE DEF c
<1>6. /\ row' \in [Coder!Task -> Columns] /\ \A u \in Coder!Task : row'[u].turns > 0 => Briefed(u)'
      /\ Coder!PumpFindsAMessage' /\ Coder!BriefComesFirst'
  BY <1>3, <1>4, RowIsWritten
<1> QED BY <1>1, <1>3, <1>6, NoRowIsOne DEF Briefed

\* Who reads a row holds what any copy may hold; the pump, one with a message for it.
LEMMA CoderReads ==
  ASSUME CoderInv, NEW t \in Coder!Task,
         \/ Coder!ReadsToSend(t) \/ Coder!ReadsToCancel(t) \/ Coder!Picks(t)
         \/ \E k \in Coder!TurnId : Coder!Hears(k) /\ turn[k].task = t
  PROVE  CoderInv'
<1>1. /\ messaging' = messaging \/ messaging' = [messaging EXCEPT ![t] = row[t]]
      /\ cancelling' = cancelling \/ cancelling' = [cancelling EXCEPT ![t] = row[t]]
      /\ looping' = looping \/ looping' = [looping EXCEPT ![t] = row[t]]
      /\ UNCHANGED <<row, turn, settling, sent>>
  BY DEF Coder!ReadsToSend, Coder!ReadsToCancel, Coder!Picks, Coder!Hears, Coder!Reads
<1>2. CoderRows'  BY <1>1 DEF CoderInv, CoderRows
<1>3. (row[t].state = "queued" /\ row[t].turns > 0) => row[t].queue # << >>
  BY DEF CoderInv, Coder!PumpFindsAMessage, Coder!Queued
<1>4. CopiesFollow'  BY <1>1, <1>3 DEF CoderInv, CoderRows, CopiesFollow, Briefed
<1>5. Coder!PumpFindsAMessage'  BY <1>1 DEF CoderInv, Coder!PumpFindsAMessage, Coder!Queued
<1>6. Coder!BriefComesFirst'  BY <1>1 DEF CoderInv, Coder!BriefComesFirst
<1> QED BY <1>2, <1>4, <1>5, <1>6 DEF CoderInv

\* _progress() writes its copy back, running as it was.
LEMMA CoderProgresses == ASSUME CoderInv, NEW t \in Coder!Task, Coder!Progresses(t) PROVE CoderInv'
<1> USE DEF CoderInv, CoderRows, CopiesFollow
<1>1. looping[t] \in Columns /\ looping[t].state # "queued"  BY DEF Coder!Progresses
<1>2. row' = [row EXCEPT ![t] = looping[t]] /\ looping' = [looping EXCEPT ![t] = Coder!NoRow]
      /\ UNCHANGED <<turn, messaging, cancelling, settling, sent>>
  BY DEF Coder!Progresses, Coder!With, Coder!Done
<1>3. /\ row' \in [Coder!Task -> Columns] /\ \A u \in Coder!Task : row'[u].turns > 0 => Briefed(u)'
      /\ Coder!PumpFindsAMessage' /\ Coder!BriefComesFirst'
  BY <1>1, <1>2, RowIsWritten
<1> QED BY <1>2, <1>3, NoRowIsOne DEF Briefed

\* A step that moves a turn that is not settled, and touches no copy of a row.
LEMMA CoderTurnMoves ==
  ASSUME CoderInv, NEW k \in DOMAIN turn, NEW p \in Phase, turn[k].phase # "settled",
         turn' = [turn EXCEPT ![k].phase = p], UNCHANGED <<row, messaging, cancelling, settling, looping, sent>>
  PROVE  CoderInv'
<1>1. /\ turn' \in Seq(Turn) /\ DOMAIN turn' = DOMAIN turn /\ Coder!BriefComesFirst'
      /\ \A j \in DOMAIN turn : turn'[j].task = turn[j].task
      /\ \A u \in Coder!Task : Briefed(u) => Briefed(u)'
  BY TurnMoves
<1>2. Coder!PumpFindsAMessage'  BY DEF CoderInv, Coder!PumpFindsAMessage, Coder!Queued
<1>3. \A j \in DOMAIN turn : turn[j].task \in Coder!Task
  <2>1. \A j \in DOMAIN turn : turn[j] \in Turn  BY DEF CoderInv, CoderRows
  <2> QED BY <2>1 DEF Turn
<1>4. CoderRows'  BY <1>1 DEF CoderInv, CoderRows
<1>5. CopiesFollow'  BY <1>1, <1>3 DEF CoderInv, CopiesFollow
<1> QED BY <1>1, <1>2, <1>4, <1>5 DEF CoderInv

\* The pump takes a message for the turn that the row counts, and tells the brief first.
LEMMA CoderPumps == ASSUME CoderInv, NEW t \in Coder!Task, Coder!Pumps(t) PROVE CoderInv'
<1> USE DEF CoderInv
<1> DEFINE q == Coder!Pops(looping[t])
           c == [looping[t] EXCEPT !.state = "running", !.queue = q]
           new == [task |-> t, told |-> Coder!Told(looping[t]), phase |-> "spawning"]
<1>1. looping[t] \in Columns /\ looping[t].queue \in Seq(Nat) /\ looping[t].turns \in Nat
  BY DEF CoderRows, Columns
<1>2. looping[t].turns > 0 => looping[t].queue # << >>
  BY DEF Coder!Pumps, CopiesFollow
<1>3. q \in Seq(Nat) /\ Coder!Told(looping[t]) \in Nat
  <2>1. CASE looping[t].turns = 0  BY <1>1, <2>1 DEF Coder!Pops, Coder!Told, Coder!Brief
  <2>2. CASE looping[t].turns > 0
    <3>1. Tail(looping[t].queue) \in Seq(Nat)  BY <1>1, <1>2, <2>2
    <3>2. Head(looping[t].queue) \in Nat  BY <1>1, <1>2, <2>2
    <3> QED BY <2>2, <3>1, <3>2 DEF Coder!Pops, Coder!Told
  <2> QED BY <1>1, <2>1, <2>2
<1> HIDE DEF q
<1>4. c \in Columns /\ c.turns = looping[t].turns /\ c.state = "running"  BY <1>1, <1>3 DEF Columns
<1>5. new \in Turn /\ new.task = t /\ new.told = Coder!Told(looping[t])  BY <1>3 DEF Turn, Phase
<1>6. row' = [row EXCEPT ![t] = c] /\ turn' = Append(turn, new)
      /\ looping' = [looping EXCEPT ![t] = Coder!NoRow]
      /\ UNCHANGED <<messaging, cancelling, settling, sent>>
  BY DEF Coder!Pumps, Coder!With, Coder!Done, q
<1> HIDE DEF c, new
<1>7. /\ turn' \in Seq(Turn) /\ Len(turn') = Len(turn) + 1 /\ DOMAIN turn \subseteq DOMAIN turn'
      /\ \A j \in DOMAIN turn : turn'[j] = turn[j]
      /\ turn'[Len(turn) + 1] = new
  BY <1>5, <1>6 DEF CoderRows
<1>8. \A u \in Coder!Task : Briefed(u) => Briefed(u)'  BY <1>7 DEF Briefed
<1>9. CoderRows'  BY <1>4, <1>6, <1>7, NoRowIsOne DEF CoderRows
<1>10. CopiesFollow'
  <2>1. \A u \in Coder!Task : row'[u].turns > 0 => Briefed(u)'
    BY <1>4, <1>6, <1>8 DEF CoderRows, CopiesFollow
  <2>2. \A k \in DOMAIN turn' \intersect Coder!TurnId : k \in DOMAIN turn \/ settling'[k].turns = 0
    BY <1>6 DEF CopiesFollow
  <2>3. \A k \in DOMAIN turn : turn'[k].task \in Coder!Task
    <3>1. \A k \in DOMAIN turn : turn[k] \in Turn  BY DEF CoderRows
    <3> QED BY <1>7, <3>1 DEF Turn
  <2>4. \A k \in DOMAIN turn' \intersect Coder!TurnId : settling'[k].turns > 0 => Briefed(turn[k].task)'
    BY <1>6, <1>7, <1>8, <2>2, <2>3 DEF CopiesFollow
  <2>5. Coder!TurnId \ DOMAIN turn' \subseteq Coder!TurnId \ DOMAIN turn  BY <1>7
  <2>6. \A u \in Coder!Task : looping'[u] = IF u = t THEN Coder!NoRow ELSE looping[u]
    BY <1>6 DEF CoderRows
  <2> QED BY <1>6, <1>8, <2>1, <2>4, <2>5, <2>6, NoRowIsOne DEF CopiesFollow
<1>11. Coder!PumpFindsAMessage'  BY <1>4, <1>6 DEF Coder!PumpFindsAMessage, Coder!Queued, CoderRows
<1>12. Coder!BriefComesFirst'
  <2> SUFFICES ASSUME NEW i \in DOMAIN turn', turn'[i].told # Coder!Brief
               PROVE  \E j \in 1..(i - 1) : turn'[j].task = turn'[i].task
                        /\ turn'[j].told = Coder!Brief /\ turn'[j].phase = "settled"
    BY DEF Coder!BriefComesFirst
  <2>1. CASE i \in DOMAIN turn
    <3>1. PICK j \in 1..(i - 1) : turn[j].task = turn[i].task /\ turn[j].told = Coder!Brief
                                    /\ turn[j].phase = "settled"
      BY <1>7, <2>1 DEF Coder!BriefComesFirst
    <3>2. j \in DOMAIN turn  BY <2>1 DEF CoderRows
    <3> QED BY <1>7, <2>1, <3>1, <3>2
  <2>2. CASE i = Len(turn) + 1
    <3>1. looping[t].turns > 0  BY <1>1, <1>5, <1>7, <2>2 DEF Coder!Told
    <3>2. PICK j \in DOMAIN turn : turn[j].task = t /\ turn[j].told = Coder!Brief
                                     /\ turn[j].phase = "settled"
      BY <3>1 DEF CopiesFollow, Briefed
    <3>3. j \in 1..(i - 1)  BY <2>2 DEF CoderRows
    <3> QED BY <1>5, <1>7, <2>2, <3>2, <3>3
  <2>3. i \in DOMAIN turn \/ i = Len(turn) + 1  BY <1>7 DEF CoderRows
  <2> QED BY <2>1, <2>2, <2>3
<1> QED BY <1>9, <1>10, <1>11, <1>12

\* What a turn's process does leaves rows and their copies alone.
LEMMA CoderProcess ==
  ASSUME CoderInv, NEW k \in Coder!TurnId, Coder!Spawned(k) \/ Coder!Ends(k)
  PROVE  CoderInv'
<1>1. k \in DOMAIN turn /\ turn[k].phase # "settled"
      /\ UNCHANGED <<row, messaging, cancelling, settling, looping, sent>>
      /\ \E p \in Phase : turn' = [turn EXCEPT ![k].phase = p]
  BY DEF Coder!Spawned, Coder!Ends, Coder!At, Coder!copies, Phase
<1> QED BY <1>1, CoderTurnMoves

\* The kill that comes before a cancel's write.
LEMMA CoderKills == ASSUME CoderInv, NEW t \in Coder!Task, Coder!Kills(t) PROVE CoderInv'
<1>1. UNCHANGED <<row, messaging, cancelling, settling, looping, sent>>  BY DEF Coder!Kills, Coder!copies
<1>2. CASE UNCHANGED turn
  BY <1>1, <1>2 DEF CoderInv, CoderRows, CopiesFollow, Briefed, Coder!PumpFindsAMessage, Coder!Queued,
                    Coder!BriefComesFirst
<1>3. CASE turn[live[t]].phase = "running" /\ Coder!At(live[t], "killed")
  <2>1. CASE live[t] \in DOMAIN turn  BY <1>1, <1>3, <2>1, CoderTurnMoves DEF Coder!At, Phase
  <2>2. CASE live[t] \notin DOMAIN turn
    <3>1. UNCHANGED turn  BY <1>3, <2>2 DEF Coder!At, CoderInv, CoderRows
    <3> QED BY <1>2, <3>1
  <2> QED BY <2>1, <2>2
<1> QED BY <1>2, <1>3 DEF Coder!Kills

\* _settle() takes a copy of the row to write later.
LEMMA CoderReadsToSettle ==
  ASSUME CoderInv, NEW k \in Coder!TurnId, Coder!ReadsToSettle(k)
  PROVE  CoderInv'
<1> DEFINE t == turn[k].task
<1>1. k \in DOMAIN turn /\ turn[k].phase # "settled" /\ UNCHANGED <<row, messaging, cancelling, looping, sent>>
  BY DEF Coder!ReadsToSettle
<1>2. t \in Coder!Task
  <2>1. turn[k] \in Turn  BY <1>1 DEF CoderInv, CoderRows
  <2> QED BY <2>1 DEF Turn
<1>3. PICK p \in Phase : turn' = [turn EXCEPT ![k].phase = p]
  BY DEF Coder!ReadsToSettle, Coder!At, Phase
<1>4. settling' = settling \/ settling' = [settling EXCEPT ![k] = row[t]]  BY DEF Coder!ReadsToSettle
<1>5. /\ turn' \in Seq(Turn) /\ DOMAIN turn' = DOMAIN turn /\ Coder!BriefComesFirst'
      /\ \A j \in DOMAIN turn : turn'[j].task = turn[j].task
      /\ \A u \in Coder!Task : Briefed(u) => Briefed(u)'
  BY <1>1, <1>3, TurnMoves
<1>6. Coder!PumpFindsAMessage'  BY <1>1 DEF CoderInv, Coder!PumpFindsAMessage, Coder!Queued
<1>7. CoderRows'  BY <1>1, <1>2, <1>4, <1>5 DEF CoderInv, CoderRows
<1>8. \A j \in DOMAIN turn : turn[j].task \in Coder!Task
  <2>1. \A j \in DOMAIN turn : turn[j] \in Turn  BY DEF CoderInv, CoderRows
  <2> QED BY <2>1 DEF Turn
<1>9. \A j \in DOMAIN turn \intersect Coder!TurnId : settling'[j].turns > 0 => Briefed(turn[j].task)
  BY <1>1, <1>2, <1>4 DEF CoderInv, CoderRows, CopiesFollow
<1>10. \A j \in Coder!TurnId \ DOMAIN turn : settling'[j].turns = 0
  BY <1>1, <1>4 DEF CoderInv, CoderRows, CopiesFollow
<1>11. CopiesFollow'  BY <1>1, <1>5, <1>8, <1>9, <1>10 DEF CoderInv, CopiesFollow
<1> QED BY <1>5, <1>6, <1>7, <1>11 DEF CoderInv

\* _settle() writes its copy back.
LEMMA CoderSettles ==
  ASSUME CoderInv, NEW k \in Coder!TurnId, Coder!Settles(k)
  PROVE  CoderInv'
<1>0. k \in DOMAIN turn /\ turn[k] \in Turn
  <2>1. k \in DOMAIN turn  BY DEF Coder!Settles
  <2> QED BY <2>1 DEF CoderInv, CoderRows
<1> PICK t \in Coder!Task : t = turn[k].task  BY <1>0 DEF Turn
<1> DEFINE n == settling[k].turns + 1
           s == Coder!After(settling[k], turn[k].phase = "writes_ok")
           c == [settling[k] EXCEPT !.turns = n, !.resumable = TRUE, !.state = s]
<1>1. k \in DOMAIN turn /\ turn[k].phase # "settled"
      /\ turn' = [turn EXCEPT ![k].phase = "settled"]
      /\ row' = [row EXCEPT ![t] = c]
      /\ settling' = [settling EXCEPT ![k] = Coder!NoRow]
      /\ UNCHANGED <<messaging, cancelling, looping, sent>>
  BY DEF Coder!Settles, Coder!At, Coder!With, Coder!Done
<1>4. settling[k] \in Columns  BY DEF CoderInv, CoderRows
<1>5. n \in Nat /\ n > 0 /\ s \in {"failed", "queued", "idle"}
      /\ (s = "queued" => settling[k].queue # << >>)
  <2>1. settling[k].turns \in Nat  BY <1>4 DEF Columns
  <2>2. s \in {"failed", "queued", "idle"} /\ (s = "queued" => settling[k].queue # << >>)
    BY DEF Coder!After
  <2> HIDE DEF s
  <2> QED BY <2>1, <2>2
<1> HIDE DEF n, s
<1>6. c \in Columns /\ c.state = s /\ c.queue = settling[k].queue  BY <1>4, <1>5 DEF Columns
<1> HIDE DEF c
<1>7. /\ turn' \in Seq(Turn) /\ DOMAIN turn' = DOMAIN turn /\ Coder!BriefComesFirst'
      /\ \A j \in DOMAIN turn : turn'[j].task = turn[j].task /\ turn'[j].told = turn[j].told
      /\ \A j \in DOMAIN turn : turn[j].phase = "settled" => turn'[j].phase = "settled"
      /\ \A u \in Coder!Task : Briefed(u) => Briefed(u)'
      /\ turn'[k].phase = "settled"
  BY <1>1, TurnMoves DEF Phase
<1>9. Briefed(t)'
  <2>1. CASE turn[k].told = Coder!Brief
    <3>1. k \in DOMAIN turn' /\ turn'[k].task = t /\ turn'[k].told = Coder!Brief  BY <1>1, <1>7, <2>1
    <3> QED BY <1>7, <3>1 DEF Briefed
  <2>2. CASE turn[k].told # Coder!Brief
    <3>1. PICK j \in 1..(k - 1) : turn[j].task = t /\ turn[j].told = Coder!Brief
                                    /\ turn[j].phase = "settled"
      BY <1>1, <2>2 DEF CoderInv, Coder!BriefComesFirst
    <3>2. j \in DOMAIN turn  BY <1>1 DEF CoderInv, CoderRows
    <3> QED BY <1>7, <3>1, <3>2 DEF Briefed
  <2> QED BY <2>1, <2>2
<1>10. Coder!PumpFindsAMessage'
  BY <1>1, <1>5, <1>6 DEF CoderInv, CoderRows, Coder!PumpFindsAMessage, Coder!Queued
<1>11. CoderRows'  BY <1>1, <1>6, <1>7, NoRowIsOne DEF CoderInv, CoderRows
<1>12. \A j \in DOMAIN turn : turn[j].task \in Coder!Task
  <2>1. \A j \in DOMAIN turn : turn[j] \in Turn  BY DEF CoderInv, CoderRows
  <2> QED BY <2>1 DEF Turn
<1>13. \A u \in Coder!Task : row'[u].turns > 0 => Briefed(u)'
  BY <1>1, <1>7, <1>9 DEF CoderInv, CoderRows, CopiesFollow
<1>14. \A j \in DOMAIN turn \intersect Coder!TurnId : settling'[j].turns > 0 => Briefed(turn[j].task)
  BY <1>1, NoRowIsOne DEF CoderInv, CoderRows, CopiesFollow
<1>15. \A j \in Coder!TurnId \ DOMAIN turn : settling'[j].turns = 0
  BY <1>1 DEF CoderInv, CoderRows, CopiesFollow
<1>16. CopiesFollow'
  BY <1>1, <1>7, <1>12, <1>13, <1>14, <1>15 DEF CoderInv, CopiesFollow
<1> QED BY <1>7, <1>10, <1>11, <1>16 DEF CoderInv

\* A restart loses every copy and keeps every row.
LEMMA CoderRestarts == ASSUME CoderInv, Coder!Restarts PROVE CoderInv'
<1> DEFINE Failed(c) == [c EXCEPT !.state = "failed", !.resumable = TRUE]
<1>1. /\ row' = [t \in Coder!Task |-> IF row[t].state = "running" THEN Failed(row[t]) ELSE row[t]]
      /\ turn' = [k \in DOMAIN turn |-> [turn[k] EXCEPT !.phase = "settled"]]
      /\ messaging' = [t \in Coder!Task |-> Coder!NoRow]
      /\ cancelling' = [t \in Coder!Task |-> Coder!NoRow]
      /\ settling' = [k \in Coder!TurnId |-> Coder!NoRow]
      /\ looping' = [t \in Coder!Task |-> Coder!NoRow]
      /\ UNCHANGED sent
  BY DEF Coder!Restarts, Coder!NoCopies, Coder!Running
<1>2. \A c \in Columns : Failed(c) \in Columns /\ Failed(c).turns = c.turns /\ Failed(c).state = "failed"
  BY DEF Columns
<1> HIDE DEF Failed
<1>3. \A j \in DOMAIN turn : turn[j] \in Turn  BY DEF CoderInv, CoderRows
<1>4. \A j \in DOMAIN turn : /\ [turn[j] EXCEPT !.phase = "settled"] \in Turn
                             /\ [turn[j] EXCEPT !.phase = "settled"].task = turn[j].task
                             /\ [turn[j] EXCEPT !.phase = "settled"].told = turn[j].told
                             /\ [turn[j] EXCEPT !.phase = "settled"].phase = "settled"
  BY <1>3 DEF Turn, Phase
<1>5. /\ turn' \in Seq(Turn) /\ DOMAIN turn' = DOMAIN turn
      /\ \A j \in DOMAIN turn : turn'[j].task = turn[j].task /\ turn'[j].told = turn[j].told
                                  /\ turn'[j].phase = "settled"
  <2>1. turn \in Seq(Turn)  BY DEF CoderInv, CoderRows
  <2>2. DOMAIN turn = 1..Len(turn) /\ Len(turn) \in Nat  BY <2>1
  <2>3. turn' \in [1..Len(turn) -> Turn]  BY <1>1, <1>4, <2>2
  <2>4. turn' \in Seq(Turn) /\ DOMAIN turn' = 1..Len(turn)  BY <2>2, <2>3, SeqDef
  <2> QED BY <1>1, <1>4, <2>2, <2>4
<1>6. \A u \in Coder!Task : Briefed(u) => Briefed(u)'  BY <1>5 DEF Briefed
<1>7. CoderRows'  BY <1>1, <1>2, <1>5, NoRowIsOne DEF CoderInv, CoderRows
<1>8. \A u \in Coder!Task : row'[u].turns = row[u].turns
  BY <1>1, <1>2 DEF CoderInv, CoderRows
<1>9. CopiesFollow'
  BY <1>1, <1>6, <1>8, NoRowIsOne DEF CoderInv, CopiesFollow
<1>10. Coder!PumpFindsAMessage'
  BY <1>1, <1>2 DEF CoderInv, CoderRows, Coder!PumpFindsAMessage, Coder!Queued
<1>11. Coder!BriefComesFirst'
  <2> SUFFICES ASSUME NEW i \in DOMAIN turn, turn[i].told # Coder!Brief
               PROVE  \E j \in 1..(i - 1) : turn'[j].task = turn'[i].task
                        /\ turn'[j].told = Coder!Brief /\ turn'[j].phase = "settled"
    BY <1>5 DEF Coder!BriefComesFirst
  <2>1. PICK j \in 1..(i - 1) : turn[j].task = turn[i].task /\ turn[j].told = Coder!Brief
    BY DEF CoderInv, Coder!BriefComesFirst
  <2>2. j \in DOMAIN turn  BY DEF CoderInv, CoderRows
  <2> QED BY <1>5, <2>1, <2>2
<1> QED BY <1>7, <1>9, <1>10, <1>11 DEF CoderInv

\* A step of another part, or of a pump with nothing to do.
LEMMA CoderRests == ASSUME CoderInv, Coder!PumpIsDone \/ UNCHANGED coder PROVE CoderInv'
<1>1. UNCHANGED <<row, turn, messaging, cancelling, settling, looping, sent>>
  BY DEF Coder!PumpIsDone, coder, Coder!copies
<1> QED BY <1>1 DEF CoderInv, CoderRows, CopiesFollow, Briefed, Coder!PumpFindsAMessage, Coder!Queued,
                    Coder!BriefComesFirst

\* Every step of the bridge.
LEMMA CoderStep == ASSUME CoderInv, Coder!Next PROVE CoderInv'
<1>1. CASE \E t \in Coder!Task : Coder!Starts(t)  BY <1>1, CoderStarts
<1>2. CASE \E t \in Coder!Task : Coder!ReadsToSend(t) \/ Coder!ReadsToCancel(t) \/ Coder!Picks(t)
  BY <1>2, CoderReads
<1>3. CASE \E t \in Coder!Task : Coder!Sends(t)  BY <1>3, CoderSends
<1>4. CASE \E t \in Coder!Task : Coder!Cancels(t)  BY <1>4, CoderCancels
<1>5. CASE \E t \in Coder!Task : Coder!Kills(t)  BY <1>5, CoderKills
<1>6. CASE \E t \in Coder!Task : Coder!Pumps(t)  BY <1>6, CoderPumps
<1>7. CASE Coder!PumpIsDone  BY <1>7, CoderRests
<1>8. CASE Coder!Restarts  BY <1>8, CoderRestarts
<1>9. CASE \E k \in Coder!TurnId : Coder!Spawned(k) \/ Coder!Ends(k)  BY <1>9, CoderProcess
<1>10. CASE \E k \in Coder!TurnId : Coder!ReadsToSettle(k)  BY <1>10, CoderReadsToSettle
<1>11. CASE \E k \in Coder!TurnId : Coder!Settles(k)  BY <1>11, CoderSettles
<1>12. CASE \E k \in Coder!TurnId : Coder!Hears(k)
  <2>1. PICK k \in Coder!TurnId : Coder!Hears(k)  BY <1>12
  <2>2. turn[k] \in Turn  BY <2>1 DEF CoderInv, CoderRows, Coder!Hears
  <2>3. turn[k].task \in Coder!Task  BY <2>2 DEF Turn
  <2> QED BY <2>1, <2>3, CoderReads
<1>13. CASE \E t \in Coder!Task : Coder!Progresses(t)  BY <1>13, CoderProgresses
<1> QED BY <1>1, <1>2, <1>3, <1>4, <1>5, <1>6, <1>7, <1>8, <1>9, <1>10, <1>11, <1>12, <1>13
        DEF Coder!Next

\* Before the first task.
LEMMA CoderStarted == ASSUME Coder!Init PROVE CoderInv
<1>1. << >> \in Seq(Turn) /\ DOMAIN << >> = {}  OBVIOUS
<1> USE DEF Coder!Init, Coder!NoCopies
<1>2. CoderRows  BY <1>1, NoRowIsOne DEF CoderRows
<1>3. CopiesFollow  BY <1>1, NoRowIsOne DEF CopiesFollow
<1>4. Coder!PumpFindsAMessage  BY NoRowIsOne DEF Coder!PumpFindsAMessage, Coder!Queued
<1>5. Coder!BriefComesFirst  BY <1>1 DEF Coder!BriefComesFirst
<1> QED BY <1>2, <1>3, <1>4, <1>5 DEF CoderInv


-----------------------------------------------------------------------------
(* Blobs. The transaction under way is the committed rows with what the     *)
(* statements of its script have done so far, and the disk is ahead of both. *)

Inserted == [rows EXCEPT ![running.blob] = running.key]

\* A new file, or a new artifact: its row is not committed, and its bytes come before that.
Adding ==
  /\ rows[running.blob] = "none"
  /\ tx.rows = IF running.pc = 1 THEN rows ELSE Inserted
  /\ tx.session = has
  /\ disk[running.blob] = IF running.pc <= 2 THEN "none" ELSE "whole"

Uploading ==
  /\ running.key \in File /\ running.blob \in Files!Blob /\ running.pc \in 1..4
  /\ replies[running.key] = Files!Nothing
  /\ tx.replies = IF running.pc = 4 THEN [replies EXCEPT ![running.key] = running.blob] ELSE replies
  /\ Adding

Putting ==
  /\ running.key = Files!Artifact /\ running.blob \in Files!Blob /\ running.pc \in 1..3
  /\ tx.replies = replies
  /\ Adding

Deleting ==
  /\ running.blob \in Files!Blob /\ running.pc \in 1..3
  /\ tx.replies = replies /\ tx.session = has
  /\ tx.rows = IF running.pc = 1 THEN rows ELSE [rows EXCEPT ![running.blob] = "none"]

\* Some rows are going, whichever: their number in the script does not matter.
Going ==
  /\ tx.replies = replies
  /\ \A b \in Files!Blob : tx.rows[b] \in {rows[b], "none"}

FilesShape ==
  /\ rows \in [Files!Blob -> File \union {Files!Artifact, "none"}]
  /\ replies \in [File -> Files!Blob \union {Files!Nothing}]
  /\ has \in BOOLEAN
  /\ disk \in [Files!Blob -> {"none", "part", "whole", "removed"}]
  /\ tx \in [rows : [Files!Blob -> File \union {Files!Artifact, "none"}],
             replies : [File -> Files!Blob \union {Files!Nothing}], session : BOOLEAN]
  /\ running \in [script : {"none", "upload", "artifact", "delete", "unlink_session", "drop_session", "erase"},
                  pc : Nat, blob : Files!Blob \union {Files!Nothing}, key : File \union {Files!Artifact, "none"}]
  /\ makes \in [File -> Nat]

Underway ==
  /\ running.script = "none" => running = Files!Idle /\ tx = Files!Committed
  /\ running.script = "upload" => Uploading
  /\ running.script = "artifact" => Putting
  /\ running.script = "delete" => Deleting
  /\ running.script = "unlink_session" => tx = Files!Committed /\ running.pc \in 1..2
  /\ running.script = "drop_session" => running.pc \in 1..2
  /\ running.script = "erase" => running.pc \in 1..3
  /\ running.script \in {"drop_session", "erase"} => Going

FilesInv == FilesShape /\ Underway /\ UploadsAreKept

\* Which statement of which script is next.
LEMMA StatementIs ==
  ASSUME FilesInv, running # Files!Idle
  PROVE  /\ Files!Statement = "insert" <=> running.script \in {"upload", "artifact"} /\ running.pc = 1
         /\ Files!Statement = "write" <=> running.script \in {"upload", "artifact"} /\ running.pc = 2
         /\ Files!Statement = "record" <=> running.script = "upload" /\ running.pc = 3
         /\ Files!Statement = "drop" <=> running.script = "delete" /\ running.pc = 1
         /\ Files!Statement = "unlink" <=> running.script = "delete" /\ running.pc = 2
         /\ Files!Statement = "unlink_artifacts" <=> running.script = "unlink_session" /\ running.pc = 1
         /\ Files!Statement = "drop_session" <=> running.script = "drop_session" /\ running.pc = 1
         /\ Files!Statement = "unlink_all" <=> running.script = "erase" /\ running.pc = 1
         /\ Files!Statement = "drop_all" <=> running.script = "erase" /\ running.pc = 2
         /\ Files!Statement = "commit" =>
              /\ running.pc = Len(Files!Script(running.script))
              /\ running.script = "upload" => running.pc = 4
              /\ running.script \in {"artifact", "delete", "erase"} => running.pc = 3
<1>1. CASE running.script = "upload"
  <2>1. running.pc \in {1, 2, 3, 4}  BY <1>1 DEF FilesInv, Underway, Uploading
  <2>2. Files!Script(running.script) = <<"insert", "write", "record", "commit">>
    BY <1>1 DEF Files!Script
  <2>3. Len(Files!Script(running.script)) = 4  BY <2>2
  <2>4. running.pc = 1 => Files!Statement = "insert"  BY <2>2 DEF Files!Statement
  <2>5. running.pc = 2 => Files!Statement = "write"  BY <2>2 DEF Files!Statement
  <2>6. running.pc = 3 => Files!Statement = "record"  BY <2>2 DEF Files!Statement
  <2>7. running.pc = 4 => Files!Statement = "commit"  BY <2>2 DEF Files!Statement
  <2> QED BY <1>1, <2>1, <2>3, <2>4, <2>5, <2>6, <2>7
<1>2. CASE running.script = "artifact"
  <2>1. running.pc \in {1, 2, 3}  BY <1>2 DEF FilesInv, Underway, Putting
  <2>2. Files!Script(running.script) = <<"insert", "write", "commit">>  BY <1>2 DEF Files!Script
  <2>3. Len(Files!Script(running.script)) = 3  BY <2>2
  <2>4. running.pc = 1 => Files!Statement = "insert"  BY <2>2 DEF Files!Statement
  <2>5. running.pc = 2 => Files!Statement = "write"  BY <2>2 DEF Files!Statement
  <2>6. running.pc = 3 => Files!Statement = "commit"  BY <2>2 DEF Files!Statement
  <2> QED BY <1>2, <2>1, <2>3, <2>4, <2>5, <2>6
<1>3. CASE running.script = "delete"
  <2>1. running.pc \in {1, 2, 3}  BY <1>3 DEF FilesInv, Underway, Deleting
  <2>2. Files!Script(running.script) = <<"drop", "unlink", "commit">>  BY <1>3 DEF Files!Script
  <2>3. Len(Files!Script(running.script)) = 3  BY <2>2
  <2>4. running.pc = 1 => Files!Statement = "drop"  BY <2>2 DEF Files!Statement
  <2>5. running.pc = 2 => Files!Statement = "unlink"  BY <2>2 DEF Files!Statement
  <2>6. running.pc = 3 => Files!Statement = "commit"  BY <2>2 DEF Files!Statement
  <2> QED BY <1>3, <2>1, <2>3, <2>4, <2>5, <2>6
<1>4. CASE running.script = "unlink_session"
  <2>1. running.pc \in {1, 2}  BY <1>4 DEF FilesInv, Underway
  <2>2. Files!Script(running.script) = <<"unlink_artifacts", "commit">>  BY <1>4 DEF Files!Script
  <2>3. Len(Files!Script(running.script)) = 2  BY <2>2
  <2>4. running.pc = 1 => Files!Statement = "unlink_artifacts"  BY <2>2 DEF Files!Statement
  <2>5. running.pc = 2 => Files!Statement = "commit"  BY <2>2 DEF Files!Statement
  <2> QED BY <1>4, <2>1, <2>3, <2>4, <2>5
<1>5. CASE running.script = "drop_session"
  <2>1. running.pc \in {1, 2}  BY <1>5 DEF FilesInv, Underway
  <2>2. Files!Script(running.script) = <<"drop_session", "commit">>  BY <1>5 DEF Files!Script
  <2>3. Len(Files!Script(running.script)) = 2  BY <2>2
  <2>4. running.pc = 1 => Files!Statement = "drop_session"  BY <2>2 DEF Files!Statement
  <2>5. running.pc = 2 => Files!Statement = "commit"  BY <2>2 DEF Files!Statement
  <2> QED BY <1>5, <2>1, <2>3, <2>4, <2>5
<1>6. CASE running.script = "erase"
  <2>1. running.pc \in {1, 2, 3}  BY <1>6 DEF FilesInv, Underway
  <2>2. Files!Script(running.script) = <<"unlink_all", "drop_all", "commit">>  BY <1>6 DEF Files!Script
  <2>3. Len(Files!Script(running.script)) = 3  BY <2>2
  <2>4. running.pc = 1 => Files!Statement = "unlink_all"  BY <2>2 DEF Files!Statement
  <2>5. running.pc = 2 => Files!Statement = "drop_all"  BY <2>2 DEF Files!Statement
  <2>6. running.pc = 3 => Files!Statement = "commit"  BY <2>2 DEF Files!Statement
  <2> QED BY <1>6, <2>1, <2>3, <2>4, <2>5, <2>6
<1> QED BY <1>1, <1>2, <1>3, <1>4, <1>5, <1>6 DEF FilesInv, FilesShape, Underway

\* A call begins with nothing done.
LEMMA FilesCalls ==
  ASSUME FilesInv, PartsAssumption, NEW name, NEW blob, NEW key, Files!Calls(name, blob, key),
         \/ name = "upload" /\ key \in File /\ blob \in Files!Unused /\ replies[key] = Files!Nothing
         \/ name = "artifact" /\ key = Files!Artifact /\ blob \in Files!Unused
         \/ name = "delete" /\ blob \in Files!Blob /\ key \in File
         \/ name \in {"unlink_session", "drop_session", "erase"} /\ blob = Files!Nothing /\ key = "none"
  PROVE  FilesInv'
<1>1. /\ tx' = Files!Committed
      /\ running' = [script |-> name, pc |-> 1, blob |-> blob, key |-> key]
      /\ UNCHANGED <<rows, replies, has, disk, makes>>
  BY DEF Files!Calls
<1>2. blob \in Files!Unused => blob \in Files!Blob /\ rows[blob] = "none" /\ disk[blob] = "none"
  BY DEF Files!Unused, Files!Fresh
<1>3. tx'.rows = rows /\ tx'.replies = replies /\ tx'.session = has  BY <1>1 DEF Files!Committed
<1>4. FilesShape'  BY <1>1, <1>2 DEF FilesInv, FilesShape, Files!Committed
<1>5. Underway'
  BY <1>1, <1>2, <1>3 DEF FilesInv, FilesShape, Underway, Uploading, Putting, Adding, Deleting, Going,
     Files!Committed, Files!Artifact
<1>6. UploadsAreKept'  BY <1>1 DEF FilesInv, UploadsAreKept, Files!UploadsAreKept
<1> QED BY <1>4, <1>5, <1>6 DEF FilesInv

\* A transaction that is given up leaves the rows, and no row is of the bytes it left.
LEMMA FilesGivesUp ==
  ASSUME FilesInv, tx' = Files!Committed, running' = Files!Idle,
         UNCHANGED <<rows, replies, has, makes>>,
         \/ UNCHANGED disk
         \/ /\ running # Files!Idle /\ Files!Statement = "write"
            /\ disk' = [disk EXCEPT ![running.blob] = "part"]
  PROVE  FilesInv'
<1>1. Underway'
  BY DEF Underway, Files!Idle, Files!Committed
<1>2. running.script = "none" => running = Files!Idle  BY DEF FilesInv, Underway
<1>3. \A b \in Files!Blob : disk'[b] = disk[b] \/ (disk'[b] = "part" /\ rows[b] = "none")
  <2>1. CASE UNCHANGED disk  BY <2>1
  <2>2. CASE running # Files!Idle /\ Files!Statement = "write"
             /\ disk' = [disk EXCEPT ![running.blob] = "part"]
    <3>1. running.script \in {"upload", "artifact"}  BY <2>2, StatementIs
    <3>2. rows[running.blob] = "none"  BY <3>1 DEF FilesInv, Underway, Uploading, Putting, Adding
    <3> QED BY <2>2, <3>2 DEF FilesInv, FilesShape
  <2> QED BY <2>1, <2>2
<1>4. FilesShape'
  <2>1. tx' \in [rows : [Files!Blob -> File \union {Files!Artifact, "none"}],
                 replies : [File -> Files!Blob \union {Files!Nothing}], session : BOOLEAN]
    BY DEF FilesInv, FilesShape, Files!Committed
  <2>2. disk' \in [Files!Blob -> {"none", "part", "whole", "removed"}]  BY DEF FilesInv, FilesShape
  <2>3. running' \in [script : {"none", "upload", "artifact", "delete", "unlink_session", "drop_session", "erase"},
                  pc : Nat, blob : Files!Blob \union {Files!Nothing}, key : File \union {Files!Artifact, "none"}]
    BY DEF Files!Idle
  <2> QED BY <2>1, <2>2, <2>3 DEF FilesInv, FilesShape
<1>5. UploadsAreKept'  BY <1>3 DEF FilesInv, UploadsAreKept, Files!UploadsAreKept
<1> QED BY <1>1, <1>4, <1>5 DEF FilesInv

\* The shape of the call and its transaction after one more statement.
LEMMA FilesGoes ==
  ASSUME FilesInv, running # Files!Idle, Files!Goes,
         tx' \in [rows : [Files!Blob -> File \union {Files!Artifact, "none"}],
                  replies : [File -> Files!Blob \union {Files!Nothing}], session : BOOLEAN],
         disk' \in [Files!Blob -> {"none", "part", "whole", "removed"}],
         UNCHANGED <<rows, replies, has, makes>>
  PROVE  /\ FilesShape'
         /\ running'.script = running.script /\ running'.pc = running.pc + 1
         /\ running'.blob = running.blob /\ running'.key = running.key
         /\ running.script # "none"
<1>1. running' = [running EXCEPT !.pc = running.pc + 1]  BY DEF Files!Goes
<1>2. running \in [script : {"none", "upload", "artifact", "delete", "unlink_session", "drop_session", "erase"},
                  pc : Nat, blob : Files!Blob \union {Files!Nothing}, key : File \union {Files!Artifact, "none"}]
  BY DEF FilesInv, FilesShape
<1>3. running' \in [script : {"none", "upload", "artifact", "delete", "unlink_session", "drop_session", "erase"},
                  pc : Nat, blob : Files!Blob \union {Files!Nothing}, key : File \union {Files!Artifact, "none"}]
      /\ running'.script = running.script /\ running'.pc = running.pc + 1
      /\ running'.blob = running.blob /\ running'.key = running.key
  BY <1>1, <1>2
<1>4. FilesShape'  BY <1>3 DEF FilesInv, FilesShape
<1> QED BY <1>3, <1>4 DEF FilesInv, Underway

\* A statement within the transaction leaves what is committed, and the disk.
LEMMA FilesWrites == ASSUME FilesInv, PartsAssumption, Files!Writes PROVE FilesInv'
<1>1. running # Files!Idle /\ Files!Goes /\ UNCHANGED <<rows, replies, has, disk, makes>>
  BY DEF Files!Writes
<1>2. UploadsAreKept'  BY <1>1 DEF FilesInv, UploadsAreKept, Files!UploadsAreKept
<1> DEFINE Tx == [rows : [Files!Blob -> File \union {Files!Artifact, "none"}],
                  replies : [File -> Files!Blob \union {Files!Nothing}], session : BOOLEAN]
<1>3. tx \in Tx /\ disk \in [Files!Blob -> {"none", "part", "whole", "removed"}]  BY DEF FilesInv, FilesShape
<1>4. tx.rows \in [Files!Blob -> File \union {Files!Artifact, "none"}]
      /\ tx.replies \in [File -> Files!Blob \union {Files!Nothing}] /\ tx.session \in BOOLEAN
  BY <1>3
<1>5. CASE Files!Statement = "insert" /\ tx' = [tx EXCEPT !.rows[running.blob] = running.key]
  <2>1. running.script \in {"upload", "artifact"} /\ running.pc = 1  BY <1>1, <1>5, StatementIs
  <2>2. running.blob \in Files!Blob /\ running.key \in File \union {Files!Artifact}
        /\ tx.rows = rows
    BY <2>1 DEF FilesInv, Underway, Uploading, Putting, Adding
  <2>3. tx'.rows = [rows EXCEPT ![running.blob] = running.key] /\ tx'.replies = tx.replies
        /\ tx'.session = tx.session /\ tx' \in Tx
    <3> DEFINE r == [rows EXCEPT ![running.blob] = running.key]
    <3>1. r \in [Files!Blob -> File \union {Files!Artifact, "none"}]  BY <1>4, <2>2
    <3>2. tx' = [tx EXCEPT !.rows = r]  BY <1>5, <2>2
    <3> HIDE DEF r
    <3>3. tx'.rows = r /\ tx'.replies = tx.replies /\ tx'.session = tx.session /\ tx' \in Tx
      BY <1>3, <1>4, <3>1, <3>2
    <3> QED BY <3>3 DEF r
  <2>4. /\ FilesShape' /\ running'.script = running.script /\ running'.pc = 2
        /\ running'.blob = running.blob /\ running'.key = running.key
    BY <1>1, <1>3, <2>1, <2>3, FilesGoes
  <2>5. Underway'
    BY <1>1, <2>1, <2>3, <2>4 DEF FilesInv, Underway, Uploading, Putting, Adding, Inserted
  <2> QED BY <1>2, <2>4, <2>5 DEF FilesInv
<1>6. CASE Files!Statement = "record" /\ tx' = [tx EXCEPT !.replies[running.key] = running.blob]
  <2>1. running.script = "upload" /\ running.pc = 3  BY <1>1, <1>6, StatementIs
  <2>2. running.blob \in Files!Blob /\ running.key \in File /\ tx.replies = replies
    BY <2>1 DEF FilesInv, Underway, Uploading
  <2>3. tx'.replies = [replies EXCEPT ![running.key] = running.blob] /\ tx'.rows = tx.rows
        /\ tx'.session = tx.session /\ tx' \in Tx
    BY <1>3, <1>4, <1>6, <2>2
  <2>4. /\ FilesShape' /\ running'.script = running.script /\ running'.pc = 4
        /\ running'.blob = running.blob /\ running'.key = running.key
    BY <1>1, <1>3, <2>1, <2>3, FilesGoes
  <2>5. Underway'
    BY <1>1, <2>1, <2>3, <2>4 DEF FilesInv, Underway, Uploading, Adding, Inserted
  <2> QED BY <1>2, <2>4, <2>5 DEF FilesInv
<1>7. CASE Files!Statement = "drop" /\ tx' = [tx EXCEPT !.rows = Files!Without({running.blob})]
  <2>1. running.script = "delete" /\ running.pc = 1  BY <1>1, <1>7, StatementIs
  <2>2. running.blob \in Files!Blob /\ tx.rows = rows /\ tx.replies = replies /\ tx.session = has
    BY <2>1 DEF FilesInv, Underway, Deleting
  <2>3. Files!Without({running.blob}) = [rows EXCEPT ![running.blob] = "none"]
    BY <2>2 DEF Files!Without, FilesInv, FilesShape
  <2>4. tx'.rows = [rows EXCEPT ![running.blob] = "none"] /\ tx'.replies = tx.replies
        /\ tx'.session = tx.session /\ tx' \in Tx
    <3> DEFINE r == [rows EXCEPT ![running.blob] = "none"]
    <3>1. r \in [Files!Blob -> File \union {Files!Artifact, "none"}]  BY <1>4, <2>2
    <3>2. tx' = [tx EXCEPT !.rows = r]  BY <1>7, <2>3
    <3> HIDE DEF r
    <3>3. tx'.rows = r /\ tx'.replies = tx.replies /\ tx'.session = tx.session /\ tx' \in Tx
      BY <1>3, <1>4, <3>1, <3>2
    <3> QED BY <3>3 DEF r
  <2>5. /\ FilesShape' /\ running'.script = running.script /\ running'.pc = 2
        /\ running'.blob = running.blob /\ running'.key = running.key
    BY <1>1, <1>3, <2>1, <2>4, FilesGoes
  <2>6. Underway'  BY <1>1, <2>1, <2>2, <2>4, <2>5 DEF Underway, Deleting
  <2> QED BY <1>2, <2>5, <2>6 DEF FilesInv
<1>8. CASE /\ Files!Statement \in {"drop_session", "drop_all"}
           /\ \E gone : tx' = [tx EXCEPT !.rows = Files!Without(gone), !.session = FALSE]
  <2>1. \/ running.script = "drop_session" /\ running.pc = 1
        \/ running.script = "erase" /\ running.pc = 2
    BY <1>1, <1>8, StatementIs
  <2>2. PICK gone : tx' = [tx EXCEPT !.rows = Files!Without(gone), !.session = FALSE]  BY <1>8
  <2>3. Files!Without(gone) \in [Files!Blob -> File \union {Files!Artifact, "none"}]
        /\ \A b \in Files!Blob : Files!Without(gone)[b] \in {tx.rows[b], "none"}
    BY <1>4 DEF Files!Without
  <2>4. tx'.rows = Files!Without(gone) /\ tx'.replies = tx.replies /\ tx' \in Tx
    BY <1>3, <1>4, <2>2, <2>3
  <2>5. /\ FilesShape' /\ running'.script = running.script /\ running'.pc = running.pc + 1
    BY <1>1, <1>3, <2>4, FilesGoes
  <2>6. Going  BY <2>1 DEF FilesInv, Underway
  <2>7. Going'  BY <1>1, <2>3, <2>4, <2>6 DEF Going
  <2>8. Underway'  BY <2>1, <2>5, <2>7 DEF Underway
  <2> QED BY <1>2, <2>5, <2>8 DEF FilesInv
<1> QED BY <1>5, <1>6, <1>7, <1>8 DEF Files!Writes

\* A statement that touches the disk leaves the transaction: it writes the bytes of a row that
\* is not committed, or removes some.
LEMMA FilesTouches == ASSUME FilesInv, PartsAssumption, Files!Touches PROVE FilesInv'
<1>1. running # Files!Idle /\ Files!Goes /\ UNCHANGED <<rows, replies, has, tx, makes>>
  BY DEF Files!Touches
<1>2. tx \in [rows : [Files!Blob -> File \union {Files!Artifact, "none"}],
              replies : [File -> Files!Blob \union {Files!Nothing}], session : BOOLEAN]
      /\ disk \in [Files!Blob -> {"none", "part", "whole", "removed"}]
  BY DEF FilesInv, FilesShape
<1>3. CASE Files!Statement = "write" /\ disk' = [disk EXCEPT ![running.blob] = "whole"]
  <2>1. running.script \in {"upload", "artifact"} /\ running.pc = 2  BY <1>1, <1>3, StatementIs
  <2>2. running.blob \in Files!Blob  BY <2>1 DEF FilesInv, Underway, Uploading, Putting
  <2>3. disk' \in [Files!Blob -> {"none", "part", "whole", "removed"}] /\ disk'[running.blob] = "whole"
        /\ \A b \in Files!Blob : disk'[b] \in {disk[b], "whole"}
    BY <1>2, <1>3, <2>2
  <2>4. /\ FilesShape' /\ running'.script = running.script /\ running'.pc = 3
        /\ running'.blob = running.blob /\ running'.key = running.key
    BY <1>1, <1>2, <2>1, <2>3, FilesGoes
  <2>5. Underway'
    BY <1>1, <2>1, <2>3, <2>4 DEF FilesInv, Underway, Uploading, Putting, Adding, Inserted
  <2>6. UploadsAreKept'  BY <1>1, <2>3 DEF FilesInv, UploadsAreKept, Files!UploadsAreKept
  <2> QED BY <2>4, <2>5, <2>6 DEF FilesInv
<1>4. CASE /\ Files!Statement \in {"unlink", "unlink_artifacts", "unlink_all"}
           /\ \E gone : Files!Unlinked(gone)
  <2>1. PICK gone : Files!Unlinked(gone)  BY <1>4
  <2>2. disk' \in [Files!Blob -> {"none", "part", "whole", "removed"}]
        /\ \A b \in Files!Blob : disk'[b] \in {disk[b], "removed"}
    BY <1>2, <2>1 DEF Files!Unlinked
  <2>3. /\ FilesShape' /\ running'.script = running.script /\ running'.pc = running.pc + 1
        /\ running'.blob = running.blob /\ running'.key = running.key
    BY <1>1, <1>2, <2>2, FilesGoes
  <2>4. \/ running.script = "delete" /\ running.pc = 2
        \/ running.script = "unlink_session" /\ running.pc = 1
        \/ running.script = "erase" /\ running.pc = 1
    BY <1>1, <1>4, StatementIs
  <2>5. Underway'
    BY <1>1, <2>3, <2>4 DEF FilesInv, Underway, Deleting, Going, Files!Committed
  <2>6. UploadsAreKept'  BY <1>1, <2>2 DEF FilesInv, UploadsAreKept, Files!UploadsAreKept
  <2> QED BY <2>3, <2>5, <2>6 DEF FilesInv
<1> QED BY <1>3, <1>4 DEF Files!Touches

\* Of the rows a commit makes for a key, one is that of the upload it ends, and no other
\* script makes any.
LEMMA FilesCommits == ASSUME FilesInv, PartsAssumption, Files!Commits PROVE FilesInv'
<1> DEFINE New(k) == {b \in Files!Of({k}) : rows[b] # k}
<1>1. /\ running # Files!Idle /\ Files!Statement = "commit"
      /\ rows' = tx.rows /\ replies' = tx.replies /\ has' = tx.session
      /\ makes' = [k \in File |-> makes[k] + Cardinality(New(k))]
      /\ UNCHANGED <<disk, tx>>
  <2>0. \A S : Files!Cardinality(S) = Cardinality(S)  BY DEF Files!Cardinality, Cardinality
  <2>1. makes' = [k \in File |-> makes[k] + Cardinality(New(k))]  BY <2>0 DEF Files!Commits
  <2> HIDE DEF New
  <2> QED BY <2>1 DEF Files!Commits
<1>2. running' = Files!Idle  BY <1>1, StatementIs DEF Files!Commits
<1>3. tx \in [rows : [Files!Blob -> File \union {Files!Artifact, "none"}],
              replies : [File -> Files!Blob \union {Files!Nothing}], session : BOOLEAN]
  BY DEF FilesInv, FilesShape
<1>4. tx' = Files!Committed'  BY <1>1, <1>3 DEF Files!Committed
<1>5. Underway'  BY <1>2, <1>4 DEF Underway, Files!Idle
<1>6. File \intersect {"artifact", "none"} = {}
  BY DEF PartsAssumption, Files!BlobsAssumption, Files!Artifact
<1>7. /\ \A k \in File : makes'[k] <= 1 /\ (makes'[k] = 1 <=> replies'[k] # Files!Nothing)
      /\ \A b \in Files!Blob : rows'[b] # "none" => disk'[b] \in {"whole", "removed"}
      /\ makes' \in [File -> Nat]
  <2>1. CASE running.script = "upload"
    <3>1. /\ running.pc = 4 /\ running.blob \in Files!Blob /\ running.key \in File
          /\ rows[running.blob] = "none" /\ replies[running.key] = Files!Nothing
          /\ tx.rows = Inserted /\ tx.replies = [replies EXCEPT ![running.key] = running.blob]
          /\ disk[running.blob] = "whole"
      BY <1>1, <2>1, StatementIs DEF FilesInv, Underway, Uploading, Adding
    <3>2. New(running.key) = {running.blob}
      BY <1>6, <3>1 DEF Files!Of, Inserted, FilesInv, FilesShape
    <3>3. \A k \in File \ {running.key} : New(k) = {}
      BY <1>6, <3>1 DEF Files!Of, Inserted, FilesInv, FilesShape
    <3>4. Cardinality(New(running.key)) = 1  BY <3>2, FS_Singleton
    <3>5. \A k \in File \ {running.key} : Cardinality(New(k)) = 0  BY <3>3, FS_EmptySet
    <3> HIDE DEF New
    <3>6. \A k \in File : makes[k] \in Nat /\ makes[k] <= 1 /\ (makes[k] = 1 <=> replies[k] # Files!Nothing)
      BY DEF FilesInv, FilesShape, UploadsAreKept, Files!UploadsAreKept
    <3>7. \A k \in File : replies'[k] = IF k = running.key THEN running.blob ELSE replies[k]
      BY <1>1, <3>1 DEF FilesInv, FilesShape
    <3>8. \A k \in File : makes'[k] = IF k = running.key THEN makes[k] + 1 ELSE makes[k]
      BY <1>1, <3>4, <3>5, <3>6
    <3>9. running.blob # Files!Nothing  BY <3>1 DEF Files!Blob, Files!Nothing
    <3>10. makes[running.key] = 0  BY <3>1, <3>6
    <3>11. \A k \in File : makes'[k] \in Nat /\ makes'[k] <= 1 /\ (makes'[k] = 1 <=> replies'[k] # Files!Nothing)
      BY <3>6, <3>7, <3>8, <3>9, <3>10
    <3>12. \A b \in Files!Blob : rows'[b] # "none" => disk'[b] \in {"whole", "removed"}
      BY <1>1, <3>1 DEF Inserted, FilesInv, FilesShape, UploadsAreKept, Files!UploadsAreKept
    <3> QED BY <1>1, <3>11, <3>12
  <2>2. CASE running.script # "upload"
    <3>1. /\ tx.replies = replies
          /\ \A b \in Files!Blob :
               \/ tx.rows[b] \in {rows[b], "none"}
               \/ tx.rows[b] = "artifact" /\ disk[b] = "whole"
      BY <1>1, <2>2, StatementIs
      DEF FilesInv, FilesShape, Underway, Putting, Adding, Inserted, Deleting, Going, Files!Committed,
          Files!Artifact
    <3>2. \A k \in File : New(k) = {}  BY <1>6, <3>1 DEF Files!Of
    <3>3. \A k \in File : Cardinality(New(k)) = 0  BY <3>2, FS_EmptySet
    <3> HIDE DEF New
    <3>4. \A k \in File : makes'[k] = makes[k] /\ makes[k] \in Nat
      BY <1>1, <3>3 DEF FilesInv, FilesShape
    <3>5. \A b \in Files!Blob : rows'[b] # "none" => disk'[b] \in {"whole", "removed"}
      BY <1>1, <3>1 DEF FilesInv, UploadsAreKept, Files!UploadsAreKept
    <3> QED BY <1>1, <3>1, <3>4, <3>5 DEF FilesInv, UploadsAreKept, Files!UploadsAreKept
  <2> QED BY <2>1, <2>2
<1>8. FilesShape'  BY <1>1, <1>2, <1>3, <1>7 DEF FilesInv, FilesShape, Files!Idle
<1>9. UploadsAreKept'  BY <1>7 DEF UploadsAreKept, Files!UploadsAreKept
<1> QED BY <1>5, <1>8, <1>9 DEF FilesInv

\* The reply to an upload is kept no longer, and what was made for it is counted anew.
LEMMA FilesExpires == ASSUME FilesInv, NEW k \in File, Files!Expires(k) PROVE FilesInv'
<1>1. /\ running = Files!Idle /\ UNCHANGED <<rows, has, disk, running>>
      /\ replies' = [replies EXCEPT ![k] = Files!Nothing] /\ makes' = [makes EXCEPT ![k] = 0]
  BY DEF Files!Expires
<1>2. /\ rows \in [Files!Blob -> File \union {Files!Artifact, "none"}] /\ has \in BOOLEAN
      /\ replies \in [File -> Files!Blob \union {Files!Nothing}] /\ makes \in [File -> Nat]
  BY DEF FilesInv, FilesShape
<1>3. replies' \in [File -> Files!Blob \union {Files!Nothing}] /\ makes' \in [File -> Nat]
  BY <1>1, <1>2
<1>4. tx' = Files!Committed'  BY DEF Files!Expires
<1>5. tx' = [rows |-> rows, replies |-> replies', session |-> has]
  BY <1>1, <1>4 DEF Files!Committed
<1>6. FilesShape'  BY <1>1, <1>2, <1>3, <1>5 DEF FilesInv, FilesShape
<1>7. Underway'  BY <1>1, <1>4 DEF Underway, Files!Idle
<1>8. UploadsAreKept'
  <2>1. \A f \in File : IF f = k THEN replies'[f] = Files!Nothing /\ makes'[f] = 0
                       ELSE replies'[f] = replies[f] /\ makes'[f] = makes[f]
    BY <1>1, <1>2
  <2>2. \A f \in File : makes'[f] <= 1 /\ (makes'[f] = 1 <=> replies'[f] # Files!Nothing)
    BY <2>1 DEF FilesInv, UploadsAreKept, Files!UploadsAreKept
  <2> QED BY <1>1, <2>2 DEF FilesInv, UploadsAreKept, Files!UploadsAreKept
<1> QED BY <1>6, <1>7, <1>8 DEF FilesInv

\* A step of another part.
LEMMA FilesRests == ASSUME FilesInv, UNCHANGED files PROVE FilesInv'
<1>1. UNCHANGED <<rows, replies, has, disk, tx, running, makes>>  BY DEF files
<1> QED BY <1>1 DEF FilesInv, FilesShape, Underway, Uploading, Putting, Adding, Inserted, Deleting, Going,
                    Files!Committed, UploadsAreKept, Files!UploadsAreKept

\* Every step of the store and its calls.
LEMMA FilesStep == ASSUME FilesInv, PartsAssumption, Files!Next PROVE FilesInv'
<1>1. CASE \E k \in File : Files!Uploads(k)
  <2>1. PICK k \in File : replies[k] = Files!Nothing /\ \E b \in Files!Unused : Files!Calls("upload", b, k)
    BY <1>1 DEF Files!Uploads
  <2> QED BY <2>1, FilesCalls
<1>7. CASE \E k \in File : Files!Expires(k)  BY <1>7, FilesExpires
<1>2. CASE \E b \in Files!Blob : Files!Deletes(b)
  <2>1. PICK b \in Files!Blob : rows[b] \in File /\ Files!Calls("delete", b, rows[b])
    BY <1>2 DEF Files!Deletes
  <2> QED BY <2>1, FilesCalls
<1>3. CASE Files!PutsArtifact
  <2>1. PICK b \in Files!Unused : Files!Calls("artifact", b, Files!Artifact)  BY <1>3 DEF Files!PutsArtifact
  <2> QED BY <2>1, FilesCalls
<1>4. CASE Files!Discards \/ Files!Forgets \/ Files!Erases
  BY <1>4, FilesCalls DEF Files!Discards, Files!Forgets, Files!Erases
<1>5. CASE Files!Fails  BY <1>5, FilesGivesUp DEF Files!Fails
<1>6. CASE Files!Crashes
  <2>1. /\ tx' = Files!Committed /\ running' = Files!Idle /\ UNCHANGED <<rows, replies, has, makes>>
        /\ \/ UNCHANGED disk
           \/ /\ running # Files!Idle /\ Files!Statement = "write"
              /\ disk' = [disk EXCEPT ![running.blob] = "part"]
    BY <1>6 DEF Files!Crashes
  <2> QED BY <2>1, FilesGivesUp
<1> QED BY <1>1, <1>2, <1>3, <1>4, <1>5, <1>6, <1>7, FilesWrites, FilesTouches, FilesCommits DEF Files!Next

\* Before the first call.
LEMMA FilesStarted == ASSUME Files!Init PROVE FilesInv
BY DEF Files!Init, FilesInv, FilesShape, Underway, Files!Committed, Files!Idle, UploadsAreKept,
       Files!UploadsAreKept, Files!Artifact
-----------------------------------------------------------------------------
(* ModelCalls. What was read is an answer as soon as it is read, and stays  *)
(* one until another provider is asked.                                     *)

\* What is worth asking the second provider for.
Mending == {"busy", "broken", "lost", "overloaded"}

\* A reply, with or without the note of a fallback.
Noted(by, pieces, end, note) ==
  [by |-> by, said |-> pieces, plan |-> Model!HasPlan(dialect[by], pieces), noted |-> note,
   stop |-> Model!Stop(dialect[by], pieces, end)]

\* An answer that may be passed on: of the provider that is asked, from all that arrived, and
\* not of a reply that was declined or failed.
IsAnswer ==
  /\ answer = Noted(asked, arrived, ended, outcome = "answered" /\ asked = "second")
  /\ ended # "none" \/ (dialect[asked] = "chat" /\ streaming)
  /\ ended \notin {"filter", "failed"}

ModelShape ==
  /\ asked \in Model!Provider \union {nobody}
  /\ tried \in [Model!Provider -> {"no", "answered", "refused", "unavailable", "failed"}]
  /\ fault \in [Model!Provider -> Model!Fault \union {"none"}]
  /\ ended \in Model!End \union {"none"} /\ meant.end \in Model!End
  /\ wire \in {"none", "sent", "open", "over", "closed"}
  /\ outcome \in {"asking", "answered", "refused", "unavailable", "failed"}
  /\ wire # "none" => asked \in Model!Provider

\* By how far the connection has come.
ReadSoFar ==
  /\ wire \in {"none", "sent"} => ended = "none" /\ answer = Model!NoAnswer /\ outcome = "asking"
  /\ wire = "sent" => arrived = <<>>
  /\ wire = "open" => streaming /\ outcome = "asking"
  /\ outcome = "answered" => wire = "closed"
  /\ answer # Model!NoAnswer => outcome \in {"asking", "answered"}
  /\ outcome = "answered" \/ answer # Model!NoAnswer => IsAnswer
  /\ wire = "open" /\ answer # Model!NoAnswer => Model!Rest = <<>> /\ ended # "none"
  /\ ended = "none" \/ ended = meant.end
  /\ meant.end = "failed" /\ wire # "none" => dialect[asked] = "responses"

OnlyOneIsTried ==
  /\ asked = "second" => tried["first"] = "unavailable" /\ fault["first"] \in Mending
  /\ wire = "closed" => tried[asked] = outcome
  /\ outcome = "unavailable" => fault[asked] \in Mending

ModelInv == ModelShape /\ ReadSoFar /\ OnlyOneIsTried /\ AnswerIsOnes

\* A reply comes without the note.
LEMMA NotedNot ==
  ASSUME NEW by, NEW pieces, NEW end
  PROVE  Model!Reply(by, pieces, end) = Noted(by, pieces, end, FALSE)
BY DEF Noted, Model!Reply

\* It stays what it is while what it was read from does.
LEMMA NotedStays ==
  ASSUME UNCHANGED <<dialect, wantsPlan, asked, arrived, ended>>, NEW note \in BOOLEAN
  PROVE  Noted(asked, arrived, ended, note)' = Noted(asked, arrived, ended, note)
BY DEF Noted, Model!Stop, Model!HasPlan, Model!EndsInAPlan, Model!Narrated, Model!Spoken

\* A reply is no answer that was not read.
LEMMA AReplyIsRead ==
  ASSUME NEW by, NEW pieces, NEW end, NEW note \in BOOLEAN
  PROVE  /\ Noted(by, pieces, end, note) # Model!NoAnswer
         /\ Noted(by, pieces, end, note).by = by /\ Noted(by, pieces, end, note).said = pieces
         /\ Noted(by, pieces, end, note).noted = note
         /\ end = "length" <=> Noted(by, pieces, end, note).stop = "max_tokens"
         /\ Noted(by, pieces, end, note).plan =>
              {"opening", "closing"} \subseteq Model!ToSet(pieces)
<1> DEFINE r == Noted(by, pieces, end, note)
<1>1. r.stop \in {"max_tokens", "tool_use", "end_turn"}  BY DEF Noted, Model!Stop
<1>2. Model!NoAnswer.stop = "none"  BY DEF Model!NoAnswer
<1>3. Model!HasPlan(dialect[by], pieces) => {"opening", "closing"} \subseteq Model!ToSet(pieces)
  BY DEF Model!HasPlan, Model!EndsInAPlan, Model!Spoken, Model!ToSet
<1>4. r.plan = Model!HasPlan(dialect[by], pieces)  BY DEF Noted, Model!Stop
<1>5. end = "length" <=> r.stop = "max_tokens"  BY DEF Noted, Model!Stop
<1>6. r.by = by /\ r.said = pieces /\ r.noted = note  BY DEF Noted, Model!Stop
<1> QED BY <1>1, <1>2, <1>3, <1>4, <1>5, <1>6

\* What the property asks of an answer holds of one that may be passed on.
LEMMA AnAnswerIsOnes ==
  ASSUME ReadSoFar, OnlyOneIsTried
  PROVE  AnswerIsOnes
<1> DEFINE note == outcome = "answered" /\ asked = "second"
<1>1. IsAnswer => Noted(asked, arrived, ended, note) = answer  BY DEF IsAnswer
<1>7. note \in BOOLEAN  OBVIOUS
<1> HIDE DEF note
<1>2. Model!NoAnswer.plan = FALSE  BY DEF Model!NoAnswer
<1>3. answer.plan => IsAnswer  BY <1>2 DEF ReadSoFar
<1>4. answer.plan => {"opening", "closing"} \subseteq Model!ToSet(answer.said)
  BY <1>1, <1>3, <1>7, AReplyIsRead
<1>5. outcome = "answered" =>
       /\ answer.by = asked /\ answer.said = arrived /\ answer.noted = (asked = "second")
       /\ ended # "none" \/ (dialect[asked] = "chat" /\ streaming)
       /\ (ended = "length") = (answer.stop = "max_tokens")
       /\ ended \notin {"filter", "failed"}
  <2>1. outcome = "answered" => IsAnswer  BY DEF ReadSoFar
  <2>2. outcome = "answered" => note = (asked = "second")  BY DEF note
  <2> SUFFICES ASSUME outcome = "answered"
               PROVE  /\ answer.by = asked /\ answer.said = arrived /\ answer.noted = (asked = "second")
                      /\ ended # "none" \/ (dialect[asked] = "chat" /\ streaming)
                      /\ (ended = "length") = (answer.stop = "max_tokens")
                      /\ ended \notin {"filter", "failed"}
    OBVIOUS
  <2>3. answer.by = asked /\ answer.said = arrived /\ answer.noted = note
        /\ (ended = "length" <=> answer.stop = "max_tokens")
    BY <2>1, <1>1, <1>7, AReplyIsRead
  <2>4. answer.noted = (asked = "second")  BY <2>2, <2>3, Zenon
  <2>5. ended # "none" \/ (dialect[asked] = "chat" /\ streaming)  BY <2>1 DEF IsAnswer
  <2>6. ended \notin {"filter", "failed"}  BY <2>1 DEF IsAnswer
  <2> QED BY <2>3, <2>4, <2>5, <2>6
<1>6. asked = "second" => tried["first"] = "unavailable" /\ fault["first"] \in Mending  BY DEF OnlyOneIsTried
<1> QED BY <1>4, <1>5, <1>6 DEF Mending, AnswerIsOnes, Model!AnswerIsOnes

\* Reading makes an answer of what arrived, or raises.
LEMMA ReadsOrRaises ==
  ASSUME answer = Model!NoAnswer, outcome = "asking", NEW pieces, NEW end,
         end = "failed" => dialect[asked] = "responses",
         Model!Reads(asked, pieces, end)
  PROVE  \/ /\ outcome' = "asking" /\ answer' = Noted(asked, pieces, end, FALSE)
            /\ end \notin {"filter", "failed"}
         \/ outcome' \in {"failed", "refused"} /\ answer' = Model!NoAnswer
<1>1. Noted(asked, pieces, end, FALSE) = Model!Reply(asked, pieces, end)  BY NotedNot
<1>2. CASE Model!Failed(dialect[asked], end)  BY <1>2 DEF Model!Reads
<1>3. CASE ~ Model!Failed(dialect[asked], end) /\ Model!Declines(dialect[asked], end)
  BY <1>3 DEF Model!Reads
<1>4. CASE ~ Model!Failed(dialect[asked], end) /\ ~ Model!Declines(dialect[asked], end)
  <2>1. answer' = Model!Reply(asked, pieces, end) /\ outcome' = outcome  BY <1>4 DEF Model!Reads
  <2>2. end \notin {"filter", "failed"}  BY <1>4 DEF Model!Failed, Model!Declines
  <2> QED BY <1>1, <2>1, <2>2
<1> QED BY <1>2, <1>3, <1>4

\* The property of the state after a step.
LEMMA AnswerIsOnesNext ==
  ASSUME ReadSoFar', OnlyOneIsTried' PROVE AnswerIsOnes'
<1>1. (ReadSoFar /\ OnlyOneIsTried => AnswerIsOnes)'  BY AnAnswerIsOnes, PTL
<1> QED BY <1>1

\* Asking a provider: nothing has arrived, and the second one is asked when the first was
\* unavailable.
LEMMA ModelAsks == ASSUME ModelInv, NEW p \in Model!Provider, Model!Asks(p) PROVE ModelInv'
<1> USE DEF ModelInv, ModelShape, ReadSoFar, OnlyOneIsTried, Model!Asks, Model!question
<1>1. ModelShape'  BY DEF Model!End
<1>2. ReadSoFar'
  <2>1. answer' = Model!NoAnswer  OBVIOUS
  <2>2. Model!NoAnswer' = Model!NoAnswer  BY DEF Model!NoAnswer
  <2> QED BY <2>1, <2>2
<1>3. OnlyOneIsTried'  BY DEF Model!MayAsk, Model!Provider
<1>4. AnswerIsOnes'  BY <1>2, <1>3, AnswerIsOnesNext
<1> QED BY <1>1, <1>2, <1>3, <1>4

\* What raises loses what was read.
LEMMA ModelRaises ==
  ASSUME ModelInv, Model!TurnedAway \/ Model!Cut \/ Model!Errs PROVE ModelInv'
<1> USE DEF ModelInv, ModelShape, ReadSoFar, OnlyOneIsTried, Model!TurnedAway, Model!Cut, Model!Errs,
            Model!Raises, Model!Raised, Model!question
<1>1. ModelShape'  BY DEF Model!Fault
<1>2. ReadSoFar'
  <2>1. answer' = Model!NoAnswer  OBVIOUS
  <2>2. Model!NoAnswer' = Model!NoAnswer  BY DEF Model!NoAnswer
  <2> QED BY <2>1, <2>2
<1>3. OnlyOneIsTried'
  <2>1. asked \in Model!Provider /\ wire' = "over" /\ UNCHANGED <<asked, tried>>  OBVIOUS
  <2>2. PICK why \in Model!Fault : Model!Raises(why)  BY DEF Model!Fault
  <2>3. fault' = [fault EXCEPT ![asked] = why] /\ outcome' = Model!Raised(why)  BY <2>2
  <2>4. outcome' = "unavailable" => fault'[asked] \in Mending
    BY <2>1, <2>3 DEF Mending, Model!Raised
  <2>5. asked = "second" => fault'["first"] = fault["first"]  BY <2>3
  <2> QED BY <2>1, <2>4, <2>5
<1>4. AnswerIsOnes'  BY <1>2, <1>3, AnswerIsOnesNext
<1> QED BY <1>1, <1>2, <1>3, <1>4

\* The whole reply, or what has been read of a stream when it ends.
LEMMA ModelReads ==
  ASSUME ModelInv, wire \in {"sent", "open"}, answer = Model!NoAnswer,
         NEW end \in Model!End \union {"none"}, end \in {"none", meant.end},
         end # "none" \/ (dialect[asked] = "chat" /\ streaming),
         Model!Reads(asked, arrived', end),
         ended' = end, UNCHANGED <<dialect, streaming, wantsPlan, asked, meant, fault, tried>>,
         \/ wire' = "over"
         \/ wire' = "open" /\ wire = "open" /\ outcome' = "asking" /\ Model!Rest' = <<>> /\ end # "none"
  PROVE  ModelInv'
<1> USE DEF ModelInv, ModelShape, ReadSoFar, OnlyOneIsTried
<1>1. end = "failed" => dialect[asked] = "responses"  OBVIOUS
<1>2. \/ /\ outcome' = "asking" /\ answer' = Noted(asked, arrived', end, FALSE)
         /\ end \notin {"filter", "failed"}
      \/ outcome' \in {"failed", "refused"} /\ answer' = Model!NoAnswer
  <2>1. outcome = "asking"  OBVIOUS
  <2> QED BY <1>1, <2>1, ReadsOrRaises
<1>3. Noted(asked, arrived', end, FALSE) = Noted(asked, arrived, ended, FALSE)'
      /\ Model!NoAnswer' = Model!NoAnswer
  BY DEF Noted, Model!Stop, Model!HasPlan, Model!NoAnswer, Model!EndsInAPlan, Model!Narrated,
         Model!Spoken
<1>4. ModelShape'  BY <1>2
<1>8. outcome' = "asking" => Noted(asked, arrived, ended, FALSE)'
                             = Noted(asked, arrived, ended, outcome = "answered" /\ asked = "second")'
  BY DEF Noted
<1>5. ReadSoFar'  BY <1>2, <1>3, <1>8 DEF IsAnswer
<1>6. OnlyOneIsTried'  BY <1>2
<1>7. AnswerIsOnes'  BY <1>5, <1>6, AnswerIsOnesNext
<1> QED BY <1>4, <1>5, <1>6, <1>7

\* The whole reply comes at once.
LEMMA ModelCompletes == ASSUME ModelInv, Model!Completes PROVE ModelInv'
<1>1. wire \in {"sent", "open"} /\ answer = Model!NoAnswer
  BY DEF ModelInv, ReadSoFar, Model!Completes
<1>2. meant.end \in Model!End \union {"none"} /\ meant.end # "none"
  BY DEF ModelInv, ModelShape, Model!End
<1>3. Model!Reads(asked, arrived', meant.end) /\ ended' = meant.end
      /\ UNCHANGED <<dialect, streaming, wantsPlan, asked, meant, fault, tried>> /\ wire' = "over"
  BY DEF Model!Completes, Model!question
<1> QED BY <1>1, <1>2, <1>3, ModelReads

\* The event that ends a reply.
LEMMA ModelEnds == ASSUME ModelInv, Model!Ends PROVE ModelInv'
<1> USE DEF Model!Ends, Model!question
<1>1. answer = Model!NoAnswer
  BY DEF ModelInv, ReadSoFar, IsAnswer
<1>2. meant.end \in Model!End \union {"none"} /\ meant.end # "none"
  BY DEF ModelInv, ModelShape, Model!End
<1>3. Model!Rest' = <<>>  BY DEF Model!Rest
<1>4. \/ wire' = "over"
      \/ wire' = "open" /\ wire = "open" /\ outcome' = "asking"
  OBVIOUS
<1>5. CASE dialect[asked] # "chat"
  <2>1. Model!Reads(asked, arrived', meant.end) /\ ended' = meant.end
        /\ UNCHANGED <<dialect, streaming, wantsPlan, asked, meant, fault, tried>>
    BY <1>5
  <2> QED BY <1>1, <1>2, <1>3, <1>4, <2>1, ModelReads
<1>6. CASE dialect[asked] = "chat"
  <2> USE DEF ModelInv, ModelShape, ReadSoFar, OnlyOneIsTried
  <2>1. UNCHANGED <<answer, outcome>> /\ wire' = "open"  BY <1>6
  <2>2. ModelShape'  BY <2>1
  <2>3. ReadSoFar'
    <3>1. answer' = Model!NoAnswer' BY <1>1, <2>1 DEF Model!NoAnswer
    <3> QED BY <1>3, <2>1, <3>1
  <2>4. OnlyOneIsTried'  BY <2>1
  <2>5. AnswerIsOnes'  BY <2>3, <2>4, AnswerIsOnesNext
  <2> QED BY <2>2, <2>3, <2>4, <2>5
<1> QED BY <1>5, <1>6

\* The stream is over.
LEMMA ModelOver == ASSUME ModelInv, Model!Over PROVE ModelInv'
<1> USE DEF Model!Over, Model!question
<1>1. CASE Model!ReadsAtTheEnd /\ answer = Model!NoAnswer
  <2>1. wire \in {"sent", "open"} /\ streaming
    BY DEF ModelInv, ReadSoFar
  <2>2. ended \in Model!End \union {"none"} /\ ended \in {"none", meant.end}
    BY DEF ModelInv, ModelShape, ReadSoFar
  <2>3. Model!Reads(asked, arrived', ended) /\ ended' = ended
        /\ UNCHANGED <<dialect, streaming, wantsPlan, asked, meant, fault, tried>> /\ wire' = "over"
    BY <1>1
  <2> QED BY <1>1, <2>1, <2>2, <2>3, ModelReads DEF Model!ReadsAtTheEnd
<1>2. CASE ~ (Model!ReadsAtTheEnd /\ answer = Model!NoAnswer)
  <2> USE DEF ModelInv, ModelShape, ReadSoFar, OnlyOneIsTried
  <2>1. UNCHANGED <<answer, outcome>>  BY <1>2
  <2>2. ModelShape'  BY <2>1
  <2>3. ReadSoFar'
    <3>1. IsAnswer => IsAnswer'
      <4>1. Noted(asked, arrived, ended, outcome = "answered" /\ asked = "second")'
              = Noted(asked, arrived, ended, outcome = "answered" /\ asked = "second")
        <5> DEFINE n == outcome = "answered" /\ asked = "second"
        <5>1. n' = n /\ n \in BOOLEAN  BY <2>1
        <5> HIDE DEF n
        <5>2. Noted(asked, arrived, ended, n) = Noted(asked', arrived', ended', n)
          BY NotedStays
        <5> QED BY <5>1, <5>2, NotedStays DEF n
      <4> QED BY <2>1, <4>1 DEF IsAnswer
    <3> QED BY <2>1, <3>1 DEF Model!NoAnswer
  <2>4. OnlyOneIsTried'  BY <2>1
  <2>5. AnswerIsOnes'  BY <2>3, <2>4, AnswerIsOnesNext
  <2> QED BY <2>2, <2>3, <2>4, <2>5
<1> QED BY <1>1, <1>2

\* The steps that read nothing: a stream opens, a piece arrives, the loop takes the result.
LEMMA ModelGoesOn ==
  ASSUME ModelInv, Model!Opens \/ Model!Arrives \/ Model!Returns PROVE ModelInv'
<1> USE DEF ModelInv, ModelShape, ReadSoFar, OnlyOneIsTried, Model!question
<1>1. CASE Model!Opens
  <2> USE <1>1 DEF Model!Opens
  <2>1. ModelShape'  OBVIOUS
  <2>2. ReadSoFar'
    <3>1. answer' = Model!NoAnswer' BY DEF Model!NoAnswer
    <3> QED BY <3>1
  <2>3. OnlyOneIsTried'  OBVIOUS
  <2>4. AnswerIsOnes'  BY <2>2, <2>3, AnswerIsOnesNext
  <2> QED BY <2>1, <2>2, <2>3, <2>4
<1>2. CASE Model!Arrives
  <2> USE <1>2 DEF Model!Arrives
  <2>1. ModelShape'  OBVIOUS
  <2>2. ReadSoFar'
    <3>1. answer' = Model!NoAnswer' BY DEF Model!NoAnswer
    <3> QED BY <3>1
  <2>3. OnlyOneIsTried'  OBVIOUS
  <2>4. AnswerIsOnes'  BY <2>2, <2>3, AnswerIsOnesNext
  <2> QED BY <2>1, <2>2, <2>3, <2>4
<1>3. CASE Model!Returns
  <2> USE <1>3 DEF Model!Returns, Model!Result, Model!MarksFallback
  <2>1. ModelShape'  BY DEF Model!Provider
  <2>2. ReadSoFar'
    <3>1. wire = "over" /\ outcome # "answered" /\ UNCHANGED <<asked, arrived, ended>>  OBVIOUS
    <3>2. UNCHANGED <<dialect, streaming, wantsPlan, meant>> /\ wire' = "closed"  OBVIOUS
    <3>3. CASE outcome = "asking" /\ answer # Model!NoAnswer
      <4>1. outcome' = "answered" /\ answer' = [answer EXCEPT !.noted = (asked = "second")]
        BY <3>3
      <4>2. answer = Noted(asked, arrived, ended, outcome = "answered" /\ asked = "second")
            /\ (ended # "none" \/ (dialect[asked] = "chat" /\ streaming))
            /\ ended \notin {"filter", "failed"}
        BY <3>3 DEF IsAnswer
      <4>3. (outcome = "answered" /\ asked = "second") = FALSE  BY <3>3
      <4>4. answer = Noted(asked, arrived, ended, FALSE)
        <5> DEFINE m == outcome = "answered" /\ asked = "second"
        <5>1. answer = Noted(asked, arrived, ended, m) /\ m = FALSE  BY <4>2, <4>3
        <5> HIDE DEF m
        <5> QED BY <5>1
      <4> DEFINE n == asked = "second"
      <4>5. answer' = [answer EXCEPT !.noted = n]  BY <4>1
      <4>7. n \in BOOLEAN /\ n' = n /\ (outcome' = "answered" /\ n') = n  BY <3>1, <4>1
      <4> HIDE DEF n
      <4>8. answer' = Noted(asked, arrived, ended, n)
        <5> DEFINE s == Model!Stop(dialect[asked], arrived, ended)
                   p == Model!HasPlan(dialect[asked], arrived)
        <5>1. answer = [by |-> asked, said |-> arrived, plan |-> p, noted |-> FALSE, stop |-> s]
          BY <4>4 DEF Noted
        <5>2. Noted(asked, arrived, ended, n)
                = [by |-> asked, said |-> arrived, plan |-> p, noted |-> n, stop |-> s]
          BY DEF Noted
        <5> HIDE DEF s, p
        <5> QED BY <4>5, <5>1, <5>2
      <4>9. answer' = Noted(asked, arrived, ended, n)'
        BY <3>1, <3>2, <4>7, <4>8, NotedStays
      <4> QED BY <3>1, <3>2, <4>1, <4>2, <4>7, <4>9 DEF n, IsAnswer, Model!NoAnswer
    <3>4. CASE ~ (outcome = "asking" /\ answer # Model!NoAnswer)
      <4>1. answer = Model!NoAnswer  BY <3>1, <3>4
      <4> QED BY <3>1, <3>2, <3>4, <4>1 DEF Model!NoAnswer
    <3> QED BY <3>3, <3>4
  <2>3. OnlyOneIsTried'  BY DEF Model!Provider
  <2>4. AnswerIsOnes'  BY <2>2, <2>3, AnswerIsOnesNext
  <2> QED BY <2>1, <2>2, <2>3, <2>4
<1> QED BY <1>1, <1>2, <1>3

\* Every step of a question to a model.
LEMMA ModelStep == ASSUME ModelInv, Model!Next PROVE ModelInv'
BY ModelAsks, ModelRaises, ModelCompletes, ModelEnds, ModelOver, ModelGoesOn DEF Model!Next

\* Before anybody is asked.
LEMMA ModelStarted == ASSUME PartsAssumption, Model!Init PROVE ModelInv
<1> USE DEF Model!Init, ModelInv, ModelShape, ReadSoFar, OnlyOneIsTried
<1>1. ModelShape  BY DEF Model!End, Model!Provider
<1>2. ReadSoFar  OBVIOUS
<1>3. OnlyOneIsTried  BY PartsAssumption DEF Model!ModelCallsAssumption, Model!Provider
<1>4. AnswerIsOnes  BY <1>2, <1>3, AnAnswerIsOnes
<1> QED BY <1>1, <1>2, <1>3, <1>4

\* Another part's step.
LEMMA ModelRests == ASSUME ModelInv, UNCHANGED model PROVE ModelInv'
BY DEF model, ModelInv, ModelShape, ReadSoFar, OnlyOneIsTried, AnswerIsOnes, Model!AnswerIsOnes, IsAnswer,
       Noted, Model!Stop, Model!HasPlan, Model!NoAnswer, Model!EndsInAPlan, Model!Narrated, Model!Spoken,
       Model!Rest, Model!ToSet

-----------------------------------------------------------------------------
(* Window. The ladder and the allocator only ever take what comes last: what *)
(* they have taken so far comes after whatever still stands.                *)

Costing == [Prompt!Section -> Nat]

WindowShape ==
  /\ phase \in {"gather", "ladder", "fit", "done"}
  /\ shown \in [Prompt!Group -> -1..8] /\ head \in 1..3 /\ fenced \in BOOLEAN
  /\ confess \in {"full", "short", "none"}
  /\ cost \in Costing /\ looked \subseteq Prompt!Section
  /\ notices \in [Prompt!Section -> {"whole", "shortened", "dropped"}]
  /\ ceiling \in Nat /\ answered \in [Source -> Int]

\* The ladder: a group is dropped when every other one is at its floor or gone, and a block
\* that no longer names what it dropped has nothing left but its date.
TheLadder ==
  /\ phase = "gather" => shown = [g \in Prompt!Group |-> 0]
  /\ \A g \in Prompt!Gone : Prompt!AboveFloor = {} /\ \A h \in Prompt!Standing : Prompt!Quota[h].rank <= Prompt!Quota[g].rank
  /\ confess = "none" => Prompt!Bottom

\* The allocator: a section it has come to is shortened, and the band fits, or dropped.
TheBands ==
  /\ phase \in {"gather", "ladder"} => looked = {}
  /\ \A s \in Prompt!Section : s \notin looked <=> notices[s] = "whole"
  /\ \A s \in Prompt!Section : notices[s] = "dropped" => cost[s] = 0
  /\ \A s \in Prompt!Section : notices[s] = "shortened" => Prompt!Over <= 0
  /\ \A s, t \in Prompt!Section : notices[s] = "shortened" /\ notices[t] = "shortened" => s = t
  /\ \A s, t \in Prompt!Section :
       notices[s] = "dropped" /\ cost[t] > 0 => Prompt!Priority[t] <= Prompt!Priority[s]
  /\ phase = "done" => Prompt!Over <= 0
  /\ phase \in {"fit", "done"} =>
       /\ notices["live"] = "whole" => cost["live"] = Prompt!Rendered
       /\ Prompt!Rendered <= Prompt!Limit \/ Prompt!Bottom
       /\ notices["live"] # "whole" => Prompt!Bottom /\ Prompt!Rendered > Prompt!Limit

WindowInv == WindowShape /\ TheLadder /\ TheBands

\* What the table of quotas holds.
LEMMA QuotaIs ==
  \A g \in DOMAIN Prompt!Quota :
    Prompt!Quota[g].rank \in Nat /\ Prompt!Quota[g].ceiling \in 0..8 /\ Prompt!Quota[g].floor \in 0..8
BY DEF Prompt!Quota

\* What a group of findings is made of.
LEMMA GroupIs ==
  ASSUME PartsAssumption
  PROVE  /\ Prompt!Group \subseteq DOMAIN Prompt!Quota
         /\ IsFiniteSet(Prompt!Group) /\ IsFiniteSet(Source)
         /\ Source \subseteq Prompt!Group /\ "trouble" \in Prompt!Group /\ "trouble" \notin Source
         /\ AnswerCounts \subseteq Nat /\ Ceilings \subseteq Nat /\ Costs \subseteq Nat
<1>1. Source \subseteq DOMAIN Prompt!Quota /\ "trouble" \notin Source
      /\ AnswerCounts \subseteq Nat /\ Ceilings \subseteq Nat /\ Costs \subseteq Nat
  BY PartsAssumption DEF Prompt!WindowAssumption
<1>2. "trouble" \in DOMAIN Prompt!Quota  BY DEF Prompt!Quota
<1>3. IsFiniteSet(DOMAIN Prompt!Quota)
  <2>1. DOMAIN Prompt!Quota =
          (({"finished"} \union {"pending"}) \union ({"trouble"} \union {"in_flight"})) \union
          ((({"memory"} \union {"tasks"}) \union ({"capabilities"} \union {"feeds"})) \union {"workspace"})
    BY DEF Prompt!Quota
  <2>2. \A x : IsFiniteSet({x})  BY FS_Singleton
  <2>3. \A S, T : IsFiniteSet(S) /\ IsFiniteSet(T) => IsFiniteSet(S \union T)  BY FS_Union
  <2>4. IsFiniteSet({"finished"} \union {"pending"}) /\ IsFiniteSet({"trouble"} \union {"in_flight"})
        /\ IsFiniteSet({"memory"} \union {"tasks"}) /\ IsFiniteSet({"capabilities"} \union {"feeds"})
    BY <2>2, <2>3, Zenon
  <2>5. IsFiniteSet(({"finished"} \union {"pending"}) \union ({"trouble"} \union {"in_flight"}))
    BY <2>3, <2>4, Zenon
  <2>6. IsFiniteSet(({"memory"} \union {"tasks"}) \union ({"capabilities"} \union {"feeds"}))
    BY <2>3, <2>4, Zenon
  <2>7. IsFiniteSet((({"memory"} \union {"tasks"}) \union ({"capabilities"} \union {"feeds"})) \union {"workspace"})
    BY <2>2, <2>3, <2>6, Zenon
  <2>8. IsFiniteSet(
          (({"finished"} \union {"pending"}) \union ({"trouble"} \union {"in_flight"})) \union
          ((({"memory"} \union {"tasks"}) \union ({"capabilities"} \union {"feeds"})) \union {"workspace"}))
    BY <2>3, <2>5, <2>7, Zenon
  <2> QED BY <2>1, <2>8, Zenon
<1> QED BY <1>1, <1>2, <1>3, FS_Subset DEF Prompt!Group

\* What the block costs and may cost.
LEMMA CostIs ==
  ASSUME PartsAssumption, WindowShape
  PROVE  /\ Prompt!Rendered \in Nat /\ Prompt!Limit \in Nat /\ Prompt!Limit <= ceiling
         /\ Prompt!Gone # {} /\ confess # "none" => Prompt!Omitted > 0
         /\ Prompt!Trouble \in Nat
         /\ (\E s \in Source : answered[s] = Prompt!Failed) => "trouble" \in Prompt!Groups
         /\ \A g \in Prompt!Group : Prompt!Entries(g) \in Int
<1>1. \A S : Prompt!Cardinality(S) = Cardinality(S)  BY DEF Prompt!Cardinality, Cardinality
<1>2. \A S \in SUBSET Prompt!Group : IsFiniteSet(S) /\ Prompt!Cardinality(S) \in Nat
  BY <1>1, GroupIs, FS_Subset, FS_CardinalityType
<1>3. Prompt!Gone \in SUBSET Prompt!Group /\ Prompt!Standing \in SUBSET Prompt!Group
  BY DEF Prompt!Gone, Prompt!Standing, Prompt!Groups
<1>4. Prompt!Cardinality(Prompt!Lines) \in Nat
  <2>1. IsFiniteSet(Prompt!Standing \X (0..8))
    <3>1. IsFiniteSet(0..8)
      <4>1. \A a, b \in Int : IsFiniteSet(a..b)  BY FS_Interval
      <4>2. 0 \in Int /\ 8 \in Int  OBVIOUS
      <4> QED BY <4>1, <4>2, Zenon
    <3>2. IsFiniteSet(Prompt!Standing)  BY <1>2, <1>3
    <3> HIDE DEF Prompt!Standing
    <3> QED BY <3>1, <3>2, FS_Product
  <2>2. Prompt!Lines \in SUBSET (Prompt!Standing \X (0..8))  BY DEF Prompt!Lines
  <2> QED BY <1>1, <2>1, <2>2, FS_Subset, FS_CardinalityType
<1>5. Prompt!Omitted \in Nat /\ (Prompt!Gone # {} /\ confess # "none" => Prompt!Omitted > 0)
  BY <1>2, <1>3 DEF Prompt!Omitted
<1>6. Prompt!Rendered \in Nat  BY <1>4, <1>5 DEF Prompt!Rendered, Prompt!Line, WindowShape
<1>7. Prompt!Limit \in Nat /\ Prompt!Limit <= ceiling  BY DEF Prompt!Limit, WindowShape
<1>8. Prompt!Trouble \in Nat /\ ((\E s \in Source : answered[s] = Prompt!Failed) => Prompt!Trouble > 0)
  <2>1. {s \in Source : answered[s] = Prompt!Failed} \in SUBSET Source  OBVIOUS
  <2>2. IsFiniteSet({s \in Source : answered[s] = Prompt!Failed})  BY <2>1, GroupIs, FS_Subset
  <2>3. Prompt!Trouble = Cardinality({s \in Source : answered[s] = Prompt!Failed})
    BY <1>1 DEF Prompt!Trouble
  <2>4. (\E s \in Source : answered[s] = Prompt!Failed)
          => {s \in Source : answered[s] = Prompt!Failed} # {}  OBVIOUS
  <2> HIDE DEF Prompt!Failed
  <2>5. Cardinality({s \in Source : answered[s] = Prompt!Failed}) \in Nat  BY <2>2, FS_CardinalityType
  <2>6. Cardinality({s \in Source : answered[s] = Prompt!Failed}) = 0
          => {s \in Source : answered[s] = Prompt!Failed} = {}  BY <2>2, FS_EmptySet
  <2> QED BY <2>3, <2>4, <2>5, <2>6
<1>9. (\E s \in Source : answered[s] = Prompt!Failed) => "trouble" \in Prompt!Groups
  BY <1>8, GroupIs DEF Prompt!Groups, Prompt!Entries
<1>10. \A g \in Prompt!Group : Prompt!Entries(g) \in Int
  BY <1>8 DEF Prompt!Entries, Prompt!Read, Prompt!Group, WindowShape
<1> QED BY <1>5, <1>6, <1>7, <1>8, <1>9, <1>10

\* The property follows: what is shortened is at most one, and the block names what it lost.
LEMMA LeastHasGone == ASSUME PartsAssumption, WindowInv PROVE LeastGoesFirst
<1> USE DEF WindowInv
<1>1. \A g \in Prompt!Gone : Prompt!AboveFloor = {} /\ \A h \in Prompt!Standing : Prompt!Quota[h].rank <= Prompt!Quota[g].rank
  BY DEF TheLadder
<1>2. (\E s \in Source : answered[s] = Prompt!Failed) =>
        "trouble" \in Prompt!Standing \/ Prompt!Omitted > 0 \/ Prompt!Bottom
  <2>1. "trouble" \in Prompt!Groups => "trouble" \in Prompt!Standing \/ "trouble" \in Prompt!Gone
    BY DEF Prompt!Gone
  <2>2. Prompt!Gone # {} => Prompt!Omitted > 0 \/ Prompt!Bottom  BY CostIs DEF TheLadder
  <2> QED BY <2>1, <2>2, CostIs
<1>3. phase \in {"fit", "done"} /\ notices["live"] # "whole" => Prompt!Bottom /\ Prompt!Rendered > Prompt!Limit
  BY DEF TheBands
<1>4. phase = "done" => Prompt!Total <= ceiling
  <2>1. Prompt!Total \in Int /\ ceiling \in Int
    BY DEF Prompt!Total, WindowShape, Costing, Prompt!Section, Prompt!Person
  <2> QED BY <2>1 DEF TheBands, Prompt!Over
<1>5. Prompt!Cardinality({s \in Prompt!Section : notices[s] = "shortened"}) <= 1
  <2> DEFINE Shortened == {s \in Prompt!Section : notices[s] = "shortened"}
  <2>1. \A s, t \in Shortened : s = t  BY DEF TheBands
  <2>2. Shortened = {} \/ \E s : Shortened = {s}  BY <2>1
  <2>3. Cardinality(Shortened) \in {0, 1}
    <3> HIDE DEF Shortened
    <3> QED BY <2>2, FS_EmptySet, FS_Singleton
  <2>4. Prompt!Cardinality(Shortened) = Cardinality(Shortened)  BY DEF Prompt!Cardinality, Cardinality
  <2> QED BY <2>3, <2>4
<1>6. \A s, t \in Prompt!Section :
        notices[s] = "dropped" /\ cost[t] > 0 => Prompt!Priority[t] <= Prompt!Priority[s]
  BY DEF TheBands
<1> QED BY <1>1, <1>2, <1>3, <1>4, <1>5, <1>6 DEF LeastGoesFirst, Prompt!LeastGoesFirst

\* A step of the ladder: the bands are as they were.
SameBands == UNCHANGED <<answered, flags, ceiling, cost, looked, notices>>
\* A step down the ladder that keeps what the invariant says of the groups keeps it all.
LEMMA LadderStep ==
  ASSUME WindowInv, phase \in {"gather", "ladder"}, phase' = "ladder", SameBands,
         head' \in 1..3, fenced' \in BOOLEAN, confess' \in {"full", "short", "none"},
         shown' \in [Prompt!Group -> -1..8], TheLadder'
  PROVE  WindowInv'
<1>1. WindowShape'  BY DEF WindowInv, WindowShape, SameBands
<1>2. Prompt!Over' = Prompt!Over  BY DEF Prompt!Over, Prompt!Total, SameBands
<1>3. TheBands'  BY <1>2 DEF WindowInv, TheBands, SameBands
<1> QED BY <1>1, <1>3 DEF WindowInv

\* What was found out is rendered in its order.
LEMMA WindowGathers == ASSUME PartsAssumption, WindowInv, Prompt!Gathers PROVE WindowInv'
<1> USE DEF Prompt!Gathers, Prompt!answers, Prompt!bands
<1>1. WindowShape /\ TheLadder  BY DEF WindowInv
<1>2. \A g \in Prompt!Group : shown'[g] \in 0..8
  <2> SUFFICES ASSUME NEW g \in Prompt!Group PROVE shown'[g] \in 0..8  OBVIOUS
  <2>1. Prompt!Quota[g].ceiling \in 0..8  BY GroupIs, QuotaIs
  <2>2. Prompt!Entries(g) \in Int  BY <1>1, CostIs
  <2> QED BY <2>1, <2>2 DEF Prompt!Smaller, Prompt!Groups
<1>3. shown' \in [Prompt!Group -> -1..8]  BY <1>2
<1>4. Prompt!Gone' = {}
  BY <1>2 DEF Prompt!Gone, Prompt!Standing, Prompt!Dropped, Prompt!Groups
<1>5. TheLadder'
  <2>1. confess' = "none" => Prompt!Bottom'
    <3>1. confess = "none" => Prompt!Standing = {} /\ head = 1 /\ ~ fenced
      BY <1>1 DEF TheLadder, Prompt!Bottom
    <3>2. Prompt!Standing = Prompt!Groups
      BY <1>1 DEF TheLadder, Prompt!Standing, Prompt!Dropped, Prompt!Groups
    <3>3. Prompt!Groups' = Prompt!Groups
      BY DEF Prompt!Groups, Prompt!Entries, Prompt!Trouble, Prompt!Read, Prompt!Visible
    <3>4. Prompt!Standing = {} => Prompt!Standing' = {}
      BY <3>2, <3>3 DEF Prompt!Standing
    <3> QED BY <1>4, <3>1, <3>4 DEF Prompt!Bottom
  <2> QED BY <1>4, <2>1 DEF TheLadder
<1> QED BY <1>1, <1>3, <1>5, LadderStep DEF SameBands, WindowShape

\* The groups with something in them do not change while the block is cut.
LEMMA GroupsStay == ASSUME UNCHANGED <<answered, flags>> PROVE Prompt!Groups' = Prompt!Groups
BY DEF Prompt!Groups, Prompt!Entries, Prompt!Trouble, Prompt!Read, Prompt!Visible

\* A rung that shortens.
LEMMA WindowBends == ASSUME PartsAssumption, WindowInv, Prompt!Bends PROVE WindowInv'
<1> USE DEF Prompt!TooLong, Prompt!answers, Prompt!bands
<1>1. WindowShape /\ TheLadder  BY DEF WindowInv
<1>2. PICK g \in Prompt!Worst(Prompt!AboveFloor) : shown' = [shown EXCEPT ![g] = Prompt!Quota[g].floor]
  BY DEF Prompt!Bends
<1>3. g \in Prompt!AboveFloor /\ g \in Prompt!Group /\ g \in DOMAIN Prompt!Quota
  BY GroupIs DEF Prompt!Worst, Prompt!AboveFloor, Prompt!Standing, Prompt!Groups
<1>4. Prompt!Quota[g].floor \in 0..8  BY <1>3, QuotaIs
<1>5. shown' \in [Prompt!Group -> -1..8] /\ \A h \in Prompt!Group : shown'[h] = -1 <=> shown[h] = -1
  BY <1>1, <1>2, <1>3, <1>4 DEF WindowShape, Prompt!AboveFloor, Prompt!Standing, Prompt!Dropped
<1>6. UNCHANGED <<answered, flags, ceiling, cost, looked, notices, phase, head, fenced, confess>> /\ phase = "ladder"
  BY DEF Prompt!Bends
<1>7. Prompt!Groups' = Prompt!Groups  BY <1>6, GroupsStay
<1>8. Prompt!Standing' = Prompt!Standing
  BY <1>5, <1>7 DEF Prompt!Standing, Prompt!Dropped, Prompt!Groups
<1>9. Prompt!Gone = {} /\ Prompt!Gone' = {}
  BY <1>1, <1>3, <1>7, <1>8 DEF TheLadder, Prompt!Gone
<1>10. TheLadder'  BY <1>1, <1>6, <1>8, <1>9 DEF TheLadder, Prompt!Bottom
<1> QED BY <1>1, <1>5, <1>6, <1>10, LadderStep DEF SameBands, WindowShape

\* A rung that drops a group.
LEMMA WindowDrops == ASSUME PartsAssumption, WindowInv, Prompt!Drops PROVE WindowInv'
<1> USE DEF Prompt!TooLong, Prompt!answers, Prompt!bands
<1>1. WindowShape /\ TheLadder  BY DEF WindowInv
<1>2. PICK g \in Prompt!Worst(Prompt!Standing) : shown' = [shown EXCEPT ![g] = -1]
  BY DEF Prompt!Drops, Prompt!Dropped
<1>3. g \in Prompt!Standing /\ g \in Prompt!Group
      /\ \A h \in Prompt!Standing : Prompt!Quota[h].rank <= Prompt!Quota[g].rank
  BY DEF Prompt!Worst, Prompt!Standing, Prompt!Groups
<1>4. UNCHANGED <<answered, flags, ceiling, cost, looked, notices, phase, head, fenced, confess>> /\ phase = "ladder"
  BY DEF Prompt!Drops
<1>5. shown' \in [Prompt!Group -> -1..8]  BY <1>1, <1>2, <1>3 DEF WindowShape
<1>6. Prompt!Groups' = Prompt!Groups  BY <1>4, GroupsStay
<1>7. Prompt!Standing' = Prompt!Standing \ {g}
  BY <1>1, <1>2, <1>3, <1>6 DEF WindowShape, Prompt!Standing, Prompt!Dropped, Prompt!Groups
<1>8. Prompt!Gone' = Prompt!Gone \union {g}
  BY <1>3, <1>6, <1>7 DEF Prompt!Gone, Prompt!Standing
<1>9. Prompt!AboveFloor' = {}
  <2>1. Prompt!AboveFloor = {}  BY DEF Prompt!Drops
  <2> QED BY <1>1, <1>2, <1>3, <1>7, <2>1 DEF WindowShape, Prompt!AboveFloor, Prompt!Standing, Prompt!Groups
<1>10. \A f \in Prompt!Gone' : \A h \in Prompt!Standing' : Prompt!Quota[h].rank <= Prompt!Quota[f].rank
  BY <1>1, <1>3, <1>7, <1>8 DEF TheLadder
<1>11. confess' = "none" => Prompt!Bottom'
  BY <1>1, <1>3, <1>4 DEF TheLadder, Prompt!Bottom
<1>12. TheLadder'  BY <1>4, <1>9, <1>10, <1>11 DEF TheLadder
<1> QED BY <1>1, <1>4, <1>5, <1>12, LadderStep DEF SameBands, WindowShape

\* The rungs that give up names, header lines and delimiters.
LEMMA WindowGivesUp ==
  ASSUME PartsAssumption, WindowInv,
         Prompt!SaysLess \/ Prompt!LosesALine \/ Prompt!LosesItsFence
  PROVE  WindowInv'
<1> USE DEF Prompt!TooLong, Prompt!answers, Prompt!bands, Prompt!SaysLess, Prompt!LosesALine, Prompt!LosesItsFence
<1>1. WindowShape /\ TheLadder  BY DEF WindowInv
<1>2. UNCHANGED <<answered, flags, ceiling, cost, looked, notices, phase, shown>> /\ phase = "ladder"
  OBVIOUS
<1>3. head' \in 1..3 /\ fenced' \in BOOLEAN /\ confess' \in {"full", "short", "none"}
  <2>1. head' \in 1..3  BY <1>1 DEF WindowShape
  <2>2. fenced' \in BOOLEAN  BY <1>1 DEF WindowShape
  <2>3. confess' \in {"full", "short", "none"}  BY <1>1 DEF WindowShape
  <2> QED BY <2>1, <2>2, <2>3
<1>4. Prompt!Groups' = Prompt!Groups  BY <1>2, GroupsStay
<1>5. Prompt!Standing' = Prompt!Standing /\ Prompt!Gone' = Prompt!Gone /\ Prompt!AboveFloor' = Prompt!AboveFloor
  BY <1>2, <1>4 DEF Prompt!Standing, Prompt!Gone, Prompt!AboveFloor
<1>6. Prompt!Standing = {}  OBVIOUS
<1>7. confess' = "none" => Prompt!Bottom'
  BY <1>1, <1>5, <1>6 DEF TheLadder, Prompt!Bottom
<1>8. TheLadder'  BY <1>1, <1>2, <1>5, <1>7 DEF TheLadder
<1> QED BY <1>1, <1>2, <1>3, <1>8, LadderStep DEF SameBands, WindowShape

\* The block is handed to the allocator of its band.
LEMMA WindowRenders == ASSUME PartsAssumption, WindowInv, Prompt!Renders PROVE WindowInv'
<1> USE DEF Prompt!Renders, Prompt!answers, Prompt!plan
<1>1. WindowShape /\ TheLadder /\ TheBands  BY DEF WindowInv
<1>2. Prompt!Groups' = Prompt!Groups  BY GroupsStay
<1>3. Prompt!Standing' = Prompt!Standing /\ Prompt!Gone' = Prompt!Gone /\ Prompt!AboveFloor' = Prompt!AboveFloor
      /\ Prompt!Bottom' = Prompt!Bottom
  BY <1>2 DEF Prompt!Standing, Prompt!Gone, Prompt!AboveFloor, Prompt!Bottom
<1>4. Prompt!Rendered' = Prompt!Rendered /\ Prompt!Limit' = Prompt!Limit
  BY <1>3 DEF Prompt!Rendered, Prompt!Limit, Prompt!Omitted, Prompt!Lines
<1>5. cost' \in Costing /\ cost'["live"] = Prompt!Rendered
  BY <1>1, CostIs DEF WindowShape, Costing, Prompt!Section
<1>6. WindowShape'  BY <1>1, <1>5 DEF WindowShape
<1>7. TheLadder'  BY <1>1, <1>3 DEF TheLadder
<1>8. \A s \in Prompt!Section : notices[s] = "whole"  BY <1>1 DEF TheBands
<1>9. TheBands'
  <2>1. "live" \in Prompt!Section  BY DEF Prompt!Section
  <2> QED BY <1>1, <1>3, <1>4, <1>5, <1>8, <2>1 DEF TheBands
<1> QED BY <1>6, <1>7, <1>9 DEF WindowInv

\* A step of the allocator: the block is as it was.
LEMMA BandsStep ==
  ASSUME WindowInv, UNCHANGED <<answered, flags, ceiling, shown, head, fenced, confess>>,
         phase \in {"fit", "done"}, phase' \in {"fit", "done"}
  PROVE  /\ TheLadder'
         /\ Prompt!Rendered' = Prompt!Rendered /\ Prompt!Limit' = Prompt!Limit
         /\ Prompt!Bottom' = Prompt!Bottom
<1>1. Prompt!Groups' = Prompt!Groups  BY GroupsStay
<1>2. Prompt!Standing' = Prompt!Standing /\ Prompt!Gone' = Prompt!Gone /\ Prompt!AboveFloor' = Prompt!AboveFloor
      /\ Prompt!Bottom' = Prompt!Bottom
  BY <1>1 DEF Prompt!Standing, Prompt!Gone, Prompt!AboveFloor, Prompt!Bottom
<1>3. Prompt!Rendered' = Prompt!Rendered /\ Prompt!Limit' = Prompt!Limit
  BY <1>2 DEF Prompt!Rendered, Prompt!Limit, Prompt!Omitted, Prompt!Lines
<1>4. TheLadder'  BY <1>2 DEF WindowInv, TheLadder
<1> QED BY <1>2, <1>3, <1>4

\* The allocator's next section has no other with a cost after it: what it has come to
\* before went whole.
LEMMA WhatIsLast ==
  ASSUME PartsAssumption, WindowInv, phase = "fit", Prompt!Over > 0, NEW s \in Prompt!Last
  PROVE  /\ s \in Prompt!Section /\ s \notin looked /\ cost[s] > 0 /\ notices[s] = "whole"
         /\ Prompt!Over \in Int
         /\ \A t \in Prompt!Section : notices[t] # "shortened"
         /\ \A t \in Prompt!Section : cost[t] > 0 => Prompt!Priority[t] <= Prompt!Priority[s]
         /\ s = "live" => Prompt!Bottom /\ Prompt!Rendered > Prompt!Limit
<1> USE DEF WindowInv
<1>1. s \in Prompt!Section /\ s \notin looked /\ cost[s] > 0
      /\ \A t \in Prompt!Section : t \notin looked /\ cost[t] > 0 => Prompt!Priority[s] >= Prompt!Priority[t]
  BY DEF Prompt!Last, Prompt!Last_Any
<1>2. notices[s] = "whole"  BY <1>1 DEF TheBands
<1>3. Prompt!Over \in Int
  BY DEF Prompt!Over, Prompt!Total, WindowShape, Costing, Prompt!Section, Prompt!Person
<1>4. \A t \in Prompt!Section : notices[t] # "shortened"
  BY <1>3 DEF TheBands
<1>5. \A t \in Prompt!Section : t \in looked => cost[t] = 0
  BY <1>4 DEF TheBands, WindowShape
<1>6. \A t \in Prompt!Section : Prompt!Priority[t] \in Nat
  BY DEF Prompt!Section, Prompt!Person, Prompt!Priority
<1>7. \A t \in Prompt!Section : cost[t] > 0 => Prompt!Priority[t] <= Prompt!Priority[s]
  BY <1>1, <1>5, <1>6 DEF WindowShape, Costing
<1>8. s = "live" => Prompt!Bottom /\ Prompt!Rendered > Prompt!Limit
  <2> SUFFICES ASSUME s = "live" PROVE Prompt!Bottom /\ Prompt!Rendered > Prompt!Limit  OBVIOUS
  <2>1. cost["live"] = Prompt!Rendered /\ (Prompt!Rendered <= Prompt!Limit \/ Prompt!Bottom)
    BY <1>2 DEF TheBands
  <2>2. cost["person"] = 0 /\ cost["notes"] = 0
    BY <1>7 DEF WindowShape, Costing, Prompt!Section, Prompt!Person, Prompt!Priority
  <2>3. Prompt!Over = cost["live"] - ceiling
    BY <2>2 DEF Prompt!Over, Prompt!Total, WindowShape, Costing, Prompt!Section
  <2> QED BY <2>1, <2>3, CostIs DEF WindowShape
<1> QED BY <1>1, <1>2, <1>3, <1>4, <1>7, <1>8

\* The allocator shortens one section.
LEMMA WindowShortens ==
  ASSUME PartsAssumption, WindowInv, NEW s \in Prompt!Section, Prompt!Shortens(s)
  PROVE  WindowInv'
<1> USE DEF Prompt!Shortens, Prompt!answers, Prompt!plan
<1>1. WindowShape /\ TheLadder /\ TheBands  BY DEF WindowInv
<1>2. /\ s \notin looked /\ cost[s] > 0 /\ notices[s] = "whole" /\ Prompt!Over \in Int
      /\ \A t \in Prompt!Section : notices[t] # "shortened"
      /\ s = "live" => Prompt!Bottom /\ Prompt!Rendered > Prompt!Limit
  BY WhatIsLast
<1>3. /\ UNCHANGED <<answered, flags, ceiling, shown, head, fenced, confess, phase>> /\ phase = "fit"
      /\ cost' = [cost EXCEPT ![s] = cost[s] - Prompt!Over] /\ cost[s] - Prompt!Over > 0
      /\ notices' = [notices EXCEPT ![s] = "shortened"] /\ looked' = looked \union {s}
  <2>1. cost[s] \in Nat  BY <1>1 DEF WindowShape, Costing
  <2>2. Prompt!Excerpt(s) + 1 = cost[s] - Prompt!Over /\ cost[s] - Prompt!Over > 0
    BY <1>2, <2>1 DEF Prompt!Excerpt
  <2>3. cost' = [cost EXCEPT ![s] = Prompt!Excerpt(s) + 1]  OBVIOUS
  <2>4. cost' = [cost EXCEPT ![s] = cost[s] - Prompt!Over]  BY <2>2, <2>3
  <2> QED BY <2>2, <2>4
<1>4. TheLadder' /\ Prompt!Rendered' = Prompt!Rendered /\ Prompt!Limit' = Prompt!Limit
      /\ Prompt!Bottom' = Prompt!Bottom
  BY <1>3, BandsStep
<1>5. cost' \in Costing
  BY <1>1, <1>2, <1>3 DEF WindowShape, Costing
<1>6. WindowShape'  BY <1>1, <1>3, <1>5 DEF WindowShape
<1>7. Prompt!Over' = 0
  BY <1>1, <1>2, <1>3 DEF Prompt!Over, Prompt!Total, WindowShape, Costing, Prompt!Section, Prompt!Person
<1>8. TheBands'
  <2>1. \A t \in Prompt!Section : t \notin looked' <=> notices'[t] = "whole"
    BY <1>1, <1>3 DEF TheBands, WindowShape
  <2>2. \A t \in Prompt!Section : notices'[t] = "dropped" => notices[t] = "dropped" /\ t # s /\ cost'[t] = cost[t]
    BY <1>1, <1>3 DEF WindowShape, Costing
  <2>3. \A t \in Prompt!Section : notices'[t] = "shortened" => t = s
    BY <1>1, <1>2, <1>3 DEF WindowShape
  <2>4. \A t \in Prompt!Section : cost'[t] > 0 => cost[t] > 0
    BY <1>1, <1>2, <1>3 DEF WindowShape, Costing
  <2>5. \A u, t \in Prompt!Section :
          notices'[u] = "dropped" /\ cost'[t] > 0 => Prompt!Priority[t] <= Prompt!Priority[u]
    BY <1>1, <2>2, <2>4 DEF TheBands
  <2>6. /\ notices'["live"] = "whole" => cost'["live"] = Prompt!Rendered
        /\ Prompt!Rendered <= Prompt!Limit \/ Prompt!Bottom
        /\ notices'["live"] # "whole" => Prompt!Bottom /\ Prompt!Rendered > Prompt!Limit
    BY <1>1, <1>2, <1>3 DEF TheBands, WindowShape, Costing, Prompt!Section
  <2> QED BY <1>1, <1>3, <1>4, <1>7, <2>1, <2>2, <2>3, <2>5, <2>6 DEF TheBands
<1> QED BY <1>4, <1>6, <1>8 DEF WindowInv

\* The allocator drops one section.
LEMMA WindowDropsASection ==
  ASSUME PartsAssumption, WindowInv, NEW s \in Prompt!Section, Prompt!GivesUp(s)
  PROVE  WindowInv'
<1> USE DEF Prompt!GivesUp, Prompt!answers, Prompt!plan
<1>1. WindowShape /\ TheLadder /\ TheBands  BY DEF WindowInv
<1>2. /\ s \notin looked /\ cost[s] > 0 /\ notices[s] = "whole" /\ Prompt!Over \in Int
      /\ \A t \in Prompt!Section : notices[t] # "shortened"
      /\ \A t \in Prompt!Section : cost[t] > 0 => Prompt!Priority[t] <= Prompt!Priority[s]
      /\ s = "live" => Prompt!Bottom /\ Prompt!Rendered > Prompt!Limit
  BY WhatIsLast
<1>3. /\ UNCHANGED <<answered, flags, ceiling, shown, head, fenced, confess, phase>> /\ phase = "fit"
      /\ cost' = [cost EXCEPT ![s] = 0]
      /\ notices' = [notices EXCEPT ![s] = "dropped"] /\ looked' = looked \union {s}
  OBVIOUS
<1>4. TheLadder' /\ Prompt!Rendered' = Prompt!Rendered /\ Prompt!Limit' = Prompt!Limit
      /\ Prompt!Bottom' = Prompt!Bottom
  BY <1>3, BandsStep
<1>5. cost' \in Costing
  BY <1>1, <1>3 DEF WindowShape, Costing
<1>6. WindowShape'  BY <1>1, <1>3, <1>5 DEF WindowShape
<1>8. TheBands'
  <2>1. \A t \in Prompt!Section : t \notin looked' <=> notices'[t] = "whole"
    BY <1>1, <1>3 DEF TheBands, WindowShape
  <2>2. \A t \in Prompt!Section : notices'[t] = "dropped" => cost'[t] = 0
    BY <1>1, <1>3 DEF TheBands, WindowShape, Costing
  <2>3. \A t \in Prompt!Section : notices'[t] # "shortened"
    BY <1>1, <1>2, <1>3 DEF WindowShape
  <2>4. \A t \in Prompt!Section : cost'[t] > 0 => cost[t] > 0
    BY <1>1, <1>2, <1>3 DEF WindowShape, Costing
  <2>5. \A u, t \in Prompt!Section :
          notices'[u] = "dropped" /\ cost'[t] > 0 => Prompt!Priority[t] <= Prompt!Priority[u]
    BY <1>1, <1>2, <1>3, <2>4 DEF TheBands, WindowShape
  <2>6. /\ notices'["live"] = "whole" => cost'["live"] = Prompt!Rendered
        /\ Prompt!Rendered <= Prompt!Limit \/ Prompt!Bottom
        /\ notices'["live"] # "whole" => Prompt!Bottom /\ Prompt!Rendered > Prompt!Limit
    BY <1>1, <1>2, <1>3 DEF TheBands, WindowShape, Costing, Prompt!Section
  <2> QED BY <1>1, <1>3, <1>4, <2>1, <2>2, <2>3, <2>5, <2>6 DEF TheBands
<1> QED BY <1>4, <1>6, <1>8 DEF WindowInv

\* What is left fits and is shown.
LEMMA WindowFits == ASSUME PartsAssumption, WindowInv, Prompt!Fits PROVE WindowInv'
<1> USE DEF Prompt!Fits, Prompt!answers, Prompt!plan, Prompt!bands
<1>1. WindowShape /\ TheLadder /\ TheBands  BY DEF WindowInv
<1>2. TheLadder' /\ Prompt!Rendered' = Prompt!Rendered /\ Prompt!Limit' = Prompt!Limit
      /\ Prompt!Bottom' = Prompt!Bottom
  BY BandsStep
<1>3. WindowShape'  BY <1>1 DEF WindowShape
<1>4. Prompt!Over \in Int /\ Prompt!Over' = Prompt!Over
  BY <1>1 DEF Prompt!Over, Prompt!Total, WindowShape, Costing, Prompt!Section, Prompt!Person
<1>5. Prompt!Over <= 0
  <2> SUFFICES ASSUME Prompt!Over > 0 PROVE FALSE  BY <1>4
  <2>1. \A s \in Prompt!Section : notices[s] # "shortened"  BY <1>1, <1>4 DEF TheBands
  <2>2. Prompt!Last = {}  BY <1>4
  <2>3. \A s \in Prompt!Section : Prompt!Priority[s] \in Nat /\ cost[s] \in Nat
    BY <1>1 DEF Prompt!Section, Prompt!Person, Prompt!Priority, WindowShape, Costing
  <2>4. Prompt!Last_Any = {}
    BY <2>2, <2>3 DEF Prompt!Last, Prompt!Last_Any, Prompt!Section, Prompt!Person
  <2>5. \A s \in Prompt!Section : cost[s] = 0
    BY <1>1, <2>1, <2>3, <2>4 DEF Prompt!Last_Any, TheBands, WindowShape
  <2> QED BY <1>1, <2>5 DEF Prompt!Over, Prompt!Total, WindowShape, Prompt!Section, Prompt!Person
<1>6. TheBands'  BY <1>1, <1>2, <1>4, <1>5 DEF TheBands
<1> QED BY <1>2, <1>3, <1>6 DEF WindowInv

\* Every step of the window.
LEMMA WindowStep == ASSUME PartsAssumption, WindowInv, Prompt!Next PROVE WindowInv'
BY WindowGathers, WindowBends, WindowDrops, WindowGivesUp, WindowRenders, WindowShortens,
   WindowDropsASection, WindowFits DEF Prompt!Next

\* Before anything was found out.
LEMMA WindowStarted == ASSUME PartsAssumption, Prompt!Init PROVE WindowInv
<1> USE DEF Prompt!Init
<1>1. answered \in [Source -> Int] /\ ceiling \in Nat
  BY GroupIs DEF Prompt!Answer, Prompt!Failed
<1>2. cost \in Costing
  BY GroupIs DEF Costing, Prompt!Section
<1>3. shown \in [Prompt!Group -> -1..8]  OBVIOUS
<1>4. WindowShape
  BY <1>1, <1>2, <1>3 DEF WindowShape, Prompt!Header
<1>5. Prompt!Gone = {}  BY DEF Prompt!Gone, Prompt!Standing, Prompt!Dropped, Prompt!Groups
<1>6. TheLadder  BY <1>5 DEF TheLadder
<1>7. TheBands  BY DEF TheBands
<1> QED BY <1>4, <1>6, <1>7 DEF WindowInv

\* A step of another part.
LEMMA WindowRests == ASSUME WindowInv, UNCHANGED prompt PROVE WindowInv'
<1> USE DEF prompt
<1>1. Prompt!Groups' = Prompt!Groups  BY GroupsStay
<1>2. Prompt!Standing' = Prompt!Standing /\ Prompt!Gone' = Prompt!Gone /\ Prompt!AboveFloor' = Prompt!AboveFloor
      /\ Prompt!Bottom' = Prompt!Bottom
  BY <1>1 DEF Prompt!Standing, Prompt!Gone, Prompt!AboveFloor, Prompt!Bottom
<1>3. Prompt!Rendered' = Prompt!Rendered /\ Prompt!Limit' = Prompt!Limit /\ Prompt!Over' = Prompt!Over
  BY <1>2 DEF Prompt!Rendered, Prompt!Limit, Prompt!Omitted, Prompt!Lines, Prompt!Over, Prompt!Total
<1> QED BY <1>2, <1>3 DEF WindowInv, WindowShape, TheLadder, TheBands

-----------------------------------------------------------------------------
(* Approvals. A run of a call is paid for by a card that was marked and is   *)
(* not being replayed; what may still run on a card is on no other one, and *)
(* reads from nothing that is still to be answered but what it is gated on. *)

Entries == [plan : SUBSET Gate!Step, needs : SUBSET Gate!Step, gated : SUBSET Gate!Step]
CardType == [status : {"pending", "granted", "denied"}, executed : BOOLEAN,
             calls : UNION {[S -> Entries] : S \in SUBSET Gate!Step}]
Calls(c) == DOMAIN cards[c].calls

\* The shape of every variable, and where the run of a turn can be beside its row.
GateShape ==
  /\ status \in {"running", "input_required", "queued", "over"}
  /\ task \in {"none", "round", "asked", "parking", "claimed", "opening"}
  /\ mode \in Gate!Mode /\ modeSeen \in Gate!Mode
  /\ standing \in [Permission -> Gate!Decision] /\ allowed \in [Permission -> Gate!Decision]
  /\ once \in [Gate!Step -> Gate!Decision]
  /\ cards \in Seq(CardType)
  /\ plan \subseteq Gate!Step /\ asking \subseteq parked /\ parked \subseteq plan
  /\ asking \subseteq Gate!Gated /\ (task # "parking" => asking = {})
  /\ ran \in [Gate!Step -> Nat]
  /\ edits \in Nat

GateGoes ==
  /\ task \in {"round", "asked", "claimed", "opening"} => status = "running"
  /\ status = "running" => task # "none"
  /\ status = "queued" => task = "none"
  /\ status = "queued" \/ task \in {"round", "asked", "claimed", "opening"} =>
       \A c \in Gate!CardOf : cards[c].status # "pending"
  /\ opening # {} => task = "opening" \/ (task = "none" /\ status = "over")
  /\ \A c \in Gate!CardOf : cards[c].executed => cards[c].status = "granted"
  /\ \A c \in Gate!CardOf : Calls(c) \subseteq Gate!Gated /\ Calls(c) # {}
  /\ \A a \in opening : /\ a \in Gate!CardOf \X Gate!Step /\ a[2] \in Calls(a[1])
                        /\ cards[a[1]].executed
  /\ task \in {"round", "asked", "opening"} =>
       \A c \in Gate!CardOf : cards[c].executed \/ cards[c].status = "denied"

\* Cards whose yes to a call was used: marked, and not being replayed.
Used(s) == {c \in Gate!CardOf : s \in Calls(c) /\ cards[c].executed /\ \A a \in opening : a[1] # c}

Spends ==
  /\ \A s \in EachCall : ran[s] <= Cardinality(Used(s))
  /\ task \in {"round", "asked"} => \A s \in Gate!Step : once[s] # "allow"
  /\ task = "opening" => \A s \in Gate!Step : once[s] = "allow" => \E a \in opening : a[2] = s
  /\ task = "claimed" => \A s \in Gate!Step : once[s] = "allow" => \E a \in Gate!Approved : a[2] = s

ReadsItsOwn ==
  /\ task = "parking" => Gate!Closed(plan)
  /\ \A c \in Gate!CardOf : \A s \in Calls(c) : Gate!Closed(cards[c].calls[s].needs)

\* As long as no call had to be held or no setting was changed.
Calm == told = {} \/ edits = 0

\* A card that may still run a call: not spent, or being replayed.
Alive(c) == ~ cards[c].executed \/ \E a \in opening : a[1] = c
Active(c) == ~ cards[c].executed /\ cards[c].status # "denied"
\* Calls with no answer yet, or a no.
Unsure == asking \union UNION {Calls(c) : c \in {d \in Gate!CardOf : cards[d].status # "granted"}}

OneCardEach ==
  /\ \A c, d \in Gate!CardOf : c # d /\ Alive(c) /\ Alive(d) => Calls(c) \intersect Calls(d) = {}
  /\ \A c \in Gate!CardOf : Alive(c) => Calls(c) \intersect asking = {}

GatedOnTheRest ==
  /\ \A c \in Gate!CardOf : Active(c) =>
       \A s \in Calls(c) :
         LET entry == cards[c].calls[s] IN (entry.needs \ entry.gated) \intersect Unsure \subseteq {s}
  /\ task = "parking" => plan \intersect Unsure \subseteq parked

AnswersAreHeard ==
  /\ task \in {"round", "asked", "claimed", "opening"} => \A s \in Gate!Refused : once[s] = "deny"
  /\ task = "claimed" => \A a \in Gate!Approved : once[a[2]] = "allow"
  /\ task = "opening" =>
       /\ \A a \in opening : once[a[2]] = "allow"
       /\ Gate!OpeningPlan \intersect Gate!Refused = {}
  /\ task = "opening" /\ told = {} =>
       \A a \in opening : \A s \in Calls(a[1]) : <<a[1], s>> \in opening

\* A call that nothing but a setting can make the gate ask for.
Settled(s) ==
  \/ s \notin Gate!Gated
  \/ s \notin EachCall /\ (standing[Gate!Of(s)] # "none" \/ (Gate!Of(s) \notin Always /\ mode = "auto"))

\* All that may still run was parked with one plan.
FromOnePlan(whole, held) ==
  /\ \A s \in whole \ held : Settled(s)
  /\ \A c \in Gate!CardOf : Active(c) =>
       \A s \in Calls(c) : s \in whole /\ s \in held /\ cards[c].calls[s] = Gate!Entry(s, whole, held)
  /\ task = "parking" => plan = whole /\ parked = held

NothingWasSet ==
  /\ task \in {"round", "asked", "claimed", "opening", "parking"} => modeSeen = mode /\ allowed = standing
  /\ \E whole, held \in SUBSET Gate!Step : FromOnePlan(whole, held)
  /\ task = "opening" => \A s \in Gate!OpeningPlan : Settled(s) \/ once[s] = "allow"

GateInv ==
  /\ GateShape /\ GateGoes /\ Spends /\ ReadsItsOwn
  /\ Calm => OneCardEach /\ GatedOnTheRest /\ AnswersAreHeard
  /\ edits = 0 => NothingWasSet

\* What the permissions and the plans are.
LEMMA GateConstants ==
  ASSUME PartsAssumption
  PROVE  /\ NumSteps \in Nat /\ Gate!Step \subseteq Nat
         /\ \A p \in Permission : Covers[p] \subseteq Gate!Step
         /\ Gate!Gated \subseteq Gate!Step /\ EachCall \subseteq Gate!Gated
         /\ \A s \in Gate!Gated : Gate!Of(s) \in Permission /\ s \in Covers[Gate!Of(s)]
         /\ \A s, p : p \in Permission /\ s \in Covers[p] => Gate!Of(s) = p
         /\ \A s \in Gate!Step : ReadsOf[s] \subseteq Gate!Step /\ \A r \in ReadsOf[s] : r < s
<1> USE DEF Gate!Step
<1>1. /\ NumSteps \in Nat /\ Covers \in [Permission -> SUBSET Gate!Step]
      /\ \A p, q \in Permission : p # q => Covers[p] \intersect Covers[q] = {}
      /\ EachCall \subseteq UNION {Covers[p] : p \in Permission}
      /\ ReadsOf \in [Gate!Step -> SUBSET Gate!Step]
      /\ \A s \in Gate!Step : \A r \in ReadsOf[s] : r < s
  BY PartsAssumption DEF Gate!ApprovalsAssumption
<1>2. \A p \in Permission : Covers[p] \subseteq Gate!Step  BY <1>1
<1>3. Gate!Gated \subseteq Gate!Step /\ EachCall \subseteq Gate!Gated  BY <1>1, <1>2 DEF Gate!Gated
<1>4. \A s \in Gate!Gated : Gate!Of(s) \in Permission /\ s \in Covers[Gate!Of(s)]
  BY DEF Gate!Of, Gate!Gated
<1>5. \A s, p : p \in Permission /\ s \in Covers[p] => Gate!Of(s) = p
  BY <1>1, <1>4 DEF Gate!Gated
<1> QED BY <1>1, <1>2, <1>3, <1>4, <1>5

\* Plans that read only from their own steps are closed under union, and what a call reads at
\* any remove is one, of calls that do not come after it.
LEMMA ClosedIs ==
  ASSUME PartsAssumption
  PROVE  /\ \A sets : (\A calls_ \in sets : Gate!Closed(calls_)) => Gate!Closed(UNION sets)
         /\ \A r \in Gate!Step : /\ Gate!Closed(Gate!ReadBy(r)) /\ r \in Gate!ReadBy(r)
                                 /\ \A x \in Gate!ReadBy(r) : x <= r /\ Gate!ReadBy(x) \subseteq Gate!ReadBy(r)
<1>1. \A sets : (\A calls_ \in sets : Gate!Closed(calls_)) => Gate!Closed(UNION sets)
  BY DEF Gate!Closed
<1>2. ASSUME NEW r \in Gate!Step
      PROVE  /\ Gate!Closed(Gate!ReadBy(r)) /\ r \in Gate!ReadBy(r)
             /\ \A x \in Gate!ReadBy(r) : x <= r /\ Gate!ReadBy(x) \subseteq Gate!ReadBy(r)
  <2>1. Gate!Closed(Gate!ReadBy(r))
    <3> SUFFICES ASSUME NEW x \in Gate!ReadBy(r), NEW y \in ReadsOf[x] PROVE y \in Gate!ReadBy(r)
      BY DEF Gate!Closed
    <3>1. x \in Gate!Step /\ y \in Gate!Step  BY GateConstants DEF Gate!ReadBy
    <3>2. \A S \in SUBSET Gate!Step : r \in S /\ Gate!Closed(S) => x \in S  BY DEF Gate!ReadBy
    <3>3. \A S \in SUBSET Gate!Step : r \in S /\ Gate!Closed(S) => y \in S  BY <3>2 DEF Gate!Closed
    <3> QED BY <3>1, <3>3 DEF Gate!ReadBy
  <2>2. r \in Gate!ReadBy(r)  BY DEF Gate!ReadBy
  <2>3. ASSUME NEW x \in Gate!ReadBy(r)
        PROVE  x <= r /\ Gate!ReadBy(x) \subseteq Gate!ReadBy(r)
    <3>1. \A S \in SUBSET Gate!Step : r \in S /\ Gate!Closed(S) => x \in S  BY DEF Gate!ReadBy
    <3>2. PICK below : below = {y \in Gate!Step : y <= r}  OBVIOUS
    <3>3. Gate!Closed(below)  BY <3>2, GateConstants DEF Gate!Closed
    <3>4. r \in below  BY <3>2, GateConstants
    <3>5. x <= r  BY <3>1, <3>2, <3>3, <3>4
    <3>6. Gate!ReadBy(x) \subseteq Gate!ReadBy(r)  BY <3>1 DEF Gate!ReadBy
    <3> QED BY <3>5, <3>6
  <2> QED BY <2>1, <2>2, <2>3
<1> QED BY <1>1, <1>2

\* What a call needs of a plan: with the plan it reads only from its own steps, and what it
\* needs does not need it in turn.
LEMMA NeedsIs ==
  ASSUME PartsAssumption, NEW whole \in SUBSET Gate!Step, NEW held, NEW s \in Gate!Step
  PROVE  /\ Gate!Needs(s, whole, held) \subseteq whole
         /\ Gate!Closed(whole) => Gate!Closed(Gate!Needs(s, whole, held))
         /\ \A x \in Gate!Needs(s, whole, held) :
              /\ Gate!Needs(x, whole, held) \subseteq Gate!Needs(s, whole, held)
              /\ x # s => s \notin Gate!Needs(x, whole, held)
<1> DEFINE From(x) == {x} \union {t \in whole : t < x /\ t \notin held}
<1>1. \A x \in Gate!Step : From(x) \subseteq Gate!Step  OBVIOUS
<1>2. \A x : Gate!Needs(x, whole, held) = whole \intersect UNION {Gate!ReadBy(r) : r \in From(x)}
  BY DEF Gate!Needs
<1>3. Gate!Needs(s, whole, held) \subseteq whole  BY <1>2
<1>5. ASSUME Gate!Closed(whole) PROVE Gate!Closed(Gate!Needs(s, whole, held))
  <2>1. Gate!Closed(UNION {Gate!ReadBy(r) : r \in From(s)})
    <3>1. \A S \in {Gate!ReadBy(r) : r \in From(s)} : Gate!Closed(S)  BY <1>1, ClosedIs
    <3> QED BY <3>1, ClosedIs
  <2> HIDE DEF From
  <2> QED BY <1>2, <1>5, <2>1 DEF Gate!Closed
<1>6. ASSUME NEW x \in Gate!Needs(s, whole, held)
      PROVE  /\ Gate!Needs(x, whole, held) \subseteq Gate!Needs(s, whole, held)
             /\ x # s => s \notin Gate!Needs(x, whole, held)
  <2>1. PICK r \in From(s) : x \in Gate!ReadBy(r)  BY <1>2
  <2>2. x \in whole /\ s \in Nat /\ r \in Nat /\ x \in Nat /\ r \in Gate!Step  BY <1>1, <1>2, GateConstants
  <2>3. x <= r /\ r <= s /\ Gate!ReadBy(x) \subseteq Gate!ReadBy(r)  BY <2>1, <2>2, ClosedIs
  <2>4. \A q \in From(x) : q = x \/ q \in From(s)  BY <2>2, <2>3, GateConstants
  <2>5. \A y \in Gate!Needs(x, whole, held) : y \in Gate!Needs(s, whole, held)
    BY <1>2, <2>1, <2>3, <2>4
  <2>6. \A y \in Gate!Needs(x, whole, held) : y <= x
    <3> SUFFICES ASSUME NEW y \in Gate!Needs(x, whole, held) PROVE y <= x  OBVIOUS
    <3>1. PICK q \in From(x) : y \in Gate!ReadBy(q)  BY <1>2
    <3>2. q \in Gate!Step /\ q \in Nat /\ q <= x /\ y \in Nat  BY <1>1, <1>2, <2>2, GateConstants
    <3>3. y <= q  BY <3>1, <3>2, ClosedIs
    <3> QED BY <2>2, <3>2, <3>3
  <2>7. x # s => s \notin Gate!Needs(x, whole, held)  BY <2>2, <2>3, <2>6
  <2> QED BY <2>5, <2>7
<1> QED BY <1>3, <1>5, <1>6

\* What a card stores of a call has the shape of an entry.
LEMMA EntryIs ==
  ASSUME NEW whole \in SUBSET Gate!Step, NEW held, NEW s
  PROVE  /\ Gate!Entry(s, whole, held) \in Entries
         /\ Gate!Entry(s, whole, held).plan = whole
         /\ Gate!Entry(s, whole, held).needs = Gate!Needs(s, whole, held)
         /\ Gate!Entry(s, whole, held).gated = (Gate!Needs(s, whole, held) \ {s}) \intersect held
<1>1. Gate!Needs(s, whole, held) \in SUBSET Gate!Step  BY DEF Gate!Needs
<1> QED BY <1>1 DEF Gate!Entry, Entries

\* The parts of the invariant read only a few variables.
LEMMA SameCards ==
  ASSUME UNCHANGED <<cards, opening>>
  PROVE  /\ Gate!CardOf' = Gate!CardOf /\ Gate!Approved' = Gate!Approved /\ Gate!Refused' = Gate!Refused
         /\ Gate!OpeningPlan' = Gate!OpeningPlan
         /\ \A c : Calls(c)' = Calls(c) /\ Alive(c)' = Alive(c) /\ Active(c)' = Active(c)
         /\ \A s : Used(s)' = Used(s)
         /\ UNCHANGED asking => Unsure' = Unsure
BY DEF Gate!CardOf, Gate!Approved, Gate!Refused, Gate!OpeningPlan, Calls, Alive, Active, Used, Unsure

\* Nor do what was settled and the plan that is parked change with anything else.
LEMMA SamePlan ==
  ASSUME UNCHANGED <<cards, opening, standing, mode>>,
         task' = "parking" => task = "parking" /\ UNCHANGED <<plan, parked>>
  PROVE  /\ \A whole, held : FromOnePlan(whole, held) => FromOnePlan(whole, held)'
         /\ \A s : Settled(s)' = Settled(s)
<1>1. \A s : Settled(s)' = Settled(s)  BY DEF Settled
<1>2. \A whole, held : FromOnePlan(whole, held) => FromOnePlan(whole, held)'
  BY <1>1, SameCards DEF FromOnePlan
<1> QED BY <1>1, <1>2

\* Sets of cards are finite.
LEMMA CardsAreFinite ==
  ASSUME GateShape
  PROVE  /\ Len(cards) \in Nat /\ Gate!CardOf = 1..Len(cards) /\ IsFiniteSet(Gate!CardOf)
         /\ DOMAIN cards = Gate!CardOf
         /\ \A c \in Gate!CardOf : cards[c] \in CardType /\ Calls(c) \in SUBSET Gate!Step
         /\ \A c \in Gate!CardOf : \A s \in Calls(c) : cards[c].calls[s] \in Entries
         /\ \A S \in SUBSET Gate!CardOf : IsFiniteSet(S) /\ Cardinality(S) \in Nat
<1>1. Len(cards) \in Nat /\ Gate!CardOf = 1..Len(cards) /\ DOMAIN cards = Gate!CardOf
  BY DEF GateShape, Gate!CardOf
<1>2. \A a, b \in Int : IsFiniteSet(a..b)  BY FS_Interval
<1>3. IsFiniteSet(Gate!CardOf)  BY <1>1, <1>2
<1>4. \A c \in Gate!CardOf : cards[c] \in CardType  BY <1>1 DEF GateShape
<1>5. \A c \in Gate!CardOf : cards[c].calls \in UNION {[S -> Entries] : S \in SUBSET Gate!Step}
  BY <1>4 DEF CardType
<1>6. \A c \in Gate!CardOf :
        Calls(c) \in SUBSET Gate!Step /\ \A s \in Calls(c) : cards[c].calls[s] \in Entries
  BY <1>5 DEF Calls
<1>7. \A S \in SUBSET Gate!CardOf : IsFiniteSet(S) /\ Cardinality(S) \in Nat
  BY <1>3, FS_Subset, FS_CardinalityType
<1> QED BY <1>1, <1>3, <1>4, <1>6, <1>7

\* The property follows: a card that was used is one that was granted.
LEMMA GateKeepsItsWord == ASSUME PartsAssumption, GateInv PROVE RunsWhatWasApproved
<1>1. Gate!EachRunHasItsYes
  <2> SUFFICES ASSUME NEW s \in EachCall PROVE ran[s] <= Gate!Yeses(s)  BY DEF Gate!EachRunHasItsYes
  <2>1. PICK yeses : yeses = {c \in Gate!CardOf : s \in DOMAIN cards[c].calls /\ cards[c].status = "granted"}
    OBVIOUS
  <2>2. yeses \in SUBSET Gate!CardOf /\ Used(s) \in SUBSET yeses
    BY <2>1 DEF GateInv, GateGoes, Used, Calls
  <2>3. Cardinality(Used(s)) <= Cardinality(yeses)
    BY <2>2, CardsAreFinite, FS_Subset DEF GateInv
  <2>4. Gate!Yeses(s) = Cardinality(yeses)
    BY <2>1 DEF Gate!Yeses, Gate!Cardinality, Cardinality
  <2>5. Cardinality(Used(s)) \in Nat /\ Cardinality(yeses) \in Nat /\ ran[s] \in Nat
    BY <2>2, CardsAreFinite, GateConstants DEF GateInv, GateShape
  <2>6. ran[s] <= Cardinality(Used(s))  BY DEF GateInv, Spends
  <2> QED BY <2>3, <2>4, <2>5, <2>6
<1>2. Gate!ReplayIsClosed
  <2>1. \A a \in opening : Gate!Closed(cards[a[1]].calls[a[2]].needs)
    BY DEF GateInv, GateGoes, ReadsItsOwn
  <2>2. Gate!Closed(Gate!OpeningPlan)
    <3>1. \A S \in {cards[a[1]].calls[a[2]].needs : a \in opening} : Gate!Closed(S)  BY <2>1
    <3> QED BY <3>1, ClosedIs DEF Gate!OpeningPlan
  <2> QED BY <2>2 DEF Gate!ReplayIsClosed, GateInv, AnswersAreHeard, Calm
<1> QED BY <1>1, <1>2 DEF RunsWhatWasApproved

\* A round begins: the mode is read again.
LEMMA GateAssembles == ASSUME PartsAssumption, GateInv, Gate!Assembles PROVE GateInv'
<1> USE DEF Gate!Assembles, Gate!rows, Gate!parking
<1>1. GateShape'  BY DEF GateInv, GateShape
<1>2. GateGoes'  BY SameCards DEF GateInv, GateGoes
<1>3. Spends'  BY SameCards DEF GateInv, Spends
<1>4. ReadsItsOwn'  BY SameCards DEF GateInv, ReadsItsOwn
<1>5. Calm' => OneCardEach' /\ GatedOnTheRest' /\ AnswersAreHeard'
  BY SameCards DEF GateInv, Calm, OneCardEach, GatedOnTheRest, AnswersAreHeard
<1>6. edits' = 0 => NothingWasSet'
  BY SamePlan, SameCards DEF GateInv, NothingWasSet
<1> QED BY <1>1, <1>2, <1>3, <1>4, <1>5, <1>6 DEF GateInv

\* The person changes a setting: from then on nothing is said of what was settled.
LEMMA GateEdits == ASSUME PartsAssumption, GateInv, Gate!Edits PROVE GateInv'
<1> USE DEF Gate!Edits, Gate!context, Gate!parking
<1>1. GateShape'
  <2>1. mode' \in Gate!Mode /\ edits' \in Nat  BY DEF GateInv, GateShape
  <2>2. standing' \in [Permission -> Gate!Decision]  BY DEF GateInv, GateShape
  <2> QED BY <2>1, <2>2 DEF GateInv, GateShape
<1>2. GateGoes'  BY SameCards DEF GateInv, GateGoes
<1>3. Spends'  BY SameCards DEF GateInv, Spends
<1>4. ReadsItsOwn'  BY SameCards DEF GateInv, ReadsItsOwn
<1>5. edits' # 0 /\ (Calm' => Calm)  BY DEF GateInv, GateShape, Calm
<1>6. Calm' => OneCardEach' /\ GatedOnTheRest' /\ AnswersAreHeard'
  BY <1>5, SameCards DEF GateInv, OneCardEach, GatedOnTheRest, AnswersAreHeard
<1> QED BY <1>1, <1>2, <1>3, <1>4, <1>5, <1>6 DEF GateInv

\* A turn that waits is cancelled.
LEMMA GateCancels == ASSUME PartsAssumption, GateInv, Gate!Cancels PROVE GateInv'
<1> USE DEF Gate!Cancels, Gate!context, Gate!parking
<1>1. GateShape'  BY DEF GateInv, GateShape
<1>2. GateGoes'  BY SameCards DEF GateInv, GateGoes
<1>3. Spends'  BY SameCards DEF GateInv, Spends
<1>4. ReadsItsOwn'  BY SameCards DEF GateInv, ReadsItsOwn
<1>5. Calm' => OneCardEach' /\ GatedOnTheRest' /\ AnswersAreHeard'
  BY SameCards DEF GateInv, Calm, OneCardEach, GatedOnTheRest, AnswersAreHeard
<1>6. edits' = 0 => NothingWasSet'
  BY SamePlan, SameCards DEF GateInv, NothingWasSet
<1> QED BY <1>1, <1>2, <1>3, <1>4, <1>5, <1>6 DEF GateInv

\* The turn is over, by itself.
LEMMA GateEnds == ASSUME PartsAssumption, GateInv, Gate!Ends PROVE GateInv'
<1> USE DEF Gate!Ends, Gate!LeavesRun
<1>1. GateShape'
  <2>1. modeSeen' \in Gate!Mode /\ allowed' \in [Permission -> Gate!Decision]
        /\ once' \in [Gate!Step -> Gate!Decision]
    BY DEF Gate!Mode, Gate!Decision
  <2>2. asking = {}  BY DEF GateInv, GateShape
  <2> QED BY <2>1, <2>2 DEF GateInv, GateShape
<1>2. GateGoes'  BY SameCards DEF GateInv, GateGoes
<1>3. Spends'  BY SameCards DEF GateInv, Spends
<1>4. ReadsItsOwn'  BY SameCards DEF GateInv, ReadsItsOwn
<1>5. Calm' => OneCardEach' /\ GatedOnTheRest' /\ AnswersAreHeard'
  BY SameCards DEF GateInv, Calm, OneCardEach, GatedOnTheRest, AnswersAreHeard
<1>6. edits' = 0 => NothingWasSet'
  BY SamePlan, SameCards DEF GateInv, NothingWasSet
<1> QED BY <1>1, <1>2, <1>3, <1>4, <1>5, <1>6 DEF GateInv

\* A turn whose cards are answered is claimed: the answers become what the gate is given.
LEMMA GateClaims == ASSUME PartsAssumption, GateInv, Gate!Claims PROVE GateInv'
<1> USE DEF Gate!Claims, Gate!parking
<1>1. GateShape'
  <2>1. once' \in [Gate!Step -> Gate!Decision]  BY DEF Gate!Decision
  <2> QED BY <2>1 DEF GateInv, GateShape
<1>2. GateGoes'  BY SameCards DEF GateInv, GateGoes
<1>3. \A s \in Gate!Step : once'[s] = "allow" => \E a \in Gate!Approved : a[2] = s
  <2> SUFFICES ASSUME NEW s \in Gate!Step, once'[s] = "allow" PROVE \E a \in Gate!Approved : a[2] = s
    OBVIOUS
  <2>1. Gate!OnceFrom(s, "granted")  OBVIOUS
  <2>2. PICK c \in Gate!CardOf : s \in DOMAIN cards[c].calls /\ cards[c].status = "granted" /\ ~ cards[c].executed
    BY <2>1 DEF Gate!OnceFrom
  <2>3. <<c, s>> \in Gate!Approved  BY <2>2 DEF Gate!Approved
  <2> QED BY <2>3
<1>4. Spends'  BY <1>3, SameCards DEF GateInv, Spends
<1>5. ReadsItsOwn'  BY SameCards DEF GateInv, ReadsItsOwn
<1>6. ASSUME Calm' PROVE AnswersAreHeard'
  <2>1. OneCardEach  BY <1>6 DEF GateInv, Calm
  <2>2. \A s \in Gate!Refused : once'[s] = "deny"
    <3> SUFFICES ASSUME NEW s \in Gate!Refused PROVE once'[s] = "deny"  OBVIOUS
    <3>1. s \in Gate!Step /\ Gate!OnceFrom(s, "denied")
      BY DEF Gate!Refused, Gate!OnceFrom, GateInv, GateGoes
    <3> QED BY <3>1
  <2>3. \A a \in Gate!Approved : once'[a[2]] = "allow"
    <3> SUFFICES ASSUME NEW a \in Gate!Approved PROVE once'[a[2]] = "allow"  OBVIOUS
    <3>0. PICK c \in Gate!CardOf : /\ cards[c].status = "granted" /\ ~ cards[c].executed
                                   /\ \E s \in DOMAIN cards[c].calls : a = <<c, s>>
      BY DEF Gate!Approved
    <3>1. PICK s \in DOMAIN cards[c].calls : a = <<c, s>>  BY <3>0
    <3>2. s \in Gate!Step  BY CardsAreFinite DEF GateInv, Calls
    <3>3. Gate!OnceFrom(s, "granted")  BY <3>0, <3>1 DEF Gate!OnceFrom
    <3>4. ~ Gate!OnceFrom(s, "denied")
      BY <2>1, <3>0, <3>1 DEF Gate!OnceFrom, OneCardEach, Alive, Calls
    <3> QED BY <3>1, <3>2, <3>3, <3>4
  <2> QED BY <2>2, <2>3, SameCards DEF AnswersAreHeard
<1>7. Calm' => OneCardEach' /\ GatedOnTheRest'
  BY SameCards DEF GateInv, Calm, OneCardEach, GatedOnTheRest
<1>8. edits' = 0 => NothingWasSet'
  BY SamePlan, SameCards DEF GateInv, NothingWasSet
<1> QED BY <1>1, <1>2, <1>4, <1>5, <1>6, <1>7, <1>8 DEF GateInv

\* The process dies: what was running is over, and what it held in memory goes.
LEMMA GateCrashes == ASSUME PartsAssumption, GateInv, Gate!Crashes PROVE GateInv'
<1> USE DEF Gate!Crashes, Gate!LeavesRun
<1>1. GateShape'
  <2>1. modeSeen' \in Gate!Mode /\ allowed' \in [Permission -> Gate!Decision]
        /\ once' \in [Gate!Step -> Gate!Decision]
    BY DEF Gate!Mode, Gate!Decision
  <2> QED BY <2>1 DEF GateInv, GateShape
<1>2. /\ Gate!CardOf' = Gate!CardOf /\ Gate!Refused' = Gate!Refused
      /\ \A c : Calls(c)' = Calls(c) /\ Active(c)' = Active(c) /\ (Alive(c)' => Alive(c))
      /\ \A s : Used(s) \subseteq Used(s)'
      /\ Unsure' \subseteq Unsure
  BY DEF Gate!CardOf, Gate!Refused, Calls, Active, Alive, Used, Unsure
<1>3. GateGoes'  BY <1>2 DEF GateInv, GateGoes
<1>4. Spends'
  <2> SUFFICES ASSUME NEW s \in EachCall PROVE ran'[s] <= Cardinality(Used(s)')
    BY DEF Spends
  <2>1. Used(s)' \in SUBSET Gate!CardOf /\ Used(s) \in SUBSET Used(s)'  BY <1>2 DEF Used
  <2>2. Cardinality(Used(s)) <= Cardinality(Used(s)') /\ Cardinality(Used(s)) \in Nat
        /\ Cardinality(Used(s)') \in Nat
    BY <2>1, CardsAreFinite, FS_Subset DEF GateInv
  <2>3. ran[s] \in Nat /\ ran[s] <= Cardinality(Used(s))
    BY GateConstants DEF GateInv, GateShape, Spends
  <2> QED BY <2>2, <2>3
<1>5. ReadsItsOwn'  BY <1>2 DEF GateInv, ReadsItsOwn
<1>6. Calm' => OneCardEach' /\ GatedOnTheRest' /\ AnswersAreHeard'
  BY <1>2 DEF GateInv, Calm, OneCardEach, GatedOnTheRest, AnswersAreHeard
<1>7. edits' = 0 => NothingWasSet'
  BY <1>2 DEF GateInv, NothingWasSet, FromOnePlan, Settled
<1> QED BY <1>1, <1>3, <1>4, <1>5, <1>6, <1>7 DEF GateInv

\* What the gate makes of a call, by the answer that was given to it.
LEMMA GateDecides ==
  ASSUME PartsAssumption, GateShape, NEW s \in Gate!Step
  PROVE  /\ Gate!Asked(s) => s \in Gate!Gated /\ once[s] = "none"
         /\ s \in Gate!Gated /\ once[s] = "deny" => Gate!Denied(s)
         /\ s \in EachCall /\ ~ Gate!Asked(s) /\ ~ Gate!Denied(s) => once[s] = "allow"
         /\ modeSeen = mode /\ allowed = standing /\ Settled(s) => ~ Gate!Asked(s)
         /\ modeSeen = mode /\ allowed = standing /\ ~ Gate!Asked(s) /\ ~ Gate!Denied(s) =>
              once[s] = "allow" \/ Settled(s)
<1>1. once[s] \in {"none", "allow", "deny"}  BY DEF GateShape, Gate!Decision
<1>2. s \in EachCall => s \in Gate!Gated  BY GateConstants
<1>3. s \in Gate!Gated => allowed[Gate!Of(s)] \in {"none", "allow", "deny"}
  BY GateConstants DEF GateShape, Gate!Decision
<1> USE DEF Gate!Asked, Gate!Denied, Gate!Given
<1>4. Gate!Asked(s) => s \in Gate!Gated /\ once[s] = "none"  OBVIOUS
<1>5. s \in Gate!Gated /\ once[s] = "deny" => Gate!Denied(s)  OBVIOUS
<1>6. s \in EachCall /\ ~ Gate!Asked(s) /\ ~ Gate!Denied(s) => once[s] = "allow"  BY <1>1, <1>2
<1>7. modeSeen = mode /\ allowed = standing /\ Settled(s) => ~ Gate!Asked(s)  BY DEF Settled
<1>8. modeSeen = mode /\ allowed = standing /\ ~ Gate!Asked(s) /\ ~ Gate!Denied(s) =>
        once[s] = "allow" \/ Settled(s)
  BY <1>1, <1>3 DEF Settled
<1> QED BY <1>4, <1>5, <1>6, <1>7, <1>8

\* A plan goes through the gate: it is parked whole, refused whole, or run whole.
LEMMA GateExecutes ==
  ASSUME PartsAssumption, GateShape, NEW calls_ \in SUBSET Gate!Step, Gate!Executes(calls_),
         task # "parking", UNCHANGED <<status, modeSeen, allowed, mode, standing, edits>>,
         once' \in [Gate!Step -> Gate!Decision], cards' \in Seq(CardType)
  PROVE  /\ GateShape' /\ task' \in {"round", "parking"}
         /\ \A s \in EachCall : ran'[s] = ran[s] \/ (ran'[s] = ran[s] + 1 /\ s \in calls_ /\ once[s] = "allow")
         /\ task' = "round" => asking' = {} /\ \A s \in calls_ : ~ Gate!Asked(s)
         /\ task' = "parking" => /\ plan' = calls_ /\ asking' = {s \in calls_ : Gate!Asked(s)}
                                 /\ parked' = {s \in calls_ : Gate!Asked(s) \/ Gate!Denied(s)}
                                 /\ asking' # {}
<1>0. asking = {}  BY DEF GateShape
<1>1. CASE \E s \in calls_ : Gate!Asked(s)
  <2>1. /\ plan' = calls_ /\ asking' = {s \in calls_ : Gate!Asked(s)} /\ task' = "parking" /\ ran' = ran
        /\ parked' = {s \in calls_ : Gate!Asked(s) \/ Gate!Denied(s)}
    BY <1>1 DEF Gate!Executes, Gate!ParksOn
  <2>2. \A s \in asking' : s \in Gate!Gated  BY <2>1, GateDecides
  <2>3. GateShape'  BY <2>1, <2>2 DEF GateShape
  <2> QED BY <1>1, <2>1, <2>3
<1>2. CASE (\A s \in calls_ : ~ Gate!Asked(s)) /\ \E s \in calls_ : Gate!Denied(s)
  <2>1. task' = "round" /\ UNCHANGED <<plan, asking, parked, ran>>
    BY <1>2 DEF Gate!Executes, Gate!Refuses, Gate!parking
  <2>2. GateShape'  BY <1>0, <2>1 DEF GateShape
  <2> QED BY <1>0, <1>2, <2>1, <2>2
<1>3. CASE \A s \in calls_ : ~ Gate!Asked(s) /\ ~ Gate!Denied(s)
  <2>1. task' = "round" /\ UNCHANGED <<plan, asking, parked>>
        /\ ran' = [s \in Gate!Step |-> ran[s] + IF s \in calls_ THEN 1 ELSE 0]
    BY <1>3 DEF Gate!Executes, Gate!Runs, Gate!parking
  <2>2. ran' \in [Gate!Step -> Nat]  BY <2>1 DEF GateShape
  <2>3. GateShape'  BY <1>0, <2>1, <2>2 DEF GateShape
  <2>4. ASSUME NEW s \in EachCall
        PROVE  ran'[s] = ran[s] \/ (ran'[s] = ran[s] + 1 /\ s \in calls_ /\ once[s] = "allow")
    <3>1. s \in Gate!Step /\ ran[s] \in Nat  BY GateConstants DEF GateShape
    <3>2. s \in calls_ => once[s] = "allow"  BY <1>3, <3>1, GateDecides
    <3> QED BY <2>1, <3>1, <3>2
  <2> QED BY <1>0, <1>3, <2>1, <2>3, <2>4
<1> QED BY <1>1, <1>2, <1>3

\* A plan of the model's: no call in it has a yes of its own left.
LEMMA GateProposes ==
  ASSUME PartsAssumption, GateInv, NEW calls_ \in SUBSET Gate!Step, Gate!Proposes(calls_)
  PROVE  GateInv'
<1>1. /\ task = "asked" /\ Gate!Closed(calls_) /\ Gate!Executes(calls_)
      /\ UNCHANGED <<status, mode, standing, cards, modeSeen, allowed, once, opening, told, edits>>
  BY DEF Gate!Proposes, Gate!rows, Gate!context
<1>2. /\ GateShape' /\ task' \in {"round", "parking"}
      /\ \A s \in EachCall : ran'[s] = ran[s] \/ (ran'[s] = ran[s] + 1 /\ s \in calls_ /\ once[s] = "allow")
      /\ task' = "round" => asking' = {} /\ \A s \in calls_ : ~ Gate!Asked(s)
      /\ task' = "parking" => /\ plan' = calls_ /\ asking' = {s \in calls_ : Gate!Asked(s)}
                              /\ parked' = {s \in calls_ : Gate!Asked(s) \/ Gate!Denied(s)}
  <2>1. once' \in [Gate!Step -> Gate!Decision] /\ cards' \in Seq(CardType)
    BY <1>1 DEF GateInv, GateShape
  <2> QED BY <1>1, <2>1, GateExecutes DEF GateInv
<1>3. GateGoes'  BY <1>1, <1>2, SameCards DEF GateInv, GateGoes
<1>4. Spends'
  <2>1. \A s \in EachCall : ran'[s] = ran[s]  BY <1>1, <1>2, GateConstants DEF GateInv, Spends
  <2> QED BY <1>1, <1>2, <2>1, SameCards DEF GateInv, Spends
<1>5. ReadsItsOwn'  BY <1>1, <1>2, SameCards DEF GateInv, ReadsItsOwn
<1>6. /\ Gate!CardOf' = Gate!CardOf /\ Gate!Refused' = Gate!Refused
      /\ \A c : Calls(c)' = Calls(c) /\ Alive(c)' = Alive(c) /\ Active(c)' = Active(c)
  BY <1>1, SameCards
<1>7. \A c \in Gate!CardOf : ~ Active(c) /\ (Alive(c) => cards[c].status = "denied")
  BY <1>1 DEF GateInv, GateGoes, Active, Alive
<1>8. \A c \in Gate!CardOf : cards[c].status # "granted" => cards[c].status = "denied"
  BY <1>1 DEF GateInv, GateGoes
<1>9. ASSUME Calm' PROVE OneCardEach' /\ GatedOnTheRest' /\ AnswersAreHeard'
  <2>1. OneCardEach /\ GatedOnTheRest /\ AnswersAreHeard  BY <1>1, <1>9 DEF GateInv, Calm
  <2>2. \A s \in Gate!Refused : s \in Gate!Step /\ once[s] = "deny"
    BY <1>1, <2>1 DEF AnswersAreHeard, Gate!Refused
  <2>3. \A c \in Gate!CardOf : cards[c].status = "denied" => \A s \in Calls(c) : s \in Gate!Refused
    BY CardsAreFinite DEF Gate!Refused, Calls, GateInv
  <2>4. \A s \in Gate!Refused : s \notin asking'
    BY <1>2, <2>2, GateDecides DEF GateInv
  <2>5. OneCardEach'
    <3>1. \A c \in Gate!CardOf : Alive(c) => Calls(c) \intersect asking' = {}  BY <1>7, <2>3, <2>4
    <3> QED BY <1>6, <2>1, <3>1 DEF OneCardEach
  <2>6. GatedOnTheRest'
    <3>1. ASSUME task' = "parking" PROVE plan' \intersect Unsure' \subseteq parked'
      <4> SUFFICES ASSUME NEW s \in plan', s \in Unsure' PROVE s \in parked'  OBVIOUS
      <4>1. s \in asking' \/ s \in Gate!Refused
        BY <1>1, <1>6, <1>8, <2>3 DEF Unsure
      <4>2. s \in Gate!Refused => s \in Gate!Gated /\ s \in Gate!Step
        BY <2>2 DEF GateInv, GateGoes, Calls, Gate!Refused
      <4>3. s \in Gate!Refused => Gate!Denied(s)  BY <2>2, <4>2, GateDecides DEF GateInv
      <4> QED BY <1>2, <3>1, <4>1, <4>3
    <3> QED BY <1>6, <1>7, <3>1 DEF GatedOnTheRest
  <2>7. AnswersAreHeard'  BY <1>1, <1>2, <1>6, <2>1 DEF AnswersAreHeard
  <2> QED BY <2>5, <2>6, <2>7
<1>10. ASSUME edits' = 0 PROVE NothingWasSet'
  <2>1. NothingWasSet  BY <1>1, <1>10 DEF GateInv
  <2>2. modeSeen = mode /\ allowed = standing  BY <1>1, <2>1 DEF NothingWasSet
  <2>3. \A s : Settled(s)' = Settled(s)  BY <1>1 DEF Settled
  <2>4. \E whole, held \in SUBSET Gate!Step : FromOnePlan(whole, held)'
    <3>1. CASE task' = "round"
      <4>1. FromOnePlan({}, {})'  BY <1>6, <1>7, <3>1 DEF FromOnePlan
      <4> QED BY <4>1
    <3>2. CASE task' = "parking"
      <4>1. \A s \in calls_ \ parked' : Settled(s)
        <5> SUFFICES ASSUME NEW s \in calls_, s \notin parked' PROVE Settled(s)  OBVIOUS
        <5>1. ~ Gate!Asked(s) /\ ~ Gate!Denied(s) /\ once[s] # "allow"
          BY <1>1, <1>2, <3>2 DEF GateInv, Spends
        <5> QED BY <2>2, <5>1, GateDecides DEF GateInv
      <4>2. PICK held \in SUBSET Gate!Step : held = parked'  BY <1>2, <3>2
      <4>3. FromOnePlan(calls_, held)'
        BY <1>2, <1>6, <1>7, <2>3, <3>2, <4>1, <4>2 DEF FromOnePlan
      <4> QED BY <4>3
    <3> QED BY <1>2, <3>1, <3>2
  <2> QED BY <1>1, <1>2, <2>2, <2>4 DEF NothingWasSet
<1> QED BY <1>2, <1>3, <1>4, <1>5, <1>9, <1>10 DEF GateInv

\* A card opens for the calls of one permission.
LEMMA GateOpensCard ==
  ASSUME PartsAssumption, GateInv, NEW p \in Permission, Gate!OpensCard(p)
  PROVE  GateInv'
<1>0. PICK asks : asks = asking \intersect Covers[p]  OBVIOUS
<1>1. /\ task = "parking" /\ asks # {} /\ task' \in {"none", "parking"}
      /\ UNCHANGED <<mode, standing, opening, ran, told, edits>>
      /\ IF task' = "none"
         THEN /\ modeSeen' = "ask" /\ allowed' = [q \in Permission |-> "none"]
              /\ once' = [s \in Gate!Step |-> "none"] /\ plan' = {} /\ parked' = {} /\ asking' = {}
         ELSE UNCHANGED <<modeSeen, allowed, once, plan, parked>>
  BY <1>0 DEF Gate!OpensCard, Gate!LeavesRun, Gate!context
<1>2. opening = {} /\ Gate!Closed(plan)  BY <1>1 DEF GateInv, GateGoes, ReadsItsOwn
<1>3. /\ modeSeen' \in Gate!Mode /\ allowed' \in [Permission -> Gate!Decision]
      /\ once' \in [Gate!Step -> Gate!Decision]
  BY <1>1 DEF Gate!Mode, Gate!Decision, GateInv, GateShape
<1>4. CASE status = "over"
  <2>1. status' = "over" /\ UNCHANGED cards /\ asking' = {} /\ task' = "none"
    BY <1>4 DEF Gate!OpensCard
  <2>2. GateShape'  BY <1>1, <1>3, <2>1 DEF GateInv, GateShape
  <2>3. GateGoes' /\ Spends' /\ ReadsItsOwn'
    BY <1>1, <1>2, <2>1, SameCards DEF GateInv, GateGoes, Spends, ReadsItsOwn
  <2>4. Unsure' \subseteq Unsure  BY <1>1, <2>1, SameCards DEF Unsure
  <2>5. ASSUME Calm' PROVE OneCardEach' /\ GatedOnTheRest' /\ AnswersAreHeard'
    <3>1. OneCardEach /\ GatedOnTheRest  BY <1>1, <2>5 DEF GateInv, Calm
    <3>2. OneCardEach'  BY <1>1, <2>1, <3>1, SameCards DEF OneCardEach
    <3>3. GatedOnTheRest'  BY <1>1, <2>1, <2>4, <3>1, SameCards DEF GatedOnTheRest
    <3>4. AnswersAreHeard'  BY <2>1 DEF AnswersAreHeard
    <3> QED BY <3>2, <3>3, <3>4
  <2>6. ASSUME edits' = 0 PROVE NothingWasSet'
    <3>1. NothingWasSet  BY <1>1, <2>6 DEF GateInv
    <3>2. \A whole, held : FromOnePlan(whole, held) => FromOnePlan(whole, held)'
      BY <1>1, <2>1, SameCards DEF FromOnePlan, Settled
    <3> QED BY <2>1, <3>1, <3>2 DEF NothingWasSet
  <2> QED BY <2>2, <2>3, <2>5, <2>6 DEF GateInv
<1>5. CASE status # "over"
  <2>0. PICK card : card = [status |-> "pending", executed |-> FALSE,
                            calls |-> [s \in asks |-> Gate!Entry(s, plan, parked)]]
    OBVIOUS
  <2>1. /\ status' = "input_required" /\ asking' = asking \ asks
        /\ cards' = Append(cards, card)
    BY <1>0, <1>5, <2>0 DEF Gate!OpensCard
  <2>2. asks \subseteq asking /\ asks \subseteq parked /\ asks \subseteq plan /\ asks \subseteq Gate!Step
        /\ asks \subseteq Gate!Gated
    BY <1>0 DEF GateInv, GateShape
  <2>3. \A s \in asks : Gate!Entry(s, plan, parked) \in Entries
                        /\ Gate!Closed(Gate!Entry(s, plan, parked).needs)
    <3>1. plan \in SUBSET Gate!Step  BY DEF GateInv, GateShape
    <3> SUFFICES ASSUME NEW s \in asks
                 PROVE  Gate!Entry(s, plan, parked) \in Entries
                        /\ Gate!Closed(Gate!Entry(s, plan, parked).needs)
      OBVIOUS
    <3>2. s \in Gate!Step  BY <2>2
    <3>3. Gate!Entry(s, plan, parked) \in Entries
          /\ Gate!Entry(s, plan, parked).needs = Gate!Needs(s, plan, parked)
      BY <3>1, EntryIs
    <3>4. Gate!Closed(Gate!Needs(s, plan, parked))  BY <1>2, <3>1, <3>2, NeedsIs
    <3> QED BY <3>3, <3>4
  <2>4. /\ card \in CardType /\ card.status = "pending" /\ ~ card.executed /\ DOMAIN card.calls = asks
        /\ \A s \in asks : card.calls[s] = Gate!Entry(s, plan, parked)
    <3>1. card.calls \in [asks -> Entries]  BY <2>0, <2>3
    <3>2. asks \in SUBSET Gate!Step  BY <2>2
    <3> QED BY <2>0, <3>1, <3>2 DEF CardType
  <2>5. PICK n : n = Len(cards) + 1  OBVIOUS
  <2>51. /\ cards' \in Seq(CardType) /\ Len(cards') = n /\ n \in Nat /\ Len(cards) \in Nat
         /\ \A c \in 1..Len(cards) : cards'[c] = cards[c]
         /\ cards'[n] = card
    <3>1. cards \in Seq(CardType)  BY DEF GateInv, GateShape
    <3> QED BY <2>1, <2>4, <2>5, <3>1, AppendProperties, LenProperties
  <2>6. /\ Gate!CardOf = 1..Len(cards) /\ n \notin Gate!CardOf /\ n \in Gate!CardOf'
        /\ \A c \in Gate!CardOf' : c = n \/ c \in Gate!CardOf
        /\ \A c \in Gate!CardOf : c \in Gate!CardOf'
        /\ \A c \in Gate!CardOf : cards'[c] = cards[c]
    BY <2>5, <2>51 DEF Gate!CardOf
  <2>7. \A c \in Gate!CardOf : Calls(c)' = Calls(c) /\ Alive(c)' = Alive(c) /\ Active(c)' = Active(c)
    BY <1>1, <2>6 DEF Calls, Alive, Active
  <2>8. /\ cards'[n].status = "pending" /\ ~ cards'[n].executed /\ Calls(n)' = asks
        /\ \A s \in asks : cards'[n].calls[s] = Gate!Entry(s, plan, parked)
    BY <2>4, <2>51 DEF Calls
  <2>9. GateShape'
    BY <1>1, <1>3, <2>1, <2>2, <2>51 DEF GateInv, GateShape
  <2>10. GateGoes'
    <3>1. \A c \in Gate!CardOf' : Calls(c)' \subseteq Gate!Gated /\ Calls(c)' # {}
      BY <1>1, <2>2, <2>6, <2>7, <2>8 DEF GateInv, GateGoes
    <3>2. \A c \in Gate!CardOf' : cards'[c].executed => cards'[c].status = "granted"
      BY <2>6, <2>8 DEF GateInv, GateGoes
    <3> QED BY <1>1, <1>2, <2>1, <3>1, <3>2 DEF GateGoes
  <2>11. \A s : Used(s)' = Used(s)  BY <1>1, <2>6, <2>7, <2>8 DEF Used
  <2>12. Spends'  BY <1>1, <2>11 DEF GateInv, Spends
  <2>13. ReadsItsOwn'  BY <1>1, <1>2, <2>3, <2>6, <2>7, <2>8 DEF GateInv, ReadsItsOwn
  <2>14. Unsure' = Unsure
    <3>1. \A x : x \in Unsure <=>
            x \in asking \/ \E c \in Gate!CardOf : cards[c].status # "granted" /\ x \in Calls(c)
      BY DEF Unsure
    <3>2. \A x : x \in Unsure' <=>
            x \in asking' \/ \E c \in Gate!CardOf' : cards'[c].status # "granted" /\ x \in Calls(c)'
      BY DEF Unsure
    <3>3. \A x : x \in Unsure' <=> x \in asking' \/ x \in asks
                   \/ \E c \in Gate!CardOf : cards[c].status # "granted" /\ x \in Calls(c)
      BY <2>6, <2>7, <2>8, <3>2
    <3> QED BY <2>1, <2>2, <3>1, <3>3
  <2>15. ASSUME Calm' PROVE OneCardEach' /\ GatedOnTheRest' /\ AnswersAreHeard'
    <3>1. OneCardEach /\ GatedOnTheRest  BY <1>1, <2>15 DEF GateInv, Calm
    <3>2. OneCardEach'
      <4>1. \A c \in Gate!CardOf : Alive(c) => Calls(c) \intersect asks = {}
        BY <2>2, <3>1 DEF OneCardEach
      <4> QED BY <2>1, <2>6, <2>7, <2>8, <3>1, <4>1 DEF OneCardEach
    <3>3. ASSUME NEW s \in asks
          PROVE (Gate!Entry(s, plan, parked).needs \ Gate!Entry(s, plan, parked).gated)
                  \intersect Unsure \subseteq {s}
      <4> SUFFICES ASSUME NEW x \in Gate!Entry(s, plan, parked).needs, x \in Unsure, x # s
                   PROVE  x \in Gate!Entry(s, plan, parked).gated
        OBVIOUS
      <4>1. plan \in SUBSET Gate!Step /\ s \in Gate!Step  BY <2>2 DEF GateInv, GateShape
      <4>2. x \in Gate!Needs(s, plan, parked)  BY <4>1, EntryIs
      <4>3. x \in plan  BY <4>1, <4>2, NeedsIs
      <4>4. x \in parked  BY <1>1, <3>1, <4>3 DEF GatedOnTheRest
      <4> QED BY <4>1, <4>2, <4>4, EntryIs
    <3>4. GatedOnTheRest'
      <4>1. \A c \in Gate!CardOf' : Active(c)' =>
              \A s \in Calls(c)' :
                (cards'[c].calls[s].needs \ cards'[c].calls[s].gated) \intersect Unsure \subseteq {s}
        BY <2>6, <2>7, <2>8, <3>1, <3>3 DEF GatedOnTheRest
      <4> QED BY <1>1, <2>14, <3>1, <4>1 DEF GatedOnTheRest
    <3>5. AnswersAreHeard'  BY <1>1 DEF AnswersAreHeard
    <3> QED BY <3>2, <3>4, <3>5
  <2>16. ASSUME edits' = 0 PROVE NothingWasSet'
    <3>1. NothingWasSet  BY <1>1, <2>16 DEF GateInv
    <3>2. PICK whole, held \in SUBSET Gate!Step : FromOnePlan(whole, held)  BY <3>1 DEF NothingWasSet
    <3>3. whole = plan /\ held = parked  BY <1>1, <3>2 DEF FromOnePlan
    <3>4. \A s : Settled(s)' = Settled(s)  BY <1>1 DEF Settled
    <3>5. FromOnePlan(whole, held)'
      BY <1>1, <2>2, <2>6, <2>7, <2>8, <3>2, <3>3, <3>4 DEF FromOnePlan
    <3> QED BY <1>1, <3>1, <3>5 DEF NothingWasSet
  <2> QED BY <2>9, <2>10, <2>12, <2>13, <2>15, <2>16 DEF GateInv
<1> QED BY <1>4, <1>5

\* The person answers a card.
LEMMA GateAnswers ==
  ASSUME PartsAssumption, GateInv, NEW c \in Gate!CardOf, NEW d \in {"allow", "deny"},
         NEW forGood \in BOOLEAN, Gate!Answers(c, d, forGood)
  PROVE  GateInv'
<1> DEFINE word == IF d = "allow" THEN "granted" ELSE "denied"
<1>1. /\ status = "input_required" /\ task = "none" /\ c \in Gate!Pending
      /\ cards' = [cards EXCEPT ![c].status = word]
      /\ status' = IF Gate!Pending = {c} THEN "queued" ELSE status
      /\ standing' = IF ~ forGood THEN standing
                     ELSE [p \in Permission |->
                             IF DOMAIN cards[c].calls \subseteq Covers[p] THEN d ELSE standing[p]]
      /\ UNCHANGED <<mode, task, modeSeen, allowed, once, plan, asking, parked, opening, ran, told, edits>>
  BY DEF Gate!Answers, Gate!context, Gate!parking
<1>2. opening = {} /\ cards \in Seq(CardType) /\ c \in DOMAIN cards /\ cards[c] \in CardType
      /\ cards[c].status = "pending"
  BY <1>1, CardsAreFinite DEF GateInv, GateGoes, GateShape, Gate!Pending
<1>3. PICK card : card = [cards[c] EXCEPT !.status = word]  OBVIOUS
<1>4. card \in CardType /\ card.status = word /\ card.executed = cards[c].executed
      /\ card.calls = cards[c].calls /\ word \in {"granted", "denied"}
  BY <1>2, <1>3 DEF CardType
<1>5. cards' = [cards EXCEPT ![c] = card]  BY <1>1, <1>2, <1>3
<1>6. /\ cards' \in Seq(CardType) /\ Len(cards') = Len(cards) /\ Gate!CardOf' = Gate!CardOf
      /\ \A x \in Gate!CardOf : /\ cards'[x].executed = cards[x].executed
                                /\ cards'[x].calls = cards[x].calls
                                /\ cards'[x].status = IF x = c THEN word ELSE cards[x].status
  <2>1. cards' \in Seq(CardType) /\ Len(cards') = Len(cards)  BY <1>2, <1>4, <1>5, ExceptSeq
  <2> QED BY <1>2, <1>4, <1>5, <2>1 DEF Gate!CardOf
<1> HIDE DEF word
<1>7. /\ \A x \in Gate!CardOf : /\ Calls(x)' = Calls(x) /\ Alive(x)' = Alive(x)
                                /\ Active(x)' => Active(x)
      /\ \A s : Used(s)' = Used(s)
  BY <1>1, <1>2, <1>4, <1>6 DEF Calls, Alive, Active, Used
<1>8. Unsure' \subseteq Unsure
  <2>1. \A x : x \in Unsure <=>
          x \in asking \/ \E y \in Gate!CardOf : cards[y].status # "granted" /\ x \in Calls(y)
    BY DEF Unsure
  <2>2. \A x : x \in Unsure' <=>
          x \in asking' \/ \E y \in Gate!CardOf' : cards'[y].status # "granted" /\ x \in Calls(y)'
    BY DEF Unsure
  <2> QED BY <1>1, <1>2, <1>6, <1>7, <2>1, <2>2
<1>9. GateShape'
  <2>1. standing' \in [Permission -> Gate!Decision]
    <3>1. d \in Gate!Decision  BY DEF Gate!Decision
    <3>2. standing \in [Permission -> Gate!Decision]  BY DEF GateInv, GateShape
    <3> QED BY <1>1, <3>1, <3>2
  <2> QED BY <1>1, <1>6, <2>1 DEF GateInv, GateShape
<1>10. GateGoes'
  <2>1. status' = "queued" => \A x \in Gate!CardOf : cards'[x].status # "pending"
    BY <1>1, <1>4, <1>6 DEF Gate!Pending
  <2>2. \A x \in Gate!CardOf : cards'[x].executed => cards'[x].status = "granted"
    BY <1>2, <1>6 DEF GateInv, GateGoes
  <2>3. \A x \in Gate!CardOf : Calls(x)' \subseteq Gate!Gated /\ Calls(x)' # {}
    BY <1>7 DEF GateInv, GateGoes
  <2> QED BY <1>1, <1>2, <1>6, <2>1, <2>2, <2>3 DEF GateGoes
<1>11. Spends'  BY <1>1, <1>7 DEF GateInv, Spends
<1>12. ReadsItsOwn'  BY <1>1, <1>6, <1>7 DEF GateInv, ReadsItsOwn
<1>13. ASSUME Calm' PROVE OneCardEach' /\ GatedOnTheRest' /\ AnswersAreHeard'
  <2>1. OneCardEach /\ GatedOnTheRest  BY <1>1, <1>13 DEF GateInv, Calm
  <2>2. OneCardEach'  BY <1>1, <1>6, <1>7, <2>1 DEF OneCardEach
  <2>3. GatedOnTheRest'  BY <1>1, <1>6, <1>7, <1>8, <2>1 DEF GatedOnTheRest
  <2>4. AnswersAreHeard'  BY <1>1 DEF AnswersAreHeard
  <2> QED BY <2>2, <2>3, <2>4
<1>14. ASSUME edits' = 0 PROVE NothingWasSet'
  <2>1. NothingWasSet  BY <1>1, <1>14 DEF GateInv
  <2>2. \A s \in Gate!Step : Settled(s) => Settled(s)'
    BY <1>1, GateConstants DEF Settled
  <2>3. \A whole, held \in SUBSET Gate!Step : FromOnePlan(whole, held) => FromOnePlan(whole, held)'
    BY <1>1, <1>6, <1>7, <2>2 DEF FromOnePlan
  <2> QED BY <1>1, <2>1, <2>3 DEF NothingWasSet
<1> QED BY <1>9, <1>10, <1>11, <1>12, <1>13, <1>14 DEF GateInv

\* What is approved and not run, and the card it is on.
LEMMA ApprovedIs ==
  ASSUME GateShape
  PROVE  /\ \A a \in Gate!Approved : /\ a[1] \in Gate!CardOf /\ a[2] \in Calls(a[1]) /\ a = <<a[1], a[2]>>
                                     /\ cards[a[1]].status = "granted" /\ ~ cards[a[1]].executed
                                     /\ a[2] \in Gate!Step
         /\ \A c \in Gate!CardOf : cards[c].status = "granted" /\ ~ cards[c].executed =>
              \A s \in Calls(c) : <<c, s>> \in Gate!Approved
<1>1. ASSUME NEW a \in Gate!Approved
      PROVE  /\ a[1] \in Gate!CardOf /\ a[2] \in Calls(a[1]) /\ a = <<a[1], a[2]>>
             /\ cards[a[1]].status = "granted" /\ ~ cards[a[1]].executed /\ a[2] \in Gate!Step
  <2>1. PICK c \in Gate!CardOf : /\ cards[c].status = "granted" /\ ~ cards[c].executed
                                 /\ \E s \in DOMAIN cards[c].calls : a = <<c, s>>
    BY DEF Gate!Approved
  <2>2. PICK s \in DOMAIN cards[c].calls : a = <<c, s>>  BY <2>1
  <2> QED BY <2>1, <2>2, CardsAreFinite DEF Calls
<1>2. \A c \in Gate!CardOf : cards[c].status = "granted" /\ ~ cards[c].executed =>
        \A s \in Calls(c) : <<c, s>> \in Gate!Approved
  BY DEF Gate!Approved, Calls
<1> QED BY <1>1, <1>2

\* Cards that were marked, or whose mark was taken back.
LEMMA SpentIs ==
  ASSUME GateShape, NEW flag \in BOOLEAN, NEW S, NEW new, new = Gate!Spent(flag, S)
  PROVE  /\ new \in Seq(CardType) /\ Len(new) = Len(cards)
         /\ \A c \in Gate!CardOf :
              /\ new[c].status = cards[c].status /\ new[c].calls = cards[c].calls
              /\ (\E a \in S : a[1] = c) => new[c].executed = flag
              /\ ~ (\E a \in S : a[1] = c) => new[c].executed = cards[c].executed
<1>1. \A c \in Gate!CardOf : new[c] = IF \E a \in S : a[1] = c THEN [cards[c] EXCEPT !.executed = flag]
                                      ELSE cards[c]
  BY DEF Gate!Spent
<1>2. \A c \in Gate!CardOf :
        /\ new[c] \in CardType /\ new[c].status = cards[c].status /\ new[c].calls = cards[c].calls
        /\ (\E a \in S : a[1] = c) => new[c].executed = flag
        /\ ~ (\E a \in S : a[1] = c) => new[c].executed = cards[c].executed
  <2> SUFFICES ASSUME NEW c \in Gate!CardOf
               PROVE  /\ new[c] \in CardType /\ new[c].status = cards[c].status /\ new[c].calls = cards[c].calls
                      /\ (\E a \in S : a[1] = c) => new[c].executed = flag
                      /\ ~ (\E a \in S : a[1] = c) => new[c].executed = cards[c].executed
    OBVIOUS
  <2>1. cards[c] \in CardType  BY CardsAreFinite
  <2>2. PICK card : card = [cards[c] EXCEPT !.executed = flag]  OBVIOUS
  <2>3. /\ card \in CardType /\ card.status = cards[c].status /\ card.calls = cards[c].calls
        /\ card.executed = flag
    BY <2>1, <2>2 DEF CardType
  <2>4. new[c] = IF \E a \in S : a[1] = c THEN card ELSE cards[c]  BY <1>1, <2>2
  <2> QED BY <2>1, <2>3, <2>4
<1>3. DOMAIN new = 1..Len(cards) /\ Len(cards) \in Nat  BY CardsAreFinite DEF Gate!Spent
<1>4. new = [c \in 1..Len(cards) |-> new[c]]  BY <1>3 DEF Gate!Spent, Gate!CardOf
<1>5. new \in Seq(CardType) /\ Len(new) = Len(cards)
  <2>1. new \in [1..Len(cards) -> CardType]  BY <1>2, <1>4, CardsAreFinite
  <2> QED BY <1>3, <2>1
<1> QED BY <1>2, <1>5

\* The approvals are marked, and what reads from a call that was not approved is held.
LEMMA GateMarks == ASSUME PartsAssumption, GateInv, Gate!Marks PROVE GateInv'
<1>1. /\ task = "claimed" /\ cards' = Gate!Spent(TRUE, Gate!Approved)
      /\ opening' = Gate!Approved \ Gate!Held /\ told' = told \union Gate!Held
      /\ once' = [s \in Gate!Step |-> IF \E a \in Gate!Held : a[2] = s THEN "none" ELSE once[s]]
      /\ \/ status' = "over" /\ task' = "none"
         \/ status' = "running" /\ task' = IF opening' = {} THEN "round" ELSE "opening"
      /\ UNCHANGED <<mode, standing, modeSeen, allowed, plan, asking, parked, ran, edits>>
  BY DEF Gate!Marks, Gate!parking
<1>2. /\ opening = {} /\ asking = {}
      /\ \A c \in Gate!CardOf : cards[c].status \in {"granted", "denied"} /\ Calls(c) # {}
      /\ \A c \in Gate!CardOf : cards[c].executed => cards[c].status = "granted"
  <2>1. \A c \in Gate!CardOf : cards[c].status \in {"pending", "granted", "denied"}
    BY CardsAreFinite DEF CardType, GateInv
  <2> QED BY <1>1, <2>1 DEF GateInv, GateGoes, GateShape
<1>3. /\ cards' \in Seq(CardType) /\ Gate!CardOf' = Gate!CardOf
      /\ \A c \in Gate!CardOf :
           /\ cards'[c].status = cards[c].status /\ cards'[c].calls = cards[c].calls
           /\ (\E a \in Gate!Approved : a[1] = c) => cards'[c].executed
           /\ ~ (\E a \in Gate!Approved : a[1] = c) => cards'[c].executed = cards[c].executed
  <2>1. PICK flag \in BOOLEAN : flag = TRUE  OBVIOUS
  <2>2. PICK new, S : new = Gate!Spent(flag, S) /\ S = Gate!Approved  OBVIOUS
  <2>3. /\ new \in Seq(CardType) /\ Len(new) = Len(cards)
        /\ \A c \in Gate!CardOf :
             /\ new[c].status = cards[c].status /\ new[c].calls = cards[c].calls
             /\ (\E a \in S : a[1] = c) => new[c].executed = flag
             /\ ~ (\E a \in S : a[1] = c) => new[c].executed = cards[c].executed
    BY <2>2, SpentIs DEF GateInv
  <2>4. cards' = new  BY <1>1, <2>1, <2>2
  <2> QED BY <2>1, <2>2, <2>3, <2>4 DEF Gate!CardOf
<1>4. \A c \in Gate!CardOf : cards[c].status = "granted" => cards'[c].executed
  <2> SUFFICES ASSUME NEW c \in Gate!CardOf, cards[c].status = "granted", ~ cards[c].executed
               PROVE  cards'[c].executed
    BY <1>3
  <2>1. PICK s \in Calls(c) : TRUE  BY <1>2
  <2>2. <<c, s>> \in Gate!Approved  BY ApprovedIs DEF GateInv
  <2>3. \E a \in Gate!Approved : a[1] = c  BY <2>2
  <2> QED BY <1>3, <2>3
<1>5. \A a \in Gate!Approved : /\ a[1] \in Gate!CardOf /\ a[2] \in Calls(a[1]) /\ a[2] \in Gate!Step
                               /\ cards[a[1]].status = "granted" /\ ~ cards[a[1]].executed
                               /\ Alive(a[1]) /\ Active(a[1]) /\ cards'[a[1]].executed
                               /\ a = <<a[1], a[2]>>
  BY <1>4, ApprovedIs DEF Alive, Active, GateInv
<1>6. /\ \A c \in Gate!CardOf : Calls(c)' = Calls(c) /\ ~ Active(c)' /\ (Alive(c)' => Alive(c))
      /\ Gate!Refused' = Gate!Refused
  <2>1. \A c \in Gate!CardOf : Calls(c)' = Calls(c)  BY <1>3 DEF Calls
  <2>2. \A c \in Gate!CardOf : ~ Active(c)'  BY <1>2, <1>3, <1>4 DEF Active
  <2>3. \A c \in Gate!CardOf : Alive(c)' => Alive(c)  BY <1>1, <1>3, <1>5 DEF Alive
  <2>4. Gate!Refused' = Gate!Refused
    <3>1. \A s \in Gate!Step :
            (\E c \in Gate!CardOf' : s \in DOMAIN cards'[c].calls /\ cards'[c].status = "denied")
              <=> (\E c \in Gate!CardOf : s \in DOMAIN cards[c].calls /\ cards[c].status = "denied")
      BY <1>3
    <3> QED BY <3>1 DEF Gate!Refused
  <2> QED BY <2>1, <2>2, <2>3, <2>4
<1>7. once' \in [Gate!Step -> Gate!Decision] /\ \A s \in Gate!Step :
        once'[s] = IF \E a \in Gate!Held : a[2] = s THEN "none" ELSE once[s]
  BY <1>1 DEF GateInv, GateShape, Gate!Decision
<1>8. Gate!Held \subseteq Gate!Approved  BY DEF Gate!Held
<1>9. GateShape'
  <2>1. status' \in {"running", "over"} /\ task' \in {"none", "round", "opening"}  BY <1>1
  <2> QED BY <1>1, <1>2, <1>3, <1>7, <2>1 DEF GateInv, GateShape
<1>10. GateGoes'
  <2>1. task' \in {"none", "round", "opening"} /\ (task' = "none" <=> status' = "over")
        /\ (task' # "none" <=> status' = "running")
    BY <1>1
  <2>2. opening' # {} => task' = "opening" \/ (task' = "none" /\ status' = "over")  BY <1>1
  <2>3. \A c \in Gate!CardOf : /\ cards'[c].executed => cards'[c].status = "granted"
                               /\ cards'[c].executed \/ cards'[c].status = "denied"
                               /\ cards'[c].status # "pending"
    <3> SUFFICES ASSUME NEW c \in Gate!CardOf
                 PROVE  /\ cards'[c].executed => cards'[c].status = "granted"
                        /\ cards'[c].executed \/ cards'[c].status = "denied"
                        /\ cards'[c].status # "pending"
      OBVIOUS
    <3>1. cards[c].status \in {"granted", "denied"}  BY <1>2
    <3>2. (\E a \in Gate!Approved : a[1] = c) => cards[c].status = "granted"  BY <1>5
    <3> QED BY <1>2, <1>3, <1>4, <3>1, <3>2
  <2>4. \A c \in Gate!CardOf : Calls(c)' \subseteq Gate!Gated /\ Calls(c)' # {}
    BY <1>6 DEF GateInv, GateGoes
  <2>5. \A a \in opening' : /\ a \in Gate!CardOf \X Gate!Step /\ a[2] \in Calls(a[1])'
                            /\ cards'[a[1]].executed
    <3> SUFFICES ASSUME NEW a \in opening'
                 PROVE  a \in Gate!CardOf \X Gate!Step /\ a[2] \in Calls(a[1])' /\ cards'[a[1]].executed
      OBVIOUS
    <3>1. a \in Gate!Approved  BY <1>1
    <3>2. a[1] \in Gate!CardOf /\ a[2] \in Gate!Step /\ a = <<a[1], a[2]>>  BY <1>5, <3>1
    <3>3. a[2] \in Calls(a[1]) /\ cards'[a[1]].executed  BY <1>5, <3>1
    <3> QED BY <1>6, <3>2, <3>3
  <2> QED BY <1>3, <2>1, <2>2, <2>3, <2>4, <2>5 DEF GateGoes
<1>11. Spends'
  <2>1. ASSUME NEW s \in EachCall PROVE ran'[s] <= Cardinality(Used(s)')
    <3>1. Used(s) \subseteq Used(s)' /\ Used(s)' \subseteq Gate!CardOf
      BY <1>1, <1>3, <1>5, <1>6 DEF Used
    <3>2. Cardinality(Used(s)) <= Cardinality(Used(s)') /\ Cardinality(Used(s)) \in Nat
          /\ Cardinality(Used(s)') \in Nat
      BY <3>1, CardsAreFinite, FS_Subset DEF GateInv
    <3>3. ran[s] \in Nat /\ ran[s] <= Cardinality(Used(s)) /\ ran' = ran
      BY <1>1, GateConstants DEF GateInv, GateShape, Spends
    <3> QED BY <3>2, <3>3
  <2>2. \A s \in Gate!Step : once[s] = "allow" => \E a \in Gate!Approved : a[2] = s
    BY <1>1 DEF GateInv, Spends
  <2>3. \A s \in Gate!Step : once'[s] = "allow" => \E a \in opening' : a[2] = s
    BY <1>1, <1>7, <2>2
  <2>4. task' = "round" => \A s \in Gate!Step : once'[s] # "allow"  BY <1>1, <2>3
  <2> QED BY <1>1, <2>1, <2>3, <2>4 DEF Spends
<1>12. ReadsItsOwn'
  <2>1. \A c \in Gate!CardOf : \A s \in Calls(c)' : Gate!Closed(cards'[c].calls[s].needs)
    BY <1>3, <1>6 DEF GateInv, ReadsItsOwn
  <2>2. task' # "parking"  BY <1>1
  <2> QED BY <1>3, <2>1, <2>2 DEF ReadsItsOwn
<1>13. ASSUME OneCardEach
       PROVE  \A c \in Gate!CardOf : cards[c].status = "denied" =>
                \A s \in Calls(c) : ~ \E a \in Gate!Approved : a[2] = s
  BY <1>2, <1>5, <1>13 DEF OneCardEach, Alive
<1>14. ASSUME OneCardEach, NEW a \in opening', \A b \in Gate!Approved : once[b[2]] = "allow"
       PROVE  once'[a[2]] = "allow"
  <2>1. a \in Gate!Approved /\ a \notin Gate!Held  BY <1>1
  <2>2. \A h \in Gate!Held : h[2] # a[2]  BY <1>5, <1>8, <1>14, <2>1 DEF OneCardEach
  <2> QED BY <1>5, <1>7, <1>14, <2>1, <2>2
<1>15. ASSUME Calm' PROVE OneCardEach' /\ GatedOnTheRest' /\ AnswersAreHeard'
  <2>1. OneCardEach /\ GatedOnTheRest /\ AnswersAreHeard  BY <1>1, <1>15 DEF GateInv, Calm
  <2>2. OneCardEach'  BY <1>1, <1>3, <1>6, <2>1 DEF OneCardEach
  <2>3. GatedOnTheRest'  BY <1>1, <1>3, <1>6 DEF GatedOnTheRest
  <2>4. \A b \in Gate!Approved : once[b[2]] = "allow"  BY <1>1, <2>1 DEF AnswersAreHeard
  <2>5. \A s \in Gate!Refused : once'[s] = "deny"
    <3> SUFFICES ASSUME NEW s \in Gate!Refused PROVE once'[s] = "deny"  OBVIOUS
    <3>1. s \in Gate!Step /\ once[s] = "deny"
      BY <1>1, <2>1 DEF AnswersAreHeard, Gate!Refused
    <3>2. ~ \E a \in Gate!Held : a[2] = s  BY <1>8, <2>4, <3>1
    <3> QED BY <1>7, <3>1, <3>2
  <2>6. \A a \in opening' : once'[a[2]] = "allow"  BY <1>14, <2>1, <2>4
  <2>7. Gate!OpeningPlan' \intersect Gate!Refused = {}
    <3> SUFFICES ASSUME NEW a \in opening', NEW x \in cards'[a[1]].calls[a[2]].needs, x \in Gate!Refused
                 PROVE  FALSE
      BY DEF Gate!OpeningPlan
    <3>1. a \in Gate!Approved /\ a \notin Gate!Held  BY <1>1
    <3>2. x \in cards[a[1]].calls[a[2]].needs  BY <1>3, <1>5, <3>1
    <3>3. PICK d \in Gate!CardOf : x \in Calls(d) /\ cards[d].status = "denied"
      BY DEF Gate!Refused, Calls
    <3>4. ~ \E b \in Gate!Approved : b[2] = x  BY <1>13, <2>1, <3>3
    <3>5. x \in Unsure  BY <3>3 DEF Unsure
    <3>6. x # a[2]  BY <3>1, <3>4
    <3>7. x \in cards[a[1]].calls[a[2]].gated
      BY <1>5, <2>1, <3>1, <3>2, <3>5, <3>6 DEF GatedOnTheRest
    <3>8. \E b \in Gate!Approved : b[2] = x  BY <3>1, <3>7 DEF Gate!Held
    <3> QED BY <3>4, <3>8
  <2>8. told' = {} => \A a \in opening' : \A s \in Calls(a[1])' : <<a[1], s>> \in opening'
    <3>1. told' = {} => opening' = Gate!Approved  BY <1>1
    <3> QED BY <1>5, <1>6, <3>1, ApprovedIs DEF GateInv
  <2>9. AnswersAreHeard'  BY <1>1, <1>6, <2>5, <2>6, <2>7, <2>8 DEF AnswersAreHeard
  <2> QED BY <2>2, <2>3, <2>9
<1>16. ASSUME edits' = 0 PROVE NothingWasSet'
  <2>1. NothingWasSet /\ OneCardEach /\ AnswersAreHeard  BY <1>1, <1>16 DEF GateInv, Calm
  <2>2. modeSeen = mode /\ allowed = standing  BY <1>1, <2>1 DEF NothingWasSet
  <2>3. \A s : Settled(s)' = Settled(s)  BY <1>1 DEF Settled
  <2>4. FromOnePlan({}, {})'  BY <1>1, <1>3, <1>6 DEF FromOnePlan
  <2>5. \A b \in Gate!Approved : once[b[2]] = "allow"  BY <1>1, <2>1 DEF AnswersAreHeard
  <2>6. PICK whole, held \in SUBSET Gate!Step : FromOnePlan(whole, held)  BY <2>1 DEF NothingWasSet
  <2>7. \A b \in Gate!Approved :
          /\ Gate!PlanOf(b) = whole /\ b[2] \in whole /\ b[2] \in held
          /\ cards[b[1]].calls[b[2]].needs = Gate!Needs(b[2], whole, held)
          /\ cards[b[1]].calls[b[2]].gated = (Gate!Needs(b[2], whole, held) \ {b[2]}) \intersect held
    <3> SUFFICES ASSUME NEW b \in Gate!Approved
                 PROVE  /\ Gate!PlanOf(b) = whole /\ b[2] \in whole /\ b[2] \in held
                        /\ cards[b[1]].calls[b[2]].needs = Gate!Needs(b[2], whole, held)
                        /\ cards[b[1]].calls[b[2]].gated = (Gate!Needs(b[2], whole, held) \ {b[2]}) \intersect held
      OBVIOUS
    <3>1. b[1] \in Gate!CardOf /\ Active(b[1]) /\ b[2] \in Calls(b[1])  BY <1>5
    <3>2. b[2] \in whole /\ b[2] \in held /\ cards[b[1]].calls[b[2]] = Gate!Entry(b[2], whole, held)
      BY <2>6, <3>1 DEF FromOnePlan
    <3>3. PICK entry : entry = Gate!Entry(b[2], whole, held)  OBVIOUS
    <3>4. /\ entry.plan = whole /\ entry.needs = Gate!Needs(b[2], whole, held)
          /\ entry.gated = (Gate!Needs(b[2], whole, held) \ {b[2]}) \intersect held
      BY <3>3 DEF Gate!Entry
    <3>5. Gate!PlanOf(b) = entry.plan  BY <3>2, <3>3 DEF Gate!PlanOf
    <3> QED BY <3>2, <3>3, <3>4, <3>5
  <2>8. \A a \in Gate!Approved : a \in Gate!Held <=>
          \E g \in (Gate!Needs(a[2], whole, held) \ {a[2]}) \intersect held :
            ~ \E b \in Gate!Approved : b[2] = g
    BY <2>7 DEF Gate!Held
  <2>9. ASSUME NEW a \in opening', NEW s \in cards'[a[1]].calls[a[2]].needs
        PROVE  Settled(s) \/ once'[s] = "allow"
    <3>1. a \in Gate!Approved /\ a \notin Gate!Held  BY <1>1
    <3>2. s \in Gate!Needs(a[2], whole, held)
      <4>1. a[1] \in Gate!CardOf  BY <1>5, <3>1
      <4>2. cards'[a[1]].calls = cards[a[1]].calls  BY <1>3, <4>1
      <4> QED BY <2>7, <3>1, <4>2
    <3>3. a[2] \in Gate!Step  BY <1>5, <3>1
    <3>4. s \in whole  BY <3>2, <3>3, NeedsIs
    <3>5. CASE s \notin held
      BY <2>6, <3>4, <3>5 DEF FromOnePlan
    <3>6. CASE s = a[2]
      BY <1>14, <2>1, <2>5, <3>6
    <3>7. CASE s \in held /\ s # a[2]
      <4>1. PICK b \in Gate!Approved : b[2] = s  BY <2>8, <3>1, <3>2, <3>7
      <4>2. Gate!Needs(s, whole, held) \subseteq Gate!Needs(a[2], whole, held)
            /\ a[2] \notin Gate!Needs(s, whole, held)
        BY <3>2, <3>3, <3>7, NeedsIs
      <4>3. b \notin Gate!Held  BY <2>8, <3>1, <4>1, <4>2
      <4>4. b \in opening'  BY <1>1, <4>1, <4>3
      <4> QED BY <1>14, <2>1, <2>5, <4>1, <4>4
    <3> QED BY <3>5, <3>6, <3>7
  <2>10. \A s \in Gate!OpeningPlan' : Settled(s)' \/ once'[s] = "allow"
    BY <2>3, <2>9 DEF Gate!OpeningPlan
  <2>11. \E w, h \in SUBSET Gate!Step : FromOnePlan(w, h)'  BY <2>4
  <2> QED BY <1>1, <2>2, <2>10, <2>11 DEF NothingWasSet
<1> QED BY <1>9, <1>10, <1>11, <1>12, <1>15, <1>16 DEF GateInv

\* Cards that are given back: unspent again, and their calls are calls of the opening plan.
Returned(new, whole, held) ==
  /\ new \in Seq(CardType) /\ Len(new) = Len(cards)
  /\ \A c \in Gate!CardOf :
       /\ new[c].status = cards[c].status /\ DOMAIN new[c].calls = Calls(c)
       /\ (\E a \in opening : a[1] = c) => ~ new[c].executed
       /\ ~ (\E a \in opening : a[1] = c) => new[c].executed = cards[c].executed
       /\ \A s \in Calls(c) : new[c].calls[s] = IF <<c, s>> \in opening
                                                THEN Gate!Entry(s, whole, held) ELSE cards[c].calls[s]

\* Which calls a replay that holds some back gives back.
LEMMA GivenBackIs ==
  ASSUME GateShape, NEW whole \in SUBSET Gate!Step, NEW held, NEW new, new = Gate!GivesBack(whole, held)
  PROVE  Returned(new, whole, held)
<1>1. PICK flag \in BOOLEAN : flag = FALSE  OBVIOUS
<1>2. PICK spent, S : spent = Gate!Spent(flag, S) /\ S = opening  OBVIOUS
<1>3. /\ spent \in Seq(CardType) /\ Len(spent) = Len(cards)
      /\ \A c \in Gate!CardOf :
           /\ spent[c].status = cards[c].status /\ spent[c].calls = cards[c].calls
           /\ (\E a \in S : a[1] = c) => spent[c].executed = flag
           /\ ~ (\E a \in S : a[1] = c) => spent[c].executed = cards[c].executed
  BY <1>2, SpentIs
<1>4. new = [c \in Gate!CardOf |->
               [spent[c] EXCEPT !.calls =
                  [s \in DOMAIN spent[c].calls |->
                     IF <<c, s>> \in opening THEN Gate!Entry(s, whole, held) ELSE spent[c].calls[s]]]]
  BY <1>1, <1>2 DEF Gate!GivesBack
<1>5. ASSUME NEW c \in Gate!CardOf
      PROVE  /\ new[c] \in CardType
             /\ new[c].status = cards[c].status /\ DOMAIN new[c].calls = Calls(c)
             /\ new[c].executed = spent[c].executed
             /\ \A s \in Calls(c) : new[c].calls[s] = IF <<c, s>> \in opening
                                                      THEN Gate!Entry(s, whole, held) ELSE cards[c].calls[s]
  <2>1. PICK calls_ : calls_ = [s \in DOMAIN spent[c].calls |->
                         IF <<c, s>> \in opening THEN Gate!Entry(s, whole, held) ELSE spent[c].calls[s]]
    OBVIOUS
  <2>2. new[c] = [spent[c] EXCEPT !.calls = calls_]  BY <1>4, <2>1
  <2>3. spent[c].calls = cards[c].calls /\ DOMAIN cards[c].calls = Calls(c)  BY <1>3 DEF Calls
  <2>4. calls_ \in [Calls(c) -> Entries]
    <3>1. \A s \in Calls(c) : cards[c].calls[s] \in Entries  BY CardsAreFinite
    <3>2. \A s \in Calls(c) : Gate!Entry(s, whole, held) \in Entries  BY EntryIs
    <3> QED BY <2>1, <2>3, <3>1, <3>2
  <2>5. Calls(c) \in SUBSET Gate!Step /\ spent[c] \in CardType
    BY <1>3, CardsAreFinite
  <2>6. /\ new[c].calls = calls_ /\ new[c].status = spent[c].status /\ new[c].executed = spent[c].executed
        /\ new[c] \in CardType
    <3>1. calls_ \in UNION {[T -> Entries] : T \in SUBSET Gate!Step}  BY <2>4, <2>5
    <3> QED BY <2>2, <2>5, <3>1 DEF CardType
  <2> QED BY <1>3, <2>1, <2>3, <2>4, <2>6
<1>6. new \in Seq(CardType) /\ Len(new) = Len(cards)
  <2>1. Gate!CardOf = 1..Len(cards) /\ Len(cards) \in Nat  BY CardsAreFinite
  <2>2. new \in [1..Len(cards) -> CardType]
    <3>1. DOMAIN new = 1..Len(cards)  BY <1>4, <2>1
    <3>2. new = [c \in 1..Len(cards) |-> new[c]]  BY <1>4, <2>1
    <3> QED BY <1>5, <2>1, <3>2
  <2> QED BY <2>1, <2>2
<1> QED BY <1>1, <1>2, <1>3, <1>5, <1>6 DEF Returned

\* The opening plan goes through the gate: it runs, and its cards are used up; or it is parked
\* again, and they are given back.
LEMMA GateOpens == ASSUME PartsAssumption, GateInv, Gate!Opens PROVE GateInv'
<1> DEFINE given == {s \in Gate!OpeningPlan : Gate!Asked(s)}
<1>1. /\ task = "opening" /\ Gate!Executes(Gate!OpeningPlan) /\ opening' = {}
      /\ cards' = IF given = {} THEN cards ELSE Gate!GivesBack(Gate!OpeningPlan, given)
      /\ once' = [s \in Gate!Step |-> IF \E a \in opening : a[2] = s THEN "none" ELSE once[s]]
      /\ UNCHANGED <<status, mode, standing, modeSeen, allowed, told, edits>>
  BY DEF Gate!Opens
<1> HIDE DEF given
<1>2. /\ status = "running" /\ asking = {}
      /\ \A c \in Gate!CardOf : /\ cards[c].executed => cards[c].status = "granted"
                                /\ ~ cards[c].executed => cards[c].status = "denied"
                                /\ Calls(c) # {} /\ Calls(c) \subseteq Gate!Gated
      /\ \A a \in opening : /\ a \in Gate!CardOf \X Gate!Step /\ a[2] \in Calls(a[1])
                            /\ cards[a[1]].executed
  BY <1>1 DEF GateInv, GateGoes, GateShape
<1>3. Gate!OpeningPlan \in SUBSET Gate!Step /\ Gate!Closed(Gate!OpeningPlan)
  <2>1. \A a \in opening : cards[a[1]].calls[a[2]] \in Entries  BY <1>2, CardsAreFinite DEF GateInv
  <2>2. \A a \in opening : /\ cards[a[1]].calls[a[2]].needs \subseteq Gate!Step
                           /\ Gate!Closed(cards[a[1]].calls[a[2]].needs)
    BY <1>2, <2>1 DEF Entries, GateInv, ReadsItsOwn
  <2>3. \A S \in {cards[a[1]].calls[a[2]].needs : a \in opening} : S \subseteq Gate!Step /\ Gate!Closed(S)
    BY <2>2
  <2> QED BY <2>3, ClosedIs DEF Gate!OpeningPlan
<1>4. /\ cards' \in Seq(CardType) /\ Gate!CardOf' = Gate!CardOf
      /\ \A c \in Gate!CardOf :
           /\ cards'[c].status = cards[c].status /\ Calls(c)' = Calls(c)
           /\ given # {} /\ (\E a \in opening : a[1] = c) => ~ cards'[c].executed
           /\ given = {} \/ ~ (\E a \in opening : a[1] = c) => cards'[c].executed = cards[c].executed
           /\ \A s \in Calls(c) : cards'[c].calls[s] = IF given # {} /\ <<c, s>> \in opening
                                    THEN Gate!Entry(s, Gate!OpeningPlan, given) ELSE cards[c].calls[s]
  <2>1. CASE given = {}
    <3>1. cards' = cards  BY <1>1, <2>1
    <3> QED BY <2>1, <3>1 DEF Gate!CardOf, Calls, GateInv, GateShape
  <2>2. CASE given # {}
    <3>1. PICK whole, held, new :
            /\ whole \in SUBSET Gate!Step /\ new = Gate!GivesBack(whole, held)
            /\ whole = Gate!OpeningPlan /\ held = given
      BY <1>3
    <3>0. GateShape  BY DEF GateInv
    <3>2. Returned(new, whole, held)  BY <3>0, <3>1, GivenBackIs
    <3>3. cards' = new  BY <1>1, <2>2, <3>1
    <3>4. \A c \in Gate!CardOf : Calls(c)' = Calls(c)  BY <3>2, <3>3 DEF Calls, Returned
    <3> QED BY <2>2, <3>1, <3>2, <3>3, <3>4 DEF Gate!CardOf, Returned
  <2> QED BY <2>1, <2>2
<1>5. once' \in [Gate!Step -> Gate!Decision] /\ \A s \in Gate!Step :
        once'[s] = IF \E a \in opening : a[2] = s THEN "none" ELSE once[s]
  BY <1>1 DEF GateInv, GateShape, Gate!Decision
<1>6. /\ GateShape' /\ task' \in {"round", "parking"}
      /\ \A s \in EachCall : \/ ran'[s] = ran[s]
                             \/ ran'[s] = ran[s] + 1 /\ s \in Gate!OpeningPlan /\ once[s] = "allow"
      /\ task' = "round" => asking' = {} /\ \A s \in Gate!OpeningPlan : ~ Gate!Asked(s)
      /\ task' = "parking" => /\ plan' = Gate!OpeningPlan /\ asking' = given /\ asking' # {}
                              /\ parked' = {s \in Gate!OpeningPlan : Gate!Asked(s) \/ Gate!Denied(s)}
  <2>1. PICK whole \in SUBSET Gate!Step : whole = Gate!OpeningPlan  BY <1>3
  <2>2. Gate!Executes(whole)  BY <1>1, <2>1
  <2>3. /\ GateShape' /\ task' \in {"round", "parking"}
        /\ \A s \in EachCall : ran'[s] = ran[s] \/ (ran'[s] = ran[s] + 1 /\ s \in whole /\ once[s] = "allow")
        /\ task' = "round" => asking' = {} /\ \A s \in whole : ~ Gate!Asked(s)
        /\ task' = "parking" => /\ plan' = whole /\ asking' = {s \in whole : Gate!Asked(s)} /\ asking' # {}
                                /\ parked' = {s \in whole : Gate!Asked(s) \/ Gate!Denied(s)}
    BY <1>1, <1>4, <1>5, <2>2, GateExecutes DEF GateInv
  <2> QED BY <2>1, <2>3 DEF given
<1>7. (task' = "round" => given = {}) /\ (task' = "parking" => given # {})  BY <1>6 DEF given
<1>8. Gate!Refused' = Gate!Refused
  <2>1. \A s \in Gate!Step :
          (\E c \in Gate!CardOf' : s \in DOMAIN cards'[c].calls /\ cards'[c].status = "denied")
            <=> (\E c \in Gate!CardOf : s \in DOMAIN cards[c].calls /\ cards[c].status = "denied")
    BY <1>4 DEF Calls
  <2> QED BY <2>1 DEF Gate!Refused
<1>9. GateGoes'
  <2>1. \A c \in Gate!CardOf : cards'[c].executed => cards[c].executed  BY <1>4
  <2>2. \A c \in Gate!CardOf : /\ cards'[c].executed => cards'[c].status = "granted"
                               /\ cards'[c].status # "pending"
    BY <1>2, <1>4, <2>1
  <2>3. \A c \in Gate!CardOf : Calls(c)' \subseteq Gate!Gated /\ Calls(c)' # {}  BY <1>2, <1>4
  <2>4. task' = "round" => \A c \in Gate!CardOf : cards'[c].executed \/ cards'[c].status = "denied"
    BY <1>2, <1>4, <1>7
  <2> QED BY <1>1, <1>2, <1>4, <1>6, <2>2, <2>3, <2>4 DEF GateGoes
<1>10. Spends'
  <2>1. ASSUME NEW s \in EachCall PROVE ran'[s] <= Cardinality(Used(s)')
    <3>1. s \in Gate!Step /\ ran[s] \in Nat /\ ran[s] <= Cardinality(Used(s))
      BY GateConstants DEF GateInv, GateShape, Spends
    <3>2. Used(s) \subseteq Used(s)' /\ Used(s)' \subseteq Gate!CardOf
      BY <1>1, <1>4 DEF Used
    <3>3. /\ IsFiniteSet(Used(s)) /\ IsFiniteSet(Used(s)') /\ Cardinality(Used(s)) \in Nat
          /\ Cardinality(Used(s)') \in Nat /\ Cardinality(Used(s)) <= Cardinality(Used(s)')
      BY <3>2, CardsAreFinite, FS_Subset DEF GateInv
    <3>4. CASE ran'[s] = ran[s]  BY <3>1, <3>3, <3>4
    <3>5. CASE ran'[s] = ran[s] + 1 /\ s \in Gate!OpeningPlan /\ once[s] = "allow" /\ ran'[s] # ran[s]
      <4>1. PICK a \in opening : a[2] = s  BY <1>1, <3>1, <3>5 DEF GateInv, Spends
      <4>2. a[1] \in Gate!CardOf /\ s \in Calls(a[1]) /\ cards[a[1]].executed /\ a[1] \notin Used(s)
        BY <1>2, <4>1 DEF Used
      <4>3. given = {}
        <5>1. ~ Gate!Asked(s)  BY <3>1, <3>5, GateDecides DEF GateInv
        <5>2. CASE task' = "parking"
          <6>1. ran' = ran
            BY <1>1, <1>7, <5>2 DEF Gate!Executes, Gate!ParksOn, Gate!Runs, Gate!Refuses, given
          <6> QED BY <3>5, <6>1
        <5> QED BY <1>6, <1>7, <5>2
      <4>4. a[1] \in Used(s)'  BY <1>1, <1>4, <4>2, <4>3 DEF Used
      <4>5. PICK card : card = a[1]  OBVIOUS
      <4>6. Cardinality(Used(s) \union {card}) = Cardinality(Used(s)) + 1
        BY <3>3, <4>2, <4>5, FS_AddElement
      <4>7. Used(s) \union {card} \subseteq Used(s)'  BY <3>2, <4>4, <4>5
      <4>8. Cardinality(Used(s) \union {card}) <= Cardinality(Used(s)')
        BY <3>3, <4>7, FS_Subset
      <4> QED BY <3>1, <3>3, <3>5, <4>6, <4>8
    <3> QED BY <1>6, <3>4, <3>5
  <2>2. task' = "round" => \A s \in Gate!Step : once'[s] # "allow"
    BY <1>1, <1>5 DEF GateInv, Spends
  <2> QED BY <1>6, <2>1, <2>2 DEF Spends
<1>11. ReadsItsOwn'
  <2>1. ASSUME NEW c \in Gate!CardOf, NEW s \in Calls(c) PROVE Gate!Closed(cards'[c].calls[s].needs)
    <3>1. s \in Gate!Step /\ Gate!Closed(cards[c].calls[s].needs)
      BY CardsAreFinite DEF GateInv, ReadsItsOwn
    <3>2. Gate!Closed(Gate!Needs(s, Gate!OpeningPlan, given))  BY <1>3, <3>1, NeedsIs
    <3>3. Gate!Entry(s, Gate!OpeningPlan, given).needs = Gate!Needs(s, Gate!OpeningPlan, given)
      BY DEF Gate!Entry
    <3> QED BY <1>4, <3>1, <3>2, <3>3
  <2> QED BY <1>3, <1>4, <1>6, <2>1 DEF ReadsItsOwn
<1>12. \A c \in Gate!CardOf : /\ Alive(c)' => Alive(c)
                              /\ Alive(c)' => cards[c].status = "denied" \/ \E a \in opening : a[1] = c
                              /\ Active(c)' => given # {} /\ \E a \in opening : a[1] = c
  BY <1>1, <1>2, <1>4 DEF Alive, Active
<1>13. ASSUME Calm' PROVE OneCardEach' /\ GatedOnTheRest' /\ AnswersAreHeard'
  <2>1. OneCardEach /\ GatedOnTheRest /\ AnswersAreHeard  BY <1>1, <1>13 DEF GateInv, Calm
  <2>2. \A s \in Gate!Refused : s \in Gate!Step /\ once[s] = "deny"
    BY <1>1, <2>1 DEF AnswersAreHeard, Gate!Refused
  <2>3. /\ \A a \in opening : once[a[2]] = "allow" /\ a[2] \in Gate!Step
        /\ Gate!OpeningPlan \intersect Gate!Refused = {}
    BY <1>1, <1>2, <2>1 DEF AnswersAreHeard
  <2>4. \A c \in Gate!CardOf : cards[c].status = "denied" => Calls(c) \subseteq Gate!Refused
    BY CardsAreFinite DEF Gate!Refused, Calls, GateInv
  <2>5. task' = "parking" => told = {}
    <3> SUFFICES ASSUME task' = "parking", edits = 0 PROVE FALSE  BY <1>1, <1>13 DEF Calm
    <3>1. NothingWasSet  BY DEF GateInv
    <3>2. PICK s \in Gate!OpeningPlan : Gate!Asked(s)  BY <1>7 DEF given
    <3>3. modeSeen = mode /\ allowed = standing /\ (Settled(s) \/ once[s] = "allow")
      BY <1>1, <3>1, <3>2 DEF NothingWasSet
    <3> QED BY <1>3, <3>2, <3>3, GateDecides DEF GateInv
  <2>6. told = {} => \A a \in opening : \A s \in Calls(a[1]) : <<a[1], s>> \in opening
    BY <1>1, <2>1 DEF AnswersAreHeard
  <2>7. \A s \in given : s \in Gate!Step /\ once[s] = "none"
    BY <1>3, GateDecides DEF given, GateInv
  <2>8. OneCardEach'
    <3>1. ASSUME NEW c \in Gate!CardOf, Alive(c)', task' = "parking", NEW s \in Calls(c)
          PROVE  s \notin given
      <4>1. CASE cards[c].status = "denied"  BY <2>2, <2>4, <2>7, <4>1
      <4>2. CASE \E a \in opening : a[1] = c
        <5>1. <<c, s>> \in opening  BY <2>5, <2>6, <3>1, <4>2
        <5>2. once[s] = "allow"  BY <2>3, <5>1
        <5> QED BY <2>7, <5>2
      <4> QED BY <1>12, <3>1, <4>1, <4>2
    <3>2. \A c \in Gate!CardOf : Alive(c)' => Calls(c) \intersect asking' = {}
      BY <1>6, <3>1
    <3> QED BY <1>4, <1>12, <2>1, <3>2 DEF OneCardEach
  <2>9. \A x : x \in Unsure' => x \in asking' \/ x \in Gate!Refused
    <3>1. \A c \in Gate!CardOf : cards'[c].status # "granted" => cards[c].status = "denied"
      BY <1>2, <1>4
    <3> QED BY <1>4, <2>4, <3>1 DEF Unsure
  <2>10. GatedOnTheRest'
    <3>1. ASSUME NEW c \in Gate!CardOf, Active(c)', NEW s \in Calls(c),
                 NEW x \in cards'[c].calls[s].needs, x \in Unsure', x # s
          PROVE  x \in cards'[c].calls[s].gated
      <4>1. given # {} /\ \E a \in opening : a[1] = c  BY <1>12, <3>1
      <4>2. task' = "parking"  BY <1>6, <4>1 DEF given
      <4>3. <<c, s>> \in opening  BY <2>5, <2>6, <4>1, <4>2
      <4>4. cards'[c].calls[s] = Gate!Entry(s, Gate!OpeningPlan, given)  BY <1>4, <4>1, <4>3
      <4>5. x \in Gate!Needs(s, Gate!OpeningPlan, given)  BY <3>1, <4>4 DEF Gate!Entry
      <4>6. x \in Gate!OpeningPlan  BY <4>5 DEF Gate!Needs
      <4>7. x \in given  BY <1>6, <2>3, <2>9, <3>1, <4>2, <4>6
      <4> QED BY <3>1, <4>4, <4>5, <4>7 DEF Gate!Entry
    <3>2. task' = "parking" => plan' \intersect Unsure' \subseteq parked'
      BY <1>6, <2>3, <2>9 DEF given
    <3> QED BY <1>4, <3>1, <3>2 DEF GatedOnTheRest
  <2>11. task' = "round" => \A s \in Gate!Refused : once'[s] = "deny"
    BY <1>5, <2>2, <2>3
  <2>12. AnswersAreHeard'  BY <1>6, <1>8, <2>11 DEF AnswersAreHeard
  <2> QED BY <2>8, <2>10, <2>12
<1>14. ASSUME edits' = 0 PROVE NothingWasSet'
  <2>1. NothingWasSet  BY <1>1, <1>14 DEF GateInv
  <2>2. modeSeen = mode /\ allowed = standing  BY <1>1, <2>1 DEF NothingWasSet
  <2>3. \A s \in Gate!OpeningPlan : ~ Gate!Asked(s)
    BY <1>1, <1>3, <2>1, <2>2, GateDecides DEF NothingWasSet, GateInv
  <2>4. given = {} /\ task' = "round"  BY <1>6, <1>7, <2>3 DEF given
  <2>5. \A c \in Gate!CardOf' : ~ Active(c)'  BY <1>4, <1>12, <2>4
  <2>6. \E whole, held \in SUBSET Gate!Step : FromOnePlan(whole, held)'
    <3>1. FromOnePlan({}, {})'  BY <2>4, <2>5 DEF FromOnePlan
    <3> QED BY <3>1
  <2> QED BY <1>1, <2>2, <2>4, <2>6 DEF NothingWasSet
<1> QED BY <1>6, <1>9, <1>10, <1>11, <1>13, <1>14 DEF GateInv

\* A turn starts with no card.
LEMMA GateStarted == ASSUME PartsAssumption, Gate!Init PROVE GateInv
<1> USE DEF Gate!Init
<1>1. GateShape
  <2>1. standing \in [Permission -> Gate!Decision] /\ once \in [Gate!Step -> Gate!Decision]
    BY DEF Gate!Decision
  <2>2. cards \in Seq(CardType)
    <3>1. << >> \in Seq(CardType)  OBVIOUS
    <3> QED BY <3>1
  <2> QED BY <2>1, <2>2 DEF GateShape
<1>2. Gate!CardOf = {}  BY DEF Gate!CardOf
<1>3. GateGoes  BY <1>2 DEF GateGoes
<1>4. Spends
  <2>1. ASSUME NEW s \in EachCall PROVE ran[s] <= Cardinality(Used(s))
    <3>1. Used(s) = {}  BY <1>2 DEF Used
    <3>2. Cardinality({}) = 0  BY FS_EmptySet
    <3>3. ran[s] = 0  BY GateConstants
    <3> QED BY <3>1, <3>2, <3>3
  <2>2. \A s \in Gate!Step : once[s] # "allow"  OBVIOUS
  <2> QED BY <2>1, <2>2 DEF Spends
<1>5. ReadsItsOwn  BY <1>2 DEF ReadsItsOwn
<1>6. OneCardEach /\ GatedOnTheRest  BY <1>2 DEF OneCardEach, GatedOnTheRest
<1>7. AnswersAreHeard
  <2>1. Gate!Refused = {}  BY <1>2 DEF Gate!Refused
  <2> QED BY <2>1 DEF AnswersAreHeard
<1>8. NothingWasSet
  <2>1. FromOnePlan({}, {})  BY <1>2 DEF FromOnePlan
  <2> QED BY <2>1 DEF NothingWasSet
<1> QED BY <1>1, <1>3, <1>4, <1>5, <1>6, <1>7, <1>8 DEF GateInv

\* Every step of a turn at its gate.
LEMMA GateStep == ASSUME PartsAssumption, GateInv, Gate!Next PROVE GateInv'
BY GateAssembles, GateEnds, GateClaims, GateMarks, GateOpens, GateProposes, GateOpensCard,
   GateAnswers, GateEdits, GateCancels, GateCrashes DEF Gate!Next

\* The steps of the other parts.
LEMMA GateRests ==
  ASSUME GateInv,
         UNCHANGED <<status, task, mode, modeSeen, standing, allowed, once, cards, plan, asking,
                     parked, opening, ran, told, plans, edits>>
  PROVE  GateInv'
<1>1. GateShape'  BY DEF GateInv, GateShape
<1>2. GateGoes'  BY SameCards DEF GateInv, GateGoes
<1>3. Spends'  BY SameCards DEF GateInv, Spends
<1>4. ReadsItsOwn'  BY SameCards DEF GateInv, ReadsItsOwn
<1>5. Calm' => OneCardEach' /\ GatedOnTheRest' /\ AnswersAreHeard'
  BY SameCards DEF GateInv, Calm, OneCardEach, GatedOnTheRest, AnswersAreHeard
<1>6. edits' = 0 => NothingWasSet'
  BY SamePlan, SameCards DEF GateInv, NothingWasSet
<1> QED BY <1>1, <1>2, <1>3, <1>4, <1>5, <1>6 DEF GateInv

-----------------------------------------------------------------------------
(* History. What a summary stands for is written from the newest to the     *)
(* oldest: an item is behind it because of exactly one of them. While       *)
(* nobody talks over a turn, a range ends between two turns, before the      *)
(* newest.                                                                  *)

\* A non-empty set of numbers has a least one.
LEMMA LeastOfSome ==
  ASSUME NEW S, S \subseteq Nat, S # {}
  PROVE  \E x \in S : \A y \in S : x <= y
<1> DEFINE R == OpToRel(<, Nat)
<1>1. IsWellFoundedOn(R, Nat)  BY NatLessThanWellFounded
<1>2. \E x \in S : \A y \in S : ~ (<<y, x>> \in R)
  <2> HIDE DEF R
  <2> QED BY <1>1, WFMin
<1>3. PICK x \in S : \A y \in S : ~ (<<y, x>> \in R)  BY <1>2
<1>4. \A y \in S : ~ (y < x)  BY <1>3 DEF OpToRel
<1> QED BY <1>4

\* A non-empty set of numbers up to n has a greatest one.
LEMMA GreatestOfSome ==
  ASSUME NEW n \in Nat, NEW S, S \subseteq 0..n, S # {}
  PROVE  \E x \in S : \A y \in S : y <= x
<1>1. PICK D : D = {n - x : x \in S}  OBVIOUS
<1>2. D \subseteq Nat /\ D # {}
  <2>1. \A x \in S : n - x \in Nat  OBVIOUS
  <2>2. PICK x \in S : TRUE  OBVIOUS
  <2>3. n - x \in D  BY <1>1, <2>2
  <2> QED BY <1>1, <2>1, <2>3
<1>3. PICK d \in D : \A e \in D : d <= e  BY <1>2, LeastOfSome
<1>4. PICK x \in S : d = n - x  BY <1>1
<1>5. ASSUME NEW y \in S PROVE y <= x
  <2>1. n - y \in D  BY <1>1
  <2>2. d <= n - y  BY <1>3, <2>1
  <2> QED BY <1>4, <2>2
<1> QED BY <1>5

\* G takes what was decided of the next, and decides of each; f is what comes of it.
Decides(n, V, G) == \A c \in 1..n : \A s \in SUBSET V : G[<<c, s>>] \in SUBSET V
Decided(n, V, G, f) ==
  /\ f = [c \in 1..n + 1 |-> f[c]] /\ f \in [1..n + 1 -> SUBSET V]
  /\ \A c \in 1..n + 1 : f[c] = IF c > n THEN {} ELSE G[<<c, f[c + 1]>>]

\* What is decided of each from the last to the first, from what was decided of the next, is
\* a function.
LEMMA FromTheLast ==
  ASSUME NEW n \in Nat, NEW V, NEW G, Decides(n, V, G)
  PROVE  \E f : Decided(n, V, G, f)
<1> USE DEF Decides
<1> DEFINE Goes(k, f) == /\ f \in [1..n + 1 -> SUBSET V] /\ f[n + 1] = {}
                         /\ \A c \in 1..n : c > n - k => f[c] = G[<<c, f[c + 1]>>]
<1>1. PICK bad : bad = {k \in 0..n : ~ \E f : Goes(k, f)}  OBVIOUS
<1>2. 0 \notin bad
  <2>1. PICK f : f = [c \in 1..n + 1 |-> {}]  OBVIOUS
  <2>2. Goes(0, f)  BY <2>1
  <2> QED BY <1>1, <2>2
<1>3. bad = {}
  <2> SUFFICES ASSUME bad # {} PROVE FALSE  OBVIOUS
  <2>1. bad \subseteq Nat  BY <1>1
  <2>2. PICK k \in bad : \A j \in bad : k <= j  BY <2>1, LeastOfSome
  <2>a. k \in 0..n /\ k # 0  BY <1>1, <1>2, <2>2
  <2>b. k \in 1..n /\ k - 1 \in 0..n /\ ~ (k <= k - 1)  BY <2>a
  <2>3. k \in 1..n /\ k - 1 \in 0..n /\ k - 1 \notin bad  BY <2>2, <2>b
  <2>4. PICK f : Goes(k - 1, f)  BY <1>1, <2>3
  <2>5. PICK c \in 1..n : c = n - k + 1  BY <2>3
  <2>6. PICK g : g = [f EXCEPT ![c] = G[<<c, f[c + 1]>>]]  OBVIOUS
  <2>7. f \in [1..n + 1 -> SUBSET V] /\ c + 1 \in 1..n + 1 /\ f[n + 1] = {} /\ n + 1 \in 1..n + 1
    BY <2>4
  <2>8. G[<<c, f[c + 1]>>] \in SUBSET V  BY <2>7
  <2>9. g \in [1..n + 1 -> SUBSET V] /\ g[c] = G[<<c, f[c + 1]>>]
        /\ \A d \in 1..n + 1 : d # c => g[d] = f[d]
    BY <2>6, <2>7, <2>8
  <2>10. g[n + 1] = {}  BY <2>7, <2>9
  <2>11. ASSUME NEW d \in 1..n, d > n - k PROVE g[d] = G[<<d, g[d + 1]>>]
    <3>1. CASE d = c
      <4>1. g[d + 1] = f[c + 1]  BY <2>7, <2>9, <3>1
      <4> QED BY <2>9, <3>1, <4>1
    <3>2. CASE d # c
      <4>1. d > n - (k - 1) /\ d + 1 # c /\ d + 1 \in 1..n + 1 /\ d \in 1..n + 1  BY <2>3, <2>5, <2>11, <3>2
      <4>2. f[d] = G[<<d, f[d + 1]>>]  BY <2>4, <4>1
      <4>3. g[d + 1] = f[d + 1] /\ g[d] = f[d]  BY <2>9, <3>2, <4>1
      <4> QED BY <4>2, <4>3
    <3> QED BY <3>1, <3>2
  <2>12. Goes(k, g)  BY <2>9, <2>10, <2>11
  <2> QED BY <1>1, <2>2, <2>12
<1>4. n \notin bad /\ n \in 0..n  BY <1>3
<1>5. PICK f : Goes(n, f)  BY <1>1, <1>4
<1>6. \A c \in 1..n + 1 : f[c] = IF c > n THEN {} ELSE G[<<c, f[c + 1]>>]
  <2> SUFFICES ASSUME NEW c \in 1..n + 1 PROVE f[c] = IF c > n THEN {} ELSE G[<<c, f[c + 1]>>]  OBVIOUS
  <2>1. CASE c = n + 1  BY <1>5, <2>1
  <2>2. CASE c # n + 1
    <3>1. c \in 1..n /\ c > n - n  BY <2>2
    <3> QED BY <1>5, <3>1
  <2> QED BY <2>1, <2>2
<1>7. f = [c \in 1..n + 1 |-> f[c]]  BY <1>5
<1> QED BY <1>5, <1>6, <1>7 DEF Decided

\* What the summaries stand for, one by one from the newest.
LEMMA CoveredIs ==
  ASSUME History!TypeOK, NEW view, NEW n, n = Len(made)
  PROVE  /\ n \in Nat
         /\ DOMAIN History!Covered(view) = 1..n + 1
         /\ History!Covered(view)[n + 1] = {}
         /\ \A c \in 1..n : History!Covered(view)[c] = History!Newer(c, view, History!Covered(view)[c + 1])
<1>1. n \in Nat  BY DEF History!TypeOK
<1>2. PICK G : G = [x \in (1..n) \X (SUBSET view) |-> History!Newer(x[1], view, x[2])]  OBVIOUS
<1>3. \A c \in 1..n : \A s \in SUBSET view : G[<<c, s>>] = History!Newer(c, view, s)  BY <1>2
<1>4. \A c \in 1..n : \A s \in SUBSET view : History!Newer(c, view, s) \in SUBSET view
  BY DEF History!Newer, History!Inside
<1>5. PICK f : Decided(n, view, G, f)
  <2>1. ASSUME NEW c \in 1..n, NEW s \in SUBSET view PROVE G[<<c, s>>] \in SUBSET view
    <3>1. G[<<c, s>>] = History!Newer(c, view, s)  BY <1>3
    <3>2. History!Newer(c, view, s) \in SUBSET view  BY <1>4
    <3> QED BY <3>1, <3>2
  <2>2. Decides(n, view, G)  BY <2>1 DEF Decides
  <2> QED BY <1>1, <2>2, FromTheLast
<1>6. f = [c \in 1..n + 1 |-> IF c > n THEN {} ELSE History!Newer(c, view, f[c + 1])]
  <2>1. ASSUME NEW c \in 1..n + 1 PROVE f[c] = IF c > n THEN {} ELSE History!Newer(c, view, f[c + 1])
    <3>1. CASE c > n  BY <1>5, <3>1 DEF Decided
    <3>2. CASE ~ (c > n)
      <4>1. c \in 1..n /\ c + 1 \in 1..n + 1  BY <1>1, <3>2
      <4>2. f[c + 1] \in SUBSET view  BY <1>5, <4>1 DEF Decided
      <4>3. f[c] = G[<<c, f[c + 1]>>]  BY <1>5, <3>2 DEF Decided
      <4>4. G[<<c, f[c + 1]>>] = History!Newer(c, view, f[c + 1])  BY <1>3, <4>1, <4>2
      <4> QED BY <3>2, <4>3, <4>4
    <3> QED BY <3>1, <3>2
  <2> QED BY <1>5, <2>1 DEF Decided
<1>7. History!Covered(view) = [c \in 1..n + 1 |-> IF c > n THEN {} ELSE History!Newer(c, view, History!Covered(view)[c + 1])]
  BY <1>6 DEF History!Covered
<1>8. PICK g : g = History!Covered(view)  OBVIOUS
<1>9. g = [c \in 1..n + 1 |-> IF c > n THEN {} ELSE History!Newer(c, view, g[c + 1])]  BY <1>7, <1>8
<1>10. DOMAIN g = 1..n + 1 /\ g[n + 1] = {}
  <2>1. n + 1 \in 1..n + 1 /\ n + 1 > n  BY <1>1
  <2> QED BY <1>9, <2>1
<1>11. ASSUME NEW c \in 1..n PROVE g[c] = History!Newer(c, view, g[c + 1])
  <2>1. c \in 1..n + 1 /\ ~ c > n  BY <1>1
  <2> QED BY <1>9, <2>1
<1> QED BY <1>1, <1>8, <1>10, <1>11

\* A range ends between two turns, before a live one, and begins where the conversation does.
RangeStands(c) ==
  /\ made[c].from <= made[c].to /\ made[c].to <= Len(log)
  /\ \A i \in History!Main : made[c].from <= i
  /\ \A i, j \in History!Main :
       log[i].turn = log[j].turn /\ log[i].turn # 0 /\ i <= made[c].to => j <= made[c].to
  /\ \A i \in History!Main : log[i].turn \in History!Live => made[c].to < i

\* A turn is opened by its message, after the one before it.
TurnsAreOpened ==
  /\ \A i \in DOMAIN log : log[i].turn # 0 => stage[log[i].turn] # "none"
  /\ \A t \in History!Turn : stage[t] # "none" =>
       /\ History!Of(t) # {}
       /\ \A u \in History!Turn : u < t => stage[u] # "none"

\* While nobody talks over a turn: items come in the order of the turns, only the newest turn
\* is live, nothing is rolled back, and what was summarised stays where the turns part.
OneAtATime ==
  /\ \A i, j \in History!Main : i < j => log[i].turn <= log[j].turn
  /\ \A t \in History!Live : \A u \in History!Turn \ {t} : stage[u] # "none" => u < t /\ stage[u] = "over"
  /\ \A t \in History!Turn : stop[t] # "rollback" /\ reason[t] # "rollback"
  /\ \A c \in DOMAIN made : made[c].keep > 0 => RangeStands(c)

HistoryInv == History!TypeOK /\ TurnsAreOpened /\ (~overlapped => OneAtATime)

\* What is behind the summaries from number c on is what those of them stand for that are shown.
LEMMA CoveredIsShown ==
  ASSUME History!TypeOK, NEW view, NEW i, NEW n, n = Len(made)
  PROVE  \A c \in 1..n + 1 : i \in History!Covered(view)[c] <=>
           \E d \in c..n : d \in History!Shown(view) /\ i \in History!Inside(d, view)
<1>1. PICK f : f = History!Covered(view)  OBVIOUS
<1>2. /\ n \in Nat /\ DOMAIN f = 1..n + 1 /\ f[n + 1] = {}
      /\ \A c \in 1..n : f[c] = History!Newer(c, view, f[c + 1])
  BY <1>1, CoveredIs
<1>3. PICK S : S = History!Shown(view)  OBVIOUS
<1>4. \A c : c \in S <=> /\ c \in 1..n /\ made[c].active /\ History!Inside(c, view) # {}
                         /\ History!Inside(c, view) \intersect f[c + 1] = {}
  <2>1. DOMAIN made = 1..n  BY DEF History!TypeOK
  <2> QED BY <1>1, <1>3, <2>1 DEF History!Shown
<1> DEFINE Stands(c) == i \in f[c] <=> \E d \in c..n : d \in S /\ i \in History!Inside(d, view)
<1>5. PICK bad : bad = {k \in 0..n : ~ Stands(n + 1 - k)}  OBVIOUS
<1>6. bad = {}
  <2> SUFFICES ASSUME bad # {} PROVE FALSE  OBVIOUS
  <2>1. bad \subseteq Nat  BY <1>5
  <2>2. PICK k \in bad : \A j \in bad : k <= j  BY <2>1, LeastOfSome
  <2>3. k \in 0..n /\ ~ Stands(n + 1 - k)  BY <1>5, <2>2
  <2>4. k # 0
    <3> SUFFICES ASSUME k = 0 PROVE FALSE  OBVIOUS
    <3>1. n + 1 - k = n + 1 /\ (n + 1)..n = {}  BY <1>2
    <3>2. Stands(n + 1)  BY <1>2, <3>1
    <3> QED BY <2>3, <3>1, <3>2
  <2>5. PICK c \in 1..n : c = n + 1 - k  BY <1>2, <2>3, <2>4
  <2>6. Stands(c + 1)
    <3>1. k - 1 \in 0..n /\ ~ (k <= k - 1) /\ n + 1 - (k - 1) = c + 1  BY <1>2, <2>3, <2>4, <2>5
    <3>2. k - 1 \notin bad  BY <2>2, <3>1
    <3> QED BY <1>5, <3>1, <3>2
  <2>7. \A d : d \in c..n <=> d = c \/ d \in (c + 1)..n  BY <1>2
  <2>8. c \in S <=> /\ made[c].active /\ History!Inside(c, view) # {}
                    /\ History!Inside(c, view) \intersect f[c + 1] = {}
    BY <1>4
  <2>9. f[c] = History!Newer(c, view, f[c + 1])  BY <1>2
  <2>10. i \in f[c] <=> i \in f[c + 1] \/ (c \in S /\ i \in History!Inside(c, view))
    <3>1. CASE c \in S
      <4>1. f[c] = f[c + 1] \union History!Inside(c, view)  BY <2>8, <2>9, <3>1 DEF History!Newer
      <4> QED BY <3>1, <4>1
    <3>2. CASE c \notin S
      <4>1. CASE made[c].active /\ History!Inside(c, view) \intersect f[c + 1] = {}
        <5>1. History!Inside(c, view) = {}  BY <2>8, <3>2, <4>1
        <5>2. f[c] = f[c + 1] \union History!Inside(c, view)  BY <2>9, <4>1 DEF History!Newer
        <5> QED BY <3>2, <5>1, <5>2
      <4>2. CASE ~ (made[c].active /\ History!Inside(c, view) \intersect f[c + 1] = {})
        <5>1. f[c] = f[c + 1]  BY <2>9, <4>2 DEF History!Newer
        <5> QED BY <3>2, <5>1
      <4> QED BY <4>1, <4>2
    <3> QED BY <3>1, <3>2
  <2>11. Stands(c)  BY <2>6, <2>7, <2>10
  <2> QED BY <2>3, <2>5, <2>11
<1>7. ASSUME NEW c \in 1..n + 1 PROVE Stands(c)
  <2>1. n + 1 - c \in 0..n /\ n + 1 - (n + 1 - c) = c  BY <1>2
  <2>2. n + 1 - c \notin bad  BY <1>6
  <2> QED BY <1>5, <2>1, <2>2
<1> QED BY <1>1, <1>3, <1>7

\* An item that a turn may read stands in full, or behind one summary of those it is shown.
LEMMA ReadOnceIs == ASSUME History!TypeOK PROVE History!ReadOnce
<1> SUFFICES ASSUME NEW t, NEW i \in History!View(t)
    PROVE  LET behind == {c \in History!Shown(History!View(t)) : i \in History!Inside(c, History!View(t))}
           IN IF i \in History!Verbatim(t) THEN behind = {} ELSE History!Cardinality(behind) = 1
  BY DEF History!ReadOnce
<1>1. PICK view : view = History!View(t)  OBVIOUS
<1>2. PICK behind : behind = {c \in History!Shown(view) : i \in History!Inside(c, view)}  OBVIOUS
<1>3. PICK n : n = Len(made)  OBVIOUS
<1>4. n \in Nat  BY <1>3 DEF History!TypeOK
<1>5. \A c \in 1..n + 1 : i \in History!Covered(view)[c] <=>
           \E d \in c..n : d \in History!Shown(view) /\ i \in History!Inside(d, view)
  BY <1>3, CoveredIsShown
<1>6. \A c \in History!Shown(view) : c \in 1..n /\ History!Inside(c, view) \intersect History!Covered(view)[c + 1] = {}
  <2>1. DOMAIN made = 1..n  BY <1>3 DEF History!TypeOK
  <2> QED BY <2>1 DEF History!Shown
<1>7. i \in History!Covered(view)[1] <=> behind # {}
  <2>1. 1 \in 1..n + 1  BY <1>4
  <2>2. i \in History!Covered(view)[1] <=>
           \E d \in 1..n : d \in History!Shown(view) /\ i \in History!Inside(d, view)
    BY <1>5, <2>1
  <2> QED BY <1>2, <1>6, <2>2
<1>8. i \in History!Verbatim(t) <=> behind = {}  BY <1>1, <1>7 DEF History!Verbatim
<1>9. ASSUME NEW c \in behind, NEW d \in behind, c < d PROVE FALSE
  <2>1. c \in 1..n /\ d \in 1..n /\ c + 1 \in 1..n + 1 /\ d \in (c + 1)..n  BY <1>2, <1>4, <1>6, <1>9
  <2>2. i \in History!Covered(view)[c + 1]  BY <1>2, <1>5, <2>1
  <2> QED BY <1>2, <1>6, <2>2
<1>10. ASSUME NEW c \in behind PROVE behind = {c}
  <2>1. \A d \in behind : d \in Nat /\ c \in Nat  BY <1>2, <1>4, <1>6
  <2>2. \A d \in behind : ~ (c < d) /\ ~ (d < c)  BY <1>9
  <2> QED BY <2>1, <2>2
<1>11. ASSUME behind # {} PROVE History!Cardinality(behind) = 1
  <2>1. PICK c \in behind : behind = {c}  BY <1>10, <1>11
  <2>2. Cardinality({c}) = 1  BY FS_Singleton
  <2> QED BY <2>1, <2>2 DEF History!Cardinality, Cardinality
<1> QED BY <1>1, <1>2, <1>8, <1>11

\* What an item is, and a summary.
LEMMA ItemsAre ==
  ASSUME History!TypeOK
  PROVE  /\ \A i \in DOMAIN log : log[i].turn \in History!Turn \union {0} /\ log[i].kind \in History!Kind
         /\ \A c \in DOMAIN made :
              /\ made[c].from \in 1..MaxItems /\ made[c].to \in 1..MaxItems
              /\ made[c].from \in Nat /\ made[c].to \in Nat
<1>1. PICK E : E = [turn : History!Turn \union {0}, kind : History!Kind]  OBVIOUS
<1>2. PICK F : F = [from : 1..MaxItems, to : 1..MaxItems, keep : Keeps, active : BOOLEAN]  OBVIOUS
<1>3. log \in Seq(E) /\ made \in Seq(F)  BY <1>1, <1>2 DEF History!TypeOK, History!NoTurn
<1>4. (\A i \in DOMAIN log : log[i] \in E) /\ \A c \in DOMAIN made : made[c] \in F  BY <1>3
<1>5. \A x \in E : x.turn \in History!Turn \union {0} /\ x.kind \in History!Kind  BY <1>1
<1>6. \A x \in F : x.from \in 1..MaxItems /\ x.to \in 1..MaxItems  BY <1>2
<1>7. 1..MaxItems \subseteq Nat  OBVIOUS
<1> QED BY <1>4, <1>5, <1>6, <1>7

\* An item written is the last, and those before it stay.
LEMMA ItemIsWritten ==
  ASSUME History!TypeOK, NEW item, item \in [turn : History!Turn \union {0}, kind : History!Kind],
         History!Append1(item), NEW n, n = Len(log)
  PROVE  /\ n \in Nat /\ DOMAIN log = 1..n /\ DOMAIN log' = 1..n + 1
         /\ log' \in Seq([turn : History!Turn \union {0}, kind : History!Kind]) /\ Len(log') = n + 1
         /\ Len(log') <= MaxItems
         /\ log'[n + 1] = item /\ \A i \in 1..n : log'[i] = log[i] /\ i # n + 1 /\ i < n + 1
<1>1. PICK E : E = [turn : History!Turn \union {0}, kind : History!Kind]  OBVIOUS
<1>2. log \in Seq(E) /\ item \in E  BY <1>1 DEF History!TypeOK, History!NoTurn
<1>3. log' = Append(log, item) /\ n < MaxItems  BY DEF History!Append1
<1>4. /\ log' \in Seq(E) /\ Len(log') = n + 1 /\ DOMAIN log = 1..n /\ n \in Nat
      /\ log'[n + 1] = item /\ \A i \in 1..n : log'[i] = log[i]
  BY <1>2, <1>3, AppendProperties
<1>5. DOMAIN log' = 1..n + 1  BY <1>4
<1>6. n + 1 <= MaxItems  BY <1>3, <1>4, PartsAssumption DEF History!TranscriptAssumption
<1>7. \A i \in 1..n : i # n + 1 /\ i < n + 1  BY <1>4
<1> QED BY <1>1, <1>4, <1>5, <1>6, <1>7

\* What a turn goes through that writes nothing.
LEMMA TurnGoesOn ==
  ASSUME HistoryInv, UNCHANGED <<log, made, overlapped>>, History!TypeOK',
         History!Live' \subseteq History!Live,
         \A u \in History!Turn :
           /\ stage'[u] = "none" <=> stage[u] = "none"
           /\ stage[u] = "over" => stage'[u] = "over",
         ~ overlapped => \A u \in History!Turn : stop'[u] # "rollback" /\ reason'[u] # "rollback"
  PROVE  HistoryInv'
<1>1. TurnsAreOpened'
  <2>1. \A i \in DOMAIN log : log[i].turn # 0 => stage'[log[i].turn] # "none"
    BY ItemsAre DEF HistoryInv, TurnsAreOpened
  <2>2. \A u \in History!Turn : History!Of(u)' = History!Of(u)  BY DEF History!Of, History!Main
  <2> QED BY <2>1, <2>2 DEF HistoryInv, TurnsAreOpened
<1>2. ASSUME ~ overlapped PROVE OneAtATime'
  <2>1. History!Main' = History!Main  BY DEF History!Main
  <2>2. OneAtATime  BY <1>2 DEF HistoryInv
  <2>3. \A c \in DOMAIN made : RangeStands(c) => RangeStands(c)'
    BY <2>1 DEF RangeStands
  <2>4. \A i, j \in History!Main' : i < j => log'[i].turn <= log'[j].turn  BY <2>1, <2>2 DEF OneAtATime
  <2>5. \A t \in History!Live' : \A u \in History!Turn \ {t} :
          stage'[u] # "none" => u < t /\ stage'[u] = "over"
    BY <2>2 DEF OneAtATime
  <2> QED BY <1>2, <2>2, <2>3, <2>4, <2>5 DEF OneAtATime
<1> QED BY <1>1, <1>2 DEF HistoryInv

\* What a live turn writes, and how it goes on.
LEMMA TurnWrites ==
  ASSUME PartsAssumption, HistoryInv, UNCHANGED <<made, overlapped>>, History!TypeOK',
         NEW t \in History!Live, NEW item, History!Append1(item),
         item \in [turn : {t, 0}, kind : History!Kind],
         item.turn = 0 => item.kind = "helper",
         History!Live' \subseteq History!Live,
         \A u \in History!Turn :
           /\ stage'[u] = "none" <=> stage[u] = "none"
           /\ stage[u] = "over" => stage'[u] = "over",
         ~ overlapped => \A u \in History!Turn : stop'[u] # "rollback" /\ reason'[u] # "rollback"
  PROVE  HistoryInv'
<1>1. PICK n : n = Len(log)  OBVIOUS
<1>2. t \in History!Turn /\ stage[t] # "none" /\ t # 0 /\ t \in Nat
  BY PartsAssumption DEF History!Live, History!Turn, History!TranscriptAssumption
<1>3. /\ n \in Nat /\ DOMAIN log = 1..n /\ DOMAIN log' = 1..n + 1 /\ Len(log') = n + 1
      /\ log'[n + 1] = item /\ \A i \in 1..n : log'[i] = log[i] /\ i # n + 1 /\ i < n + 1
  BY <1>1, <1>2, ItemIsWritten DEF HistoryInv
<1>4. /\ \A i : i \in History!Main' <=> \/ i \in History!Main
                                        \/ i = n + 1 /\ item.kind # "helper"
      /\ \A i \in History!Main : i \in 1..n
  BY <1>3 DEF History!Main
<1>5. TurnsAreOpened'
  <2>1. ASSUME NEW i \in DOMAIN log', log'[i].turn # 0 PROVE stage'[log'[i].turn] # "none"
    <3>1. CASE i = n + 1  BY <1>2, <1>3, <2>1, <3>1
    <3>2. CASE i # n + 1
      <4>1. i \in DOMAIN log /\ log'[i] = log[i]  BY <1>3, <3>2
      <4>2. log[i].turn \in History!Turn  BY <2>1, <4>1, ItemsAre DEF HistoryInv
      <4> QED BY <2>1, <4>1, <4>2 DEF HistoryInv, TurnsAreOpened
    <3> QED BY <3>1, <3>2
  <2>2. ASSUME NEW u \in History!Turn, stage'[u] # "none" PROVE History!Of(u)' # {}
    <3>1. History!Of(u) # {}  BY <2>2 DEF HistoryInv, TurnsAreOpened
    <3>2. PICK i \in History!Of(u) : TRUE  BY <3>1
    <3>3. i \in History!Main /\ log[i].turn = u /\ i \in 1..n  BY <1>4, <3>2 DEF History!Of
    <3>4. i \in History!Main' /\ log'[i].turn = u  BY <1>3, <1>4, <3>3
    <3> QED BY <3>4 DEF History!Of
  <2> QED BY <2>1, <2>2 DEF HistoryInv, TurnsAreOpened
<1>6. ASSUME ~ overlapped PROVE OneAtATime'
  <2>1. OneAtATime  BY <1>6 DEF HistoryInv
  <2>2. \A i \in History!Main : log'[i] = log[i] /\ i < n + 1 /\ i # n + 1 /\ i \in Nat
                                /\ log[i].turn \in History!Turn \union {0}
    BY <1>3, <1>4, ItemsAre DEF HistoryInv
  <2>3. \A i \in History!Main : log[i].turn <= t
    <3> SUFFICES ASSUME NEW i \in History!Main PROVE log[i].turn <= t  OBVIOUS
    <3>1. CASE log[i].turn = 0  BY <1>2, <3>1
    <3>2. CASE log[i].turn = t  BY <1>2, <3>2
    <3>3. CASE log[i].turn # 0 /\ log[i].turn # t
      <4>1. log[i].turn \in History!Turn \ {t}  BY <2>2, <3>3
      <4>2. stage[log[i].turn] # "none"  BY <1>3, <1>4, <3>3 DEF HistoryInv, TurnsAreOpened
      <4>3. log[i].turn < t  BY <2>1, <4>1, <4>2 DEF OneAtATime
      <4>4. log[i].turn \in Nat  BY <4>1, PartsAssumption DEF History!Turn, History!TranscriptAssumption
      <4> QED BY <1>2, <4>3, <4>4
    <3> QED BY <3>1, <3>2, <3>3
  <2>4. ASSUME NEW i \in History!Main', NEW j \in History!Main', i < j PROVE log'[i].turn <= log'[j].turn
    <3>1. i \in History!Main  BY <1>3, <1>4, <2>2, <2>4
    <3>2. CASE j = n + 1
      <4>1. item.kind # "helper" /\ item.turn = t  BY <1>3, <1>4, <2>2, <2>4, <3>2
      <4> QED BY <1>3, <2>2, <2>3, <3>1, <3>2, <4>1
    <3>3. CASE j # n + 1
      <4>1. j \in History!Main  BY <1>4, <3>3
      <4> QED BY <2>1, <2>2, <2>4, <3>1, <4>1 DEF OneAtATime
    <3> QED BY <3>2, <3>3
  <2>5. \A v \in History!Live' : \A u \in History!Turn \ {v} :
          stage'[u] # "none" => u < v /\ stage'[u] = "over"
    BY <2>1 DEF OneAtATime
  <2>6. ASSUME NEW c \in DOMAIN made, made[c].keep > 0 PROVE RangeStands(c)'
    <3>1. RangeStands(c)  BY <2>1, <2>6 DEF OneAtATime
    <3>2. made[c].from \in Nat /\ made[c].to \in Nat  BY ItemsAre DEF HistoryInv
    <3>3. made[c].from <= made[c].to /\ made[c].to <= n  BY <1>1, <3>1 DEF RangeStands
    <3>4. \A i \in History!Main' : made[c].from <= i
      BY <1>3, <1>4, <3>1, <3>2, <3>3 DEF RangeStands
    <3>5. ASSUME NEW i \in History!Main', NEW j \in History!Main', log'[i].turn = log'[j].turn,
                 log'[i].turn # 0, i <= made[c].to
          PROVE  j <= made[c].to
      <4>1. i # n + 1  BY <1>3, <3>2, <3>3, <3>5
      <4>2. i \in History!Main /\ log'[i] = log[i]  BY <1>4, <2>2, <4>1
      <4>3. CASE j = n + 1
        <5>1. item.turn = t  BY <1>3, <1>4, <2>2, <3>5, <4>3
        <5>2. log[i].turn \in History!Live  BY <1>3, <3>5, <4>2, <4>3, <5>1
        <5>3. made[c].to < i  BY <3>1, <4>2, <5>2 DEF RangeStands
        <5> QED BY <2>2, <3>2, <3>5, <4>2, <5>3
      <4>4. CASE j # n + 1
        <5>1. j \in History!Main /\ log'[j] = log[j]  BY <1>4, <2>2, <4>4
        <5> QED BY <3>1, <3>5, <4>2, <5>1 DEF RangeStands
      <4> QED BY <4>3, <4>4
    <3>6. ASSUME NEW i \in History!Main', log'[i].turn \in History!Live' PROVE made[c].to < i
      <4>1. CASE i = n + 1  BY <1>3, <3>2, <3>3, <4>1
      <4>2. CASE i # n + 1
        <5>1. i \in History!Main /\ log'[i] = log[i]  BY <1>4, <2>2, <4>2
        <5> QED BY <3>1, <3>6, <5>1 DEF RangeStands
      <4> QED BY <4>1, <4>2
    <3>7. n <= n + 1 /\ made[c].to <= n + 1  BY <1>3, <3>2, <3>3
    <3> QED BY <1>3, <3>3, <3>4, <3>5, <3>6, <3>7 DEF RangeStands
  <2> QED BY <1>6, <2>1, <2>4, <2>5, <2>6 DEF OneAtATime
<1> QED BY <1>5, <1>6 DEF HistoryInv

\* A message sent. Beside a live turn it is one that talks over it.
LEMMA HistorySubmits ==
  ASSUME PartsAssumption, HistoryInv, NEW t \in History!Turn, NEW policy, History!Submits(t, policy)
  PROVE  HistoryInv'
<1>1. PICK n : n = Len(log)  OBVIOUS
<1>2. PICK item : item = History!Item(t, "ask")  OBVIOUS
<1>3. item.turn = t /\ item.kind = "ask" /\ item \in [turn : History!Turn \union {0}, kind : History!Kind]
  BY <1>2 DEF History!Item, History!Kind
<1>4. t # 0 /\ t \in Nat /\ \A u \in History!Turn : u \in Nat /\ u # 0
  BY PartsAssumption DEF History!Turn, History!TranscriptAssumption
<1>5. History!Append1(item) /\ stage[t] = "none" /\ made' = made /\ forked' = forked /\ reason' = reason
      /\ \A u \in History!Turn : u < t => stage[u] # "none"
  BY <1>2 DEF History!Submits
<1>6. /\ n \in Nat /\ DOMAIN log = 1..n /\ DOMAIN log' = 1..n + 1 /\ Len(log') = n + 1
      /\ log' \in Seq([turn : History!Turn \union {0}, kind : History!Kind])
      /\ Len(log') <= MaxItems
      /\ log'[n + 1] = item /\ \A i \in 1..n : log'[i] = log[i] /\ i # n + 1 /\ i < n + 1
  BY <1>1, <1>3, <1>5, ItemIsWritten DEF HistoryInv
<1>7. /\ \A i : i \in History!Main' <=> i \in History!Main \/ i = n + 1
      /\ \A i \in History!Main : i \in 1..n
  BY <1>3, <1>6 DEF History!Main
<1>8. /\ stage' \in [History!Turn -> {"none", "queued", "running", "parked", "over"}]
      /\ stop' \in [History!Turn -> {"none", "rollback", "other"}]
      /\ stage'[t] # "none"
      /\ \A u \in History!Turn : u # t => (stage'[u] # "none" <=> stage[u] # "none")
  BY <1>5 DEF History!Submits, HistoryInv, History!TypeOK, History!Live
<1>9. History!TypeOK'
  <2>1. overlapped' \in BOOLEAN  BY DEF History!Submits, HistoryInv, History!TypeOK
  <2> QED BY <1>5, <1>6, <1>8, <2>1 DEF HistoryInv, History!TypeOK, History!NoTurn
<1>10. \A u \in History!Turn : stage[u] # "none" => u < t
  <2> SUFFICES ASSUME NEW u \in History!Turn, stage[u] # "none" PROVE u < t  OBVIOUS
  <2>1. ~ (t < u) /\ u # t  BY <1>5 DEF HistoryInv, TurnsAreOpened
  <2> QED BY <1>4, <2>1
<1>11. \A i \in History!Main : /\ log'[i] = log[i] /\ i < n + 1 /\ i # n + 1 /\ i \in Nat
                               /\ log[i].turn = 0 \/ (log[i].turn \in History!Turn /\ log[i].turn < t
                                                      /\ log[i].turn # t)
  <2> SUFFICES ASSUME NEW i \in History!Main
      PROVE  log[i].turn = 0 \/ (log[i].turn \in History!Turn /\ log[i].turn < t /\ log[i].turn # t)
    BY <1>6, <1>7
  <2>1. i \in DOMAIN log  BY <1>6, <1>7
  <2>2. log[i].turn \in History!Turn \union {0}  BY <2>1, ItemsAre DEF HistoryInv
  <2>3. log[i].turn # 0 => stage[log[i].turn] # "none"  BY <2>1 DEF HistoryInv, TurnsAreOpened
  <2> QED BY <1>5, <1>10, <2>2, <2>3
<1>12. TurnsAreOpened'
  <2>1. ASSUME NEW i \in DOMAIN log', log'[i].turn # 0 PROVE stage'[log'[i].turn] # "none"
    <3>1. CASE i = n + 1  BY <1>3, <1>6, <1>8, <3>1
    <3>2. CASE i # n + 1
      <4>1. i \in DOMAIN log /\ log'[i] = log[i]  BY <1>6, <3>2
      <4>2. log[i].turn \in History!Turn  BY <2>1, <4>1, ItemsAre DEF HistoryInv
      <4> QED BY <1>8, <2>1, <4>1, <4>2 DEF HistoryInv, TurnsAreOpened
    <3> QED BY <3>1, <3>2
  <2>2. ASSUME NEW u \in History!Turn, stage'[u] # "none" PROVE History!Of(u)' # {}
    <3>1. CASE u = t
      <4>1. n + 1 \in History!Main' /\ log'[n + 1].turn = u  BY <1>3, <1>6, <1>7, <3>1
      <4> QED BY <4>1 DEF History!Of
    <3>2. CASE u # t
      <4>1. History!Of(u) # {}  BY <1>8, <2>2, <3>2 DEF HistoryInv, TurnsAreOpened
      <4>2. PICK i \in History!Of(u) : TRUE  BY <4>1
      <4>3. i \in History!Main' /\ log'[i].turn = u  BY <1>7, <1>11, <4>2 DEF History!Of
      <4> QED BY <4>3 DEF History!Of
    <3> QED BY <3>1, <3>2
  <2>3. ASSUME NEW u \in History!Turn, stage'[u] # "none", NEW v \in History!Turn, v < u
        PROVE  stage'[v] # "none"
    <3>1. CASE v = t  BY <1>8, <3>1
    <3>2. CASE v # t
      <4>1. stage[v] # "none"
        <5>1. CASE u = t  BY <1>5, <2>3, <5>1
        <5>2. CASE u # t  BY <1>8, <2>3, <5>2 DEF HistoryInv, TurnsAreOpened
        <5> QED BY <5>1, <5>2
      <4> QED BY <1>8, <3>2, <4>1
    <3> QED BY <3>1, <3>2
  <2> QED BY <2>1, <2>2, <2>3 DEF TurnsAreOpened
<1>13. ASSUME ~ overlapped' PROVE OneAtATime'
  <2>1. OneAtATime /\ History!Live = {}  BY <1>13 DEF HistoryInv, History!Submits
  <2>2. stage' = [stage EXCEPT ![t] = "queued"] /\ stop' = stop  BY <2>1 DEF History!Submits
  <2>3. \A u \in History!Turn : u # t => stage'[u] = stage[u]
    BY <2>2 DEF HistoryInv, History!TypeOK
  <2>4. \A u \in History!Turn : u # t => u \notin History!Live' /\ (stage[u] # "none" => stage[u] = "over")
    <3>1. \A u \in History!Turn : stage[u] \notin {"queued", "running", "parked"}
      BY <2>1 DEF History!Live
    <3>2. \A u \in History!Turn : stage[u] \in {"none", "queued", "running", "parked", "over"}
      BY DEF HistoryInv, History!TypeOK
    <3> QED BY <2>3, <3>1, <3>2 DEF History!Live
  <2>5. ASSUME NEW i \in History!Main', NEW j \in History!Main', i < j PROVE log'[i].turn <= log'[j].turn
    <3>1. i \in History!Main  BY <1>6, <1>7, <1>11, <2>5
    <3>2. CASE j = n + 1
      <4>1. log'[j].turn = t /\ log'[i].turn = log[i].turn  BY <1>3, <1>6, <1>11, <3>1, <3>2
      <4>2. log[i].turn = 0 \/ (log[i].turn \in Nat /\ log[i].turn < t)  BY <1>4, <1>11, <3>1
      <4>3. log[i].turn <= t  BY <1>4, <4>2
      <4> QED BY <4>1, <4>3
    <3>3. CASE j # n + 1
      <4>1. j \in History!Main  BY <1>7, <3>3
      <4>2. log[i].turn <= log[j].turn  BY <2>1, <2>5, <3>1, <4>1 DEF OneAtATime
      <4> QED BY <1>11, <3>1, <4>1, <4>2
    <3> QED BY <3>2, <3>3
  <2>6. \A v \in History!Live' : \A u \in History!Turn \ {v} :
          stage'[u] # "none" => u < v /\ stage'[u] = "over"
    <3> SUFFICES ASSUME NEW v \in History!Live', NEW u \in History!Turn \ {v}, stage'[u] # "none"
        PROVE  u < v /\ stage'[u] = "over"
      OBVIOUS
    <3>1. v = t  BY <2>4 DEF History!Live
    <3>2. stage'[u] = stage[u]  BY <2>3, <3>1
    <3> QED BY <1>10, <2>4, <3>1, <3>2
  <2>7. \A u \in History!Turn : stop'[u] # "rollback" /\ reason'[u] # "rollback"
    BY <1>5, <2>1, <2>2 DEF OneAtATime
  <2>8. ASSUME NEW c \in DOMAIN made', made'[c].keep > 0 PROVE RangeStands(c)'
    <3>1. RangeStands(c) /\ c \in DOMAIN made  BY <1>5, <2>1, <2>8 DEF OneAtATime
    <3>2. made[c].from \in Nat /\ made[c].to \in Nat  BY <3>1, ItemsAre DEF HistoryInv
    <3>3. made[c].from <= made[c].to /\ made[c].to <= n  BY <1>1, <3>1 DEF RangeStands
    <3>4. \A i \in History!Main' : made[c].from <= i
      BY <1>6, <1>7, <3>1, <3>2, <3>3 DEF RangeStands
    <3>5. ASSUME NEW i \in History!Main', NEW j \in History!Main', log'[i].turn = log'[j].turn,
                 log'[i].turn # 0, i <= made[c].to
          PROVE  j <= made[c].to
      <4>1. i # n + 1  BY <1>6, <3>2, <3>3, <3>5
      <4>2. i \in History!Main /\ log'[i] = log[i]  BY <1>7, <1>11, <4>1
      <4>3. j # n + 1  BY <1>3, <1>6, <1>11, <3>5, <4>2
      <4>4. j \in History!Main /\ log'[j] = log[j]  BY <1>7, <1>11, <4>3
      <4> QED BY <3>1, <3>5, <4>2, <4>4 DEF RangeStands
    <3>6. ASSUME NEW i \in History!Main', log'[i].turn \in History!Live' PROVE made[c].to < i
      <4>1. log'[i].turn = t  BY <2>4, <3>6 DEF History!Live
      <4>2. i = n + 1  BY <1>4, <1>7, <1>11, <4>1
      <4> QED BY <1>6, <3>2, <3>3, <4>2
    <3>7. made[c].to <= n + 1  BY <1>6, <3>2, <3>3
    <3> QED BY <1>5, <1>6, <3>3, <3>4, <3>5, <3>6, <3>7 DEF RangeStands
  <2> QED BY <2>5, <2>6, <2>7, <2>8 DEF OneAtATime
<1> QED BY <1>9, <1>12, <1>13 DEF HistoryInv

\* A turn taken up, parked, answered, cancelled, and ended in two steps.
LEMMA HistoryGoesOn ==
  ASSUME HistoryInv, NEW t \in History!Turn,
         History!Claims(t) \/ History!Parks(t) \/ History!Answers(t) \/ History!Cancels(t)
           \/ History!Finishes(t) \/ History!Ends(t)
  PROVE  HistoryInv'
<1> USE DEF History!Claims, History!Parks, History!Answers, History!Cancels, History!Finishes, History!Ends
<1>1. UNCHANGED <<log, made, overlapped, forked>>  OBVIOUS
<1>2. /\ stage \in [History!Turn -> {"none", "queued", "running", "parked", "over"}]
      /\ stop \in [History!Turn -> {"none", "rollback", "other"}]
      /\ reason \in [History!Turn -> {"unread", "none", "rollback", "other"}]
  BY DEF HistoryInv, History!TypeOK
<1>3. /\ stage' \in [History!Turn -> {"none", "queued", "running", "parked", "over"}]
      /\ stop' \in [History!Turn -> {"none", "rollback", "other"}]
      /\ reason' \in [History!Turn -> {"unread", "none", "rollback", "other"}]
  BY <1>2
<1>4. History!TypeOK'  BY <1>1, <1>3 DEF HistoryInv, History!TypeOK
<1>5. stage[t] \in {"queued", "running", "parked"} /\ stage'[t] # "none"
      /\ \A u \in History!Turn : u # t => stage'[u] = stage[u]
  BY <1>2
<1>6. History!Live' \subseteq History!Live  BY <1>5 DEF History!Live
<1>7. \A u \in History!Turn :
        /\ stage'[u] = "none" <=> stage[u] = "none"
        /\ stage[u] = "over" => stage'[u] = "over"
  BY <1>5
<1>8. ASSUME ~ overlapped, NEW u \in History!Turn PROVE stop'[u] # "rollback" /\ reason'[u] # "rollback"
  <2>1. \A v \in History!Turn : stop[v] # "rollback" /\ reason[v] # "rollback"
    BY <1>8 DEF HistoryInv, OneAtATime
  <2> QED BY <1>2, <2>1
<1> HIDE DEF History!Claims, History!Parks, History!Answers, History!Cancels, History!Finishes, History!Ends
<1> QED BY <1>1, <1>4, <1>6, <1>7, <1>8, TurnGoesOn

\* What a turn says, and a result, and what a helper does beside it.
LEMMA HistoryWrites ==
  ASSUME PartsAssumption, HistoryInv, NEW t \in History!Turn, History!Works(t) \/ History!Restarts(t)
  PROVE  HistoryInv'
<1>1. stage[t] = "running" /\ t \in History!Live /\ UNCHANGED <<made, overlapped, forked>>
  BY DEF History!Works, History!Restarts, History!Live
<1>2. PICK item \in {History!Item(t, "said"), History!Item(t, "result"), History!Item(0, "helper")} :
        History!Append1(item)
  BY DEF History!Works, History!Restarts, History!NoTurn
<1>3. /\ item \in [turn : {t, 0}, kind : History!Kind] /\ (item.turn = 0 => item.kind = "helper")
      /\ item \in [turn : History!Turn \union {0}, kind : History!Kind]
  <2>1. t # 0  BY PartsAssumption DEF History!Turn, History!TranscriptAssumption
  <2> QED BY <1>2, <2>1 DEF History!Item, History!Kind
<1>4. /\ stage \in [History!Turn -> {"none", "queued", "running", "parked", "over"}]
      /\ stop \in [History!Turn -> {"none", "rollback", "other"}]
      /\ reason \in [History!Turn -> {"unread", "none", "rollback", "other"}]
  BY DEF HistoryInv, History!TypeOK
<1>5. \/ UNCHANGED <<stage, stop, reason>>
      \/ /\ stage' = [stage EXCEPT ![t] = "over"] /\ stop' = [stop EXCEPT ![t] = "other"]
         /\ reason' = [reason EXCEPT ![t] = "unread"]
  BY DEF History!Works, History!Restarts, History!turns
<1>6. /\ stage' \in [History!Turn -> {"none", "queued", "running", "parked", "over"}]
      /\ stop' \in [History!Turn -> {"none", "rollback", "other"}]
      /\ reason' \in [History!Turn -> {"unread", "none", "rollback", "other"}]
  BY <1>4, <1>5
<1>7. History!TypeOK'
  <2>1. log' \in Seq([turn : History!Turn \union {0}, kind : History!Kind]) /\ Len(log') <= MaxItems
    BY <1>2, <1>3, ItemIsWritten DEF HistoryInv
  <2> QED BY <1>1, <1>6, <2>1 DEF HistoryInv, History!TypeOK, History!NoTurn
<1>8. \A u \in History!Turn : u # t => stage'[u] = stage[u]  BY <1>4, <1>5
<1>9. stage'[t] \in {"running", "over"}  BY <1>1, <1>4, <1>5
<1>10. History!Live' \subseteq History!Live  BY <1>1, <1>8 DEF History!Live
<1>11. \A u \in History!Turn :
        /\ stage'[u] = "none" <=> stage[u] = "none"
        /\ stage[u] = "over" => stage'[u] = "over"
  BY <1>1, <1>8, <1>9
<1>12. ASSUME ~ overlapped, NEW u \in History!Turn PROVE stop'[u] # "rollback" /\ reason'[u] # "rollback"
  <2>1. \A v \in History!Turn : stop[v] # "rollback" /\ reason[v] # "rollback"
    BY <1>12 DEF HistoryInv, OneAtATime
  <2> QED BY <1>4, <1>5, <2>1
<1>13. UNCHANGED <<made, overlapped>>  BY <1>1
<1> QED BY <1>1, <1>2, <1>3, <1>7, <1>10, <1>11, <1>12, <1>13, TurnWrites

\* A number less than which no member of a set is.
LEMMA LeastIs ==
  ASSUME NEW S, S \subseteq Nat, S # {}
  PROVE  History!Min(S) \in S /\ \A x \in S : History!Min(S) <= x
<1>1. \E x \in S : \A y \in S : x <= y  BY LeastOfSome
<1> QED BY <1>1 DEF History!Min

\* And one than which none is greater.
LEMMA GreatestIs ==
  ASSUME NEW n \in Nat, NEW S, S \subseteq 0..n, S # {}
  PROVE  History!Max(S) \in S /\ \A x \in S : x <= History!Max(S)
<1>1. \E x \in S : \A y \in S : y <= x  BY GreatestOfSome
<1>2. \E x \in S : \A y \in S : x >= y
  <2>1. PICK x \in S : \A y \in S : y <= x  BY <1>1
  <2>2. \A y \in S : y \in Nat /\ x \in Nat  OBVIOUS
  <2> QED BY <2>1, <2>2
<1>3. History!Max(S) \in S /\ \A x \in S : History!Max(S) >= x  BY <1>2 DEF History!Max
<1>4. \A x \in S : x \in Nat  OBVIOUS
<1> QED BY <1>3, <1>4

\* How far a summary reaches: to an item before all of those that are kept, after which every
\* other is not.
LEMMA CoversToIs ==
  ASSUME HistoryInv, NEW keep, History!Main # {}, History!CoversTo(keep) > 0
  PROVE  /\ History!CoversTo(keep) \in History!Main
         /\ keep # 0 =>
              \A i \in History!Main :
                (\A t \in History!Newest(keep) : \A j \in History!Of(t) : i < j) <=> i <= History!CoversTo(keep)
<1>1. PICK n : n = Len(log)  OBVIOUS
<1>2. n \in Nat /\ DOMAIN log = 1..n  BY <1>1 DEF HistoryInv, History!TypeOK
<1>3. History!Main \subseteq 1..n  BY <1>2 DEF History!Main
<1>4. CASE keep = 0
  <2>1. History!CoversTo(keep) = History!Max(History!Main)  BY <1>4 DEF History!CoversTo
  <2>2. History!Main \subseteq 0..n  BY <1>2, <1>3
  <2> QED BY <1>2, <1>4, <2>1, <2>2, GreatestIs
<1>5. CASE keep # 0
  <2>1. PICK kept : kept = UNION {History!Of(t) : t \in History!Newest(keep)}  OBVIOUS
  <2>2. PICK S : S = {i \in History!Main : \A j \in kept : i < j} \union {0}  OBVIOUS
  <2>3. PICK to : to = History!CoversTo(keep)  OBVIOUS
  <2>4. to = History!Max(S)
    <3>1. ~ (\A t \in History!Turn : History!Of(t) = {} \/ t \in History!Newest(keep))
      BY <1>5 DEF History!CoversTo
    <3> QED BY <1>5, <2>1, <2>2, <2>3, <3>1 DEF History!CoversTo
  <2>5. S \subseteq 0..n /\ S # {}
    <3>1. 0 \in S /\ 0 \in 0..n /\ 1..n \subseteq 0..n  BY <1>2, <2>2
    <3>2. \A i \in S : i = 0 \/ i \in 1..n  BY <1>3, <2>2
    <3> QED BY <3>1, <3>2
  <2>6. to \in S /\ \A x \in S : x <= to  BY <1>2, <2>4, <2>5, GreatestIs
  <2>7. to \in History!Main /\ \A j \in kept : to < j  BY <2>2, <2>3, <2>6
  <2>8. kept \subseteq History!Main  BY <2>1 DEF History!Of
  <2>9. ASSUME NEW i \in History!Main PROVE (\A j \in kept : i < j) <=> i <= to
    <3>1. (\A j \in kept : i < j) => i <= to  BY <2>2, <2>6
    <3>2. ASSUME i <= to, NEW j \in kept PROVE i < j
      <4>1. i \in Nat /\ to \in Nat /\ j \in Nat  BY <1>3, <2>7, <2>8
      <4> QED BY <2>7, <3>2, <4>1
    <3> QED BY <3>1, <3>2
  <2> QED BY <2>1, <2>3, <2>7, <2>9
<1> QED BY <1>4, <1>5

\* While nobody talks over a turn, the newest turns are those that come last, and the live one
\* is of them.
LEMMA NewestComeLast ==
  ASSUME PartsAssumption, HistoryInv, OneAtATime, NEW keep \in Nat, keep > 0
  PROVE  /\ \A t \in History!Live : t \in History!Newest(keep)
         /\ \A w \in History!Newest(keep) : \A u \in History!Turn \ History!Newest(keep) :
              \A i \in History!Of(u) : \A j \in History!Of(w) : i < j
<1>1. PICK n : n = Len(log)  OBVIOUS
<1>2. n \in Nat /\ DOMAIN log = 1..n  BY <1>1 DEF HistoryInv, History!TypeOK
<1>3. History!Main \subseteq 1..n  BY <1>2 DEF History!Main
<1>4. NumTurns \in Nat /\ History!Turn = 1..NumTurns
  BY PartsAssumption DEF History!Turn, History!TranscriptAssumption
<1>5. \A u \in History!Turn : History!Of(u) # {} =>
        History!First(u) \in History!Main /\ log[History!First(u)].turn = u /\ History!First(u) \in Nat
  <2> SUFFICES ASSUME NEW u \in History!Turn, History!Of(u) # {}
      PROVE  History!First(u) \in History!Main /\ log[History!First(u)].turn = u /\ History!First(u) \in Nat
    OBVIOUS
  <2>1. History!Of(u) \subseteq Nat
    <3>1. 1..n \subseteq Nat  OBVIOUS
    <3> QED BY <1>3, <3>1 DEF History!Of
  <2>2. History!First(u) \in History!Of(u)  BY <2>1, LeastIs DEF History!First
  <2> QED BY <2>1, <2>2 DEF History!Of
<1>6. \A i, j \in History!Main : i < j => log[i].turn <= log[j].turn  BY DEF OneAtATime
<1> DEFINE After(u) == {x \in History!Turn : History!Of(x) # {} /\ History!First(x) > History!First(u)}
<1>7. \A u : u \in History!Newest(keep) <=>
        u \in History!Turn /\ History!Of(u) # {} /\ History!Cardinality(After(u)) < keep
  BY DEF History!Newest
<1>8. ASSUME NEW t \in History!Live PROVE t \in History!Newest(keep)
  <2>1. t \in History!Turn /\ stage[t] # "none"  BY DEF History!Live
  <2>2. History!Of(t) # {}  BY <2>1 DEF HistoryInv, TurnsAreOpened
  <2>3. ASSUME NEW x \in After(t) PROVE FALSE
    <3>1. x \in History!Turn /\ History!Of(x) # {} /\ History!First(x) > History!First(t)  OBVIOUS
    <3>2. x # t /\ t \in Nat /\ x \in Nat  BY <1>4, <1>5, <2>1, <2>2, <3>1
    <3>3. t <= x  BY <1>5, <1>6, <2>1, <2>2, <3>1
    <3>4. stage[x] # "none"
      <4>1. History!First(x) \in DOMAIN log /\ log[History!First(x)].turn # 0
        BY <1>2, <1>3, <1>4, <1>5, <3>1
      <4> QED BY <1>5, <3>1, <4>1 DEF HistoryInv, TurnsAreOpened
    <3>5. x < t  BY <3>1, <3>2, <3>4 DEF OneAtATime
    <3> QED BY <3>2, <3>3, <3>5
  <2>4. History!Cardinality(After(t)) = 0
    <3>1. After(t) = {}  BY <2>3
    <3>2. Cardinality({}) = 0  BY FS_EmptySet
    <3> QED BY <3>1, <3>2 DEF History!Cardinality, Cardinality
  <2> QED BY <1>7, <2>1, <2>2, <2>4
<1>9. ASSUME NEW w \in History!Newest(keep), NEW u \in History!Turn \ History!Newest(keep),
             NEW i \in History!Of(u), NEW j \in History!Of(w)
      PROVE  i < j
  <2> SUFFICES ASSUME ~ (i < j) PROVE FALSE  OBVIOUS
  <2>1. i \in History!Main /\ j \in History!Main /\ log[i].turn = u /\ log[j].turn = w /\ u # w
    BY DEF History!Of
  <2>2. w \in History!Turn /\ u \in Nat /\ w \in Nat /\ History!Of(w) # {} /\ History!Of(u) # {}
    <3>1. w \in History!Turn /\ History!Of(w) # {}  BY <1>7
    <3>2. History!Of(u) # {}  OBVIOUS
    <3>3. u \in Nat /\ w \in Nat  BY <1>4, <3>1
    <3> QED BY <3>1, <3>2, <3>3
  <2>3. j < i  BY <1>3, <2>1
  <2>4. w < u  BY <1>6, <2>1, <2>2, <2>3
  <2>5. History!First(w) < History!First(u)
    <3>1. ~ (History!First(u) < History!First(w))  BY <1>5, <1>6, <2>2, <2>4
    <3>2. History!First(u) # History!First(w)  BY <1>5, <2>1, <2>2
    <3> QED BY <1>5, <2>2, <3>1, <3>2
  <2>6. After(u) \subseteq After(w)
    <3> SUFFICES ASSUME NEW x \in After(u) PROVE x \in After(w)  OBVIOUS
    <3>1. x \in History!Turn /\ History!Of(x) # {} /\ History!First(x) > History!First(u)  OBVIOUS
    <3>2. History!First(x) > History!First(w)  BY <1>5, <2>2, <2>5, <3>1
    <3> QED BY <3>1, <3>2
  <2>7. IsFiniteSet(History!Turn)  BY <1>4, FS_Interval
  <2>8. IsFiniteSet(After(w)) /\ After(w) \subseteq History!Turn  BY <2>7, FS_Subset
  <2>9. Cardinality(After(u)) <= Cardinality(After(w))  BY <2>6, <2>8, FS_Subset
  <2>10. Cardinality(After(w)) < keep /\ ~ (Cardinality(After(u)) < keep)
    <3>1. History!Cardinality(After(w)) = Cardinality(After(w))  BY DEF History!Cardinality, Cardinality
    <3>2. History!Cardinality(After(u)) = Cardinality(After(u))  BY DEF History!Cardinality, Cardinality
    <3> QED BY <1>7, <2>2, <3>1, <3>2
  <2>11. Cardinality(After(w)) \in Nat /\ Cardinality(After(u)) \in Nat
    <3>1. IsFiniteSet(After(u))  BY <2>6, <2>8, FS_Subset
    <3> QED BY <2>8, <3>1, FS_CardinalityType
  <2> QED BY <2>9, <2>10, <2>11
<1> QED BY <1>8, <1>9

\* The summaries may change while the conversation stands.
LEMMA OnlySummaries ==
  ASSUME HistoryInv, UNCHANGED <<log, stage, stop, reason, overlapped, forked>>,
         made' \in Seq([from : 1..MaxItems, to : 1..MaxItems, keep : Keeps, active : BOOLEAN]),
         ~ overlapped => \A c \in DOMAIN made' : made'[c].keep > 0 => RangeStands(c)'
  PROVE  HistoryInv'
<1>1. History!TypeOK'  BY DEF HistoryInv, History!TypeOK
<1>2. \A u \in History!Turn : History!Of(u)' = History!Of(u)  BY DEF History!Of, History!Main
<1>3. TurnsAreOpened'  BY <1>2 DEF HistoryInv, TurnsAreOpened
<1>4. ASSUME ~ overlapped PROVE OneAtATime'
  <2>1. OneAtATime  BY <1>4 DEF HistoryInv
  <2>2. History!Main' = History!Main /\ History!Live' = History!Live  BY DEF History!Main, History!Live
  <2>3. \A i, j \in History!Main' : i < j => log'[i].turn <= log'[j].turn  BY <2>1, <2>2 DEF OneAtATime
  <2>4. \A t \in History!Live' : \A u \in History!Turn \ {t} :
          stage'[u] # "none" => u < t /\ stage'[u] = "over"
    BY <2>1, <2>2 DEF OneAtATime
  <2>5. \A t \in History!Turn : stop'[t] # "rollback" /\ reason'[t] # "rollback"
    BY <2>1 DEF OneAtATime
  <2> QED BY <1>4, <2>3, <2>4, <2>5 DEF OneAtATime
<1> QED BY <1>1, <1>3, <1>4 DEF HistoryInv

\* A summary written: what it covers ends where the turns part, before those that are kept.
LEMMA HistoryCompacts ==
  ASSUME PartsAssumption, HistoryInv, NEW keep \in Keeps, History!Compacts(keep)
  PROVE  HistoryInv'
<1>1. PICK n : n = Len(log)  OBVIOUS
<1>2. n \in Nat /\ DOMAIN log = 1..n /\ n <= MaxItems /\ MaxItems \in Nat /\ keep \in Nat
  BY <1>1, PartsAssumption DEF HistoryInv, History!TypeOK, History!TranscriptAssumption
<1>3. History!Main \subseteq 1..n  BY <1>2 DEF History!Main
<1>4. PICK from : from = History!Min(History!Main)  OBVIOUS
<1>5. PICK to : to = History!CoversTo(keep)  OBVIOUS
<1>6. PICK m : m = [from |-> from, to |-> to, keep |-> keep, active |-> TRUE]  OBVIOUS
<1>7. /\ made' = Append(made, m) /\ History!Main # {} /\ to > 0
      /\ UNCHANGED <<log, stage, stop, reason, overlapped, forked>>
  BY <1>4, <1>5, <1>6 DEF History!Compacts, History!turns
<1>8. from \in History!Main /\ \A i \in History!Main : from <= i
  <2>1. History!Main \subseteq Nat
    <3>1. 1..n \subseteq Nat  OBVIOUS
    <3> QED BY <1>3, <3>1
  <2> QED BY <1>4, <1>7, <2>1, LeastIs
<1>9. /\ to \in History!Main
      /\ keep # 0 =>
           \A i \in History!Main : (\A t \in History!Newest(keep) : \A j \in History!Of(t) : i < j) <=> i <= to
  BY <1>5, <1>7, CoversToIs
<1>10. from \in 1..MaxItems /\ to \in 1..MaxItems /\ from \in Nat /\ to \in Nat /\ to <= n
  BY <1>2, <1>3, <1>8, <1>9
<1>11. PICK F : F = [from : 1..MaxItems, to : 1..MaxItems, keep : Keeps, active : BOOLEAN]  OBVIOUS
<1>12. made \in Seq(F) /\ m \in F  BY <1>6, <1>10, <1>11 DEF HistoryInv, History!TypeOK
<1>13. PICK k : k = Len(made)  OBVIOUS
<1>14. /\ made' \in Seq(F) /\ k \in Nat /\ DOMAIN made = 1..k /\ DOMAIN made' = 1..k + 1
       /\ made'[k + 1] = m /\ \A c \in 1..k : made'[c] = made[c]
  BY <1>7, <1>12, <1>13, AppendProperties
<1>15. ASSUME ~ overlapped, NEW c \in DOMAIN made', made'[c].keep > 0 PROVE RangeStands(c)'
  <2>1. OneAtATime  BY <1>15 DEF HistoryInv
  <2>2. History!Main' = History!Main /\ History!Live' = History!Live
    BY <1>7 DEF History!Main, History!Live
  <2>3. CASE c # k + 1
    <3>1. c \in DOMAIN made /\ made'[c] = made[c]  BY <1>14, <2>3
    <3>2. RangeStands(c)  BY <1>15, <2>1, <3>1 DEF OneAtATime
    <3> QED BY <1>7, <2>2, <3>1, <3>2 DEF RangeStands
  <2>4. CASE c = k + 1
    <3>1. made'[c].from = from /\ made'[c].to = to /\ keep > 0 /\ keep # 0
      BY <1>2, <1>6, <1>14, <1>15, <2>4
    <3>2. /\ \A t \in History!Live : t \in History!Newest(keep)
          /\ \A w \in History!Newest(keep) : \A u \in History!Turn \ History!Newest(keep) :
               \A i \in History!Of(u) : \A j \in History!Of(w) : i < j
      BY <1>2, <2>1, <3>1, NewestComeLast
    <3>3. \A i \in History!Main :
            (\A t \in History!Newest(keep) : \A j \in History!Of(t) : i < j) <=> i <= to
      BY <1>9, <3>1
    <3>4. \A i \in History!Main : log[i].turn # 0 =>
            log[i].turn \in History!Turn /\ i \in History!Of(log[i].turn)
      BY <1>2, <1>3, ItemsAre DEF HistoryInv, History!Of
    <3>5. ASSUME NEW i \in History!Main, log[i].turn \in History!Newest(keep), log[i].turn # 0 PROVE to < i
      <4>1. ~ (i < i)  BY <1>2, <1>3
      <4>2. i \in History!Of(log[i].turn)  BY <3>4, <3>5
      <4>3. ~ (i <= to)  BY <3>3, <3>5, <4>1, <4>2
      <4> QED BY <1>3, <1>10, <4>3
    <3>6. ASSUME NEW i \in History!Main, log[i].turn \in History!Live PROVE to < i
      <4>1. log[i].turn # 0
        BY <3>6, PartsAssumption DEF History!Live, History!Turn, History!TranscriptAssumption
      <4> QED BY <3>2, <3>5, <3>6, <4>1
    <3>7. ASSUME NEW i \in History!Main, NEW j \in History!Main, log[i].turn = log[j].turn,
                 log[i].turn # 0, i <= to
          PROVE  j <= to
      <4>1. PICK u : u = log[i].turn  OBVIOUS
      <4>2. u \in History!Turn /\ j \in History!Of(u)  BY <3>4, <3>7, <4>1
      <4>3. u \notin History!Newest(keep)
        <5>1. ~ (to < i)  BY <1>3, <1>10, <3>7
        <5> QED BY <3>5, <3>7, <4>1, <5>1
      <4>4. \A w \in History!Newest(keep) : \A l \in History!Of(w) : j < l  BY <3>2, <4>2, <4>3
      <4> QED BY <3>3, <4>4
    <3>8. from <= to  BY <1>8, <1>9
    <3>9. made'[c].to <= Len(log')  BY <1>1, <1>7, <1>10, <3>1
    <3> QED BY <1>7, <1>8, <2>2, <3>1, <3>6, <3>7, <3>8, <3>9 DEF RangeStands
  <2> QED BY <2>3, <2>4
<1> QED BY <1>7, <1>11, <1>14, <1>15, OnlySummaries

\* A summary undone.
LEMMA HistoryUncompacts ==
  ASSUME HistoryInv, NEW c \in DOMAIN made, History!Uncompacts(c)
  PROVE  HistoryInv'
<1>1. made' = [made EXCEPT ![c].active = FALSE] /\ UNCHANGED <<log, stage, stop, reason, overlapped, forked>>
  BY DEF History!Uncompacts, History!turns
<1>2. PICK F : F = [from : 1..MaxItems, to : 1..MaxItems, keep : Keeps, active : BOOLEAN]  OBVIOUS
<1>3. made \in Seq(F)  BY <1>2 DEF HistoryInv, History!TypeOK
<1>4. made[c] \in F  BY <1>3
<1>5. PICK m : m = [made[c] EXCEPT !.active = FALSE]  OBVIOUS
<1>6. m \in F /\ m.from = made[c].from /\ m.to = made[c].to /\ m.keep = made[c].keep  BY <1>2, <1>4, <1>5
<1>7. made' = [made EXCEPT ![c] = m]  BY <1>1, <1>5
<1>8. made' \in Seq(F) /\ DOMAIN made' = DOMAIN made  BY <1>3, <1>6, <1>7, ExceptSeq
<1>9. \A d \in DOMAIN made' : /\ made'[d].from = made[d].from /\ made'[d].to = made[d].to
                              /\ made'[d].keep = made[d].keep
  BY <1>3, <1>6, <1>7, <1>8
<1>10. History!Main' = History!Main /\ History!Live' = History!Live
  BY <1>1 DEF History!Main, History!Live
<1>11. ASSUME ~ overlapped, NEW d \in DOMAIN made', made'[d].keep > 0 PROVE RangeStands(d)'
  <2>1. RangeStands(d)  BY <1>8, <1>9, <1>11 DEF HistoryInv, OneAtATime
  <2> QED BY <1>1, <1>9, <1>10, <2>1 DEF RangeStands
<1> QED BY <1>1, <1>2, <1>8, <1>11, OnlySummaries

\* No turn, no summary and nobody who talks over another comes along with a fork.
LEMMA HistoryForks ==
  ASSUME PartsAssumption, HistoryInv, NEW cut \in DOMAIN log, History!Forks(cut)
  PROVE  HistoryInv'
<1>1. /\ log' = [i \in 1..cut |-> History!Copy(log[i])] /\ made' = << >> /\ overlapped' = FALSE
      /\ forked' = TRUE
      /\ stage' = [t \in History!Turn |-> "none"] /\ stop' = [t \in History!Turn |-> "none"]
      /\ reason' = [t \in History!Turn |-> "unread"]
  BY DEF History!Forks
<1>2. PICK n : n = Len(log)  OBVIOUS
<1>3. n \in Nat /\ DOMAIN log = 1..n /\ n <= MaxItems /\ MaxItems \in Nat /\ cut \in 1..n
  BY <1>2, PartsAssumption DEF HistoryInv, History!TypeOK, History!TranscriptAssumption
<1>4. PICK E : E = [turn : History!Turn \union {0}, kind : History!Kind]  OBVIOUS
<1>5. \A i \in 1..cut : History!Copy(log[i]) \in E /\ History!Copy(log[i]).turn = 0
  <2> SUFFICES ASSUME NEW i \in 1..cut PROVE History!Copy(log[i]) \in E /\ History!Copy(log[i]).turn = 0
    OBVIOUS
  <2>1. i \in DOMAIN log  BY <1>3
  <2>2. log[i].kind \in History!Kind  BY <2>1, ItemsAre DEF HistoryInv
  <2> QED BY <1>4, <2>2 DEF History!Copy, History!Item, History!NoTurn, History!Kind
<1>6. log' \in Seq(E) /\ Len(log') = cut /\ DOMAIN log' = 1..cut
  <2>1. cut \in Nat  BY <1>3
  <2>2. log' \in [1..cut -> E]  BY <1>1, <1>5
  <2> QED BY <2>1, <2>2, SeqDef, LenProperties
<1>7. made' \in Seq([from : 1..MaxItems, to : 1..MaxItems, keep : Keeps, active : BOOLEAN])
      /\ DOMAIN made' = {}
  BY <1>1
<1>8. History!TypeOK'
  <2>1. Len(log') <= MaxItems  BY <1>3, <1>6
  <2>2. /\ stage' \in [History!Turn -> {"none", "queued", "running", "parked", "over"}]
        /\ stop' \in [History!Turn -> {"none", "rollback", "other"}]
        /\ reason' \in [History!Turn -> {"unread", "none", "rollback", "other"}]
    BY <1>1
  <2>3. overlapped' \in BOOLEAN /\ forked' \in BOOLEAN  BY <1>1
  <2> QED BY <1>4, <1>6, <1>7, <2>1, <2>2, <2>3 DEF History!TypeOK, History!NoTurn
<1>9. \A i \in DOMAIN log' : log'[i].turn = 0  BY <1>1, <1>5, <1>6
<1>10. TurnsAreOpened'  BY <1>1, <1>9 DEF TurnsAreOpened
<1>11. OneAtATime'
  <2>1. \A i \in History!Main' : log'[i].turn = 0  BY <1>9 DEF History!Main
  <2>2. History!Live' = {}  BY <1>1 DEF History!Live
  <2>3. \A t \in History!Turn : stop'[t] # "rollback" /\ reason'[t] # "rollback"  BY <1>1
  <2> QED BY <1>7, <2>1, <2>2, <2>3 DEF OneAtATime
<1> QED BY <1>8, <1>10, <1>11 DEF HistoryInv

\* As a conversation begins.
LEMMA HistoryStarted == ASSUME PartsAssumption, History!Init PROVE HistoryInv
<1>1. DOMAIN log = {} /\ DOMAIN made = {} /\ Len(log) = 0  BY DEF History!Init
<1>2. History!TypeOK
  <2>1. Len(log) <= MaxItems  BY <1>1, PartsAssumption DEF History!TranscriptAssumption
  <2>2. /\ stage \in [History!Turn -> {"none", "queued", "running", "parked", "over"}]
        /\ stop \in [History!Turn -> {"none", "rollback", "other"}]
        /\ reason \in [History!Turn -> {"unread", "none", "rollback", "other"}]
    BY DEF History!Init
  <2>3. \A E : log \in Seq(E) /\ made \in Seq(E)  BY DEF History!Init
  <2>4. overlapped \in BOOLEAN /\ forked \in BOOLEAN  BY DEF History!Init
  <2> QED BY <2>1, <2>2, <2>3, <2>4 DEF History!TypeOK
<1>3. TurnsAreOpened  BY <1>1 DEF History!Init, TurnsAreOpened
<1>4. OneAtATime
  <2>1. History!Main = {} /\ History!Live = {}  BY <1>1 DEF History!Main, History!Live, History!Init
  <2> QED BY <1>1, <2>1 DEF OneAtATime, History!Init
<1> QED BY <1>2, <1>3, <1>4 DEF HistoryInv

\* Every step of a conversation.
LEMMA HistoryStep == ASSUME PartsAssumption, HistoryInv, History!Next PROVE HistoryInv'
BY HistorySubmits, HistoryGoesOn, HistoryWrites, HistoryCompacts, HistoryUncompacts, HistoryForks
   DEF History!Next

\* The steps of the other parts.
LEMMA HistoryRests == ASSUME HistoryInv, UNCHANGED history PROVE HistoryInv'
<1>1. UNCHANGED <<log, stage, stop, reason, made, overlapped, forked>>  BY DEF history
<1>2. History!Main' = History!Main /\ History!Live' = History!Live
  BY <1>1 DEF History!Main, History!Live
<1>3. \A c \in DOMAIN made' : RangeStands(c) => RangeStands(c)'  BY <1>1, <1>2 DEF RangeStands
<1>4. made' \in Seq([from : 1..MaxItems, to : 1..MaxItems, keep : Keeps, active : BOOLEAN])
  BY <1>1 DEF HistoryInv, History!TypeOK
<1>5. ~ overlapped => \A c \in DOMAIN made' : made'[c].keep > 0 => RangeStands(c)'
  BY <1>1, <1>3 DEF HistoryInv, OneAtATime
<1> QED BY <1>1, <1>4, <1>5, OnlySummaries

\* A summary that stands where turns part stands only for what it was written from.
LEMMA SnapIsAsked ==
  ASSUME HistoryInv, NEW c \in DOMAIN made, RangeStands(c), NEW view, view \subseteq History!Main
  PROVE  History!Inside(c, view) \subseteq History!Asked(c)
<1>1. PICK from : from = made[c].from  OBVIOUS
<1>2. PICK to : to = made[c].to  OBVIOUS
<1>3. from \in Nat /\ to \in Nat  BY <1>1, <1>2, ItemsAre DEF HistoryInv
<1>4. \A i \in History!Main : i \in Nat  BY DEF HistoryInv, History!TypeOK, History!Main
<1>5. from <= to /\ \A i \in History!Main : from <= i  BY <1>1, <1>2 DEF RangeStands
<1>6. PICK members : members = {i \in view : log[i].turn \in History!Touched(c, view)}  OBVIOUS
<1>7. ASSUME NEW i \in members PROVE i \in History!Main /\ i <= to
  <2>1. i \in view /\ log[i].turn \in History!Touched(c, view)  BY <1>6
  <2>2. PICK j \in view \intersect History!Asked(c) : log[j].turn = log[i].turn /\ log[i].turn # 0
    BY <2>1 DEF History!Touched, History!NoTurn
  <2>3. j <= to /\ j \in History!Main  BY <1>2, <1>3, <1>4, <2>2 DEF History!Asked
  <2> QED BY <1>2, <2>1, <2>2, <2>3 DEF RangeStands
<1>8. \A i \in members : i \in Nat /\ from <= i /\ i <= to  BY <1>4, <1>5, <1>7
<1>9. PICK low : low = {from} \union members  OBVIOUS
<1>10. PICK high : high = {to} \union members  OBVIOUS
<1>11. History!Min(low) \in low  BY <1>3, <1>8, <1>9, LeastIs
<1>12. History!Max(high) \in high
  <2>1. high \subseteq 0..to  BY <1>3, <1>8, <1>10
  <2> QED BY <1>3, <1>10, <2>1, GreatestIs
<1>13. History!Min(low) \in Nat /\ from <= History!Min(low) /\ History!Max(high) \in Nat /\ History!Max(high) <= to
  BY <1>3, <1>8, <1>9, <1>10, <1>11, <1>12
<1>14. History!Snap(c, view) = History!Min(low)..History!Max(high)
  BY <1>1, <1>2, <1>6, <1>9, <1>10 DEF History!Snap
<1>15. History!Snap(c, view) \subseteq from..to  BY <1>3, <1>13, <1>14
<1> QED BY <1>1, <1>2, <1>15 DEF History!Inside, History!Asked

\* A turn reads itself.
LEMMA ReadsItself == ASSUME PartsAssumption, HistoryInv PROVE History!TurnReadsItself
<1> SUFFICES ASSUME ~ overlapped, \A c \in DOMAIN made : made[c].keep > 0, NEW t \in History!Running
    PROVE  /\ \A full \in BOOLEAN :
                {i \in History!Of(t) : log[i].kind # "result"} \subseteq History!Read(t, full)
           /\ ToolResultsKept > 0 /\ History!Of(t) # {} /\ log[History!Max(History!Of(t))].kind = "result"
                => History!Max(History!Of(t)) \in History!Read(t, TRUE)
           /\ \A c \in History!Shown(History!View(t)) :
                History!Inside(c, History!View(t)) \subseteq History!Asked(c)
  BY DEF History!TurnReadsItself
<1>1. PICK view : view = History!View(t)  OBVIOUS
<1>2. t \in History!Turn /\ t \in History!Live /\ t \in Nat /\ t # 0 /\ stage[t] = "running"
  BY PartsAssumption DEF History!Running, History!Live, History!Turn, History!TranscriptAssumption
<1>3. OneAtATime  BY DEF HistoryInv
<1>4. \A c \in DOMAIN made : RangeStands(c)  BY <1>3 DEF OneAtATime
<1>5. view \subseteq History!Main  BY <1>1 DEF History!View
<1>6. \A c \in DOMAIN made : History!Inside(c, view) \subseteq History!Asked(c)
  BY <1>4, <1>5, SnapIsAsked
<1>7. \A c \in History!Shown(view) : c \in DOMAIN made  BY DEF History!Shown
<1>8. PICK n : n = Len(log)  OBVIOUS
<1>9. n \in Nat /\ DOMAIN log = 1..n /\ History!Main \subseteq 1..n
  BY <1>8 DEF HistoryInv, History!TypeOK, History!Main
<1>10. \A i \in History!Of(t) : i \in History!Main /\ log[i].turn = t  BY DEF History!Of
<1>14. \A i \in History!Main : i \in Nat /\ i \in 0..n
  <2>1. \A i \in 1..n : i \in Nat /\ i \in 0..n  BY <1>9
  <2> QED BY <1>9, <2>1
<1>11. ASSUME NEW i \in History!Of(t) PROVE i \in History!Verbatim(t)
  <2>1. i \in view
    <3>1. stop[t] # "rollback"  BY <1>2, <1>3 DEF OneAtATime
    <3> QED BY <1>1, <1>10, <3>1 DEF History!View
  <2>2. ASSUME NEW d \in DOMAIN made PROVE i \notin History!Inside(d, view)
    <3>1. made[d].to < i  BY <1>2, <1>4, <1>10 DEF RangeStands
    <3>2. made[d].to \in Nat /\ i \in Nat /\ made[d].from \in Nat  BY <1>10, <1>14, ItemsAre DEF HistoryInv
    <3>3. i \notin History!Asked(d)  BY <3>1, <3>2 DEF History!Asked
    <3> QED BY <1>6, <3>3
  <2>3. PICK k : k = Len(made)  OBVIOUS
  <2>4. k \in Nat /\ DOMAIN made = 1..k  BY <2>3 DEF HistoryInv, History!TypeOK
  <2>5. \A c \in 1..k + 1 : i \in History!Covered(view)[c] <=>
           \E d \in c..k : d \in History!Shown(view) /\ i \in History!Inside(d, view)
    BY <2>3, CoveredIsShown DEF HistoryInv
  <2>6. 1 \in 1..k + 1  BY <2>4
  <2>7. i \notin History!Covered(view)[1]  BY <1>7, <2>2, <2>5, <2>6
  <2> QED BY <1>1, <2>1, <2>7 DEF History!Verbatim
<1>12. ASSUME NEW full \in BOOLEAN, NEW i \in History!Of(t), log[i].kind # "result"
       PROVE  i \in History!Read(t, full)
  <2>1. i \in History!Verbatim(t)  BY <1>11
  <2> QED BY <1>12, <2>1 DEF History!Read, History!Reclaimed
<1>13. ASSUME ToolResultsKept > 0, History!Of(t) # {},
              log[History!Max(History!Of(t))].kind = "result"
       PROVE  History!Max(History!Of(t)) \in History!Read(t, TRUE)
  <2>1. PICK last : last = History!Max(History!Of(t))  OBVIOUS
  <2>2. History!Of(t) \subseteq 0..n  BY <1>10, <1>14
  <2>3. last \in History!Of(t) /\ \A i \in History!Of(t) : i <= last  BY <1>9, <1>13, <2>1, <2>2, GreatestIs
  <2>4. last \in History!Verbatim(t)  BY <1>11, <2>3
  <2>5. PICK results : results = {i \in History!Verbatim(t) : log[i].kind = "result"}  OBVIOUS
  <2>6. ASSUME NEW j \in results, j > last PROVE FALSE
    <3>1. j \in view /\ j \in History!Main /\ last \in History!Main /\ log[last].turn = t
      BY <1>1, <1>5, <1>10, <2>3, <2>5 DEF History!Verbatim
    <3>2. PICK u : u = log[j].turn  OBVIOUS
    <3>3. j \in Nat /\ last \in Nat /\ j \in DOMAIN log  BY <1>9, <3>1
    <3>4. u \in History!Turn \union {0}  BY <3>2, <3>3, ItemsAre DEF HistoryInv
    <3>5. u \in Nat  BY <3>4, PartsAssumption DEF History!Turn, History!TranscriptAssumption
    <3>6. t <= u  BY <1>3, <2>6, <3>1, <3>2, <3>3 DEF OneAtATime
    <3>7. u # 0 /\ u \in History!Turn  BY <1>2, <3>4, <3>5, <3>6
    <3>8. u # t
      <4>1. ~ (j <= last)  BY <2>6, <3>3
      <4> QED BY <2>3, <3>1, <3>2, <4>1 DEF History!Of
    <3>9. stage[u] # "none"  BY <3>2, <3>3, <3>7 DEF HistoryInv, TurnsAreOpened
    <3>10. u < t  BY <1>2, <1>3, <3>7, <3>8, <3>9 DEF OneAtATime
    <3> QED BY <1>2, <3>5, <3>6, <3>10
  <2>7. PICK later : later = {j \in results : j > last}  OBVIOUS
  <2>8. History!Cardinality(later) = 0
    <3>1. later = {}  BY <2>6, <2>7
    <3>2. Cardinality({}) = 0  BY FS_EmptySet
    <3> QED BY <3>1, <3>2 DEF History!Cardinality, Cardinality
  <2>9. History!Cardinality(later) < ToolResultsKept  BY <1>13, <2>8
  <2>10. last \in History!Reclaimed(History!Verbatim(t))
    BY <2>4, <2>5, <2>7, <2>9 DEF History!Reclaimed
  <2> QED BY <2>1, <2>10 DEF History!Read
<1> QED BY <1>1, <1>6, <1>7, <1>12, <1>13

-----------------------------------------------------------------------------
(* The theorems. *)

\* The pump finds a message for every turn after the first, and a turn that resumes a session
\* comes after the one that told it the brief, whichever copies of a row were written over one
\* another, and however the bridge restarts (_pump, _settle, message, cancel).
THEOREM CoderTellsInOrder == Spec => []TurnsAreTold
<1>1. Init => CoderInv  BY CoderStarted DEF Init
<1>2. CoderInv /\ [Next]_vars => CoderInv'  BY CoderStep, CoderRests DEF Next, vars
<1>3. CoderInv => TurnsAreTold  BY DEF CoderInv, TurnsAreTold
<1> QED BY <1>1, <1>2, <1>3, PTL DEF Spec

\* However often a file is sent while the reply to it is kept, one row of it is made, and the
\* bytes of a committed row are all there unless a call that was to remove them has: scripts of
\* several statements that commit together, calls that fail or die between them, bytes written
\* before the rows are committed, and replies that expire (Blobs, SessionStore.idempotent).
THEOREM FilesAreKept == Spec => []UploadsAreKept
<1>1. Init => FilesInv  BY FilesStarted DEF Init
<1>2. FilesInv /\ [Next]_vars => FilesInv'
  BY FilesStep, FilesRests, PartsAssumption DEF Next, vars
<1>3. FilesInv => UploadsAreKept  BY DEF FilesInv
<1> QED BY <1>1, <1>2, <1>3, PTL DEF Spec

\* An answer is what one provider sent, and finished unless it is a chat stream; it is told as
\* it was sent, with the note of the fallback in front if it is the second one's; and the second
\* is asked only after the first was too busy, failed on its side or was lost
\* (turn/loop.py _ask and _mark_fallback, model/wire.py check_status, the readers of model/).
THEOREM AnswerIsOneProviders == Spec => []AnswerIsOnes
<1>1. Init => ModelInv  BY ModelStarted, PartsAssumption DEF Init
<1>2. ModelInv /\ [Next]_vars => ModelInv'  BY ModelStep, ModelRests DEF Next, vars
<1>3. ModelInv => AnswerIsOnes  BY DEF ModelInv
<1> QED BY <1>1, <1>2, <1>3, PTL DEF Spec

\* What is fitted into a prompt loses what matters least first, says so, and fits: whatever
\* the sections cost, the sources answer and the ceiling is (the ladder and the allocator).
THEOREM LeastIsGivenUp == Spec => []LeastGoesFirst
<1>1. Init => WindowInv  BY WindowStarted, PartsAssumption DEF Init
<1>2. WindowInv /\ [Next]_vars => WindowInv'
  BY WindowStep, WindowRests, PartsAssumption DEF Next, vars
<1>3. WindowInv => LeastGoesFirst  BY LeastHasGone, PartsAssumption
<1> QED BY <1>1, <1>2, <1>3, PTL DEF Spec

\* A call that needs a yes of its own runs at most once for each yes it was given, through any
\* number of plans, cards, answers, grants, replays and crashes; and the plan of the approved
\* calls reads only from its own steps and holds none refused, until a setting was changed and
\* an approved call had to be held (gate, approvals, replay, reopen).
THEOREM ApprovedRunsOnce == Spec => []RunsWhatWasApproved
<1>1. Init => GateInv  BY GateStarted, PartsAssumption DEF Init
<1>2. GateInv /\ [Next]_vars => GateInv'
  <2>1. ASSUME GateInv, UNCHANGED gate PROVE GateInv'  BY <2>1, GateRests DEF gate
  <2> QED BY <2>1, GateStep, PartsAssumption DEF Next, vars
<1>3. GateInv => RunsWhatWasApproved  BY GateKeepsItsWord, PartsAssumption
<1> QED BY <1>1, <1>2, <1>3, PTL DEF Spec

\* Everything a turn may read is read once, in full or behind one summary, however summaries
\* were made, undone and made again; and while nobody talks over a turn, and every summary was
\* to keep one, a turn reads all it was asked and has said and the newest of its results, and a
\* summary stands only for what it was written from (projection, compact, ladder).
THEOREM HistoryIsRead == Spec => []HistoryIsTold
<1>1. Init => HistoryInv  BY HistoryStarted, PartsAssumption DEF Init
<1>2. HistoryInv /\ [Next]_vars => HistoryInv'
  <2>1. ASSUME HistoryInv, UNCHANGED history PROVE HistoryInv'  BY <2>1, HistoryRests
  <2> QED BY <2>1, HistoryStep, PartsAssumption DEF Next, vars
<1>3. HistoryInv => HistoryIsTold
  BY ReadOnceIs, ReadsItself, PartsAssumption DEF HistoryInv, HistoryIsTold, History!HistoryIsTold
<1> QED BY <1>1, <1>2, <1>3, PTL DEF Spec
=============================================================================
