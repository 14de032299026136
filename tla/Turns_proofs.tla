---------------------------- MODULE Turns_proofs ----------------------------
(***************************************************************************)
(* The safety of Turns for every number of sessions, turns, slots, cards,  *)
(* parks and restarts, whether or not tasks raise and clients retry, and   *)
(* the proof that its rows implement TurnLifecycle.                        *)
(***************************************************************************)
EXTENDS Turns, TLAPS

\* A run that opens cards has one left to open, and its row moved at most by the park
\* itself or by a cancel.
ParkingHolds ==
  \A t \in Turn : phase[t] = "parking" =>
    cards[t] > 0 /\ status[t] \in {"running", "input_required", "cancelled"}

\* Only a claimer whose transaction has committed holds an answer.
AnswerIsFresh == answer # NoTurn => claimer = "answered"

\* What ties rows to tasks. None of the three invariants among them is inductive alone:
\* a turn the claim may take is queued, so by LoopHoldsItsRow and ParkingHolds no run of
\* its task is left; and by AnswerIsFresh no earlier answer is overwritten.
Held ==
  /\ LoopHoldsItsRow
  /\ RunningTurnHasItsTask
  /\ ClaimedTurnIsFree
  /\ ParkingHolds
  /\ AnswerIsFresh

\* The inductive invariant.
IInv ==
  /\ TypeOK /\ Held /\ OneRunningPerSession /\ ParkedTurnHasAQuestion
  /\ SpinnerHonest /\ QueuedTurnKeepsItsAuthority

-----------------------------------------------------------------------------
\* The initial state has the right shape.
LEMMA InitTypeOK == Init => TypeOK
<1> SUFFICES ASSUME Init PROVE TypeOK
  OBVIOUS
<1> USE TurnsAssumption DEF Init
<1>1. woken \in BOOLEAN
  OBVIOUS
<1>2. cards \in [Turn -> 0..MaxCards]
  OBVIOUS
<1>3. answer \in Turn \union {NoTurn} /\ registered \subseteq Turn /\ broken \subseteq Turn
  OBVIOUS
<1>4. phase \in [Turn -> Phase] /\ status \in [Turn -> {"absent"} \union LiveStatus \union Terminal]
  BY DEF Phase
<1> QED
  BY <1>1, <1>2, <1>3, <1>4 DEF TypeOK

\* Every step keeps the shape of every variable.
LEMMA TypeOKStep == ASSUME TypeOK, ParkingHolds, [Next]_vars PROVE TypeOK'
<1> USE TurnsAssumption DEF TypeOK
<1>1. ASSUME NEW s \in Session, NEW t \in Turn, Submit(s, t) PROVE TypeOK'
  BY <1>1 DEF Submit, IsNext, Authorize, claiming, tasks, LiveStatus
<1>2. ASSUME NEW s \in Session, NEW t \in Turn, NEW u \in Turn, Interrupt(s, t, u) PROVE TypeOK'
  BY <1>2 DEF Interrupt, IsNext, Authorize, LastLive, claiming, tasks, LiveStatus, Terminal
<1>3. ASSUME NEW t \in Turn, Retry(t) PROVE TypeOK'
  BY <1>3 DEF Retry, Authorize, rows, claiming, tasks
<1>4. ASSUME NEW t \in Turn, Answer(t) PROVE TypeOK'
  BY <1>4 DEF Answer, Authorize, LastCard, claiming, tasks, LiveStatus
<1>5. ASSUME NEW t \in Turn, CancelTurn(t) PROVE TypeOK'
  BY <1>5 DEF CancelTurn, NothingInFlight, LastLive, claiming, tasks, Terminal
<1>6. ASSUME NEW t \in Turn, RouteWakes(t) PROVE TypeOK'
  BY <1>6 DEF RouteWakes, Wake, rows, tasks
<1>7. CASE ClaimStart
  BY <1>7 DEF ClaimStart, LoopAgain, rows, tasks, requests
<1>8. CASE ClaimCommit
  BY <1>8 DEF ClaimCommit, Runnable, Oldest, tasks, requests, LiveStatus
<1>9. CASE ClaimResume
  BY <1>9 DEF ClaimResume, LoopAgain, rows, requests, Phase, LoopPhase
<1>10. CASE ClaimBreaks
  BY <1>10 DEF ClaimBreaks, rows, tasks, requests
<1>11. ASSUME NEW t \in Turn, RunStarts(t) PROVE TypeOK'
  BY <1>11 DEF RunStarts, GoTo, rows, claiming, Phase, LoopPhase
<1>12. ASSUME NEW t \in Turn, Round(t) PROVE TypeOK'
  BY <1>12 DEF Round, GoTo, rows, claiming, requests, Phase, LoopPhase
<1>13. ASSUME NEW t \in Turn, ExecEnds(t) PROVE TypeOK'
  BY <1>13 DEF ExecEnds, CardCount, GoTo, rows, claiming, requests, Phase, LoopPhase
<1>14. ASSUME NEW t \in Turn, OpenCard(t) PROVE TypeOK'
  <2>1. cards' \in [Turn -> 0..MaxCards]
    BY <1>14 DEF OpenCard, ParkingHolds
  <2>3. /\ pending' \in [Turn -> Nat] /\ parks' \in [Turn -> Nat] /\ tails' \in [Turn -> Nat]
    BY <1>14 DEF OpenCard, Leave
  <2>2. /\ status' \in [Turn -> {"absent"} \union LiveStatus \union Terminal]
        /\ sessionStatus' \in [Session -> {"idle"} \union LiveStatus]
        /\ phase' \in [Turn -> Phase]
    BY <1>14 DEF OpenCard, Leave, GoTo, Phase, LiveStatus
  <2> QED
    BY <1>14, <2>3, <2>1, <2>2 DEF OpenCard, claiming, requests
<1>15. ASSUME NEW t \in Turn, NEW how \in Terminal, Finish(t, how) PROVE TypeOK'
  <2>1. /\ tails' \in [Turn -> Nat]
        /\ status' \in [Turn -> {"absent"} \union LiveStatus \union Terminal]
        /\ sessionStatus' \in [Session -> {"idle"} \union LiveStatus]
        /\ phase' \in [Turn -> Phase]
    BY <1>15 DEF Finish, Leave, GoTo, Phase, LiveStatus
  <2> QED
    BY <1>15, <2>1 DEF Finish, claiming, requests
<1>16. ASSUME NEW t \in Turn, TaskExit(t) PROVE TypeOK'
  <2>1. tails' \in [Turn -> Nat]
    BY <1>16 DEF TaskExit
  <2>2. registered' \subseteq Turn
    BY <1>16 DEF TaskExit
  <2> QED
    BY <1>16, <2>1, <2>2 DEF TaskExit, Wake, rows, requests
<1>17. ASSUME NEW t \in Turn, TaskBreaks(t) PROVE TypeOK'
  BY <1>17 DEF TaskBreaks, Leave, GoTo, rows, claiming, requests, Phase
<1>18. CASE Restart
  <2>1. sessionStatus' \in [Session -> {"idle"} \union LiveStatus]
    BY <1>18 DEF Restart, LiveStatus
  <2>2. status' \in [Turn -> {"absent"} \union LiveStatus \union Terminal]
    BY <1>18 DEF Restart, Terminal
  <2> QED
    <3>1. cards' \in [Turn -> 0..MaxCards] /\ tails' \in [Turn -> Nat]
      BY <1>18 DEF Restart
    <3>2. phase' \in [Turn -> Phase]
      BY <1>18 DEF Restart, Phase
    <3>3. /\ home' \in [Turn -> Session \union {NoSession}] /\ cancel' \subseteq Turn
          /\ pending' \in [Turn -> Nat] /\ parks' \in [Turn -> Nat]
      BY <1>18 DEF Restart
    <3>4. /\ claimer' \in {"off", "ready", "asking", "answered"} /\ answer' \in Turn \union {NoTurn}
          /\ restarts' \in Nat
      BY <1>18 DEF Restart
    <3>6. woken' \in BOOLEAN
      BY <1>18 DEF Restart
    <3>5. /\ registered' \subseteq Turn /\ broken' \subseteq Turn
          /\ prepared' \subseteq Turn /\ unwoken' \subseteq Turn
      BY <1>18 DEF Restart
    <3> QED
      BY <2>1, <2>2, <3>1, <3>2, <3>3, <3>4, <3>5, <3>6
<1>19. CASE UNCHANGED vars
  BY <1>19 DEF vars, rows, claiming, tasks, requests
<1> QED
  BY <1>1, <1>2, <1>3, <1>4, <1>5, <1>6, <1>7, <1>8, <1>9, <1>10, <1>11, <1>12, <1>13,
     <1>14, <1>15, <1>16, <1>17, <1>18, <1>19 DEF Next, Person, Claimer, RunStep

\* Every step keeps rows, tasks and the claimer's answer together.
LEMMA HeldStep == ASSUME TypeOK, Held, [Next]_vars PROVE Held'
<1> USE TurnsAssumption DEF TypeOK, Held, LoopHoldsItsRow, RunningTurnHasItsTask,
    ClaimedTurnIsFree, ParkingHolds, AnswerIsFresh, LoopPhase, NoTurn
<1>1. ASSUME NEW s \in Session, NEW t \in Turn, Submit(s, t) PROVE Held'
  BY <1>1 DEF Submit, IsNext, claiming, tasks
<1>2. ASSUME NEW s \in Session, NEW t \in Turn, NEW u \in Turn, Interrupt(s, t, u) PROVE Held'
  BY <1>2 DEF Interrupt, IsNext, LiveIn, LiveStatus, claiming, tasks
<1>3. ASSUME NEW t \in Turn, Retry(t) PROVE Held'
  BY <1>3 DEF Retry, rows, claiming, tasks
<1>4. ASSUME NEW t \in Turn, Answer(t) PROVE Held'
  BY <1>4 DEF Answer, claiming, tasks
<1>5. ASSUME NEW t \in Turn, CancelTurn(t) PROVE Held'
  BY <1>5 DEF CancelTurn, NothingInFlight, claiming, tasks
<1>6. ASSUME NEW t \in Turn, RouteWakes(t) PROVE Held'
  BY <1>6 DEF RouteWakes, Wake, rows, tasks
<1>7. CASE ClaimStart
  BY <1>7 DEF ClaimStart, LoopAgain, rows, tasks, requests
<1>8. CASE ClaimCommit
  <2>1. CASE answer' = NoTurn /\ UNCHANGED status
    BY <1>8, <2>1 DEF ClaimCommit, tasks, requests
  <2>2. ASSUME NEW t \in Runnable, answer' = t, status' = [status EXCEPT ![t] = "running"]
        PROVE Held'
    <3>1. t \in Turn /\ status[t] = "queued"
      BY DEF Runnable
    <3>2. phase[t] = "none"
      BY <3>1 DEF Phase
    <3> QED
      <4>1. answer = NoTurn
        BY <1>8 DEF ClaimCommit
      <4>2. ClaimedTurnIsFree' /\ AnswerIsFresh'
        BY <1>8, <2>2, <3>1, <3>2 DEF ClaimCommit, tasks
      <4>3. LoopHoldsItsRow' /\ ParkingHolds'
        BY <1>8, <2>2, <3>1, <3>2 DEF ClaimCommit, tasks
      <4>4. RunningTurnHasItsTask'
        BY <1>8, <2>2, <3>1, <4>1 DEF ClaimCommit, tasks, Turn
      <4> QED
        BY <4>2, <4>3, <4>4
  <2> QED
    BY <1>8, <2>1, <2>2 DEF ClaimCommit
<1>9. CASE ClaimResume
  BY <1>9 DEF ClaimResume, LoopAgain, rows, requests
<1>10. CASE ClaimBreaks
  BY <1>10 DEF ClaimBreaks, rows, tasks, requests
<1>11. ASSUME NEW t \in Turn, RunStarts(t) PROVE Held'
  BY <1>11 DEF RunStarts, GoTo, rows, claiming
<1>12. ASSUME NEW t \in Turn, Round(t) PROVE Held'
  BY <1>12 DEF Round, GoTo, rows, claiming, requests
<1>13. ASSUME NEW t \in Turn, ExecEnds(t) PROVE Held'
  BY <1>13 DEF ExecEnds, CardCount, GoTo, rows, claiming, requests
<1>14. ASSUME NEW t \in Turn, OpenCard(t) PROVE Held'
  BY <1>14 DEF OpenCard, Parkable, Leave, GoTo, claiming, requests
<1>15. ASSUME NEW t \in Turn, NEW how \in Terminal, Finish(t, how) PROVE Held'
  BY <1>15 DEF Finish, Unfinished, Leave, GoTo, claiming, requests, Terminal
<1>16. ASSUME NEW t \in Turn, TaskExit(t) PROVE Held'
  BY <1>16 DEF TaskExit, Wake, rows, requests
<1>17. ASSUME NEW t \in Turn, TaskBreaks(t) PROVE Held'
  BY <1>17 DEF TaskBreaks, Leave, GoTo, rows, claiming, requests
<1>18. CASE Restart
  BY <1>18 DEF Restart, Abandoned
<1>19. CASE UNCHANGED vars
  BY <1>19 DEF vars, rows, claiming, tasks, requests
<1> QED
  BY <1>1, <1>2, <1>3, <1>4, <1>5, <1>6, <1>7, <1>8, <1>9, <1>10, <1>11, <1>12, <1>13,
     <1>14, <1>15, <1>16, <1>17, <1>18, <1>19 DEF Next, Person, Claimer, RunStep

\* Only these steps write a row.
LEMMA RowWriters ==
  ASSUME [Next]_vars
  PROVE  \/ \E s \in Session, t \in Turn : Submit(s, t) \/ \E u \in Turn : Interrupt(s, t, u)
         \/ \E t \in Turn : Answer(t) \/ CancelTurn(t) \/ OpenCard(t)
         \/ \E t \in Turn, how \in Terminal : Finish(t, how)
         \/ ClaimCommit \/ Restart \/ UNCHANGED rows
  BY DEF Next, Person, Claimer, RunStep, vars, Retry, RouteWakes, ClaimStart, ClaimResume,
     ClaimBreaks, RunStarts, Round, ExecEnds, TaskExit, TaskBreaks

\* Claiming is the only step that makes a turn running, and it takes none from a session
\* that has one.
LEMMA OneRunningStep ==
  ASSUME TypeOK, OneRunningPerSession, [Next]_vars
  PROVE  OneRunningPerSession'
<1> USE DEF TypeOK, OneRunningPerSession
<1>1. ASSUME NEW s \in Session, NEW t \in Turn, Submit(s, t) PROVE OneRunningPerSession'
  BY <1>1 DEF Submit, IsNext
<1>2. ASSUME NEW s \in Session, NEW t \in Turn, NEW u \in Turn, Interrupt(s, t, u)
      PROVE OneRunningPerSession'
  BY <1>2 DEF Interrupt, IsNext
<1>3. ASSUME NEW t \in Turn, Answer(t) PROVE OneRunningPerSession'
  BY <1>3 DEF Answer
<1>4. ASSUME NEW t \in Turn, CancelTurn(t) PROVE OneRunningPerSession'
  BY <1>4 DEF CancelTurn
<1>5. CASE ClaimCommit
  <2>1. CASE UNCHANGED status
    BY <1>5, <2>1 DEF ClaimCommit
  <2>2. ASSUME NEW t \in Runnable, status' = [status EXCEPT ![t] = "running"]
        PROVE  OneRunningPerSession'
    <3>1. t \in Turn /\ \A u \in Turn : home[u] = home[t] => status[u] # "running"
      BY DEF Runnable
    <3> QED
      BY <1>5, <2>2, <3>1 DEF ClaimCommit
  <2> QED
    BY <1>5, <2>1, <2>2 DEF ClaimCommit
<1>6. ASSUME NEW t \in Turn, OpenCard(t) PROVE OneRunningPerSession'
  BY <1>6 DEF OpenCard
<1>7. ASSUME NEW t \in Turn, NEW how \in Terminal, Finish(t, how) PROVE OneRunningPerSession'
  BY <1>7 DEF Finish, Terminal
<1>8. CASE Restart
  BY <1>8 DEF Restart, Abandoned
<1>9. CASE UNCHANGED rows
  BY <1>9 DEF rows
<1> QED
  BY RowWriters, <1>1, <1>2, <1>3, <1>4, <1>5, <1>6, <1>7, <1>8, <1>9

\* A card is opened in the commit that parks the turn, and the answer to the last one
\* queues it.
LEMMA ParkedStep ==
  ASSUME TypeOK, ParkedTurnHasAQuestion, [Next]_vars
  PROVE  ParkedTurnHasAQuestion'
<1> USE DEF TypeOK, ParkedTurnHasAQuestion
<1>1. ASSUME NEW s \in Session, NEW t \in Turn, Submit(s, t) PROVE ParkedTurnHasAQuestion'
  BY <1>1 DEF Submit
<1>2. ASSUME NEW s \in Session, NEW t \in Turn, NEW u \in Turn, Interrupt(s, t, u)
      PROVE ParkedTurnHasAQuestion'
  BY <1>2 DEF Interrupt
<1>3. ASSUME NEW t \in Turn, Answer(t) PROVE ParkedTurnHasAQuestion'
  BY <1>3 DEF Answer, LastCard
<1>4. ASSUME NEW t \in Turn, CancelTurn(t) PROVE ParkedTurnHasAQuestion'
  BY <1>4 DEF CancelTurn
<1>5. CASE ClaimCommit
  BY <1>5 DEF ClaimCommit
<1>6. ASSUME NEW t \in Turn, OpenCard(t) PROVE ParkedTurnHasAQuestion'
  BY <1>6 DEF OpenCard
<1>7. ASSUME NEW t \in Turn, NEW how \in Terminal, Finish(t, how) PROVE ParkedTurnHasAQuestion'
  BY <1>7 DEF Finish, Terminal
<1>8. CASE Restart
  BY <1>8 DEF Restart
<1>9. CASE UNCHANGED rows
  BY <1>9 DEF rows
<1> QED
  BY RowWriters, <1>1, <1>2, <1>3, <1>4, <1>5, <1>6, <1>7, <1>8, <1>9

\* A terminal row is written by nobody: claims take queued rows, answers and cards take
\* parked or running ones, and the writes that end a turn look first.
LEMMA TerminalStep ==
  ASSUME TypeOK, [Next]_vars
  PROVE  \A v \in Turn : status[v] \in Terminal => status'[v] = status[v]
<1> USE DEF TypeOK, Terminal
<1>1. ASSUME NEW s \in Session, NEW t \in Turn, Submit(s, t), NEW v \in Turn, status[v] \in Terminal
      PROVE  status'[v] = status[v]
  BY <1>1 DEF Submit, IsNext
<1>2. ASSUME NEW s \in Session, NEW t \in Turn, NEW u \in Turn, Interrupt(s, t, u),
             NEW v \in Turn, status[v] \in Terminal
      PROVE  status'[v] = status[v]
  BY <1>2 DEF Interrupt, IsNext, LiveIn, LiveStatus
<1>3. ASSUME NEW t \in Turn, Answer(t) \/ CancelTurn(t) \/ OpenCard(t),
             NEW v \in Turn, status[v] \in Terminal
      PROVE  status'[v] = status[v]
  BY <1>3 DEF Answer, CancelTurn, OpenCard, NothingInFlight, Parkable
<1>4. ASSUME NEW t \in Turn, NEW how \in Terminal, Finish(t, how),
             NEW v \in Turn, status[v] \in Terminal
      PROVE  status'[v] = status[v]
  BY <1>4 DEF Finish, Unfinished
<1>5. ASSUME ClaimCommit, NEW v \in Turn, status[v] \in Terminal
      PROVE  status'[v] = status[v]
  <2>1. PICK t \in Runnable \union {NoTurn} :
          UNCHANGED status \/ (t \in Runnable /\ status' = [status EXCEPT ![t] = "running"])
    BY <1>5 DEF ClaimCommit
  <2>2. t \in Runnable => t \in Turn /\ status[t] = "queued"
    BY DEF Runnable
  <2> QED
    BY <1>5, <2>1, <2>2
<1>6. ASSUME Restart \/ UNCHANGED rows, NEW v \in Turn, status[v] \in Terminal
      PROVE  status'[v] = status[v]
  BY <1>6 DEF Restart, Abandoned, rows
<1> QED
  BY RowWriters, <1>1, <1>2, <1>3, <1>4, <1>5, <1>6

\* A session row is written with the row of the turn that makes it true: it says idle when
\* the last live turn leaves, or when the only running one ends with nothing queued.
LEMMA SpinnerStep ==
  ASSUME TypeOK, LoopHoldsItsRow, OneRunningPerSession, SpinnerHonest, [Next]_vars
  PROVE  SpinnerHonest'
<1> USE DEF TypeOK, SpinnerHonest, LiveIn, LiveStatus
<1>1. ASSUME NEW s \in Session, NEW t \in Turn, Submit(s, t) PROVE SpinnerHonest'
  BY <1>1 DEF Submit, IsNext
<1>2. ASSUME NEW s \in Session, NEW t \in Turn, NEW u \in Turn, Interrupt(s, t, u)
      PROVE SpinnerHonest'
  <2>1. status[t] = "absent" /\ u # t
    BY <1>2 DEF Interrupt, IsNext
  <2>2. status'[t] = "queued" /\ home'[t] = s /\ t \in LiveIn(s)'
    BY <1>2, <2>1 DEF Interrupt
  <2>3. ASSUME NEW r \in Session, r # s PROVE LiveIn(r)' = LiveIn(r)
    BY <1>2, <2>1, <2>3 DEF Interrupt
  <2>4. \A v \in Turn : status'[v] = "running" => status[v] = "running"
    BY <1>2, <2>1 DEF Interrupt
  <2>5. \A r \in Session : sessionStatus'[r] = sessionStatus[r] \/ (r = s /\ sessionStatus'[r] = "queued")
    BY <1>2 DEF Interrupt
  <2> QED
    BY <1>2, <2>1, <2>2, <2>3, <2>4, <2>5 DEF Interrupt
<1>3. ASSUME NEW t \in Turn, Answer(t) PROVE SpinnerHonest'
  BY <1>3 DEF Answer
<1>4. ASSUME NEW t \in Turn, CancelTurn(t) PROVE SpinnerHonest'
  BY <1>4 DEF CancelTurn, LastLive, NothingInFlight
<1>5. CASE ClaimCommit
  <2>1. CASE UNCHANGED <<status, sessionStatus>>
    BY <1>5, <2>1 DEF ClaimCommit
  <2>2. ASSUME NEW t \in Runnable, status' = [status EXCEPT ![t] = "running"],
               sessionStatus' = [sessionStatus EXCEPT ![home[t]] = "running"]
        PROVE  SpinnerHonest'
    BY <1>5, <2>2 DEF ClaimCommit, Runnable
  <2> QED
    BY <1>5, <2>1, <2>2 DEF ClaimCommit
<1>6. ASSUME NEW t \in Turn, OpenCard(t) PROVE SpinnerHonest'
  BY <1>6 DEF OpenCard, Parkable
<1>7. ASSUME NEW t \in Turn, NEW how \in Terminal, Finish(t, how) PROVE SpinnerHonest'
  <2>1. status[t] = "running"
    BY <1>7 DEF Finish, LoopHoldsItsRow, LoopPhase
  <2>2. \A u \in Turn : status[u] = "running" /\ home[u] = home[t] => u = t
    BY <2>1 DEF OneRunningPerSession
  <2> QED
    BY <1>7, <2>1, <2>2 DEF Finish, Unfinished, QueuedIn, Terminal
<1>8. CASE Restart
  BY <1>8 DEF Restart, Abandoned, QueuedIn
<1>9. CASE UNCHANGED rows
  BY <1>9 DEF rows
<1> QED
  BY RowWriters, <1>1, <1>2, <1>3, <1>4, <1>5, <1>6, <1>7, <1>8, <1>9

\* Authority is dropped by a cancel, which ends what was queued, and by the start of a run,
\* whose row says running; whatever queues a turn keeps authority for it.
LEMMA AuthorityStep ==
  ASSUME TypeOK, LoopHoldsItsRow, QueuedTurnKeepsItsAuthority, [Next]_vars
  PROVE  QueuedTurnKeepsItsAuthority'
<1> USE DEF TypeOK, QueuedTurnKeepsItsAuthority
<1>1. ASSUME NEW s \in Session, NEW t \in Turn, Submit(s, t) PROVE QueuedTurnKeepsItsAuthority'
  BY <1>1 DEF Submit, Authorize
<1>2. ASSUME NEW s \in Session, NEW t \in Turn, NEW u \in Turn, Interrupt(s, t, u)
      PROVE  QueuedTurnKeepsItsAuthority'
  BY <1>2 DEF Interrupt, Authorize
<1>3. ASSUME NEW t \in Turn, Retry(t) \/ Answer(t) PROVE QueuedTurnKeepsItsAuthority'
  BY <1>3 DEF Retry, Answer, Authorize, rows
<1>4. ASSUME NEW t \in Turn, CancelTurn(t) PROVE QueuedTurnKeepsItsAuthority'
  BY <1>4 DEF CancelTurn, NothingInFlight
<1>5. ASSUME NEW t \in Turn, RouteWakes(t) \/ TaskExit(t) \/ TaskBreaks(t)
      PROVE  QueuedTurnKeepsItsAuthority'
  BY <1>5 DEF RouteWakes, TaskExit, TaskBreaks, rows, requests
<1>6. CASE ClaimCommit
  <2>1. \A u \in Turn : status'[u] = "queued" => status[u] = "queued"
    BY <1>6 DEF ClaimCommit
  <2> QED
    BY <1>6, <2>1 DEF ClaimCommit, requests
<1>7. CASE ClaimStart \/ ClaimResume \/ ClaimBreaks
  BY <1>7 DEF ClaimStart, ClaimResume, ClaimBreaks, rows, requests
<1>8. ASSUME NEW t \in Turn, RunStarts(t) PROVE QueuedTurnKeepsItsAuthority'
  BY <1>8 DEF RunStarts, rows, LoopHoldsItsRow, LoopPhase
<1>9. ASSUME NEW t \in Turn, Round(t) \/ ExecEnds(t) PROVE QueuedTurnKeepsItsAuthority'
  BY <1>9 DEF Round, ExecEnds, rows, requests
<1>10. ASSUME NEW t \in Turn, OpenCard(t) PROVE QueuedTurnKeepsItsAuthority'
  BY <1>10 DEF OpenCard, requests
<1>11. ASSUME NEW t \in Turn, NEW how \in Terminal, Finish(t, how)
       PROVE  QueuedTurnKeepsItsAuthority'
  BY <1>11 DEF Finish, Terminal, requests
<1>12. CASE Restart
  BY <1>12 DEF Restart
<1>13. CASE UNCHANGED vars
  BY <1>13 DEF vars, rows, requests
<1> QED
  BY <1>1, <1>2, <1>3, <1>4, <1>5, <1>6, <1>7, <1>8, <1>9, <1>10, <1>11, <1>12, <1>13
     DEF Next, Person, Claimer, RunStep

-----------------------------------------------------------------------------
\* The inductive invariant holds of every behaviour.
THEOREM Invariance == Spec => []IInv
<1>1. Init => IInv
  BY InitTypeOK DEF Init, IInv, Held, LoopHoldsItsRow, RunningTurnHasItsTask, ClaimedTurnIsFree,
     ParkingHolds, AnswerIsFresh, OneRunningPerSession, ParkedTurnHasAQuestion, LoopPhase,
     SpinnerHonest, QueuedTurnKeepsItsAuthority, LiveIn
<1>2. IInv /\ [Next]_vars => IInv'
  BY TypeOKStep, HeldStep, OneRunningStep, ParkedStep, SpinnerStep, AuthorityStep DEF IInv, Held
<1> QED
  BY <1>1, <1>2, PTL DEF Spec

\* Every variable keeps its shape.
THEOREM TypeCorrect == Spec => []TypeOK
<1>1. IInv => TypeOK
  BY DEF IInv
<1> QED
  BY <1>1, Invariance, PTL

\* A conversation never has two running turns (sessions/sql_store.py, claim_next_turn).
THEOREM OneRunning == Spec => []OneRunningPerSession
<1>1. IInv => OneRunningPerSession
  BY DEF IInv
<1> QED
  BY <1>1, Invariance, PTL

\* No row is left running without a task, a claim under way, or a task that raised.
THEOREM NoOrphan == Spec => []RunningTurnHasItsTask
<1>1. IInv => RunningTurnHasItsTask
  BY DEF IInv, Held
<1> QED
  BY <1>1, Invariance, PTL

\* A loop only ever works on a turn whose row is running, and never twice on one turn.
THEOREM LoopExclusion == Spec => [](LoopHoldsItsRow /\ ClaimedTurnIsFree)
<1>1. IInv => LoopHoldsItsRow /\ ClaimedTurnIsFree
  BY DEF IInv, Held
<1> QED
  BY <1>1, Invariance, PTL

\* A parked turn always has a pending card to answer.
THEOREM ParkedIsAnswerable == Spec => []ParkedTurnHasAQuestion
<1>1. IInv => ParkedTurnHasAQuestion
  BY DEF IInv
<1> QED
  BY <1>1, Invariance, PTL

\* What a client's spinner is bound to is never idle beside a running turn, and does not
\* outlive the session's live turns.
THEOREM SpinnerIsHonest == Spec => []SpinnerHonest
<1>1. IInv => SpinnerHonest
  BY DEF IInv
<1> QED
  BY <1>1, Invariance, PTL

\* A turn queued by a request of this process has that request's authority until it runs.
THEOREM AuthorityIsKept == Spec => []QueuedTurnKeepsItsAuthority
<1>1. IInv => QueuedTurnKeepsItsAuthority
  BY DEF IInv
<1> QED
  BY <1>1, Invariance, PTL

\* "A terminal state is final" (sessions/turns.py).
THEOREM TerminalStays == Spec => TerminalIsFinal
<1>1. IInv /\ [Next]_vars => [\A t \in Turn : status[t] \in Terminal => status'[t] = status[t]]_vars
  BY TerminalStep DEF IInv
<1> QED
  BY <1>1, Invariance, PTL DEF Spec, TerminalIsFinal
-----------------------------------------------------------------------------
\* Every step of the rows is a step of the lifecycle, or none: a claim starts the oldest
\* queued turn of its session, a second card parks nothing, and what ends a turn without
\* a person is a run, which by LoopHoldsItsRow is the run of a running turn.
LEMMA LifecycleStep ==
  ASSUME TypeOK, LoopHoldsItsRow, [Next]_vars
  PROVE  [Lifecycle!Next]_(Lifecycle!vars)
<1> USE DEF TypeOK, Lifecycle!vars
<1>1. ASSUME NEW s \in Session, NEW t \in Turn, Submit(s, t) PROVE Lifecycle!Next
  <2>1. Lifecycle!Submit(s, t, {})
    BY <1>1 DEF Submit, IsNext, Lifecycle!Submit
  <2> QED
    BY <2>1 DEF Lifecycle!Next
<1>2. ASSUME NEW s \in Session, NEW t \in Turn, NEW u \in Turn, Interrupt(s, t, u)
      PROVE  Lifecycle!Next
  <2>1. status[t] = "absent" /\ home' = [home EXCEPT ![t] = s] /\ home[u] = s
    BY <1>2 DEF Interrupt, IsNext, LiveIn
  <2>2. CASE status[u] = "running" /\ status' = [status EXCEPT ![t] = "queued"]
    <3>1. Lifecycle!Submit(s, t, {})
      BY <2>1, <2>2 DEF Lifecycle!Submit
    <3> QED
      BY <3>1 DEF Lifecycle!Next
  <2>3. CASE /\ status[u] # "running"
             /\ status' = [status EXCEPT ![t] = "queued", ![u] = "cancelled"]
    <3>1. status[u] \in {"queued", "input_required"}
      BY <1>2, <2>3 DEF Interrupt, LiveIn, LiveStatus
    <3>2. Lifecycle!Submit(s, t, {u})
      BY <2>1, <2>3, <3>1 DEF Lifecycle!Submit
    <3> QED
      BY <3>2 DEF Lifecycle!Next
  <2> QED
    BY <1>2, <2>2, <2>3 DEF Interrupt
<1>3. ASSUME NEW t \in Turn, Answer(t) PROVE Lifecycle!Next \/ UNCHANGED Lifecycle!vars
  BY <1>3 DEF Answer, Lifecycle!Next, Lifecycle!Resume
<1>4. ASSUME NEW t \in Turn, CancelTurn(t) PROVE Lifecycle!Next \/ UNCHANGED Lifecycle!vars
  BY <1>4 DEF CancelTurn, NothingInFlight, Lifecycle!Next, Lifecycle!Stop
<1>5. CASE ClaimCommit
  <2>1. CASE UNCHANGED status
    BY <1>5, <2>1 DEF ClaimCommit
  <2>2. ASSUME NEW t \in Runnable, Oldest(t, Runnable),
               status' = [status EXCEPT ![t] = "running"]
        PROVE  Lifecycle!Next
    <3>1. /\ t \in Turn /\ status[t] = "queued"
          /\ \A u \in Turn : home[u] = home[t] => status[u] # "running"
      BY DEF Runnable
    <3>2. \A u \in Turn : home[u] = home[t] /\ status[u] = "queued" => t <= u
      BY <2>2, <3>1 DEF Runnable, Oldest
    <3>3. Lifecycle!Start(t)
      BY <1>5, <2>2, <3>1, <3>2 DEF ClaimCommit, Lifecycle!Start
    <3> QED
      BY <3>1, <3>3 DEF Lifecycle!Next
  <2> QED
    BY <1>5, <2>1, <2>2 DEF ClaimCommit
<1>6. ASSUME NEW t \in Turn, OpenCard(t) PROVE Lifecycle!Next \/ UNCHANGED Lifecycle!vars
  <2>1. CASE status[t] = "running" /\ status' = [status EXCEPT ![t] = "input_required"]
    BY <1>6, <2>1 DEF OpenCard, Lifecycle!Next, Lifecycle!Park
  <2>2. CASE status[t] = "input_required" /\ status' = [status EXCEPT ![t] = "input_required"]
    BY <1>6, <2>2 DEF OpenCard
  <2>3. CASE UNCHANGED status
    BY <1>6, <2>3 DEF OpenCard
  <2> QED
    BY <1>6, <2>1, <2>2, <2>3 DEF OpenCard, Parkable
<1>7. ASSUME NEW t \in Turn, NEW how \in Terminal, Finish(t, how) PROVE Lifecycle!Next
  <2>1. status[t] = "running"
    BY <1>7 DEF Finish, LoopHoldsItsRow, LoopPhase
  <2>2. Lifecycle!End(t, how)
    BY <1>7, <2>1 DEF Finish, Unfinished, Terminal, Lifecycle!End, Lifecycle!Terminal
  <2> QED
    BY <2>2 DEF Lifecycle!Next, Lifecycle!Terminal, Terminal
<1>8. CASE Restart
  <2>1. /\ status' = [t \in Turn |-> IF status[t] = "running" THEN "failed" ELSE status[t]]
        /\ UNCHANGED home
    BY <1>8 DEF Restart, Abandoned
  <2>2. CASE \E t \in Turn : status[t] = "running"
    BY <2>1, <2>2 DEF Lifecycle!Next, Lifecycle!Restart
  <2>3. CASE ~\E t \in Turn : status[t] = "running"
    BY <2>1, <2>3
  <2> QED
    BY <2>2, <2>3
<1>9. CASE UNCHANGED rows
  BY <1>9 DEF rows
<1> QED
  BY RowWriters, <1>1, <1>2, <1>3, <1>4, <1>5, <1>6, <1>7, <1>8, <1>9

\* What a client sees of a turn follows TurnLifecycle: turns of a conversation run one at
\* a time and in order, end once, and only a run, a person or a restart ends them.
THEOREM Refinement == Spec => ImplementsLifecycle
<1>1. Init => Lifecycle!Init
  BY DEF Init, Lifecycle!Init
<1>2. IInv /\ [Next]_vars => [Lifecycle!Next]_(Lifecycle!vars)
  BY LifecycleStep DEF IInv, Held
<1> QED
  BY <1>1, <1>2, Invariance, PTL DEF Spec, ImplementsLifecycle, Lifecycle!Spec
=============================================================================
