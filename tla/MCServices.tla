------------------------------ MODULE MCServices ------------------------------
(***************************************************************************)
(* The parts around a conversation that share no state, side by side for   *)
(* TLC: each behaviour is one of one part, and the others stay as they     *)
(* began. EventStream is extended; a variable of another part has the name *)
(* its module gives it, unless that is taken.                              *)
(***************************************************************************)
EXTENDS EventStream

CONSTANTS
  MaxIterations, MaxToolCalls, MaxRepairs, MaxSteps, MaxItems, Resumes, HasFallback,
  Actor, Pack, Catalogues, Free, First, DeferAbove, KeepRecent, Habits, Suggestions, MaxPlans,
  Session, Reader, Ttl, Known, Ceiling, MaxTime, MaxChanges,
  Call, Audience, MaxEntries, RetryAttempts,
  Approver, Poll, Lifetime, MaxDrops,
  Field, Behaviour, Patches, NumTurns, MaxPatches,
  help, notes, music, repos

\* Binding: what is bound first when nothing was used, and one profile's habits.
Preferred == [p \in {help, notes, music, repos} |->
                CASE p = help -> 4 [] p = notes -> 1 [] p = music -> 2 [] p = repos -> 3]
ReposThenMusic == {<<repos, music>>}

VARIABLES
  part,  \* the part this behaviour is of
  step, reply, spent, repairs, heldBack, warned, worked, cancelled, items, spoken, read, end,
  uses, place, ready, suggested, plan, binds, lacked, plans,
  now, connection, was, changes, cache, reader, ticket, route,
  keys, tokens, call,
  clock, code, given, client, wire, dropped, decided,
  set, held, status, tail, patch, answered, overtaken

Loop == INSTANCE TurnLoop WITH at <- step
Binding == INSTANCE Binding
Probes == INSTANCE Probes
Exchange == INSTANCE Calls WITH cache <- tokens
SignIn == INSTANCE SignIn WITH now <- clock
Settings == INSTANCE SessionChanges WITH last <- answered, Changes <- Patches

ASSUME ServicesAssumption ==
  /\ Loop!TurnLoopAssumption /\ Binding!BindingAssumption /\ Probes!ProbesAssumption
  /\ Exchange!CallsAssumption /\ SignIn!SignInAssumption /\ Settings!ChangesAssumption

loop == <<step, reply, spent, repairs, heldBack, warned, worked, cancelled, items, spoken, read, end>>
binding == <<uses, place, ready, suggested, plan, binds, lacked, plans>>
probes == <<now, connection, was, changes, cache, reader, ticket, route>>
calls == <<keys, tokens, call>>
signIn == <<clock, code, given, client, wire, dropped, decided>>
settings == <<set, held, status, tail, patch, answered, overtaken>>
partsVars == <<vars, loop, binding, probes, calls, signIn, settings, part>>

PartsInit ==
  /\ part \in {"stream", "loop", "binding", "probes", "calls", "sign-in", "settings"}
  /\ Init /\ Loop!Init /\ Binding!Init /\ Probes!Init /\ Exchange!Init /\ SignIn!Init
  /\ Settings!Init
  /\ part # "probes" => connection = "ready"

PartsNext ==
  /\ UNCHANGED part
  /\ \/ part = "stream" /\ Next /\ UNCHANGED <<loop, binding, probes, calls, signIn, settings>>
     \/ part = "loop" /\ Loop!Next /\ UNCHANGED <<vars, binding, probes, calls, signIn, settings>>
     \/ part = "binding" /\ Binding!Next /\ UNCHANGED <<vars, loop, probes, calls, signIn, settings>>
     \/ part = "probes" /\ Probes!Next /\ UNCHANGED <<vars, loop, binding, calls, signIn, settings>>
     \/ part = "calls" /\ Exchange!Next /\ UNCHANGED <<vars, loop, binding, probes, signIn, settings>>
     \/ part = "sign-in" /\ SignIn!Next /\ UNCHANGED <<vars, loop, binding, probes, calls, settings>>
     \/ part = "settings" /\ Settings!Next /\ UNCHANGED <<vars, loop, binding, probes, calls, signIn>>

\* The parts that do not move have nothing in their initial states that fairness is about.
PartsSpec ==
  /\ PartsInit /\ [][PartsNext]_partsVars
  /\ Fairness /\ WF_loop(part = "loop" /\ Loop!Next)

-----------------------------------------------------------------------------
\* What each part promises, in its module's words.

\* A turn that says it succeeded ends with the model's words, or with the note of a fallback
\* whose model wrote none; and what is written beside a plan is only said when it ran.
SaysWhatItDid == Loop!NoSilentSuccess /\ Loop!NothingSaidThatDidNotRun
\* Every turn ends.
EndsInTheEnd == part = "loop" => Loop!EndsInTheEnd
\* A plan that lacks one capability has it by the next time it is sent.
OneReachIsEnough == Binding!OneReachIsEnough
\* What a reader is given of a service was true lately, whatever was dropped meanwhile.
GivenIsRecent == Probes!GivenIsRecent
\* Work is done twice only where that is harmless, and a call is refused for good only if
\* the keys changed under it.
CallIsAnsweredFairly == Exchange!CallIsAnsweredFairly
\* A sign-in is handed over once, and is its approver's.
ApprovedIsHandedOnce == SignIn!ApprovedIsHandedOnce
\* The last answered change to a setting is in force or held.
LastWordIsKept == Settings!LastWordIsKept
=============================================================================
