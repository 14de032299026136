------------------------------- MODULE Settings -------------------------------
(***************************************************************************)
(* A person's settings: what a turn is prepared with                       *)
(* (core/container.py prepare_turn, settings/policy.py, defaults.py) and   *)
(* what the model may change of them (packs/settings.py), over a service   *)
(* that keeps them and a client of it that caches what it read; both are   *)
(* external.                                                               *)
(*                                                                         *)
(* Each namespace has one setting here, known by how often it was changed. *)
(* "common" is merged into what is read of the others.                     *)
(***************************************************************************)
EXTENDS Naturals, FiniteSets

CONSTANTS
  MaxSets,      \* bound: changes the model plans
  MaxChanges    \* bound: changes the person makes elsewhere

SettingsAssumption == {MaxSets, MaxChanges} \subseteq Nat

Namespace == {"lucy", "memory", "common"}
Read == {"lucy", "memory"}
Access == {"never", "with_approval", "freely"}

VARIABLES
  stored,    \* namespace -> how often its setting was changed
  access,    \* what the memory service declares an assistant may do with its setting
  declared,  \* SettingsPack._declared: what a row said of it, or "unseen"
  cached,    \* what the client serves of a namespace without asking, or Unread
  turn,      \* the turn that is being prepared
  setting,   \* the change that is under way
  told,      \* history: namespace -> the last change the model was told was made
  yeses,     \* history: namespace -> the yeses of the person
  assisted,  \* history: namespace -> the changes the model made
  sets, changes, redeployed

vars == <<stored, access, declared, cached, turn, setting, told, yeses, assisted, sets, changes,
          redeployed>>
service == <<stored, access>>
history == <<told, yeses, assisted>>
counted == <<sets, changes, redeployed>>

\* What is read of a namespace: its own changes, and those of "common" under it.
Unread == [own |-> 0, common |-> 0, how |-> "unread"]
Merged(n) == [own |-> stored[n], common |-> stored["common"], how |-> "read"]
NoTurn == [at |-> "none", lucy |-> Unread, memory |-> Unread, owed |-> [n \in Namespace |-> 0]]
NoSetting == [at |-> "none", of |-> "lucy", yes |-> FALSE]

Init ==
  /\ stored = [n \in Namespace |-> 0] /\ access \in Access /\ declared = "unseen"
  /\ cached = [n \in Read |-> Unread]
  /\ turn = NoTurn /\ setting = NoSetting
  /\ told = stored /\ yeses = stored /\ assisted = stored
  /\ sets = 0 /\ changes = 0 /\ redeployed = FALSE

-----------------------------------------------------------------------------
(* Elsewhere. *)

\* The person changes a setting in their own settings, without the hub.
PersonChanges ==
  /\ changes < MaxChanges /\ changes' = changes + 1
  /\ \E n \in Namespace : stored' = [stored EXCEPT ![n] = @ + 1]
  /\ UNCHANGED <<access, declared, cached, turn, setting, history, sets, redeployed>>

\* The service comes back with another declaration.
Redeploys ==
  /\ ~ redeployed /\ redeployed' = TRUE /\ access' \in Access
  /\ UNCHANGED <<stored, declared, cached, turn, setting, history, sets, changes>>

\* The client caches for a minute.
Expires ==
  /\ \E n \in Read : cached' = [cached EXCEPT ![n] = Unread]
  /\ UNCHANGED <<service, declared, turn, setting, history, counted>>

-----------------------------------------------------------------------------
(* Preparing a turn. *)

\* A resolve: what is cached, what the service says, or no answer, which the client may make
\* up from the catalogue's defaults, refusing the settings that must not be guessed.
Resolves(n, into) ==
  \/ /\ cached[n] # Unread /\ turn' = [into EXCEPT ![n] = cached[n]]
     /\ UNCHANGED cached
  \/ /\ cached[n] = Unread /\ cached' = [cached EXCEPT ![n] = Merged(n)]
     /\ turn' = [into EXCEPT ![n] = Merged(n)]
  \/ /\ cached[n] = Unread /\ UNCHANGED cached
     /\ \E how \in {"refused", "unreadable"} : turn' = [into EXCEPT ![n].how = how]

\* TurnPolicy.blocks_turn.
Blocks(read) == read.how # "read"

Prepares ==
  /\ turn.at \in {"none", "blocked", "prepared"}
  /\ Resolves("lucy", [NoTurn EXCEPT !.at = "reading", !.owed = told])
  /\ UNCHANGED <<service, declared, setting, history, counted>>

\* A turn whose limits cannot be guessed is refused; a sibling's namespace that cannot be
\* read does not take the turn down.
ReadsTheRest ==
  /\ turn.at = "reading"
  /\ IF Blocks(turn.lucy) THEN turn' = [turn EXCEPT !.at = "blocked"] /\ UNCHANGED cached
     ELSE Resolves("memory", [turn EXCEPT !.at = "prepared"])
  /\ UNCHANGED <<service, declared, setting, history, counted>>

-----------------------------------------------------------------------------
(* Changing a setting. *)

\* Lucy's own settings are her own catalogue's to declare, whatever the service says. (Bound:
\* one of them, and one of "common", may be changed with approval.)
Answered(n, says) == IF n = "memory" THEN says ELSE "with_approval"

\* Every row that is read is remembered.
Describes ==
  /\ declared' = access
  /\ UNCHANGED <<service, cached, turn, setting, history, counted>>

Refused(a) == a = "never"
NeedsAYes(a) == a \notin {"freely", "never"}
MayWrite == {"with_approval", "freely"}

\* The gate decides from what it has seen: refused, asked about, or let through.
Plans ==
  /\ setting.at = "none" /\ sets < MaxSets /\ sets' = sets + 1
  /\ \E n \in Namespace :
       LET a == Answered(n, declared) IN
       /\ ~ Refused(a)
       /\ setting' = [at |-> IF NeedsAYes(a) THEN "asked" ELSE "running", of |-> n, yes |-> FALSE]
  /\ UNCHANGED <<service, declared, cached, turn, history, changes, redeployed>>

Answers ==
  /\ setting.at = "asked"
  /\ \/ /\ setting' = [setting EXCEPT !.at = "running", !.yes = TRUE]
        /\ yeses' = [yeses EXCEPT ![setting.of] = @ + 1]
     \/ setting' = NoSetting /\ UNCHANGED yeses
  /\ UNCHANGED <<service, declared, cached, turn, told, assisted, counted>>

\* _set looks again, and remembers nothing of what it sees; the look may fail.
Checks ==
  /\ setting.at = "running"
  /\ setting' \in {NoSetting} \union
       {[setting EXCEPT !.at = "writing"] : w \in MayWrite \intersect
                                            {Answered(setting.of, access)}}
  /\ UNCHANGED <<service, declared, cached, turn, history, counted>>

\* The write is made and read back, is made and its answer lost, or fails.
Writes ==
  /\ setting.at = "writing"
  /\ \/ /\ stored' = [stored EXCEPT ![setting.of] = @ + 1]
        /\ assisted' = [assisted EXCEPT ![setting.of] = @ + 1]
        /\ setting' \in {[setting EXCEPT !.at = "made"], NoSetting}
     \/ setting' = NoSetting /\ UNCHANGED <<stored, assisted>>
  /\ UNCHANGED <<access, declared, cached, turn, told, yeses, counted>>

\* A change to "common" makes all that was read stale, not one.
Stale_One(n) == {n} \intersect Read
Stale(n) == IF n = "common" THEN Read ELSE {n} \intersect Read

ReadsBack ==
  /\ setting.at = "made" /\ setting' = NoSetting
  /\ \/ /\ cached' = [n \in Read |-> IF n \in Stale(setting.of) THEN Unread ELSE cached[n]]
        /\ told' = [told EXCEPT ![setting.of] = stored[setting.of]]
     \/ UNCHANGED <<cached, told>>
  /\ UNCHANGED <<service, declared, turn, yeses, assisted, counted>>

Next ==
  \/ PersonChanges \/ Redeploys \/ Expires
  \/ Prepares \/ ReadsTheRest
  \/ Describes \/ Plans \/ Answers \/ Checks \/ Writes \/ ReadsBack

Spec == Init /\ [][Next]_vars

-----------------------------------------------------------------------------
\* The shape of every variable.
TypeOK ==
  /\ stored \in [Namespace -> Nat] /\ access \in Access
  /\ declared \in Access \union {"unseen"}
  /\ turn.at \in {"none", "reading", "blocked", "prepared"}
  /\ setting.at \in {"none", "asked", "running", "writing", "made"}

\* "The next turn read the old value: a person who turned remembering off was asked, one turn
\* later" (PackContext.forget_settings): a turn that runs was prepared with every change the
\* model had said it made, in any namespace that reaches what it reads.
ChangeIsInForce ==
  turn.at = "prepared" =>
    \A n \in Read : turn[n].how = "read" =>
      turn[n].own >= turn.owed[n] /\ turn[n].common >= turn.owed["common"]

\* A setting that was always the person's alone is never changed by the model, whatever it
\* had seen and whatever was answered; and one that is theirs to approve is changed at most
\* once for each yes.
PersonsAlone ==
  ~ redeployed => \A n \in Namespace :
    /\ Answered(n, access) = "never" => assisted[n] = 0
    /\ Answered(n, access) = "with_approval" => assisted[n] <= yeses[n]

\* The two together: whose the settings are.
SettingsAreThePersons == ChangeIsInForce /\ PersonsAlone

-----------------------------------------------------------------------------
(* Refuted. *)

\* What was changed is read: a change whose answer was lost, or that could not be read back,
\* is served as it was.
MadeIsInForce ==
  turn.at = "prepared" /\ turn.lucy.how = "read" /\ changes = 0 /\ setting.at = "none"
    => turn.lucy.own >= assisted["lucy"]

\* "Everything else ... is asked about in every mode" (_needs_a_yes): what was seen once is
\* not looked at again.
AskedInEveryMode ==
  setting.at = "writing" /\ ~ setting.yes => Answered(setting.of, access) = "freely"
=============================================================================
