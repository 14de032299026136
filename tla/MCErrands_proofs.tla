-------------------------- MODULE MCErrands_proofs ---------------------------
(***************************************************************************)
(* Proofs about the parts of MCErrands, for every value of the constants.  *)
(* Each has an inductive invariant of its own, over its own variables: what *)
(* the other parts do leaves it alone.                                     *)
(***************************************************************************)
EXTENDS MCErrands, TLAPS, SequenceTheorems, FiniteSetTheorems

-----------------------------------------------------------------------------
(* Settings. Nothing that is served is older than the last change the model *)
(* was told was made; and what may be written without a yes was seen so.   *)

Space == {"lucy", "memory", "common"}
Allowed == {"never", "with_approval", "freely"}
Readings == [own : Nat, common : Nat, how : {"unread", "read", "refused", "unreadable"}]

\* What was read of a namespace has what was told of it by then.
Fresh(r, n, by) == r.how = "read" => r.own >= by[n] /\ r.common >= by["common"]

SettingsShape ==
  /\ stored \in [Space -> Nat] /\ promised \in [Space -> Nat]
  /\ yeses \in [Space -> Nat] /\ assisted \in [Space -> Nat]
  /\ access \in Allowed /\ declared \in Allowed \union {"unseen"} /\ redeployed \in BOOLEAN
  /\ cached \in [{"lucy", "memory"} -> Readings]
  /\ turn \in [at : {"none", "reading", "blocked", "prepared"}, lucy : Readings, memory : Readings,
               owed : [Space -> Nat]]
  /\ setting \in [at : {"none", "asked", "running", "writing", "made"}, of : Space, yes : BOOLEAN]

ReadingsAreFresh ==
  /\ \A n \in Space : promised[n] <= stored[n] /\ turn.owed[n] <= promised[n]
  /\ Fresh(cached["lucy"], "lucy", promised) /\ Fresh(cached["memory"], "memory", promised)
  /\ Fresh(turn.lucy, "lucy", turn.owed) /\ Fresh(turn.memory, "memory", turn.owed)

\* What the gate has seen of a declaration is it; what is on its way has the yes it needs.
WritesAreAllowed ==
  ~ redeployed =>
    /\ declared \in {access, "unseen"}
    /\ \A n \in Space : /\ Choices!Answered(n, access) = "never" => assisted[n] = 0
                        /\ Choices!Answered(n, access) = "with_approval" => assisted[n] <= yeses[n]
    /\ setting.at \in {"running", "writing"} /\ Choices!Answered(setting.of, access) = "with_approval"
         => assisted[setting.of] < yeses[setting.of]
    /\ setting.at = "writing" => Choices!Answered(setting.of, access) # "never"

SettingsInv == SettingsShape /\ ReadingsAreFresh /\ WritesAreAllowed

\* A resolve gives what is cached, what there is now, or nothing that was read.
LEMMA Resolved ==
  ASSUME SettingsShape, ReadingsAreFresh, NEW n \in {"lucy", "memory"},
         NEW into \in [at : {"none", "reading", "blocked", "prepared"}, lucy : Readings,
                       memory : Readings, owed : [Space -> Nat]],
         Choices!Resolves(n, into)
  PROVE  /\ \E r \in Readings : turn' = [into EXCEPT ![n] = r] /\ Fresh(r, n, promised)
         /\ cached' \in [{"lucy", "memory"} -> Readings]
         /\ Fresh(cached'["lucy"], "lucy", promised) /\ Fresh(cached'["memory"], "memory", promised)
<1> USE DEF SettingsShape, ReadingsAreFresh
<1>1. CASE turn' = [into EXCEPT ![n] = cached[n]] /\ UNCHANGED cached
  <2>1. cached[n] \in Readings /\ Fresh(cached[n], n, promised)  OBVIOUS
  <2> QED BY <1>1, <2>1
<1>2. CASE cached' = [cached EXCEPT ![n] = Choices!Merged(n)] /\ turn' = [into EXCEPT ![n] = Choices!Merged(n)]
  <2>1. PICK r : r = Choices!Merged(n)  OBVIOUS
  <2>2. r \in Readings /\ Fresh(r, n, promised)
    <3>1. r = [own |-> stored[n], common |-> stored["common"], how |-> "read"]
      BY <2>1 DEF Choices!Merged
    <3>2. stored[n] \in Nat /\ stored["common"] \in Nat /\ promised[n] <= stored[n]
          /\ promised["common"] <= stored["common"] /\ promised[n] \in Nat /\ promised["common"] \in Nat
      BY DEF Space
    <3> QED BY <3>1, <3>2 DEF Readings, Fresh
  <2>3. cached' = [cached EXCEPT ![n] = r] /\ turn' = [into EXCEPT ![n] = r]  BY <1>2, <2>1
  <2> QED BY <2>2, <2>3
<1>3. CASE UNCHANGED cached /\ \E how \in {"refused", "unreadable"} : turn' = [into EXCEPT ![n].how = how]
  <2>1. PICK how \in {"refused", "unreadable"} : turn' = [into EXCEPT ![n].how = how]  BY <1>3
  <2>2. into[n] \in Readings  OBVIOUS
  <2>3. PICK r : r = [into[n] EXCEPT !.how = how]  OBVIOUS
  <2>4. r \in Readings /\ r.how = how  BY <2>2, <2>3 DEF Readings
  <2>5. turn' = [into EXCEPT ![n] = r]  BY <2>1, <2>3
  <2>6. Fresh(r, n, promised)  BY <2>4 DEF Fresh
  <2> QED BY <1>3, <2>4, <2>5, <2>6
<1> QED BY <1>1, <1>2, <1>3 DEF Choices!Resolves

\* A turn is prepared with what was told so far.
LEMMA SettingsPrepare ==
  ASSUME SettingsInv, Choices!Prepares \/ Choices!ReadsTheRest PROVE SettingsInv'
<1> USE DEF SettingsInv
<1>0. UNCHANGED <<stored, access, declared, setting, promised, yeses, assisted, redeployed>>
  BY DEF Choices!Prepares, Choices!ReadsTheRest, Choices!service, Choices!history, Choices!counted
<1>1. CASE Choices!Prepares
  <2>1. PICK into : into = [Choices!NoTurn EXCEPT !.at = "reading", !.owed = promised]  OBVIOUS
  <2>2. Choices!Resolves("lucy", into)  BY <1>1, <2>1 DEF Choices!Prepares
  <2>3. into \in [at : {"none", "reading", "blocked", "prepared"}, lucy : Readings,
                  memory : Readings, owed : [Space -> Nat]]
        /\ into.owed = promised /\ into.memory.how = "unread"
    BY <2>1 DEF Choices!NoTurn, Choices!Unread, Readings, SettingsShape
  <2>4. PICK r \in Readings : turn' = [into EXCEPT !["lucy"] = r] /\ Fresh(r, "lucy", promised)
    BY <2>2, <2>3, Resolved
  <2>5. /\ turn' \in [at : {"none", "reading", "blocked", "prepared"}, lucy : Readings,
                      memory : Readings, owed : [Space -> Nat]]
        /\ turn'.owed = promised /\ turn'.lucy = r /\ turn'.memory.how = "unread"
    BY <2>3, <2>4
  <2>6. cached' \in [{"lucy", "memory"} -> Readings]
        /\ Fresh(cached'["lucy"], "lucy", promised) /\ Fresh(cached'["memory"], "memory", promised)
    BY <2>2, <2>3, Resolved
  <2>7. SettingsShape'  BY <1>0, <2>5, <2>6 DEF SettingsShape
  <2>8. \A n \in Space : promised[n] <= promised[n]  BY DEF SettingsShape
  <2>9. ReadingsAreFresh'  BY <1>0, <2>4, <2>5, <2>6, <2>8 DEF ReadingsAreFresh, Fresh
  <2> QED BY <1>0, <2>7, <2>9 DEF WritesAreAllowed
<1>2. CASE Choices!ReadsTheRest /\ Choices!Blocks(turn.lucy)
  <2>1. turn' = [turn EXCEPT !.at = "blocked"] /\ UNCHANGED cached  BY <1>2 DEF Choices!ReadsTheRest
  <2> QED BY <1>0, <2>1 DEF SettingsShape, ReadingsAreFresh, WritesAreAllowed
<1>3. CASE Choices!ReadsTheRest /\ ~ Choices!Blocks(turn.lucy)
  <2>1. PICK into : into = [turn EXCEPT !.at = "prepared"]  OBVIOUS
  <2>2. Choices!Resolves("memory", into)  BY <1>3, <2>1 DEF Choices!ReadsTheRest
  <2>3. into \in [at : {"none", "reading", "blocked", "prepared"}, lucy : Readings,
                  memory : Readings, owed : [Space -> Nat]]
        /\ into.owed = turn.owed /\ into.lucy = turn.lucy
    BY <2>1 DEF SettingsShape
  <2>4. PICK r \in Readings : turn' = [into EXCEPT !["memory"] = r] /\ Fresh(r, "memory", promised)
    BY <2>2, <2>3, Resolved
  <2>5. /\ turn' \in [at : {"none", "reading", "blocked", "prepared"}, lucy : Readings,
                      memory : Readings, owed : [Space -> Nat]]
        /\ turn'.owed = turn.owed /\ turn'.lucy = turn.lucy /\ turn'.memory = r
    BY <2>3, <2>4
  <2>6. cached' \in [{"lucy", "memory"} -> Readings]
        /\ Fresh(cached'["lucy"], "lucy", promised) /\ Fresh(cached'["memory"], "memory", promised)
    BY <2>2, <2>3, Resolved
  <2>7. SettingsShape'  BY <1>0, <2>5, <2>6 DEF SettingsShape
  <2>8. Fresh(r, "memory", turn.owed)
    <3>1. turn.owed["memory"] <= promised["memory"] /\ turn.owed["common"] <= promised["common"]
          /\ {turn.owed["memory"], promised["memory"], turn.owed["common"], promised["common"]} \subseteq Nat
      BY DEF SettingsShape, ReadingsAreFresh, Space
    <3> QED BY <2>4, <3>1 DEF Fresh, Readings
  <2>9. ReadingsAreFresh'  BY <1>0, <2>5, <2>6, <2>8 DEF ReadingsAreFresh
  <2> QED BY <1>0, <2>7, <2>9 DEF WritesAreAllowed
<1> QED BY <1>1, <1>2, <1>3

\* What happens elsewhere: a change of the person's, another declaration, an old answer dropped.
LEMMA SettingsElsewhere ==
  ASSUME SettingsInv, Choices!PersonChanges \/ Choices!Redeploys \/ Choices!Expires \/ Choices!Describes
  PROVE  SettingsInv'
<1> USE DEF SettingsInv
<1>1. CASE Choices!PersonChanges
  <2>0. UNCHANGED <<access, declared, cached, turn, setting, promised, yeses, assisted, redeployed>>
    BY <1>1 DEF Choices!PersonChanges, Choices!history
  <2>1. PICK n \in Space : stored' = [stored EXCEPT ![n] = @ + 1]
    BY <1>1 DEF Choices!PersonChanges, Choices!Namespace, Space
  <2>2. stored' \in [Space -> Nat] /\ \A m \in Space : stored'[m] >= stored[m]
    BY <2>1 DEF SettingsShape
  <2>3. SettingsShape'  BY <2>0, <2>2 DEF SettingsShape
  <2>4. ReadingsAreFresh'
    <3>1. \A m \in Space : promised[m] <= stored'[m]
      BY <2>2 DEF SettingsShape, ReadingsAreFresh
    <3> QED BY <2>0, <3>1 DEF ReadingsAreFresh
  <2> QED BY <2>0, <2>3, <2>4 DEF WritesAreAllowed
<1>2. CASE Choices!Redeploys
  <2>0. UNCHANGED <<stored, declared, cached, turn, setting, promised, yeses, assisted>>
        /\ redeployed' = TRUE /\ access' \in Allowed
    BY <1>2 DEF Choices!Redeploys, Choices!history, Choices!Access, Allowed
  <2> QED BY <2>0 DEF SettingsShape, ReadingsAreFresh, WritesAreAllowed
<1>3. CASE Choices!Expires
  <2>0. UNCHANGED <<stored, access, declared, turn, setting, promised, yeses, assisted, redeployed>>
    BY <1>3 DEF Choices!Expires, Choices!history, Choices!service, Choices!counted
  <2>1. PICK n \in {"lucy", "memory"} : cached' = [cached EXCEPT ![n] = Choices!Unread]
    BY <1>3 DEF Choices!Expires, Choices!Read
  <2>2. Choices!Unread \in Readings /\ Choices!Unread.how # "read"  BY DEF Choices!Unread, Readings
  <2>3. cached' \in [{"lucy", "memory"} -> Readings]
        /\ Fresh(cached'["lucy"], "lucy", promised) /\ Fresh(cached'["memory"], "memory", promised)
    BY <2>1, <2>2 DEF SettingsShape, ReadingsAreFresh, Fresh
  <2> QED BY <2>0, <2>3 DEF SettingsShape, ReadingsAreFresh, WritesAreAllowed
<1>4. CASE Choices!Describes
  <2>0. UNCHANGED <<stored, access, cached, turn, setting, promised, yeses, assisted, redeployed>>
        /\ declared' = access
    BY <1>4 DEF Choices!Describes, Choices!history, Choices!service, Choices!counted
  <2> QED BY <2>0 DEF SettingsShape, ReadingsAreFresh, WritesAreAllowed
<1> QED BY <1>1, <1>2, <1>3, <1>4

\* The gate lets a change through that needs no yes, and a yes lets one through.
LEMMA SettingsPlan ==
  ASSUME SettingsInv, Choices!Plans \/ Choices!Answers \/ Choices!Checks PROVE SettingsInv'
<1> USE DEF SettingsInv
<1>0. UNCHANGED <<stored, access, declared, cached, turn, promised, assisted, redeployed>>
  BY DEF Choices!Plans, Choices!Answers, Choices!Checks, Choices!service, Choices!history, Choices!counted
<1>1. ReadingsAreFresh'  BY <1>0 DEF ReadingsAreFresh
<1>2. CASE Choices!Plans
  <2>1. PICK n \in Space :
          /\ ~ Choices!Refused(Choices!Answered(n, declared))
          /\ setting' = [at |-> IF Choices!NeedsAYes(Choices!Answered(n, declared)) THEN "asked" ELSE "running",
                         of |-> n, yes |-> FALSE]
    BY <1>2 DEF Choices!Plans, Choices!Namespace, Space
  <2>2. UNCHANGED yeses  BY <1>2 DEF Choices!Plans, Choices!history
  <2>3. setting'.of = n /\ setting'.at \in {"asked", "running"}
        /\ setting' \in [at : {"none", "asked", "running", "writing", "made"}, of : Space, yes : BOOLEAN]
        /\ (setting'.at = "running" => ~ Choices!NeedsAYes(Choices!Answered(n, declared)))
    BY <2>1
  <2>4. SettingsShape'  BY <1>0, <2>2, <2>3 DEF SettingsShape
  <2>5. setting'.at = "running" => Choices!Answered(n, declared) = "freely"
    BY <2>1, <2>3 DEF Choices!Refused, Choices!NeedsAYes
  <2>6. setting'.at = "running" /\ ~ redeployed => Choices!Answered(n, access) = "freely"
    BY <2>5 DEF WritesAreAllowed, Choices!Answered
  <2>7. WritesAreAllowed'  BY <1>0, <2>2, <2>3, <2>6 DEF WritesAreAllowed
  <2> QED BY <1>1, <2>4, <2>7
<1>3. CASE Choices!Answers
  <2>1. CASE setting' = Choices!NoSetting /\ UNCHANGED yeses
    <3>1. setting'.at = "none" /\ setting' \in [at : {"none", "asked", "running", "writing", "made"}, of : Space, yes : BOOLEAN]
      BY <2>1 DEF Choices!NoSetting, Space
    <3> QED BY <1>0, <1>1, <2>1, <3>1 DEF SettingsShape, WritesAreAllowed
  <2>2. CASE setting' = [setting EXCEPT !.at = "running", !.yes = TRUE]
             /\ yeses' = [yeses EXCEPT ![setting.of] = @ + 1]
    <3>1. PICK n \in Space : n = setting.of  BY DEF SettingsShape
    <3>2. setting' \in [at : {"none", "asked", "running", "writing", "made"}, of : Space, yes : BOOLEAN]
          /\ setting'.of = n /\ setting'.at = "running"
      BY <2>2, <3>1 DEF SettingsShape
    <3>3. yeses' \in [Space -> Nat] /\ yeses'[n] = yeses[n] + 1
          /\ \A m \in Space : yeses'[m] >= yeses[m]
      BY <2>2, <3>1 DEF SettingsShape
    <3>4. SettingsShape'  BY <1>0, <3>2, <3>3 DEF SettingsShape
    <3>5. \A m \in Space : assisted[m] <= yeses[m] => assisted[m] <= yeses'[m]
      BY <3>3 DEF SettingsShape
    <3>6. assisted[n] <= yeses[n] => assisted[n] < yeses'[n]
      BY <3>3 DEF SettingsShape
    <3>7. WritesAreAllowed'
      BY <1>0, <3>2, <3>5, <3>6 DEF WritesAreAllowed
    <3> QED BY <1>1, <3>4, <3>7
  <2> QED BY <1>3, <2>1, <2>2 DEF Choices!Answers
<1>4. CASE Choices!Checks
  <2>1. UNCHANGED yeses /\ setting.at = "running"  BY <1>4 DEF Choices!Checks, Choices!history
  <2>2. CASE setting' = Choices!NoSetting
    <3>1. setting'.at = "none" /\ setting' \in [at : {"none", "asked", "running", "writing", "made"}, of : Space, yes : BOOLEAN]
      BY <2>2 DEF Choices!NoSetting, Space
    <3> QED BY <1>0, <1>1, <2>1, <3>1 DEF SettingsShape, WritesAreAllowed
  <2>3. CASE setting' = [setting EXCEPT !.at = "writing"] /\ Choices!Answered(setting.of, access) \in Choices!MayWrite
    <3>1. setting' \in [at : {"none", "asked", "running", "writing", "made"}, of : Space, yes : BOOLEAN]
          /\ setting'.of = setting.of /\ setting'.at = "writing"
      BY <2>3 DEF SettingsShape
    <3>2. Choices!Answered(setting.of, access) # "never"  BY <2>3 DEF Choices!MayWrite
    <3>3. SettingsShape'  BY <1>0, <2>1, <3>1 DEF SettingsShape
    <3>4. WritesAreAllowed'  BY <1>0, <2>1, <3>1, <3>2 DEF WritesAreAllowed
    <3> QED BY <1>1, <3>3, <3>4
  <2> QED BY <1>4, <2>2, <2>3 DEF Choices!Checks
<1> QED BY <1>2, <1>3, <1>4

\* A change is made, once for its yes; and what it made stale is dropped before it is told.
LEMMA SettingsWrite ==
  ASSUME SettingsInv, Choices!Writes \/ Choices!ReadsBack PROVE SettingsInv'
<1> USE DEF SettingsInv
<1>0. UNCHANGED <<access, declared, turn, yeses, redeployed>>
  BY DEF Choices!Writes, Choices!ReadsBack, Choices!service, Choices!counted
<1>1. PICK n \in Space : n = setting.of  BY DEF SettingsShape
<1>2. setting'.at \in {"none", "made"}
      /\ setting' \in [at : {"none", "asked", "running", "writing", "made"}, of : Space, yes : BOOLEAN]
  <2>1. setting' = Choices!NoSetting \/ setting' = [setting EXCEPT !.at = "made"]
    BY DEF Choices!Writes, Choices!ReadsBack
  <2>2. CASE setting' = Choices!NoSetting  BY <2>2 DEF Choices!NoSetting, Space
  <2>3. CASE setting' = [setting EXCEPT !.at = "made"]  BY <2>3 DEF SettingsShape
  <2> QED BY <2>1, <2>2, <2>3
<1>3. CASE Choices!Writes
  <2>1. UNCHANGED <<cached, promised>> /\ setting.at = "writing"
        /\ \/ /\ stored' = [stored EXCEPT ![n] = @ + 1] /\ assisted' = [assisted EXCEPT ![n] = @ + 1]
           \/ UNCHANGED <<stored, assisted>>
    BY <1>1, <1>3 DEF Choices!Writes
  <2>2. /\ stored' \in [Space -> Nat] /\ assisted' \in [Space -> Nat]
        /\ \A m \in Space : stored'[m] >= stored[m]
        /\ \A m \in Space : m # n => assisted'[m] = assisted[m]
        /\ assisted'[n] <= assisted[n] + 1
    BY <2>1 DEF SettingsShape
  <2>3. SettingsShape'  BY <1>0, <1>2, <2>1, <2>2 DEF SettingsShape
  <2>4. \A m \in Space : promised[m] <= stored'[m]  BY <2>2 DEF SettingsShape, ReadingsAreFresh
  <2>5. ReadingsAreFresh'  BY <1>0, <2>1, <2>4 DEF ReadingsAreFresh
  <2>6. ~ redeployed => /\ Choices!Answered(n, access) # "never"
                        /\ Choices!Answered(n, access) = "with_approval" => assisted'[n] <= yeses[n]
    BY <1>1, <2>1, <2>2 DEF WritesAreAllowed, SettingsShape
  <2>7. WritesAreAllowed'  BY <1>0, <1>2, <2>2, <2>6 DEF WritesAreAllowed
  <2> QED BY <2>3, <2>5, <2>7
<1>4. CASE Choices!ReadsBack
  <2>1. UNCHANGED <<stored, assisted>>
    BY <1>4 DEF Choices!ReadsBack, Choices!service
  <2>2. CASE UNCHANGED <<cached, promised>>
    BY <1>0, <1>2, <2>1, <2>2 DEF SettingsShape, ReadingsAreFresh, WritesAreAllowed
  <2>3. CASE /\ cached' = [m \in Choices!Read |-> IF m \in Choices!Stale(setting.of) THEN Choices!Unread ELSE cached[m]]
             /\ promised' = [promised EXCEPT ![setting.of] = stored[setting.of]]
    <3>1. promised' \in [Space -> Nat] /\ promised'[n] = stored[n]
          /\ \A m \in Space : m # n => promised'[m] = promised[m]
      BY <1>1, <2>3 DEF SettingsShape
    <3>2. \A m \in Space : promised'[m] <= stored[m] /\ turn.owed[m] <= promised'[m]
      BY <3>1 DEF SettingsShape, ReadingsAreFresh
    <3>3. Choices!Unread \in Readings /\ Choices!Unread.how # "read"  BY DEF Choices!Unread, Readings
    <3>4. /\ cached' \in [{"lucy", "memory"} -> Readings]
          /\ \A m \in {"lucy", "memory"} :
               cached'[m].how = "read" => cached'[m] = cached[m] /\ n # m /\ n # "common"
      BY <1>1, <2>3, <3>3 DEF SettingsShape, Choices!Read, Choices!Stale
    <3>5. \A m \in {"lucy", "memory"} : Fresh(cached'[m], m, promised')
      BY <3>1, <3>4 DEF Fresh, ReadingsAreFresh, Space
    <3>6. SettingsShape'  BY <1>0, <1>2, <2>1, <3>1, <3>4 DEF SettingsShape
    <3>7. ReadingsAreFresh'  BY <1>0, <2>1, <3>2, <3>5 DEF ReadingsAreFresh
    <3>8. WritesAreAllowed'  BY <1>0, <1>2, <2>1 DEF WritesAreAllowed
    <3> QED BY <3>6, <3>7, <3>8
  <2> QED BY <1>4, <2>2, <2>3 DEF Choices!ReadsBack
<1> QED BY <1>3, <1>4

\* What the other parts do leaves the settings as they stand.
LEMMA SettingsRest == ASSUME SettingsInv, UNCHANGED choices PROVE SettingsInv'
BY DEF SettingsInv, SettingsShape, ReadingsAreFresh, WritesAreAllowed, choices

\* Every step of the model, the person and the service.
LEMMA SettingsStep == ASSUME SettingsInv, Choices!Next PROVE SettingsInv'
BY SettingsPrepare, SettingsElsewhere, SettingsPlan, SettingsWrite DEF Choices!Next

\* Nothing was changed, told or read.
LEMMA SettingsStarted == ASSUME Choices!Init PROVE SettingsInv
<1>1. stored = [n \in Space |-> 0] /\ promised = stored /\ yeses = stored /\ assisted = stored
      /\ access \in Allowed /\ declared = "unseen" /\ redeployed = FALSE
      /\ cached = [n \in {"lucy", "memory"} |-> Choices!Unread]
  BY DEF Choices!Init, Choices!Namespace, Choices!Read, Choices!Access, Space, Allowed
<1>2. Choices!Unread \in Readings /\ Choices!Unread.how # "read"  BY DEF Choices!Unread, Readings
<1>3. turn = [at |-> "none", lucy |-> Choices!Unread, memory |-> Choices!Unread, owed |-> stored]
      /\ setting = [at |-> "none", of |-> "lucy", yes |-> FALSE]
  BY <1>1 DEF Choices!Init, Choices!NoTurn, Choices!NoSetting, Choices!Namespace, Space
<1>4. SettingsShape  BY <1>1, <1>2, <1>3 DEF SettingsShape, Space
<1>5. ReadingsAreFresh  BY <1>1, <1>2, <1>3 DEF ReadingsAreFresh, Fresh, Space
<1>6. WritesAreAllowed  BY <1>1, <1>3 DEF WritesAreAllowed
<1> QED BY <1>4, <1>5, <1>6 DEF SettingsInv

\* What is held of every reading and of every write is what the settings promise.
LEMMA SettingsPromise == ASSUME SettingsInv PROVE SettingsAreThePersons
<1>1. Choices!ChangeIsInForce
  BY DEF SettingsInv, ReadingsAreFresh, SettingsShape, Fresh, Choices!ChangeIsInForce, Choices!Read
<1>2. Choices!PersonsAlone
  BY DEF SettingsInv, WritesAreAllowed, Choices!PersonsAlone, Choices!Namespace, Space
<1> QED BY <1>1, <1>2 DEF SettingsAreThePersons, Choices!SettingsAreThePersons

\* What the person was told is set is what every later turn reads, in the hub and in the memory
\* service, and nothing of theirs alone is written by the model: whatever is changed, and how often.
THEOREM SettingsStand == Spec => []SettingsAreThePersons
<1>1. Init => SettingsInv  BY SettingsStarted DEF Init
<1>2. SettingsInv /\ [Next]_vars => SettingsInv'  BY SettingsStep, SettingsRest DEF Next, vars
<1>3. SettingsInv => SettingsAreThePersons  BY SettingsPromise
<1> QED BY <1>1, <1>2, <1>3, PTL DEF Spec

-----------------------------------------------------------------------------
(* Workspaces. Whoever creates, resets or destroys the sandbox holds the    *)
(* lock, and what they found is as they found it until they let go.        *)

Rows == Rooms!Session
Boxes == Rooms!Sandbox

RoomsShape ==
  /\ session \in [Rows -> {"none", "live", "archived", "gone"}]
  /\ attached \in [Rows -> Boxes \union {0}]
  /\ sandbox \in [Boxes -> {"none", "ready", "archived", "destroyed"}]
  /\ folders \subseteq Boxes \X Rows
  /\ found \in Boxes \union {0}
  /\ providing \in [Rows -> {"off", "asks", "lists", "resets", "creates", "makes", "attaches"}]
  /\ resetting \in [Rows -> {"off", "deletes", "makes", "refused", "looks", "revives", "again"}]
  /\ recorded \in [Rows -> Boxes \union {0}]
  /\ releasing \in {"off", "destroys", "forgets"}
  /\ stranded \subseteq Boxes /\ idles \in Nat /\ stops \in Nat

LockIsHeld ==
  /\ \A s \in Rows : providing[s] \notin {"off", "asks"} => lock = <<"provide", s>>
  /\ \A s \in Rows : resetting[s] \in {"looks", "revives"} => lock = <<"revive", s>>
  /\ releasing # "off" => lock = <<"release", 0>>

AsItWasFound ==
  /\ \A s \in Rows : /\ providing[s] = "resets" => found \in Boxes /\ sandbox[found] = "archived"
                     /\ providing[s] = "creates" => Rooms!Listed = {}
                     /\ providing[s] \in {"makes", "attaches"} => found \in Rooms!Listed
                     /\ resetting[s] # "off" => recorded[s] \in Boxes
                     /\ resetting[s] = "revives" => sandbox[recorded[s]] = "archived"
  /\ releasing = "destroys" => found \in Rooms!Listed
  /\ releasing = "forgets" => found \in Boxes

\* There is one sandbox, and folders only in it, and only while it is not archived.
OneIsListed ==
  /\ \A d, e \in Rooms!Listed : d = e
  /\ \A f \in folders : sandbox[f[1]] = "ready"

RoomsInv == RoomsShape /\ LockIsHeld /\ AsItWasFound /\ OneIsListed /\ Rooms!AttachedExists

\* A conversation that is archived, comes back, works or goes keeps the sandbox as it was found.
LEMMA RoomsMoves ==
  ASSUME RoomsInv, NEW s \in Rows, 
     Rooms!Creates(s) \/ Rooms!Archives(s) \/ Rooms!Works(s) \/ Rooms!Asks(s) \/ Rooms!AsksToReset(s) \/ Rooms!Reads(s)
  PROVE  RoomsInv' /\ Rooms!LosesOnlyItsOwn
<1> USE DEF RoomsInv, RoomsShape, LockIsHeld, AsItWasFound, OneIsListed, Rooms!AttachedExists,
            Rooms!LosesOnlyItsOwn, Rooms!Listed, Rooms!At, Rooms!rows, Rooms!service,
            Rooms!requests, Rooms!history, Rooms!NoSandbox, Rows, Boxes
<1>1. CASE Rooms!Creates(s) BY <1>1 DEF Rooms!Creates
<1>2. CASE Rooms!Archives(s) BY <1>2 DEF Rooms!Archives
<1>3. CASE Rooms!Works(s) BY <1>3 DEF Rooms!Works
<1>4. CASE Rooms!Asks(s) BY <1>4 DEF Rooms!Asks
<1>5. CASE Rooms!AsksToReset(s) BY <1>5 DEF Rooms!AsksToReset
<1>6. CASE Rooms!Reads(s) BY <1>6 DEF Rooms!Reads
<1> QED BY <1>1, <1>2, <1>3, <1>4, <1>5, <1>6

\* Asking for a workspace, up to the folder in it: only a ready sandbox is attached to.
LEMMA RoomsProvides ==
  ASSUME RoomsInv, NEW s \in Rows, 
     Rooms!Takes(s) \/ Rooms!Lists(s) \/ Rooms!Resets(s) \/ Rooms!CreatesOne(s) \/ Rooms!Makes(s) \/ Rooms!Attaches(s)
       \/ Rooms!FailsToProvide(s)
  PROVE  RoomsInv' /\ Rooms!LosesOnlyItsOwn
<1> USE DEF RoomsInv, RoomsShape, LockIsHeld, AsItWasFound, OneIsListed, Rooms!AttachedExists,
            Rooms!LosesOnlyItsOwn, Rooms!Listed, Rooms!At, Rooms!rows, Rooms!service,
            Rooms!requests, Rooms!history, Rooms!NoSandbox, Rows, Boxes, Rooms!Unlocked, Rooms!Free, Rooms!Is,
            Rooms!Wiped, Rooms!Made, Rooms!New
<1>1. CASE Rooms!Takes(s) BY <1>1 DEF Rooms!Takes
<1>2. CASE Rooms!Lists(s) BY <1>2 DEF Rooms!Lists, Rooms!Finds
<1>3. CASE Rooms!Resets(s) BY <1>3 DEF Rooms!Resets
<1>4. CASE Rooms!CreatesOne(s) BY <1>4 DEF Rooms!CreatesOne
<1>5. CASE Rooms!Makes(s) BY <1>5 DEF Rooms!Makes
<1>6. CASE Rooms!Attaches(s) BY <1>6 DEF Rooms!Attaches
<1>7. CASE Rooms!FailsToProvide(s)
  <2>1. CASE UNCHANGED <<sandbox, folders, work>>  BY <1>7, <2>1 DEF Rooms!FailsToProvide
  <2>2. CASE providing[s] = "resets" /\ Rooms!Is(found, "ready") /\ Rooms!Wiped(found)
    BY <1>7, <2>2 DEF Rooms!FailsToProvide
  <2>3. CASE providing[s] = "creates" /\ UNCHANGED <<folders, work>>
    BY <1>7, <2>3 DEF Rooms!FailsToProvide
  <2>4. CASE providing[s] = "makes" /\ UNCHANGED <<sandbox, work>>
    BY <1>7, <2>4 DEF Rooms!FailsToProvide
  <2> QED BY <1>7, <2>1, <2>2, <2>3, <2>4 DEF Rooms!FailsToProvide
<1> QED BY <1>1, <1>2, <1>3, <1>4, <1>5, <1>6, <1>7

\* A reset that was asked for is what may lose the work, and it holds the lock meanwhile.
LEMMA RoomsResets ==
  ASSUME RoomsInv, NEW s \in Rows, 
     Rooms!Empties(s) \/ Rooms!MakesAgain(s) \/ Rooms!TakesToRevive(s) \/ Rooms!Looks(s) \/ Rooms!Revives(s)
     \/ Rooms!FailsToReset(s) \/ Rooms!Deletes(s) \/ Rooms!Sweeps(s)
  PROVE  RoomsInv' /\ Rooms!LosesOnlyItsOwn
<1> USE DEF RoomsInv, RoomsShape, LockIsHeld, AsItWasFound, OneIsListed, Rooms!AttachedExists,
            Rooms!LosesOnlyItsOwn, Rooms!Listed, Rooms!At, Rooms!rows, Rooms!service,
            Rooms!requests, Rooms!history, Rooms!NoSandbox, Rows, Boxes, Rooms!Unlocked, Rooms!Free, Rooms!Is,
            Rooms!Wiped, Rooms!Made, Rooms!New, Rooms!Removed, Rooms!ToRevive
<1>1. CASE Rooms!Empties(s) BY <1>1 DEF Rooms!Empties
<1>2. CASE Rooms!MakesAgain(s) BY <1>2 DEF Rooms!MakesAgain
<1>3. CASE Rooms!TakesToRevive(s) BY <1>3 DEF Rooms!TakesToRevive
<1>4. CASE Rooms!Looks(s) BY <1>4 DEF Rooms!Looks
<1>5. CASE Rooms!Revives(s) BY <1>5 DEF Rooms!Revives
<1>6. CASE Rooms!Deletes(s) BY <1>6 DEF Rooms!Deletes
<1>7. CASE Rooms!Sweeps(s) BY <1>7 DEF Rooms!Sweeps
<1>8. CASE Rooms!FailsToReset(s)
  <2>1. CASE UNCHANGED <<sandbox, folders, work>>  BY <1>8, <2>1 DEF Rooms!FailsToReset
  <2>2. CASE resetting[s] \in {"makes", "again"} /\ UNCHANGED <<sandbox, work>>
    BY <1>8, <2>2 DEF Rooms!FailsToReset
  <2>3. CASE resetting[s] = "revives" /\ Rooms!Is(recorded[s], "ready") /\ Rooms!Wiped(recorded[s])
    BY <1>8, <2>3 DEF Rooms!FailsToReset
  <2> QED BY <1>8, <2>1, <2>2, <2>3 DEF Rooms!FailsToReset
<1> QED BY <1>1, <1>2, <1>3, <1>4, <1>5, <1>6, <1>7, <1>8

\* Letting the last conversation go, and destroying what was found, under the same lock.
LEMMA RoomsRelease ==
  ASSUME RoomsInv,
     Rooms!Releases \/ Rooms!Destroys \/ Rooms!FailsToDestroy \/ Rooms!Forgets \/ (\E e \in Boxes : Rooms!Idles(e)) \/ Rooms!Dies
  PROVE  RoomsInv' /\ Rooms!LosesOnlyItsOwn
<1> USE DEF RoomsInv, RoomsShape, LockIsHeld, AsItWasFound, OneIsListed, Rooms!AttachedExists,
            Rooms!LosesOnlyItsOwn, Rooms!Listed, Rooms!At, Rooms!rows, Rooms!service,
            Rooms!requests, Rooms!history, Rooms!NoSandbox, Rows, Boxes, Rooms!Unlocked, Rooms!Free, Rooms!Is,
            Rooms!Wiped, Rooms!Made, Rooms!New, Rooms!Removed, Rooms!ToRevive
<1>1. CASE Rooms!Releases BY <1>1 DEF Rooms!Releases
<1>2. CASE Rooms!Destroys BY <1>2 DEF Rooms!Destroys
<1>3. CASE Rooms!Forgets BY <1>3 DEF Rooms!Forgets, Rooms!Forgotten
<1>4. CASE \E e \in Boxes : Rooms!Idles(e) BY <1>4 DEF Rooms!Idles
<1>5. CASE Rooms!Dies BY <1>5 DEF Rooms!Dies
<1>6. CASE Rooms!FailsToDestroy BY <1>6 DEF Rooms!FailsToDestroy
<1> QED BY <1>1, <1>2, <1>3, <1>4, <1>5, <1>6

\* Before anything is asked there is no sandbox, and nobody holds the lock.
LEMMA RoomsStarted == ASSUME ErrandsAssumption, Rooms!Init PROVE RoomsInv
<1> USE DEF RoomsInv, RoomsShape, LockIsHeld, AsItWasFound, OneIsListed, Rooms!AttachedExists,
            Rooms!Listed, Rooms!NoSandbox, Rows, Boxes
<1> QED BY DEF Rooms!Init

\* What the other parts do leaves the workspaces as they stand.
LEMMA RoomsRest == ASSUME RoomsInv, UNCHANGED rooms PROVE RoomsInv' /\ Rooms!LosesOnlyItsOwn
BY DEF rooms, RoomsInv, RoomsShape, LockIsHeld, AsItWasFound, OneIsListed, Rooms!AttachedExists, Rooms!Listed, Rooms!LosesOnlyItsOwn

\* Every step of the workspaces keeps the invariant, and loses only what was asked for.
LEMMA RoomsStep == ASSUME RoomsInv, Rooms!Next PROVE RoomsInv' /\ Rooms!LosesOnlyItsOwn
BY RoomsMoves, RoomsProvides, RoomsResets, RoomsRelease DEF Rooms!Next, Rows, Boxes

\* At most one sandbox listed is one sandbox at most, counted.
LEMMA RoomsPromise == ASSUME RoomsInv PROVE Rooms!OneSandbox
<1>1. ASSUME Rooms!Listed # {} PROVE \E e : Rooms!Listed = {e}
  <2>1. PICK e : e \in Rooms!Listed  BY <1>1
  <2>2. Rooms!Listed = {e}  BY <2>1 DEF RoomsInv, OneIsListed
  <2> QED BY <2>2
<1>2. CASE Rooms!Listed = {}
  <2>1. Cardinality(Rooms!Listed) = 0  BY <1>2, FS_EmptySet
  <2> QED BY <2>1 DEF Rooms!OneSandbox, Rooms!Cardinality, Cardinality
<1>3. CASE \E e : Rooms!Listed = {e}
  <2>1. Cardinality(Rooms!Listed) = 1  BY <1>3, FS_Singleton
  <2> QED BY <2>1 DEF Rooms!OneSandbox, Rooms!Cardinality, Cardinality
<1> QED BY <1>1, <1>2, <1>3

\* One sandbox, named only while it stands or once its release was cut off (by a death, or by an
\* answer that was lost, between destroying and forgetting it), and nobody's work lost but by what
\* was asked for: the lock of core/container.py, for any number of conversations and sandboxes.
THEOREM WorkIsNotLost == Spec => SandboxIsKept
<1>1. Init => RoomsInv  BY RoomsStarted, ErrandsAssumption DEF Init
<1>2. RoomsInv /\ [Next]_vars => RoomsInv' /\ Rooms!LosesOnlyItsOwn
  BY RoomsStep, RoomsRest DEF Next, vars
<1>3. RoomsInv => Rooms!OneSandbox /\ Rooms!AttachedExists  BY RoomsPromise DEF RoomsInv
<1>4. (RoomsInv => Rooms!OneSandbox /\ Rooms!AttachedExists)'  BY <1>3, PTL
<1>5. RoomsInv /\ [Next]_vars => [Rooms!OneSandbox' /\ Rooms!AttachedExists' /\ Rooms!LosesOnlyItsOwn]_(Rooms!vars)
  BY <1>2, <1>4
<1> QED BY <1>1, <1>2, <1>5, PTL DEF Spec, SandboxIsKept, Rooms!SandboxIsKept

-----------------------------------------------------------------------------
(* Commands. What is said of one is what its record says, once that has     *)
(* ended; and while it runs, time has gone on no longer than its call may.  *)

Over == {"succeeded", "failed", "timed_out", "cancelled"}
Exits == {"exited", "died", "killed"}
Outputs == [of : {"nothing", "none", "running"} \union Exits,
            code : {"unsaid", "none", "zero", "error"}, shown : Nat, omitted : Nat, cut : Nat, printed : Nat]

ShellShape ==
  /\ process \in [Command -> {"none", "running"} \union Exits]
  /\ age \in [Command -> Nat]
  /\ call \in [Command -> [at : {"none", "starting", "sent", "over"}, sent : Nat]]
  /\ record \in [Command -> [state : {"none", "running"} \union Over, answer : Outputs]]
  /\ asker \in [Command -> {"none", "busy", "waits", "left"}]
  /\ reported \in [Command -> SUBSET ({"running"} \union Over)]

\* A record, its call and its process.
RecordIsTrue(c) ==
  /\ asker[c] = "none" => record[c].state = "none"
  /\ record[c].state = "none" => call[c].at = "none" /\ age[c] = 0
  /\ record[c].state = "running" => call[c].at \in {"starting", "sent"}
  /\ call[c].at \in {"none", "starting"} => process[c] = "none"
  /\ record[c].state = "succeeded" => /\ record[c].answer.code \in {"zero", "none"}
                                      /\ record[c].answer.of # "killed"
                                      /\ record[c].answer.code = "zero" => process[c] = "exited"
  /\ record[c].answer # Shell!NoAnswer => record[c].state \in Over
  /\ record[c].answer.code \in {"zero", "error"} => record[c].answer.of = process[c] /\ process[c] \in Exits
  /\ reported[c] \intersect Over \subseteq {record[c].state}

AddsUp(a) == a.shown + a.omitted = a.printed /\ a.cut <= a.omitted /\ a.shown <= Fits

\* A timer that is due holds time up.
TimeIsHeld(c) ==
  /\ call[c].at \in {"none", "starting"} => call[c].sent = Shell!Deadline
  /\ record[c].state = "running" /\ call[c].at = "sent" => age[c] <= call[c].sent + Ceiling + Margin
  /\ record[c].state = "timed_out" => call[c].sent >= Outlast

ShellInv == ShellShape /\ \A c \in Command : RecordIsTrue(c) /\ TimeIsHeld(c) /\ AddsUp(record[c].answer)

\* The lesser of two numbers.
LEMMA LesserIs ==
  ASSUME NEW a \in Nat, NEW b \in Nat
  PROVE  /\ Shell!Min({a, b}) \in Nat /\ Shell!Min({a, b}) <= a /\ Shell!Min({a, b}) <= b
         /\ Shell!Min({a, b}) \in {a, b}
<1>1. \E x \in {a, b} : \A y \in {a, b} : x <= y
  <2>1. CASE a <= b  BY <2>1
  <2>2. CASE ~ (a <= b)  BY <2>2
  <2> QED BY <2>1, <2>2
<1>2. Shell!Min({a, b}) \in {a, b} /\ \A y \in {a, b} : Shell!Min({a, b}) <= y
  BY <1>1 DEF Shell!Min
<1> QED BY <1>2

\* Whatever is printed is shown or said to be left out.
LEMMA OutputIs ==
  ASSUME ErrandsAssumption, ShellShape, NEW c \in Command, NEW printed \in Printed,
         NEW code \in {"none", "zero", "error"}
  PROVE  LET a == Shell!Answer(c, code, printed) IN
           a \in Outputs /\ a.of = process[c] /\ a.code = code /\ AddsUp(a)
<1>1. printed \in Nat /\ Ring \in Nat /\ Captured \in Nat /\ Fits \in Nat
  BY DEF ErrandsAssumption, Shell!CommandsAssumption
<1>2. PICK kept : kept = Shell!Min({printed, Ring})  OBVIOUS
<1>3. kept \in Nat /\ kept <= printed  BY <1>1, <1>2, LesserIs
<1>4. PICK captured : captured = Shell!Min({kept, Captured})  OBVIOUS
<1>5. captured \in Nat /\ captured <= kept  BY <1>1, <1>3, <1>4, LesserIs
<1>6. PICK shows : shows = Shell!Min({captured, Fits})  OBVIOUS
<1>7. shows \in Nat /\ shows <= captured /\ shows <= Fits  BY <1>1, <1>5, <1>6, LesserIs
<1>8. PICK cut : cut = captured - shows + (kept - captured)  OBVIOUS
<1>9. cut \in Nat  BY <1>3, <1>5, <1>7, <1>8
<1>10. Shell!Shows(printed) = [shown |-> shows, cut |-> cut, omitted |-> cut + (printed - kept)]
  BY <1>2, <1>4, <1>6, <1>8 DEF Shell!Shows
<1>11. Shell!Answer(c, code, printed) =
         [of |-> process[c], code |-> code, shown |-> shows, omitted |-> cut + (printed - kept), cut |-> cut,
          printed |-> printed]
  BY <1>10 DEF Shell!Answer
<1>12. cut + (printed - kept) \in Nat /\ cut <= cut + (printed - kept)
       /\ shows + (cut + (printed - kept)) = printed
  BY <1>1, <1>3, <1>5, <1>7, <1>8, <1>9
<1>13. process[c] \in {"none", "running"} \union Exits  BY DEF ShellShape
<1> QED BY <1>1, <1>7, <1>9, <1>11, <1>12, <1>13 DEF Outputs, AddsUp

\* A step of one command leaves the others as they were.
LEMMA ShellAt ==
  ASSUME ShellInv, NEW c \in Command, ShellShape',
         \A d \in Command \ {c} : /\ process'[d] = process[d] /\ age'[d] = age[d] /\ call'[d] = call[d]
                                  /\ record'[d] = record[d] /\ asker'[d] = asker[d]
                                  /\ reported'[d] = reported[d],
         RecordIsTrue(c)', TimeIsHeld(c)', AddsUp(record'[c].answer)
  PROVE  ShellInv'
<1> SUFFICES ASSUME NEW d \in Command, d # c PROVE (RecordIsTrue(d) /\ TimeIsHeld(d) /\ AddsUp(record[d].answer))'
  BY DEF ShellInv
<1> QED BY DEF ShellInv, RecordIsTrue, TimeIsHeld

\* One is asked for.
LEMMA ShellAsks ==
  ASSUME ErrandsAssumption, ShellInv, NEW c \in Command, Shell!Asks(c)
  PROVE  ShellInv'
<1>1. UNCHANGED <<process, age>> /\ asker[c] = "none"  BY DEF Shell!Asks
<1>2. record[c].state = "none" /\ call[c].at = "none" /\ age[c] = 0 /\ process[c] = "none"
      /\ record[c].answer = Shell!NoAnswer
  BY <1>1 DEF ShellInv, RecordIsTrue, Over
<1>3. CASE asker' = [asker EXCEPT ![c] = "busy"] /\ UNCHANGED <<call, record, reported>>
  <2>1. ShellShape'  BY <1>1, <1>3 DEF ShellInv, ShellShape
  <2> QED BY <1>1, <1>3, <2>1, ShellAt DEF ShellInv, RecordIsTrue, TimeIsHeld, ShellShape
<1>4. CASE \E waits \in BOOLEAN :
       /\ record' = [record EXCEPT ![c].state = "running"]
       /\ call' = [call EXCEPT ![c].at = "starting"]
       /\ asker' = [asker EXCEPT ![c] = IF waits THEN "waits" ELSE "left"]
       /\ IF waits THEN UNCHANGED reported ELSE Shell!Says(c, "running")
  <2>1. PICK waits \in BOOLEAN :
       /\ record' = [record EXCEPT ![c].state = "running"]
       /\ call' = [call EXCEPT ![c].at = "starting"]
       /\ asker' = [asker EXCEPT ![c] = IF waits THEN "waits" ELSE "left"]
       /\ IF waits THEN UNCHANGED reported ELSE Shell!Says(c, "running")
    BY <1>4
  <2>2. record' \in [Command -> [state : {"none", "running"} \union Over, answer : Outputs]]
        /\ record'[c].state = "running" /\ record'[c].answer = record[c].answer
        /\ \A d \in Command \ {c} : record'[d] = record[d]
    BY <2>1 DEF ShellInv, ShellShape
  <2>3. call' \in [Command -> [at : {"none", "starting", "sent", "over"}, sent : Nat]]
        /\ call'[c].at = "starting" /\ call'[c].sent = call[c].sent
        /\ \A d \in Command \ {c} : call'[d] = call[d]
    BY <2>1 DEF ShellInv, ShellShape
  <2>4. asker' \in [Command -> {"none", "busy", "waits", "left"}] /\ asker'[c] # "none"
        /\ \A d \in Command \ {c} : asker'[d] = asker[d]
    BY <2>1 DEF ShellInv, ShellShape
  <2>5. reported' \in [Command -> SUBSET ({"running"} \union Over)]
        /\ reported'[c] \subseteq reported[c] \union {"running"}
        /\ \A d \in Command \ {c} : reported'[d] = reported[d]
    BY <2>1 DEF ShellInv, ShellShape, Shell!Says
  <2>6. ShellShape'  BY <1>1, <2>2, <2>3, <2>4, <2>5 DEF ShellInv, ShellShape
  <2>7. reported[c] \intersect Over \subseteq {"none"}  BY <1>2 DEF ShellInv, RecordIsTrue
  <2>8. RecordIsTrue(c)'  BY <1>1, <1>2, <2>2, <2>3, <2>4, <2>5, <2>7 DEF RecordIsTrue, Over, Shell!NoAnswer
  <2>9. TimeIsHeld(c)'  BY <1>1, <1>2, <2>2, <2>3 DEF ShellInv, TimeIsHeld
  <2> QED BY <1>1, <2>2, <2>3, <2>4, <2>5, <2>6, <2>8, <2>9, ShellAt DEF ShellInv
<1> QED BY <1>3, <1>4 DEF Shell!Asks

\* What is said of one is how its record stands.
LEMMA ShellTells ==
  ASSUME ErrandsAssumption, ShellInv, NEW c \in Command,
         Shell!Hears(c) \/ Shell!GivesUp(c) \/ Shell!Looks(c) \/ Shell!Cancels(c)
  PROVE  ShellInv'
<1> USE DEF ShellInv, ShellShape, RecordIsTrue, TimeIsHeld, Over, Shell!Says, Shell!Ended,
            Shell!Running
<1>1. CASE Shell!Hears(c)  BY <1>1 DEF Shell!Hears
<1>2. CASE Shell!GivesUp(c)  BY <1>2 DEF Shell!GivesUp
<1>3. CASE Shell!Looks(c)  BY <1>3 DEF Shell!Looks
<1>4. CASE Shell!Cancels(c)  BY <1>4 DEF Shell!Cancels
<1> QED BY <1>1, <1>2, <1>3, <1>4

\* Its call is sent, and the sandbox runs it.
LEMMA ShellSends == ASSUME ErrandsAssumption, ShellInv, NEW c \in Command, Shell!Sends(c) PROVE ShellInv'
<1>1. UNCHANGED <<age, record, asker, reported>> /\ record[c].state = "running" /\ call[c].at = "starting"
      /\ call' = [call EXCEPT ![c] = [at |-> "sent", sent |-> age[c]]]
  BY DEF Shell!Sends, Shell!Running
<1>2. PICK p \in {"running", "none"} : process' = [process EXCEPT ![c] = p]  BY DEF Shell!Sends
<1>3. age[c] \in Nat /\ Ceiling \in Nat /\ Margin \in Nat
  BY DEF ErrandsAssumption, Shell!CommandsAssumption, ShellInv, ShellShape
<1>4. call' \in [Command -> [at : {"none", "starting", "sent", "over"}, sent : Nat]]
      /\ call'[c].at = "sent" /\ call'[c].sent = age[c] /\ \A d \in Command \ {c} : call'[d] = call[d]
  BY <1>1, <1>3 DEF ShellInv, ShellShape
<1>5. process' \in [Command -> {"none", "running"} \union Exits]
      /\ \A d \in Command \ {c} : process'[d] = process[d]
  BY <1>2 DEF ShellInv, ShellShape
<1>6. ShellShape'  BY <1>1, <1>4, <1>5 DEF ShellInv, ShellShape
<1>7. RecordIsTrue(c)'  BY <1>1, <1>4 DEF ShellInv, RecordIsTrue, Over, Shell!NoAnswer
<1>8. TimeIsHeld(c)'  BY <1>1, <1>3, <1>4 DEF TimeIsHeld
<1> QED BY <1>1, <1>4, <1>5, <1>6, <1>7, <1>8, ShellAt DEF ShellInv

\* Time that runs out on the hub's side, or on the runner's.
LEMMA ShellRunsOut == ASSUME ErrandsAssumption, ShellInv, NEW c \in Command, Shell!RunsOut(c) PROVE ShellInv'
<1>1. UNCHANGED <<age, call, record, asker, reported>> /\ process[c] = "running"  BY DEF Shell!RunsOut
<1>2. PICK p \in Exits : process' = [process EXCEPT ![c] = p]  BY DEF Shell!RunsOut, Exits
<1>3. process' \in [Command -> {"none", "running"} \union Exits]
      /\ \A d \in Command \ {c} : process'[d] = process[d]
  BY <1>2 DEF ShellInv, ShellShape
<1>4. ShellShape'  BY <1>1, <1>3 DEF ShellInv, ShellShape
<1>5. RecordIsTrue(c)'  BY <1>1 DEF ShellInv, RecordIsTrue, Exits
<1>6. TimeIsHeld(c)'  BY <1>1 DEF ShellInv, TimeIsHeld
<1> QED BY <1>1, <1>3, <1>4, <1>5, <1>6, ShellAt DEF ShellInv

\* Its record is finished: whatever says how, and with what, it is said of what it was.
LEMMA ShellFinishes ==
  ASSUME ErrandsAssumption, ShellInv, NEW c \in Command, NEW how \in Over, NEW a \in Outputs,
         record[c].state = "running", call' = [call EXCEPT ![c].at = "over"],
         record' = [record EXCEPT ![c] = [state |-> how, answer |-> a]],
         UNCHANGED <<process, age, asker, reported>>,
         AddsUp(a), a.code \in {"zero", "error"} => a.of = process[c] /\ process[c] \in Exits,
         how = "succeeded" => /\ a.code \in {"zero", "none"} /\ a.of # "killed"
                              /\ a.code = "zero" => process[c] = "exited",
         how = "timed_out" => call[c].sent >= Outlast
  PROVE  ShellInv'
<1>1. record' \in [Command -> [state : {"none", "running"} \union Over, answer : Outputs]]
      /\ record'[c].state = how /\ record'[c].answer = a
      /\ \A d \in Command \ {c} : record'[d] = record[d]
  BY DEF ShellInv, ShellShape
<1>2. call' \in [Command -> [at : {"none", "starting", "sent", "over"}, sent : Nat]]
      /\ call'[c].at = "over" /\ call'[c].sent = call[c].sent
      /\ \A d \in Command \ {c} : call'[d] = call[d]
  BY DEF ShellInv, ShellShape
<1>3. ShellShape'  BY <1>1, <1>2 DEF ShellInv, ShellShape
<1>4. reported[c] \intersect Over = {} /\ asker[c] # "none"  BY DEF ShellInv, RecordIsTrue, Over
<1>5. RecordIsTrue(c)'  BY <1>1, <1>2, <1>4 DEF RecordIsTrue, Over
<1>6. TimeIsHeld(c)'  BY <1>1, <1>2 DEF TimeIsHeld, Over
<1> QED BY <1>1, <1>2, <1>3, <1>5, <1>6, ShellAt

\* It is answered with what became of it.
LEMMA ShellAnswered == ASSUME ErrandsAssumption, ShellInv, NEW c \in Command, Shell!IsAnswered(c) PROVE ShellInv'
<1>1. PICK printed \in Printed, code \in Shell!Codes(process[c]) :
        Shell!Finishes(c, Shell!Outcome(process[c], code), Shell!Answer(c, code, printed))
  BY DEF Shell!IsAnswered
<1>2. PICK a : a = Shell!Answer(c, code, printed)  OBVIOUS
<1>3. /\ code \in {"none", "zero", "error"}
      /\ code = "zero" => process[c] = "exited"
      /\ code = "error" => process[c] \in {"died", "killed"}
  BY DEF Shell!Codes
<1>4. a \in Outputs /\ a.of = process[c] /\ a.code = code /\ AddsUp(a)  BY <1>2, <1>3, OutputIs DEF ShellInv
<1>5. PICK how : how = Shell!Outcome(process[c], code)  OBVIOUS
<1>6. how \in Over /\ how # "timed_out" /\ (how = "succeeded" => process[c] # "killed" /\ code # "error")
  BY <1>5 DEF Shell!Outcome, Over
<1>7. record' = [record EXCEPT ![c] = [state |-> how, answer |-> a]]  BY <1>1, <1>2, <1>5 DEF Shell!Finishes
<1>8. record[c].state = "running" /\ call' = [call EXCEPT ![c].at = "over"]
      /\ UNCHANGED <<process, age, asker, reported>>
  BY DEF Shell!IsAnswered, Shell!Running
<1>9. a.code \in {"zero", "error"} => a.of = process[c] /\ process[c] \in Exits  BY <1>3, <1>4 DEF Exits
<1>10. how = "succeeded" => /\ a.code \in {"zero", "none"} /\ a.of # "killed"
                            /\ a.code = "zero" => process[c] = "exited"
  BY <1>3, <1>4, <1>6
<1> QED BY <1>4, <1>6, <1>7, <1>8, <1>9, <1>10, ShellFinishes

\* It fails, runs out of its time, or is cancelled: nothing is said of what it did. The
\* registry's deadline finds only a call that left late.
LEMMA ShellGivesUp ==
  ASSUME ErrandsAssumption, ShellInv, NEW c \in Command, Shell!Fails(c) \/ Shell!Expires(c) \/ Shell!IsCancelled(c)
  PROVE  ShellInv'
<1>1. Shell!NoAnswer \in Outputs /\ AddsUp(Shell!NoAnswer)
  <2>1. 0 <= Fits  BY DEF ErrandsAssumption, Shell!CommandsAssumption
  <2> QED BY <2>1 DEF Shell!NoAnswer, Outputs, AddsUp
<1>2. record[c].state = "running" /\ call' = [call EXCEPT ![c].at = "over"]
      /\ UNCHANGED <<process, age, asker, reported>>
  BY DEF Shell!Fails, Shell!Expires, Shell!IsCancelled, Shell!Running
<1>3. PICK how \in {"failed", "timed_out", "cancelled"} :
        /\ record' = [record EXCEPT ![c] = [state |-> how, answer |-> Shell!NoAnswer]]
        /\ how = "timed_out" => age[c] >= Shell!Deadline
  BY DEF Shell!Fails, Shell!Expires, Shell!IsCancelled, Shell!Finishes
<1>4. how = "timed_out" => call[c].sent >= Outlast
  <2>1. age[c] \in Nat /\ call[c].sent \in Nat /\ {Ceiling, Margin, Outlast} \subseteq Nat
    BY DEF ErrandsAssumption, Shell!CommandsAssumption, ShellInv, ShellShape
  <2>2. call[c].sent = Shell!Deadline \/ age[c] <= call[c].sent + Ceiling + Margin
    BY <1>2 DEF ShellInv, RecordIsTrue, TimeIsHeld
  <2> QED BY <1>3, <2>1, <2>2 DEF Shell!Deadline
<1>5. how \in Over /\ how # "succeeded"  BY DEF Over
<1>6. Shell!NoAnswer.code = "unsaid"  BY DEF Shell!NoAnswer
<1> QED BY <1>1, <1>2, <1>3, <1>4, <1>5, <1>6, ShellFinishes

\* Time goes on where nothing is due; and news is told of records that have ended.
LEMMA ShellTicks == ASSUME ErrandsAssumption, ShellInv, Shell!Tick PROVE ShellInv'
<1>1. UNCHANGED <<process, call, record, asker, reported>>
      /\ age' = [c \in Command |-> IF c \in Shell!Running THEN age[c] + 1 ELSE age[c]]
      /\ \A c \in Command : ~ Shell!Due(c)
  BY DEF Shell!Tick
<1>2. ShellShape'  BY <1>1 DEF ShellInv, ShellShape
<1>3. {Ceiling, Margin} \subseteq Nat  BY DEF ErrandsAssumption, Shell!CommandsAssumption
<1> SUFFICES ASSUME NEW c \in Command PROVE RecordIsTrue(c)' /\ TimeIsHeld(c)'
  BY <1>1, <1>2 DEF ShellInv
<1>4. /\ RecordIsTrue(c) /\ TimeIsHeld(c) /\ age[c] \in Nat /\ call[c].sent \in Nat
      /\ age'[c] = IF record[c].state = "running" THEN age[c] + 1 ELSE age[c]
  BY <1>1 DEF ShellInv, ShellShape, Shell!Running
<1>5. RecordIsTrue(c)'  BY <1>1, <1>4 DEF RecordIsTrue
<1>6. record[c].state = "running" /\ call[c].at = "sent" => age[c] < call[c].sent + Ceiling + Margin
  BY <1>1, <1>3, <1>4 DEF Shell!Due, Shell!Running
<1>7. TimeIsHeld(c)'  BY <1>1, <1>3, <1>4, <1>6 DEF TimeIsHeld
<1> QED BY <1>5, <1>7

\* A check of what is running sees what the record says.
LEMMA ShellChecks == ASSUME ShellInv, Shell!Checks PROVE ShellInv'
BY DEF Shell!Checks, Shell!Ended, ShellInv, ShellShape, RecordIsTrue, TimeIsHeld, Over

\* Every step of the model, the registry and the sandbox.
LEMMA ShellStep == ASSUME ErrandsAssumption, ShellInv, Shell!Next PROVE ShellInv'
BY ShellAsks, ShellTells, ShellSends, ShellRunsOut, ShellAnswered, ShellGivesUp, ShellTicks, ShellChecks
   DEF Shell!Next

\* What the other parts do leaves the commands as they stand.
LEMMA ShellRests == ASSUME ShellInv, UNCHANGED shell PROVE ShellInv'
BY DEF shell, ShellInv, ShellShape, RecordIsTrue, TimeIsHeld

\* Nothing was asked for.
LEMMA ShellStarted == ASSUME ErrandsAssumption, Shell!Init PROVE ShellInv
<1>1. Shell!NoAnswer \in Outputs /\ AddsUp(Shell!NoAnswer)
  <2>1. 0 <= Fits  BY DEF ErrandsAssumption, Shell!CommandsAssumption
  <2> QED BY <2>1 DEF Shell!NoAnswer, Outputs, AddsUp
<1>2. Shell!Deadline \in Nat  BY DEF Shell!Deadline, ErrandsAssumption, Shell!CommandsAssumption
<1> QED BY <1>1, <1>2 DEF Shell!Init, Shell!NoRecord, Shell!NoAnswer, Shell!NotSent, ShellInv, ShellShape, RecordIsTrue, TimeIsHeld, Over

\* What is held of the records is what a reader is promised of a command.
LEMMA ShellPromise == ASSUME ShellInv PROVE CommandIsReported
<1>1. Shell!EndIsTrue
  <2> SUFFICES ASSUME NEW c \in Command
               PROVE  /\ Shell!Cardinality(reported[c] \intersect Shell!Ended) <= 1
                      /\ "succeeded" \in reported[c] =>
                           /\ record[c].answer.code \in {"zero", "none"} /\ record[c].answer.of # "killed"
                           /\ record[c].answer.code = "zero" => process[c] = "exited"
                      /\ record[c].answer.code \in {"zero", "error"} => record[c].answer.of = process[c]
    BY DEF Shell!EndIsTrue
  <2>1. RecordIsTrue(c)  BY DEF ShellInv
  <2>2. reported[c] \intersect Over \subseteq {record[c].state}  BY <2>1 DEF RecordIsTrue
  <2>3. Cardinality({record[c].state}) = 1 /\ IsFiniteSet({record[c].state})  BY FS_Singleton
  <2>4. Cardinality(reported[c] \intersect Over) <= 1  BY <2>2, <2>3, FS_Subset
  <2>5. Shell!Cardinality(reported[c] \intersect Shell!Ended) <= 1
    BY <2>4 DEF Shell!Cardinality, Cardinality, Shell!Ended, Over
  <2>6. "succeeded" \in reported[c] => record[c].state = "succeeded"  BY <2>2 DEF Over
  <2> QED BY <2>1, <2>5, <2>6 DEF RecordIsTrue
<1>2. Shell!CutOffOnlyWhenLate  BY DEF Shell!CutOffOnlyWhenLate, ShellInv, TimeIsHeld
<1>3. Shell!OutputAddsUp  BY DEF Shell!OutputAddsUp, ShellInv, AddsUp
<1> QED BY <1>1, <1>2, <1>3 DEF CommandIsReported, Shell!CommandIsReported

\* A command is told to have ended once, and never well when it was killed or its exit code said
\* otherwise (one with no exit code is told to have ended well), is cut off only when its time is over, and
\* its output adds up: whatever it prints, and for whatever limits and delays.
THEOREM CommandsTellTrue == Spec => []CommandIsReported
<1>1. Init => ShellInv  BY ShellStarted, ErrandsAssumption DEF Init
<1>2. ShellInv /\ [Next]_vars => ShellInv'  BY ShellStep, ShellRests, ErrandsAssumption DEF Next, vars
<1>3. ShellInv => CommandIsReported  BY ShellPromise
<1> QED BY <1>1, <1>2, <1>3, PTL DEF Spec

-----------------------------------------------------------------------------
(* Helpers. A row that is live is in the hands of a coroutine, of the queue *)
(* or of whoever cancelled it; what a helper wrote before it is told to     *)
(* have succeeded is not written over. Mail is in one place at a time.     *)

Crew == Staff!Helper
Alive == {"queued", "running"}

Statuses == {"none", "completed", "failed", "interrupted"} \union Alive
Reasons == {"", "cancelled", "process_restarted"}
Row == [status : Statuses, why : Reasons, from : Nat]
Errand == {"none", "in_progress", "pending", "completed", "failed", "cancelled"}
Places == {"new", "inserted", "prepared", "refused", "waiting", "withdrawing", "withdrawn", "over", "born",
           "promoted", "stuck", "begins", "works", "hears", "finishing", "closing", "stopping", "stopped"}
Tellings == {"none", "succeeded", "failed", "cancelled", "restarted"}

StaffShape ==
  /\ roster \in [Crew -> Row] /\ journal \in [Crew -> Errand] /\ place \in [Crew -> Places]
  /\ outcome \in [Crew -> {"none", "completed", "failed"}]
  /\ told \in [Crew -> Tellings]
  /\ cancelled \subseteq Crew
  /\ inbox \in [Crew -> Seq(Nat)] /\ taken \in [Crew -> Seq(Nat)] /\ said \in [Crew -> Seq(Nat)]
  /\ mails \in Nat /\ steering \in Crew \union {0}

\* Where a helper is says what its row says, or is going to.
RowIsHeld(h) ==
  /\ place[h] \in {"finishing", "closing"} => outcome[h] \in {"completed", "failed"}
  /\ place[h] = "closing" => roster[h].status = outcome[h]
  /\ place[h] = "stopped" => roster[h].status = "interrupted"
  /\ place[h] \in {"stopping", "stopped", "withdrawing", "withdrawn", "stuck"} => h \in cancelled
  /\ place[h] = "over" /\ roster[h].status \in Alive => h \in cancelled
  /\ told[h] = "succeeded" => place[h] = "over" /\ roster[h].status = "completed" /\ journal[h] = "completed"

Rising(s) == \A i, j \in DOMAIN s : i < j => s[i] < s[j]
Below(s, t) == \A i \in DOMAIN s : \A j \in DOMAIN t : s[i] < t[j]
In(m, s) == \E i \in DOMAIN s : s[i] = m

\* Mail is in the order it was sent, wherever it has got to.
MailIsInOrder(h) ==
  /\ Rising(said[h]) /\ Rising(taken[h]) /\ Rising(inbox[h])
  /\ Below(said[h], taken[h]) /\ Below(said[h], inbox[h]) /\ Below(taken[h], inbox[h])
  /\ place[h] = "hears" <=> taken[h] # << >>

\* It is of one helper, and was accepted.
Has(h, m) == In(m, said[h]) \/ In(m, taken[h]) \/ In(m, inbox[h])
MailIsOfOne ==
  \A h \in Crew : \A m : Has(h, m) => m <= mails /\ \A g \in Crew \ {h} : ~ Has(g, m)

RowsAreHeld == \A h \in Crew : RowIsHeld(h)
MailIsKept == MailIsOfOne /\ \A h \in Crew : MailIsInOrder(h)
StaffInv == StaffShape /\ RowsAreHeld /\ MailIsKept

\* A step that moves no mail, and nobody to or from where it is written down.
LEMMA MailStays ==
  ASSUME MailIsKept, UNCHANGED <<inbox, taken, said, mails>>,
         \A h \in Crew : place'[h] = "hears" <=> place[h] = "hears"
  PROVE  MailIsKept'
BY DEF MailIsKept, MailIsOfOne, MailIsInOrder, Has

\* What happens to one helper may let the oldest of the queue into its slot, and no more.
LEMMA RowsAt ==
  ASSUME StaffInv, StaffShape', MailIsKept', NEW h \in Crew, RowIsHeld(h)', cancelled \subseteq cancelled',
         \A g \in Crew \ {h} : /\ roster'[g] = roster[g] /\ journal'[g] = journal[g]
                               /\ outcome'[g] = outcome[g] /\ told'[g] = told[g]
                               /\ place'[g] = place[g] \/ (place[g] = "waiting" /\ place'[g] = "promoted")
  PROVE  StaffInv'
<1> SUFFICES ASSUME NEW g \in Crew, g # h PROVE RowIsHeld(g)'  BY DEF StaffInv, RowsAreHeld
<1>1. RowIsHeld(g)  BY DEF StaffInv, RowsAreHeld
<1> QED BY <1>1 DEF RowIsHeld

\* What a write of a row leaves.
LEMMA StatusIs ==
  ASSUME StaffInv, NEW h \in Crew, NEW status \in Statuses, NEW why \in Reasons, Staff!Status(h, status, why)
  PROVE  roster' \in [Crew -> Row] /\ roster'[h].status = status /\ \A g \in Crew \ {h} : roster'[g] = roster[g]
<1>1. PICK row : row = [roster[h] EXCEPT !.status = status, !.why = why]  OBVIOUS
<1>2. roster \in [Crew -> Row]  BY DEF StaffInv, StaffShape
<1>3. row \in Row /\ row.status = status  BY <1>1, <1>2 DEF Row
<1>4. roster' = [roster EXCEPT ![h] = row]  BY <1>1, <1>2 DEF Staff!Status, Row
<1> QED BY <1>2, <1>3, <1>4

\* Marking a task in the helpers' list marks that one alone.
LEMMA TaskIs ==
  ASSUME StaffInv, NEW h \in Crew, NEW status \in Errand, Staff!Task(h, status)
  PROVE  journal' \in [Crew -> Errand] /\ journal'[h] = status /\ \A g \in Crew \ {h} : journal'[g] = journal[g]
BY DEF Staff!Task, StaffInv, StaffShape, Errand

\* A step of one helper that moves no mail.
LEMMA OneStep ==
  ASSUME StaffInv, NEW h \in Crew, NEW there, place' = [place EXCEPT ![h] = there], there \in Places \ {"hears"}, place[h] # "hears",
         UNCHANGED <<inbox, taken, said, mails, steering, outcome>>,
         roster' \in [Crew -> Row], journal' \in [Crew -> Errand],
         \A g \in Crew \ {h} : roster'[g] = roster[g] /\ journal'[g] = journal[g],
         \/ cancelled' = cancelled /\ told' = told
         \/ cancelled' = cancelled \union {h} /\ told' = told
         \/ cancelled' = cancelled \union {h} /\ told' = [told EXCEPT ![h] = "cancelled"],
         place'[h] = there => RowIsHeld(h)'
  PROVE  StaffInv'
<1>1. /\ place' \in [Crew -> Places]
      /\ place'[h] = there /\ \A g \in Crew \ {h} : place'[g] = place[g]
  BY DEF StaffInv, StaffShape
<1>2. /\ told' \in [Crew -> Tellings]
      /\ \A g \in Crew \ {h} : told'[g] = told[g]
  BY DEF StaffInv, StaffShape, Tellings
<1>3. cancelled' \subseteq Crew /\ cancelled \subseteq cancelled'  BY DEF StaffInv, StaffShape
<1>4. MailIsKept'  BY <1>1, MailStays DEF StaffInv
<1>5. StaffShape'  BY <1>1, <1>2, <1>3 DEF StaffInv, StaffShape
<1> QED BY <1>1, <1>2, <1>3, <1>4, <1>5, RowsAt

\* How a helper is started, until its coroutine works.
LEMMA StaffStarts ==
  ASSUME ErrandsAssumption, StaffInv, NEW h \in Crew,
         \/ \E old \in Staff!Sources : Staff!Inserts(h, old)
         \/ Staff!AddsTask(h) \/ Staff!Queues(h) \/ Staff!Discards(h)
         \/ Staff!TakesFirstStep(h) \/ Staff!Begins(h)
  PROVE  StaffInv'
<1>0. /\ RowIsHeld(h) /\ roster \in [Crew -> Row] /\ journal \in [Crew -> Errand]
      /\ place \in [Crew -> Places] /\ told \in [Crew -> Tellings]
  BY DEF StaffInv, StaffShape, RowsAreHeld
<1>1. CASE \E old \in Staff!Sources : Staff!Inserts(h, old)
  <2>1. PICK old \in Staff!Sources : Staff!Inserts(h, old)  BY <1>1
  <2>2. old \in Nat
    <3>1. NumHelpers \in Nat  BY DEF ErrandsAssumption, Staff!HelpersAssumption
    <3> QED BY <3>1 DEF Staff!Sources, Staff!Nobody, Staff!Helper
  <2>3. PICK row : row = [status |-> "queued", why |-> "", from |-> old]  OBVIOUS
  <2>4. row \in Row /\ row.status = "queued"  BY <2>2, <2>3 DEF Row, Statuses, Reasons, Alive
  <2>5. /\ roster' = [roster EXCEPT ![h] = row] /\ place' = [place EXCEPT ![h] = "inserted"] /\ place[h] = "new"
        /\ UNCHANGED <<journal, outcome, told, cancelled, inbox, taken, said, steering, mails>>
    BY <2>1, <2>3 DEF Staff!Inserts, Staff!Goes, Staff!mail
  <2>6. roster' \in [Crew -> Row] /\ \A g \in Crew \ {h} : roster'[g] = roster[g]  BY <1>0, <2>4, <2>5
  <2>7. place'[h] = "inserted" => RowIsHeld(h)'  BY <1>0, <2>5 DEF RowIsHeld
  <2> QED BY <1>0, <2>5, <2>6, <2>7, OneStep DEF Places
<1>2. CASE Staff!AddsTask(h)
  <2>1. /\ place' = [place EXCEPT ![h] = "prepared"] /\ place[h] = "inserted" /\ Staff!Task(h, "in_progress")
        /\ UNCHANGED <<roster, outcome, told, cancelled, inbox, taken, said, steering, mails>>
    BY <1>2 DEF Staff!AddsTask, Staff!Goes, Staff!mail
  <2>2. journal' \in [Crew -> Errand] /\ \A g \in Crew \ {h} : journal'[g] = journal[g]
    BY <2>1, TaskIs DEF Errand
  <2>3. place'[h] = "prepared" => RowIsHeld(h)'  BY <1>0, <2>1 DEF RowIsHeld
  <2> QED BY <1>0, <2>1, <2>2, <2>3, OneStep DEF Places
<1>3. CASE Staff!Queues(h)
  <2>1. PICK there \in {"born", "waiting", "refused"} : place' = [place EXCEPT ![h] = there]
    BY <1>3 DEF Staff!Queues, Staff!Goes
  <2>2. place[h] = "prepared" /\ UNCHANGED <<roster, journal, outcome, told, cancelled, inbox, taken, said, steering, mails>>
    BY <1>3 DEF Staff!Queues, Staff!mail, Staff!rows
  <2>3. place'[h] = there => RowIsHeld(h)'  BY <1>0, <2>2 DEF RowIsHeld
  <2> QED BY <1>0, <2>1, <2>2, <2>3, OneStep DEF Places
<1>4. CASE Staff!Discards(h)
  <2>1. PICK row : row = Staff!NoRow  OBVIOUS
  <2>2. row \in Row /\ row.status = "none"  BY <2>1 DEF Staff!NoRow, Staff!Nobody, Row, Statuses, Reasons
  <2>3. /\ roster' = [roster EXCEPT ![h] = row] /\ place' = [place EXCEPT ![h] = "over"] /\ place[h] = "refused"
        /\ Staff!Task(h, "none") /\ UNCHANGED <<outcome, told, cancelled, inbox, taken, said, steering, mails>>
    BY <1>4, <2>1 DEF Staff!Discards, Staff!Goes, Staff!mail
  <2>4. roster' \in [Crew -> Row] /\ roster'[h].status = "none" /\ \A g \in Crew \ {h} : roster'[g] = roster[g]
    BY <1>0, <2>2, <2>3
  <2>5. journal' \in [Crew -> Errand] /\ \A g \in Crew \ {h} : journal'[g] = journal[g]
    BY <2>3, TaskIs DEF Errand
  <2>6. place'[h] = "over" => RowIsHeld(h)'  BY <1>0, <2>3, <2>4 DEF RowIsHeld, Alive
  <2> QED BY <1>0, <2>3, <2>4, <2>5, <2>6, OneStep DEF Places
<1>5. CASE Staff!TakesFirstStep(h)
  <2>1. /\ place' = [place EXCEPT ![h] = "begins"] /\ place[h] \in {"born", "promoted"}
        /\ UNCHANGED <<roster, journal, outcome, told, cancelled, inbox, taken, said, steering, mails>>
    BY <1>5 DEF Staff!TakesFirstStep, Staff!Goes, Staff!mail, Staff!rows
  <2>2. place'[h] = "begins" => RowIsHeld(h)'  BY <1>0, <2>1 DEF RowIsHeld
  <2> QED BY <1>0, <2>1, <2>2, OneStep DEF Places
<1>6. CASE Staff!Begins(h)
  <2>1. /\ place' = [place EXCEPT ![h] = "works"] /\ place[h] = "begins" /\ Staff!Status(h, "running", "")
        /\ UNCHANGED <<journal, outcome, told, cancelled, inbox, taken, said, steering, mails>>
    BY <1>6 DEF Staff!Begins, Staff!Goes, Staff!mail
  <2>2. roster' \in [Crew -> Row] /\ \A g \in Crew \ {h} : roster'[g] = roster[g]
    BY <2>1, StatusIs DEF Statuses, Reasons, Alive
  <2>3. place'[h] = "works" => RowIsHeld(h)'  BY <1>0, <2>1 DEF RowIsHeld
  <2> QED BY <1>0, <2>1, <2>2, <2>3, OneStep DEF Places
<1> QED BY <1>1, <1>2, <1>3, <1>4, <1>5, <1>6

\* What an ending does: that one is over and told how, and the first in the queue may go on.
LEMMA EndsIs ==
  ASSUME StaffInv, NEW h \in Crew, NEW how \in {"succeeded", "failed", "cancelled"}, Staff!Ends(h, how),
         place[h] # "hears", UNCHANGED <<inbox, taken, said, mails>>
  PROVE  /\ place' \in [Crew -> Places]
         /\ told' \in [Crew -> Tellings]
         /\ place'[h] = "over" /\ told'[h] = how
         /\ \A g \in Crew \ {h} : /\ told'[g] = told[g]
                                  /\ place'[g] = place[g] \/ (place[g] = "waiting" /\ place'[g] = "promoted")
         /\ MailIsKept'
<1>1. /\ told' = [told EXCEPT ![h] = how] /\ told'[h] = how
      /\ place' = [g \in Crew |->
           IF g = h THEN "over"
           ELSE IF g \in Staff!Waiting /\ \A w \in Staff!Waiting : g <= w THEN "promoted" ELSE place[g]]
      /\ \A g \in Staff!Waiting : place[g] = "waiting"
  BY DEF Staff!Ends, Staff!Waiting, Crew, StaffInv, StaffShape
<1>2. /\ place' \in [Crew -> Places]
      /\ \A g \in Crew \ {h} : place'[g] = place[g] \/ (place[g] = "waiting" /\ place'[g] = "promoted")
      /\ place'[h] = "over"
  BY <1>1 DEF StaffInv, StaffShape, Places
<1>3. MailIsKept'  BY <1>2, MailStays DEF StaffInv
<1> QED BY <1>1, <1>2, <1>3 DEF StaffInv, StaffShape, Tellings

\* It ends, and its row and its task say so before it is told.
LEMMA StaffCloses ==
  ASSUME StaffInv, NEW h \in Crew, Staff!Closes(h) \/ Staff!IsStopped(h)
  PROVE  StaffInv'
<1>0. UNCHANGED <<roster, cancelled, inbox, taken, said, mails, steering>> /\ place[h] \in {"closing", "stopped"}
  BY DEF Staff!Closes, Staff!IsStopped, Staff!mail
<1>1. CASE Staff!Closes(h)
  <2>1. PICK how : how = IF outcome[h] = "completed" THEN "succeeded" ELSE "failed"  OBVIOUS
  <2>2. Staff!Ends(h, how) /\ how \in {"succeeded", "failed", "cancelled"}
        /\ journal' = [journal EXCEPT ![h] = outcome[h]] /\ outcome' = [outcome EXCEPT ![h] = "none"]
        /\ place[h] = "closing"
    BY <1>1, <2>1 DEF Staff!Closes, Staff!Task
  <2>3. place[h] # "hears"  BY <2>2
  <2>4. /\ place'[h] = "over" /\ told'[h] = how
        /\ roster[h].status = outcome[h] /\ outcome[h] \in {"completed", "failed"}
    BY <1>0, <2>2, <2>3, EndsIs DEF StaffInv, RowsAreHeld, RowIsHeld
  <2>5. StaffShape'  BY <1>0, <2>2, <2>3, <2>4, EndsIs DEF StaffInv, StaffShape, Errand
  <2>6. journal'[h] = outcome[h]  BY <2>2 DEF StaffInv, StaffShape
  <2>7. RowIsHeld(h)'  BY <1>0, <2>1, <2>4, <2>6 DEF RowIsHeld, Alive
  <2>8. \A g \in Crew \ {h} : journal'[g] = journal[g] /\ outcome'[g] = outcome[g]
    BY <2>2 DEF StaffInv, StaffShape
  <2> QED BY <1>0, <2>2, <2>3, <2>5, <2>7, <2>8, EndsIs, RowsAt
<1>2. CASE Staff!IsStopped(h)
  <2>1. Staff!Ends(h, "cancelled") /\ journal' = [journal EXCEPT ![h] = "cancelled"] /\ outcome' = outcome
        /\ place[h] = "stopped"
    BY <1>2 DEF Staff!IsStopped, Staff!Task
  <2>2. place[h] # "hears"  BY <2>1
  <2>3. place'[h] = "over" /\ told'[h] = "cancelled" /\ roster[h].status = "interrupted"
    BY <1>0, <2>1, <2>2, EndsIs DEF StaffInv, RowsAreHeld, RowIsHeld
  <2>4. StaffShape'  BY <1>0, <2>1, <2>2, EndsIs DEF StaffInv, StaffShape, Errand
  <2>5. RowIsHeld(h)'  BY <1>0, <2>3 DEF RowIsHeld, Alive
  <2>6. \A g \in Crew \ {h} : journal'[g] = journal[g]  BY <2>1 DEF StaffInv, StaffShape
  <2> QED BY <1>0, <2>1, <2>2, <2>4, <2>5, <2>6, EndsIs, RowsAt
<1> QED BY <1>1, <1>2

\* Its ending is written to its row, or its cancel is asked for.
LEMMA StaffFinishes ==
  ASSUME StaffInv, NEW h \in Crew,
         \/ Staff!Finishes(h) \/ Staff!CancelsQueued(h) \/ Staff!Stops(h) \/ Staff!Withdraws(h)
  PROVE  StaffInv'
<1>0. /\ RowIsHeld(h) /\ roster \in [Crew -> Row] /\ journal \in [Crew -> Errand]
      /\ place \in [Crew -> Places] /\ told \in [Crew -> Tellings]
  BY DEF StaffInv, StaffShape, RowsAreHeld
<1>1. CASE Staff!Finishes(h)
  <2>1. /\ place' = [place EXCEPT ![h] = "closing"] /\ place[h] = "finishing" /\ Staff!Status(h, outcome[h], "")
        /\ UNCHANGED <<journal, outcome, told, cancelled, inbox, taken, said, steering, mails>>
    BY <1>1 DEF Staff!Finishes, Staff!Goes, Staff!mail
  <2>2. PICK how \in {"completed", "failed"} : how = outcome[h]  BY <1>0, <2>1 DEF RowIsHeld
  <2>3. roster' \in [Crew -> Row] /\ roster'[h].status = how /\ \A g \in Crew \ {h} : roster'[g] = roster[g]
    BY <2>1, <2>2, StatusIs DEF Statuses, Reasons
  <2>4. place'[h] = "closing" => RowIsHeld(h)'  BY <1>0, <2>1, <2>2, <2>3 DEF RowIsHeld
  <2> QED BY <1>0, <2>1, <2>3, <2>4, OneStep DEF Places
<1>2. CASE Staff!CancelsQueued(h)
  <2>1. /\ place' = [place EXCEPT ![h] = "withdrawing"] /\ place[h] = "waiting"
        /\ told' = [told EXCEPT ![h] = "cancelled"] /\ cancelled' = cancelled \union {h}
        /\ UNCHANGED <<roster, journal, outcome, inbox, taken, said, steering, mails>>
    BY <1>2 DEF Staff!CancelsQueued, Staff!Goes, Staff!mail, Staff!rows
  <2>2. place'[h] = "withdrawing" => RowIsHeld(h)'  BY <1>0, <2>1 DEF RowIsHeld
  <2> QED BY <1>0, <2>1, <2>2, OneStep DEF Places
<1>3. CASE Staff!Stops(h) \/ (Staff!Withdraws(h) /\ place[h] = "withdrawing")
  <2>1. PICK there \in {"stopped", "withdrawn"} : place' = [place EXCEPT ![h] = there] /\ h \in cancelled
    BY <1>0, <1>3 DEF Staff!Stops, Staff!Withdraws, Staff!Goes, RowIsHeld
  <2>2. /\ Staff!Status(h, "interrupted", "cancelled") /\ place[h] \in {"stopping", "withdrawing"}
        /\ UNCHANGED <<journal, outcome, told, cancelled, inbox, taken, said, steering, mails>>
    BY <1>3 DEF Staff!Stops, Staff!Withdraws, Staff!mail
  <2>3. roster' \in [Crew -> Row] /\ roster'[h].status = "interrupted" /\ \A g \in Crew \ {h} : roster'[g] = roster[g]
    BY <2>2, StatusIs DEF Statuses, Reasons
  <2>4. place'[h] = there => RowIsHeld(h)'  BY <1>0, <2>1, <2>2, <2>3 DEF RowIsHeld
  <2> QED BY <1>0, <2>1, <2>2, <2>3, <2>4, OneStep DEF Places
<1>4. CASE Staff!Withdraws(h) /\ place[h] = "withdrawn"
  <2>1. /\ place' = [place EXCEPT ![h] = "over"] /\ h \in cancelled /\ Staff!Task(h, "cancelled")
        /\ UNCHANGED <<roster, outcome, told, cancelled, inbox, taken, said, steering, mails>>
    BY <1>0, <1>4 DEF Staff!Withdraws, Staff!Goes, Staff!mail, RowIsHeld
  <2>2. journal' \in [Crew -> Errand] /\ \A g \in Crew \ {h} : journal'[g] = journal[g]
    BY <2>1, TaskIs DEF Errand
  <2>3. place'[h] = "over" => RowIsHeld(h)'  BY <1>0, <1>4, <2>1 DEF RowIsHeld
  <2> QED BY <1>0, <1>4, <2>1, <2>2, <2>3, OneStep DEF Places
<1> QED BY <1>1, <1>2, <1>3, <1>4 DEF Staff!Withdraws

\* It is cancelled before its first step.
LEMMA StaffUnborn == ASSUME StaffInv, NEW h \in Crew, Staff!CancelsUnborn(h) PROVE StaffInv'
<1>0. UNCHANGED <<roster, journal, outcome, inbox, taken, said, mails, steering>>
      /\ cancelled' = cancelled \union {h} /\ place[h] \in {"born", "promoted"}
  BY DEF Staff!CancelsUnborn, Staff!mail, Staff!rows
<1>1. CASE Staff!Ends(h, "cancelled")
  <2>1. place[h] # "hears"  BY <1>0
  <2>2. place'[h] = "over" /\ told'[h] = "cancelled" /\ h \in cancelled'  BY <1>0, <1>1, <2>1, EndsIs
  <2>3. StaffShape'  BY <1>0, <1>1, <2>1, EndsIs DEF StaffInv, StaffShape
  <2>4. RowIsHeld(h)'  BY <2>2 DEF RowIsHeld
  <2> QED BY <1>0, <1>1, <2>1, <2>3, <2>4, EndsIs, RowsAt
<1>2. CASE Staff!Goes(h, "stuck") /\ UNCHANGED told
  <2>1. place' = [place EXCEPT ![h] = "stuck"] /\ told' = told  BY <1>2 DEF Staff!Goes
  <2>2. /\ RowIsHeld(h) /\ roster \in [Crew -> Row] /\ journal \in [Crew -> Errand]
    BY DEF StaffInv, StaffShape, RowsAreHeld
  <2>3. place'[h] = "stuck" => RowIsHeld(h)'  BY <1>0, <2>1, <2>2 DEF RowIsHeld
  <2> QED BY <1>0, <2>1, <2>2, <2>3, OneStep DEF Places
<1> QED BY <1>1, <1>2 DEF Staff!CancelsUnborn

\* It is cancelled while it writes: what it waits for is written or not.
LEMMA StaffWrites == ASSUME StaffInv, NEW h \in Crew, Staff!CancelsWriting(h) PROVE StaffInv'
<1>1. UNCHANGED <<inbox, taken, said, mails, steering>> /\ cancelled' = cancelled \union {h}
      /\ place[h] # "hears" /\ Staff!Ends(h, "cancelled") /\ outcome' = [outcome EXCEPT ![h] = "none"]
  BY DEF Staff!CancelsWriting, Staff!mail
<1>2. /\ roster' \in [Crew -> Row]
      /\ \A g \in Crew \ {h} : roster'[g] = roster[g]
  <2>1. UNCHANGED roster \/ Staff!Status(h, "running", "") \/ Staff!Status(h, "interrupted", "cancelled")
        \/ (place[h] = "finishing" /\ Staff!Status(h, outcome[h], ""))
    BY DEF Staff!CancelsWriting, Staff!rows
  <2>2. place[h] = "finishing" => outcome[h] \in Statuses
    BY DEF StaffInv, RowsAreHeld, RowIsHeld, Statuses
  <2>3. "running" \in Statuses /\ "interrupted" \in Statuses /\ "" \in Reasons /\ "cancelled" \in Reasons
    BY DEF Statuses, Reasons, Alive
  <2>4. roster \in [Crew -> Row]  BY DEF StaffInv, StaffShape
  <2>5. roster' \in [Crew -> Row] /\ \A g \in Crew \ {h} : roster'[g] = roster[g]
    BY <2>1, <2>2, <2>3, <2>4, StatusIs
  <2> QED BY <2>5 DEF Row, Statuses, Reasons
<1>3. /\ journal' \in [Crew -> Errand]
      /\ \A g \in Crew \ {h} : journal'[g] = journal[g]
  <2>1. UNCHANGED journal \/ Staff!Task(h, "cancelled") \/ (place[h] = "closing" /\ Staff!Task(h, outcome[h]))
    BY DEF Staff!CancelsWriting, Staff!rows
  <2>2. "cancelled" \in Errand /\ (place[h] = "closing" => outcome[h] \in Errand)
    BY DEF StaffInv, RowsAreHeld, RowIsHeld, Errand
  <2>3. journal \in [Crew -> Errand]  BY DEF StaffInv, StaffShape
  <2>4. journal' \in [Crew -> Errand] /\ \A g \in Crew \ {h} : journal'[g] = journal[g]
    BY <2>1, <2>2, <2>3, TaskIs
  <2> QED BY <2>4 DEF Errand
<1>4. place'[h] = "over" /\ told'[h] = "cancelled" /\ h \in cancelled'  BY <1>1, EndsIs
<1>5. StaffShape'  BY <1>1, <1>2, <1>3, EndsIs DEF StaffInv, StaffShape
<1>6. RowIsHeld(h)'  BY <1>4 DEF RowIsHeld
<1>7. \A g \in Crew \ {h} : outcome'[g] = outcome[g]  BY <1>1 DEF StaffInv, StaffShape
<1> QED BY <1>1, <1>2, <1>3, <1>5, <1>6, <1>7, EndsIs, RowsAt

\* A helper claims a task of the list, or marks it done: rows and mail stand as they did.
LEMMA StaffClaims ==
  ASSUME StaffInv, NEW h \in Crew, NEW t \in Crew,
         Staff!Claims(h, t) \/ Staff!Completes(h, t)
  PROVE  StaffInv'
<1>1. PICK status \in {"in_progress", "completed"} :
        /\ Staff!Task(t, status) /\ (status = "in_progress" => journal[t] = "pending")
        /\ UNCHANGED <<roster, place, outcome, told, cancelled, inbox, taken, said, steering, mails>>
  BY DEF Staff!Claims, Staff!Completes, Staff!mail, Staff!memory
<1>2. journal' \in [Crew -> Errand] /\ journal'[t] = status /\ \A g \in Crew \ {t} : journal'[g] = journal[g]
  BY <1>1, TaskIs DEF Errand
<1>3. StaffShape'  BY <1>1, <1>2 DEF StaffInv, StaffShape, Errand
<1>4. MailIsKept'  BY <1>1, MailStays DEF StaffInv
<1>5. RowIsHeld(t)'  BY <1>1, <1>2 DEF StaffInv, RowsAreHeld, RowIsHeld
<1> QED BY <1>1, <1>2, <1>3, <1>4, <1>5, RowsAt

\* Two places in a run of k and one of n after it are both in the first, both in the second,
\* or one in each.
LEMMA Within ==
  ASSUME NEW k \in Nat, NEW n \in Nat, NEW i \in 1..(k + n), NEW j \in 1..(k + n), i < j
  PROVE  \/ i \in 1..k /\ j \in 1..k /\ i <= k /\ j <= k
         \/ i \in 1..k /\ j - k \in 1..n /\ i <= k /\ ~ (j <= k)
         \/ i - k \in 1..n /\ j - k \in 1..n /\ i - k < j - k /\ ~ (i <= k) /\ ~ (j <= k)
OBVIOUS

\* What is said of mail that has moved on by one, from what is at hand to what is written down.
LEMMA Moved ==
  ASSUME NEW s \in Seq(Nat), NEW t \in Seq(Nat), t # << >>, Rising(s), Rising(t), Below(s, t),
         NEW a, a = Append(s, Head(t)), NEW r, r = Tail(t)
  PROVE  /\ a \in Seq(Nat) /\ r \in Seq(Nat) /\ Rising(a) /\ Rising(r) /\ Below(a, r)
         /\ \A m : In(m, a) \/ In(m, r) <=> In(m, s) \/ In(m, t)
<1>1. PICK k \in Nat : k = Len(s)  OBVIOUS
<1>2. PICK n \in Nat : n = Len(t)  OBVIOUS
<1>3. /\ DOMAIN s = 1..k /\ DOMAIN t = 1..n /\ n # 0 /\ Head(t) = t[1] /\ Head(t) \in Nat
  BY <1>1, <1>2
<1>4. r \in Seq(Nat) /\ DOMAIN r = 1..(n - 1) /\ \A i \in 1..(n - 1) : r[i] = t[i + 1]
  BY <1>2, <1>3
<1>5. /\ a \in Seq(Nat) /\ DOMAIN a = 1..(k + 1) /\ a[k + 1] = t[1] /\ \A i \in 1..k : a[i] = s[i]
  BY <1>1, <1>3
<1>6. \A i \in 1..k : s[i] \in Nat  BY <1>1
<1>7. \A i \in 1..n : t[i] \in Nat  BY <1>2
<1>8. /\ \A i, j \in 1..k : i < j => s[i] < s[j]
      /\ \A i, j \in 1..n : i < j => t[i] < t[j]
      /\ \A i \in 1..k : \A j \in 1..n : s[i] < t[j]
  BY <1>3 DEF Rising, Below
<1>9. Rising(a)
  <2> SUFFICES ASSUME NEW i \in 1..(k + 1), NEW j \in 1..(k + 1), i < j PROVE a[i] < a[j]  BY <1>5 DEF Rising
  <2>1. i \in 1..k /\ 1 \in 1..n  BY <1>3
  <2>2. CASE j = k + 1  BY <1>5, <1>8, <2>1, <2>2
  <2>3. CASE j \in 1..k  BY <1>5, <1>8, <2>1, <2>3
  <2>4. j = k + 1 \/ j \in 1..k
    <3>1. \A x \in Nat : \A y \in 1..(x + 1) : y = x + 1 \/ y \in 1..x  OBVIOUS
    <3> QED BY <3>1
  <2> QED BY <2>2, <2>3, <2>4
<1>10. Rising(r)
  <2> SUFFICES ASSUME NEW i \in 1..(n - 1), NEW j \in 1..(n - 1), i < j PROVE r[i] < r[j]  BY <1>4 DEF Rising
  <2>1. i + 1 \in 1..n /\ j + 1 \in 1..n /\ i + 1 < j + 1 /\ r[i] = t[i + 1] /\ r[j] = t[j + 1]  BY <1>4
  <2> QED BY <1>8, <2>1
<1>11. Below(a, r)
  <2> SUFFICES ASSUME NEW i \in 1..(k + 1), NEW j \in 1..(n - 1) PROVE a[i] < r[j]  BY <1>4, <1>5 DEF Below
  <2>1. j + 1 \in 1..n /\ r[j] = t[j + 1] /\ 1 \in 1..n /\ 1 < j + 1  BY <1>3, <1>4
  <2>2. CASE i = k + 1  BY <1>5, <1>8, <2>1, <2>2
  <2>3. CASE i \in 1..k  BY <1>5, <1>8, <2>1, <2>3
  <2> QED BY <1>1, <1>2, <2>2, <2>3
<1>12. \A m : In(m, a) => In(m, s) \/ In(m, t)
  <2> SUFFICES ASSUME NEW m, NEW i \in 1..(k + 1), a[i] = m PROVE In(m, s) \/ In(m, t)  BY <1>5 DEF In
  <2>1. CASE i = k + 1
    <3>1. 1 \in DOMAIN t /\ t[1] = m  BY <1>3, <1>5, <2>1
    <3> QED BY <3>1 DEF In
  <2>2. CASE i \in 1..k
    <3>1. i \in DOMAIN s /\ s[i] = m  BY <1>3, <1>5, <2>2
    <3> QED BY <3>1 DEF In
  <2> QED BY <1>1, <1>2, <2>1, <2>2
<1>13. \A m : In(m, r) => In(m, t)
  <2> SUFFICES ASSUME NEW m, NEW i \in 1..(n - 1), r[i] = m PROVE In(m, t)  BY <1>4 DEF In
  <2>1. i + 1 \in DOMAIN t /\ t[i + 1] = m  BY <1>3, <1>4
  <2> QED BY <2>1 DEF In
<1>14. \A m : In(m, s) => In(m, a)
  <2> SUFFICES ASSUME NEW m, NEW i \in 1..k, s[i] = m PROVE In(m, a)  BY <1>3 DEF In
  <2>1. i \in DOMAIN a /\ a[i] = m  BY <1>5
  <2> QED BY <2>1 DEF In
<1>15. \A m : In(m, t) => In(m, a) \/ In(m, r)
  <2> SUFFICES ASSUME NEW m, NEW j \in 1..n, t[j] = m PROVE In(m, a) \/ In(m, r)  BY <1>3 DEF In
  <2>1. CASE j = 1
    <3>1. k + 1 \in DOMAIN a /\ a[k + 1] = m  BY <1>5, <2>1
    <3> QED BY <3>1 DEF In
  <2>2. CASE j # 1
    <3>1. j - 1 \in DOMAIN r /\ r[j - 1] = m  BY <1>4, <2>2
    <3> QED BY <3>1 DEF In
  <2> QED BY <1>1, <1>2, <2>1, <2>2
<1> QED BY <1>4, <1>5, <1>9, <1>10, <1>11, <1>12, <1>13, <1>14, <1>15

\* What is said of two runs of mail, one after the other.
LEMMA Joined ==
  ASSUME NEW s \in Seq(Nat), NEW t \in Seq(Nat), Rising(s), Rising(t), Below(s, t)
  PROVE  Rising(s \o t)
<1>1. PICK k \in Nat : k = Len(s)  OBVIOUS
<1>2. PICK n \in Nat : n = Len(t)  OBVIOUS
<1>3. PICK all : all = s \o t  OBVIOUS
<1>4. DOMAIN s = 1..k /\ DOMAIN t = 1..n  BY <1>1, <1>2
<1>5. DOMAIN all = 1..(k + n) /\ \A l \in 1..(k + n) : all[l] = IF l <= k THEN s[l] ELSE t[l - k]
  BY <1>1, <1>2, <1>3
<1>6. SUFFICES ASSUME NEW i \in 1..(k + n), NEW j \in 1..(k + n), i < j PROVE all[i] < all[j]
  BY <1>3, <1>5 DEF Rising
<1>7. \/ i \in 1..k /\ j \in 1..k /\ i <= k /\ j <= k
      \/ i \in 1..k /\ j - k \in 1..n /\ i <= k /\ ~ (j <= k)
      \/ i - k \in 1..n /\ j - k \in 1..n /\ i - k < j - k /\ ~ (i <= k) /\ ~ (j <= k)
  BY <1>6, Within
<1>8. /\ \A x, y \in 1..k : x < y => s[x] < s[y]
      /\ \A x, y \in 1..n : x < y => t[x] < t[y]
      /\ \A x \in 1..k : \A y \in 1..n : s[x] < t[y]
  BY <1>4 DEF Rising, Below
<1>9. /\ all[i] = IF i <= k THEN s[i] ELSE t[i - k]
      /\ all[j] = IF j <= k THEN s[j] ELSE t[j - k]
  BY <1>5
<1> QED BY <1>6, <1>7, <1>8, <1>9

\* Mail at hand and mail accepted are numbers.
LEMMA MailIsNumbers ==
  ASSUME StaffInv, NEW h \in Crew
  PROVE  /\ inbox[h] \in Seq(Nat) /\ taken[h] \in Seq(Nat) /\ said[h] \in Seq(Nat)
         /\ DOMAIN inbox[h] = 1..Len(inbox[h]) /\ Len(inbox[h]) \in Nat
         /\ \A i \in DOMAIN inbox[h] : inbox[h][i] \in Nat
         /\ \A i \in DOMAIN taken[h] : taken[h][i] \in Nat
         /\ \A i \in DOMAIN said[h] : said[h][i] \in Nat
         /\ \A m : Has(h, m) => m \in Nat
<1>1. inbox[h] \in Seq(Nat) /\ taken[h] \in Seq(Nat) /\ said[h] \in Seq(Nat)
  BY DEF StaffInv, StaffShape
<1>2. ASSUME NEW s \in Seq(Nat) PROVE DOMAIN s = 1..Len(s) /\ Len(s) \in Nat /\ \A i \in DOMAIN s : s[i] \in Nat
  BY <1>2
<1>3. \A m : Has(h, m) => m \in Nat  BY <1>1, <1>2 DEF Has, In
<1> QED BY <1>1, <1>2, <1>3

\* Mail moves within one helper, and some of it may be dropped.
LEMMA MailAt ==
  ASSUME MailIsKept, NEW h \in Crew, UNCHANGED mails, MailIsInOrder(h)',
         \A m : Has(h, m)' => Has(h, m),
         \A g \in Crew \ {h} : /\ inbox'[g] = inbox[g] /\ taken'[g] = taken[g] /\ said'[g] = said[g]
                               /\ place'[g] = place[g]
  PROVE  MailIsKept'
<1>1. \A g \in Crew \ {h} : MailIsInOrder(g)' /\ \A m : Has(g, m)' <=> Has(g, m)
  BY DEF MailIsKept, MailIsInOrder, Has
<1>2. ASSUME NEW g \in Crew PROVE MailIsInOrder(g)'  BY <1>1, <1>2
<1>3. ASSUME NEW g \in Crew, NEW m PROVE Has(g, m)' => Has(g, m)  BY <1>1, <1>3
<1>4. MailIsOfOne'  BY <1>3 DEF MailIsKept, MailIsOfOne
<1> QED BY <1>2, <1>4 DEF MailIsKept

\* Mail that is drained is at hand, line by line it is written down, and an ending drops the rest.
LEMMA StaffReads ==
  ASSUME StaffInv, NEW h \in Crew,
         Staff!DrainsMail(h) \/ Staff!Hears(h) \/ Staff!Results(h) \/ Staff!CancelsWorking(h)
  PROVE  StaffInv'
<1>1. UNCHANGED <<roster, journal, told, steering, mails>>
  BY DEF Staff!DrainsMail, Staff!Hears, Staff!Results, Staff!CancelsWorking, Staff!rows
<1>2. << >> \in Seq(Nat) /\ Rising(<< >>) /\ \A s : Below(s, << >>) /\ Below(<< >>, s)
  BY DEF Rising, Below
<1>3. \A m : ~ In(m, << >>)  BY DEF In
<1>4. MailIsInOrder(h)  BY DEF StaffInv, MailIsKept
<1>5. CASE Staff!DrainsMail(h)
  <2>1. /\ place[h] = "works" /\ inbox[h] # << >> /\ place' = [place EXCEPT ![h] = "hears"]
        /\ taken' = [taken EXCEPT ![h] = inbox[h]] /\ inbox' = [inbox EXCEPT ![h] = << >>]
        /\ UNCHANGED <<outcome, cancelled, said>>
    BY <1>5 DEF Staff!DrainsMail, Staff!Goes
  <2>2. /\ place'[h] = "hears" /\ taken'[h] = inbox[h] /\ inbox'[h] = << >> /\ said'[h] = said[h]
        /\ \A g \in Crew \ {h} : /\ inbox'[g] = inbox[g] /\ taken'[g] = taken[g] /\ place'[g] = place[g]
    BY <2>1 DEF StaffInv, StaffShape
  <2>3. StaffShape'  BY <1>1, <1>2, <2>1 DEF StaffInv, StaffShape, Places
  <2>4. MailIsInOrder(h)'  BY <1>2, <1>4, <2>1, <2>2 DEF MailIsInOrder
  <2>5. \A m : Has(h, m)' => Has(h, m)  BY <1>3, <2>2 DEF Has
  <2>6. MailIsKept'  BY <1>1, <2>1, <2>2, <2>4, <2>5, MailAt DEF StaffInv
  <2>7. RowIsHeld(h)'  BY <1>1, <2>1, <2>2 DEF StaffInv, RowsAreHeld, RowIsHeld
  <2> QED BY <1>1, <2>1, <2>2, <2>3, <2>6, <2>7, RowsAt
<1>6. CASE Staff!Hears(h)
  <2>1. /\ place[h] = "hears" /\ said' = [said EXCEPT ![h] = Append(@, Head(taken[h]))]
        /\ taken' = [taken EXCEPT ![h] = Tail(@)]
        /\ place' = [place EXCEPT ![h] = IF taken'[h] = << >> THEN "works" ELSE "hears"]
        /\ UNCHANGED <<outcome, cancelled, inbox>>
    BY <1>6 DEF Staff!Hears, Staff!Goes, StaffInv, StaffShape
  <2>2. said[h] \in Seq(Nat) /\ taken[h] \in Seq(Nat) /\ taken[h] # << >>
    BY <1>4, <2>1 DEF StaffInv, StaffShape, MailIsInOrder
  <2>0. PICK s, t : s = said[h] /\ t = taken[h]  OBVIOUS
  <2>3. PICK a, r : a = Append(s, Head(t)) /\ r = Tail(t)  OBVIOUS
  <2>4. /\ a \in Seq(Nat) /\ r \in Seq(Nat) /\ Rising(a) /\ Rising(r) /\ Below(a, r)
        /\ \A m : In(m, a) \/ In(m, r) <=> In(m, said[h]) \/ In(m, taken[h])
    <3>1. Rising(s) /\ Rising(t) /\ Below(s, t)  BY <1>4, <2>0 DEF MailIsInOrder
    <3>2. s \in Seq(Nat) /\ t \in Seq(Nat) /\ t # << >>  BY <2>0, <2>2
    <3>3. /\ a \in Seq(Nat) /\ r \in Seq(Nat) /\ Rising(a) /\ Rising(r) /\ Below(a, r)
          /\ \A m : In(m, a) \/ In(m, r) <=> In(m, s) \/ In(m, t)
      BY <2>3, <3>1, <3>2, Moved
    <3> QED BY <2>0, <3>3
  <2>5. Below(a, inbox[h]) /\ Below(r, inbox[h])
    <3>1. \A m : In(m, said[h]) \/ In(m, taken[h]) => \A j \in DOMAIN inbox[h] : m < inbox[h][j]
      BY <1>4 DEF MailIsInOrder, Below, In
    <3>2. \A m : In(m, a) \/ In(m, r) => \A j \in DOMAIN inbox[h] : m < inbox[h][j]  BY <2>4, <3>1
    <3> QED BY <3>2 DEF Below, In
  <2>6. said' = [said EXCEPT ![h] = a] /\ taken' = [taken EXCEPT ![h] = r]  BY <2>0, <2>1, <2>3
  <2>7. /\ said'[h] = a /\ taken'[h] = r /\ inbox'[h] = inbox[h]
        /\ place'[h] = IF r = << >> THEN "works" ELSE "hears"
        /\ \A g \in Crew \ {h} : /\ said'[g] = said[g] /\ taken'[g] = taken[g] /\ place'[g] = place[g]
    BY <2>1, <2>6 DEF StaffInv, StaffShape
  <2>8. StaffShape'
    <3>1. place' \in [Crew -> Places]  BY <2>1 DEF StaffInv, StaffShape, Places
    <3>2. said' \in [Crew -> Seq(Nat)] /\ taken' \in [Crew -> Seq(Nat)]  BY <2>4, <2>6 DEF StaffInv, StaffShape
    <3> QED BY <1>1, <2>1, <3>1, <3>2 DEF StaffInv, StaffShape
  <2>9. MailIsInOrder(h)'  BY <1>4, <2>4, <2>5, <2>7 DEF MailIsInOrder
  <2>10. \A m : Has(h, m)' => Has(h, m)  BY <2>4, <2>7 DEF Has
  <2>11. MailIsKept'  BY <1>1, <2>1, <2>7, <2>9, <2>10, MailAt DEF StaffInv
  <2>12. RowIsHeld(h)'  BY <1>1, <2>1, <2>7 DEF StaffInv, RowsAreHeld, RowIsHeld
  <2> QED BY <1>1, <2>1, <2>7, <2>8, <2>11, <2>12, RowsAt
<1>7. CASE Staff!Results(h) \/ Staff!CancelsWorking(h)
  <2>1. PICK there \in {"finishing", "stopping"}, how \in {"none", "completed", "failed"} :
          /\ place[h] \in {"works", "hears"} /\ place' = [place EXCEPT ![h] = there]
          /\ taken' = [taken EXCEPT ![h] = << >>] /\ UNCHANGED <<said, inbox>>
          /\ outcome' = [outcome EXCEPT ![h] = how] \/ (outcome' = outcome /\ there = "stopping")
          /\ there = "finishing" => how # "none" /\ cancelled' = cancelled /\ outcome' = [outcome EXCEPT ![h] = how]
          /\ there = "stopping" => cancelled' = cancelled \union {h}
    BY <1>7 DEF Staff!Results, Staff!CancelsWorking, Staff!Goes
  <2>2. /\ place'[h] = there /\ taken'[h] = << >> /\ (there = "finishing" => outcome'[h] = how)
        /\ \A g \in Crew \ {h} : /\ taken'[g] = taken[g] /\ place'[g] = place[g] /\ outcome'[g] = outcome[g]
    BY <2>1 DEF StaffInv, StaffShape
  <2>3. StaffShape'  BY <1>1, <1>2, <2>1 DEF StaffInv, StaffShape, Places
  <2>4. MailIsInOrder(h)'  BY <1>2, <1>4, <2>1, <2>2 DEF MailIsInOrder
  <2>5. \A m : Has(h, m)' => Has(h, m)  BY <1>3, <2>1, <2>2 DEF Has
  <2>6. MailIsKept'  BY <1>1, <2>1, <2>2, <2>4, <2>5, MailAt DEF StaffInv
  <2>7. RowIsHeld(h)'  BY <1>1, <2>1, <2>2 DEF StaffInv, RowsAreHeld, RowIsHeld
  <2> QED BY <1>1, <2>1, <2>2, <2>3, <2>6, <2>7, RowsAt
<1> QED BY <1>5, <1>6, <1>7

\* Somebody finds a live row, and sends: what it sends is later than all that was sent.
LEMMA StaffSends ==
  ASSUME StaffInv, Staff!Sends \/ \E h \in Crew : Staff!FindsLive(h) PROVE StaffInv'
<1>1. UNCHANGED <<roster, journal, place, outcome, told, cancelled, taken, said>>
  BY DEF Staff!Sends, Staff!FindsLive, Staff!rows, Staff!memory
<1>2. steering' \in Crew \union {0}
  BY DEF Staff!Sends, Staff!FindsLive, Staff!Nobody
<1>3. RowsAreHeld'  BY <1>1 DEF StaffInv, RowsAreHeld, RowIsHeld
<1>4. CASE UNCHANGED <<inbox, mails>>
  <2>1. MailIsKept'  BY <1>1, <1>4, MailStays DEF StaffInv
  <2> QED BY <1>1, <1>2, <1>3, <1>4, <2>1 DEF StaffInv, StaffShape
<1>5. CASE Staff!Sends /\ mails' = mails + 1 /\ inbox' = [inbox EXCEPT ![steering] = Append(@, mails')]
  <2>1. PICK h \in Crew : h = steering  BY <1>5 DEF Staff!Sends, Staff!Nobody, StaffInv, StaffShape
  <2>2. inbox[h] \in Seq(Nat) /\ mails \in Nat /\ mails' = mails + 1 /\ mails' \in Nat
    <3>1. mails' = mails + 1  BY <1>5
    <3>2. mails \in Nat  BY DEF StaffInv, StaffShape
    <3> QED BY <3>1, <3>2, MailIsNumbers
  <2>3. PICK a : a = Append(inbox[h], mails')  OBVIOUS
  <2>4. /\ a \in Seq(Nat) /\ Len(inbox[h]) \in Nat /\ DOMAIN inbox[h] = 1..Len(inbox[h])
        /\ DOMAIN a = 1..(Len(inbox[h]) + 1) /\ a[Len(inbox[h]) + 1] = mails + 1
        /\ \A i \in 1..Len(inbox[h]) : a[i] = inbox[h][i]
    BY <2>2, <2>3
  <2>5. inbox' = [inbox EXCEPT ![h] = a]  BY <1>5, <2>1, <2>3
  <2>6. inbox'[h] = a /\ \A g \in Crew \ {h} : inbox'[g] = inbox[g]  BY <2>5 DEF StaffInv, StaffShape
  <2>7. \A m : In(m, a) => In(m, inbox[h]) \/ m = mails + 1  BY <2>4 DEF In
  <2>8. \A g \in Crew : \A m : Has(g, m) => m <= mails /\ \A f \in Crew \ {g} : ~ Has(f, m)
    BY DEF StaffInv, MailIsKept, MailIsOfOne
  <2>9. MailIsInOrder(h)  BY DEF StaffInv, MailIsKept
  <2>10. /\ \A k \in DOMAIN said[h] : said[h][k] <= mails
         /\ \A k \in DOMAIN taken[h] : taken[h][k] <= mails
         /\ \A k \in DOMAIN inbox[h] : inbox[h][k] <= mails
    BY <2>8 DEF Has, In
  <2>11. /\ \A k \in DOMAIN said[h] : said[h][k] \in Nat
         /\ \A k \in DOMAIN taken[h] : taken[h][k] \in Nat
         /\ \A k \in DOMAIN inbox[h] : inbox[h][k] \in Nat
    BY MailIsNumbers
  <2>20. PICK n \in Nat : n = Len(inbox[h])  BY <2>4
  <2>21. /\ DOMAIN inbox[h] = 1..n /\ DOMAIN a = 1..(n + 1) /\ a[n + 1] = mails + 1
         /\ \A k \in 1..n : a[k] = inbox[h][k] /\ inbox[h][k] <= mails /\ inbox[h][k] \in Nat
    BY <2>4, <2>10, <2>11, <2>20
  <2>22. Rising(a)
    <3> SUFFICES ASSUME NEW k \in 1..(n + 1), NEW l \in 1..(n + 1), k < l PROVE a[k] < a[l]  BY <2>21 DEF Rising
    <3>1. k \in 1..n  BY <2>20
    <3>2. CASE l = n + 1  BY <2>2, <2>21, <3>1, <3>2
    <3>3. CASE l \in 1..n  BY <2>9, <2>21, <3>1, <3>3 DEF MailIsInOrder, Rising
    <3> QED BY <2>20, <3>2, <3>3
  <2>23. ASSUME NEW s, Below(s, inbox[h]), \A k \in DOMAIN s : s[k] \in Nat /\ s[k] <= mails PROVE Below(s, a)
    <3> SUFFICES ASSUME NEW k \in DOMAIN s, NEW l \in 1..(n + 1) PROVE s[k] < a[l]  BY <2>21 DEF Below
    <3>1. CASE l = n + 1  BY <2>2, <2>21, <2>23, <3>1
    <3>2. CASE l \in 1..n  BY <2>21, <2>23, <3>2 DEF Below
    <3> QED BY <2>20, <3>1, <3>2
  <2>12. Rising(a) /\ Below(said[h], a) /\ Below(taken[h], a)
    BY <2>9, <2>10, <2>11, <2>22, <2>23 DEF MailIsInOrder
  <2>13. MailIsInOrder(h)'  BY <1>1, <2>6, <2>9, <2>12 DEF MailIsInOrder
  <2>14. \A g \in Crew \ {h} : MailIsInOrder(g)' /\ \A m : Has(g, m)' <=> Has(g, m)
    BY <1>1, <2>6 DEF StaffInv, MailIsKept, MailIsInOrder, Has
  <2>15. \A m : Has(h, m)' => Has(h, m) \/ m = mails + 1  BY <1>1, <2>6, <2>7 DEF Has
  <2>16. \A g \in Crew : ~ Has(g, mails + 1)  BY <2>2, <2>8
  <2>17. \A g \in Crew : \A m : Has(g, m) => m \in Nat  BY MailIsNumbers
  <2>18. MailIsOfOne'
    <3> SUFFICES ASSUME NEW g \in Crew, NEW m, Has(g, m)' PROVE m <= mails' /\ \A f \in Crew \ {g} : ~ Has(f, m)'
      BY DEF MailIsOfOne
    <3>1. CASE Has(g, m)
      <4>1. m \in Nat /\ m <= mails /\ m # mails + 1 /\ \A f \in Crew \ {g} : ~ Has(f, m)
        BY <2>2, <2>8, <2>17, <3>1
      <4> QED BY <2>2, <2>14, <2>15, <4>1
    <3>2. CASE ~ Has(g, m)
      <4>1. g = h /\ m = mails + 1  BY <2>14, <2>15, <3>2
      <4> QED BY <2>2, <2>14, <2>16, <4>1
    <3> QED BY <3>1, <3>2
  <2>19. MailIsKept'  BY <2>13, <2>14, <2>18 DEF MailIsKept
  <2>24. StaffShape'  BY <1>1, <1>2, <2>2, <2>4, <2>5 DEF StaffInv, StaffShape
  <2> QED BY <1>3, <2>19, <2>24 DEF StaffInv
<1> QED BY <1>4, <1>5 DEF Staff!Sends, Staff!FindsLive

\* The process dies, and the next start ends what was live.
LEMMA StaffRestarts == ASSUME StaffInv, Staff!Restarts PROVE StaffInv'
<1>1. /\ roster' = [h \in Crew |->
           IF h \in Staff!Interrupted THEN [roster[h] EXCEPT !.status = "interrupted", !.why = "process_restarted"]
           ELSE roster[h]]
      /\ journal' = [h \in Crew |-> IF journal[h] = "in_progress" THEN "pending" ELSE journal[h]]
      /\ told' = [h \in Crew |-> IF h \in Staff!Interrupted THEN "restarted" ELSE told[h]]
      /\ place' = [h \in Crew |-> IF place[h] = "new" THEN "new" ELSE "over"]
      /\ outcome' = [h \in Crew |-> "none"] /\ steering' = 0
      /\ taken' = [h \in Crew |-> << >>]
      /\ UNCHANGED <<cancelled, inbox, said, mails>>
  BY DEF Staff!Restarts, Crew, Staff!Nobody
<1>2. \A h \in Crew : h \in Staff!Interrupted <=> roster[h].status \in Alive
  BY DEF Staff!Interrupted, Staff!LiveStatus, Alive, Crew
<1>3. ASSUME NEW h \in Crew
      PROVE  /\ roster'[h] \in Row
             /\ roster'[h].status = IF roster[h].status \in Alive THEN "interrupted" ELSE roster[h].status
  <2>1. PICK row : row = [roster[h] EXCEPT !.status = "interrupted", !.why = "process_restarted"]  OBVIOUS
  <2>2. roster[h] \in Row  BY DEF StaffInv, StaffShape
  <2>3. row \in Row /\ row.status = "interrupted"  BY <2>1, <2>2 DEF Row, Statuses, Reasons
  <2>4. roster'[h] = IF roster[h].status \in Alive THEN row ELSE roster[h]  BY <1>1, <1>2, <2>1
  <2> QED BY <2>2, <2>3, <2>4
<1>4. StaffShape'
  <2>1. << >> \in Seq(Nat)  OBVIOUS
  <2>2. roster' \in [Crew -> Row]  BY <1>1, <1>3
  <2>3. journal' \in [Crew -> Errand] /\ told' \in [Crew -> Tellings] /\ place' \in [Crew -> Places]
    BY <1>1 DEF StaffInv, StaffShape, Errand, Tellings, Places
  <2>4. outcome' \in [Crew -> {"none", "completed", "failed"}] /\ taken' \in [Crew -> Seq(Nat)]  BY <1>1, <2>1
  <2> QED BY <1>1, <2>2, <2>3, <2>4 DEF StaffInv, StaffShape
<1>5. RowsAreHeld'
  <2> SUFFICES ASSUME NEW h \in Crew PROVE RowIsHeld(h)'  BY DEF RowsAreHeld
  <2>1. RowIsHeld(h)  BY DEF StaffInv, RowsAreHeld
  <2>2. /\ place'[h] = IF place[h] = "new" THEN "new" ELSE "over"
        /\ told'[h] = IF roster[h].status \in Alive THEN "restarted" ELSE told[h]
        /\ journal'[h] = IF journal[h] = "in_progress" THEN "pending" ELSE journal[h]
    BY <1>1, <1>2
  <2>3. roster'[h].status \notin Alive /\ (told'[h] = "succeeded" => roster'[h].status = roster[h].status)
    BY <1>3, <2>2 DEF Alive
  <2> QED BY <2>1, <2>2, <2>3 DEF RowIsHeld
<1>6. MailIsKept'
  <2>1. \A h \in Crew : taken'[h] = << >> /\ place'[h] # "hears" /\ said'[h] = said[h] /\ inbox'[h] = inbox[h]
    BY <1>1
  <2>2. \A m : ~ In(m, << >>)  BY DEF In
  <2>3. \A h \in Crew : \A m : Has(h, m)' => Has(h, m)  BY <2>1, <2>2 DEF Has
  <2>4. Rising(<< >>) /\ \A s : Below(s, << >>) /\ Below(<< >>, s)  BY DEF Rising, Below
  <2>5. \A h \in Crew : MailIsInOrder(h)'
    <3> SUFFICES ASSUME NEW h \in Crew PROVE MailIsInOrder(h)'  OBVIOUS
    <3>1. MailIsInOrder(h)  BY DEF StaffInv, MailIsKept
    <3> QED BY <2>1, <2>4, <3>1 DEF MailIsInOrder
  <2>6. MailIsOfOne'  BY <1>1, <2>3 DEF StaffInv, MailIsKept, MailIsOfOne
  <2> QED BY <2>5, <2>6 DEF MailIsKept
<1> QED BY <1>4, <1>5, <1>6 DEF StaffInv

\* Every step of the conversation, its helpers and the registry.
LEMMA StaffStep == ASSUME ErrandsAssumption, StaffInv, Staff!Next PROVE StaffInv'
BY StaffStarts, StaffReads, StaffFinishes, StaffCloses, StaffUnborn, StaffWrites, StaffClaims, StaffSends,
   StaffRestarts DEF Staff!Next, Crew

\* What the other parts do leaves the helpers as they stand.
LEMMA StaffRests == ASSUME StaffInv, UNCHANGED staff PROVE StaffInv'
BY DEF staff, StaffInv, StaffShape, RowsAreHeld, RowIsHeld, MailIsKept, MailIsOfOne, MailIsInOrder, Has

\* Nobody was started.
LEMMA StaffStarted == ASSUME Staff!Init PROVE StaffInv
<1>1. << >> \in Seq(Nat) /\ Rising(<< >>) /\ Below(<< >>, << >>) /\ \A m : ~ In(m, << >>)
  BY DEF Rising, Below, In
<1>2. Staff!NoRow \in Row
      /\ Staff!NoRow.status = "none"
  BY DEF Staff!NoRow, Staff!Nobody, Row, Statuses, Reasons
<1>3. StaffShape
  BY <1>1, <1>2 DEF Staff!Init, StaffShape, Crew, Staff!Nobody, Errand, Places, Tellings
<1>4. RowsAreHeld  BY <1>2 DEF Staff!Init, RowsAreHeld, RowIsHeld, Crew, Alive
<1>5. MailIsKept  BY <1>1 DEF Staff!Init, MailIsKept, MailIsOfOne, MailIsInOrder, Has, Crew
<1> QED BY <1>3, <1>4, <1>5 DEF StaffInv

\* What is held of rows, outcomes and mail is what the helpers promise.
LEMMA StaffPromise == ASSUME StaffInv PROVE HelperIsTrue
<1>1. Staff!LiveRowIsHeld /\ Staff!SucceededIsWritten
  BY DEF StaffInv, RowsAreHeld, RowIsHeld, Staff!LiveRowIsHeld, Staff!SucceededIsWritten, Staff!LiveStatus,
         Crew, Alive
<1>2. ASSUME NEW h \in Crew, NEW i \in DOMAIN (said[h] \o inbox[h]), NEW j \in DOMAIN (said[h] \o inbox[h]), i < j
      PROVE  (said[h] \o inbox[h])[i] < (said[h] \o inbox[h])[j]
  <2>1. said[h] \in Seq(Nat) /\ inbox[h] \in Seq(Nat)  BY DEF StaffInv, StaffShape
  <2>2. Rising(said[h]) /\ Rising(inbox[h]) /\ Below(said[h], inbox[h])
    BY DEF StaffInv, MailIsKept, MailIsInOrder
  <2>3. Rising(said[h] \o inbox[h])  BY <2>1, <2>2, Joined
  <2> QED BY <1>2, <2>3 DEF Rising
<1>3. \A g, h \in Crew : g # h => Staff!ToSet(said[g]) \intersect Staff!ToSet(said[h]) = {}
  BY DEF StaffInv, MailIsKept, MailIsOfOne, Has, In, Staff!ToSet
<1>4. Staff!MailIsReadOnce  BY <1>2, <1>3 DEF Staff!MailIsReadOnce, Crew
<1> QED BY <1>1, <1>4 DEF HelperIsTrue

\* Whoever reads that a helper is queued or running can wait for it, what succeeded left its report,
\* and no mail is read twice: for any number of helpers, slots and messages, and through restarts.
THEOREM HelpersAreHeld == Spec => []HelperIsTrue
<1>1. Init => StaffInv  BY StaffStarted DEF Init
<1>2. StaffInv /\ [Next]_vars => StaffInv'  BY StaffStep, StaffRests, ErrandsAssumption DEF Next, vars
<1>3. StaffInv => HelperIsTrue  BY StaffPromise
<1> QED BY <1>1, <1>2, <1>3, PTL DEF Spec

-----------------------------------------------------------------------------
(* Files. *)

\* An edit that is under way, and that nobody has come between: the file reads as it was
\* read, and what is told would come of it is what comes of it where the quote was found.
EditStands(a) ==
  LET do == doing[a] IN
  /\ do.seen = Desk!FirstOf(disk[Desk!Notes], Window) /\ Desk!Valid(do.says)
  /\ \E i \in Desk!Occurs(do.seen, do.quote) :
       do.says = Desk!Spliced(do.seen, Desk!Match(i, i + Len(do.quote) - 1, do.quote, do.rung), do.text, do.joins)

\* What was seen for a fingerprint is what is there.
SeenStands(a) == doing[a].seen = Desk!FirstOf(disk[Desk!Notes], Window)

\* Whoever is at nothing, or at another file.
Apart(a) == doing[a].op = "idle" \/ doing[a].file # Desk!Notes

DoingIs(a) ==
  LET do == doing[a] IN
  /\ do.op \in {"idle", "overwrite", "append", "patch", "edit"}
  /\ do.op # "idle" => /\ do.text \in Text /\ Desk!IsPrefix(Desk!Mine, do.file)
                       /\ do.guard # Desk!Nothing => /\ do.seen = do.guard /\ do.file = Desk!Notes
                                                     /\ a \notin beside => SeenStands(a)
  /\ do.op = "edit" => do.file = Desk!Notes /\ do.quote \in Seq(Desk!Line) /\ do.rung <= loosest
  /\ do.op = "edit" /\ a \notin beside => EditStands(a)

ResultIs(a) ==
  LET told_ == result[a] IN
  /\ told_.done /\ told_.guard # Desk!Nothing => /\ told_.seen = told_.guard
                                                 /\ told_.alone => told_.was = told_.guard
  /\ told_.op = "edit" /\ told_.done /\ told_.alone =>
       /\ told_.rung <= loosest
       /\ Len(told_.seen) < Window => told_.left = told_.says /\ Desk!Valid(told_.left)

DeskShape ==
  /\ disk \in [Desk!File -> Seq(Desk!Line) \ {<< >>}]
  /\ DOMAIN doing = Author /\ DOMAIN result = Author /\ loosest \in 1..3
DeskInv ==
  /\ DeskShape /\ Desk!OthersAreLeft
  /\ \A a \in Author : DoingIs(a) /\ ResultIs(a)

\* What is found is where it was found, and is no looser than was allowed.
LEMMA LocatedIs ==
  ASSUME NEW text \in Seq(Desk!Line), NEW q \in Seq(Desk!Line), NEW rungs \in 1..3, NEW alike,
         NEW m \in Desk!Located(text, q, rungs, alike)
  PROVE  /\ m.text \in Seq(Desk!Line) /\ m.from \in Desk!Occurs(text, m.text) /\ m.rung <= rungs
         /\ m = Desk!Match(m.from, m.from + Len(m.text) - 1, m.text, m.rung)
<1>1. q # << >> /\ Len(q) \in Nat \ {0} /\ DOMAIN q = 1..Len(q) /\ Len(text) \in Nat /\ DOMAIN text = 1..Len(text)
  BY DEF Desk!Located
<1>2. ASSUME NEW i \in 1..Len(text), NEW j \in i..Len(text), NEW r, r <= rungs,
             m = Desk!Match(i, j, SubSeq(text, i, j), r)
      PROVE  /\ m.text \in Seq(Desk!Line) /\ m.from \in Desk!Occurs(text, m.text) /\ m.rung <= rungs
             /\ m = Desk!Match(m.from, m.from + Len(m.text) - 1, m.text, m.rung)
  <2>1. PICK s : s = SubSeq(text, i, j)  OBVIOUS
  <2>2. PICK n \in Nat : n = j - i + 1  BY <1>1
  <2>3. /\ s \in Seq(Desk!Line) /\ Len(s) = n /\ DOMAIN s = 1..n
        /\ \A k \in 1..n : s[k] = text[i + k - 1]
    BY <1>1, <2>1, <2>2
  <2>4. i + n - 1 = j /\ i + n - 1 <= Len(text)  BY <1>1, <2>2
  <2>5. i \in Desk!Occurs(text, s)  BY <2>3, <2>4 DEF Desk!Occurs, Desk!Reads
  <2>6. m.text = s /\ m.from = i /\ m.to = j /\ m.rung = r  BY <1>2, <2>1 DEF Desk!Match
  <2> QED BY <1>2, <2>1, <2>3, <2>4, <2>5, <2>6 DEF Desk!Match
<1>3. CASE \E i \in Desk!Occurs(text, q) : m = Desk!Match(i, i + Len(q) - 1, q, 1)
  <2>1. PICK i \in Desk!Occurs(text, q) : m = Desk!Match(i, i + Len(q) - 1, q, 1)  BY <1>3
  <2>2. m.text = q /\ m.from = i /\ m.rung = 1  BY <2>1 DEF Desk!Match
  <2> QED BY <2>1, <2>2
<1>4. CASE rungs >= 2 /\ \E i \in Desk!Folded(text, q) :
             m = Desk!Match(i, i + Len(q) - 1, SubSeq(text, i, i + Len(q) - 1), 2)
  <2>1. PICK i \in Desk!Folded(text, q) : m = Desk!Match(i, i + Len(q) - 1, SubSeq(text, i, i + Len(q) - 1), 2)
    BY <1>4
  <2>2. i \in 1..Len(text) /\ i + Len(q) - 1 \in i..Len(text)  BY <1>1 DEF Desk!Folded
  <2>3. PICK j \in i..Len(text) : j = i + Len(q) - 1  BY <2>2
  <2> QED BY <1>2, <1>4, <2>1, <2>2, <2>3
<1>5. CASE rungs = 3 /\ \E w \in Desk!Anchored(text, q) : m = Desk!Match(w[1], w[2], SubSeq(text, w[1], w[2]), 3)
  <2>1. PICK w \in Desk!Anchored(text, q) : m = Desk!Match(w[1], w[2], SubSeq(text, w[1], w[2]), 3)  BY <1>5
  <2>2. w[1] \in 1..Len(text) /\ w[2] \in w[1]..Len(text)  BY <1>1 DEF Desk!Anchored
  <2> QED BY <1>2, <1>5, <2>1, <2>2
<1> QED BY <1>3, <1>4, <1>5 DEF Desk!Located, Desk!Exact, Desk!Whitespace, Desk!Fuzzy

\* What comes of a replacement is a text.
LEMMA SplicedIs ==
  ASSUME NEW text \in Seq(Desk!Line), NEW i \in 1..Len(text), NEW to \in (i - 1)..Len(text), NEW quote, NEW rung,
         NEW new \in Seq(Desk!Line) \ {<< >>}, NEW joins
  PROVE  Desk!Spliced(text, Desk!Match(i, to, quote, rung), new, joins) \in Seq(Desk!Line) \ {<< >>}
<1>1. PICK m : m = Desk!Match(i, to, quote, rung)  OBVIOUS
<1>2. m.from = i /\ m.to = to  BY <1>1 DEF Desk!Match
<1>3. text[i] \in Desk!Line /\ new[1] \in Desk!Line /\ Len(new) \in Nat \ {0} /\ 1 \in DOMAIN new
  OBVIOUS
<1>4. PICK lead : lead = IF m.text[1].lead = text[m.from].lead THEN new[1].lead ELSE text[m.from].lead  OBVIOUS
<1>5. lead \in {"", "space", "code"}  BY <1>2, <1>3, <1>4 DEF Desk!Line
<1>6. PICK line : line = [new[1] EXCEPT !.lead = lead]  OBVIOUS
<1>7. line \in Desk!Line  BY <1>3, <1>5, <1>6 DEF Desk!Line
<1>8. PICK kept : kept = [new EXCEPT ![1] = line]  OBVIOUS
<1>9. kept \in Seq(Desk!Line) /\ kept # << >> /\ Len(kept) \in Nat \ {0} /\ kept[Len(kept)] \in Desk!Line
  BY <1>3, <1>7, <1>8
<1>10. PICK before, after : before = SubSeq(text, 1, m.from - 1) /\ after = SubSeq(text, m.to + 1, Len(text))
  OBVIOUS
<1>11. before \in Seq(Desk!Line) /\ after \in Seq(Desk!Line)  BY <1>2, <1>10
<1>12. PICK last : last = [kept[Len(kept)] EXCEPT !.word = "joined"]  OBVIOUS
<1>13. last \in Desk!Line  BY <1>9, <1>12 DEF Desk!Line
<1>14. PICK joined : joined = [kept EXCEPT ![Len(kept)] = last]  OBVIOUS
<1>15. joined \in Seq(Desk!Line) /\ joined # << >>  BY <1>9, <1>13, <1>14
<1>16. ASSUME NEW s \in Seq(Desk!Line) \ {<< >>}, NEW t \in Seq(Desk!Line)
       PROVE  before \o s \o t \in Seq(Desk!Line) \ {<< >>}
  <2>1. PICK u : u = before \o s  OBVIOUS
  <2>2. u \in Seq(Desk!Line) /\ u # << >>  BY <1>11, <2>1
  <2>3. u \o t \in Seq(Desk!Line) /\ u \o t # << >>  BY <2>2
  <2> QED BY <2>1, <2>3
<1>17. before \o kept \o after \in Seq(Desk!Line) \ {<< >>}  BY <1>9, <1>11, <1>16
<1>18. after # << >> => before \o joined \o Tail(after) \in Seq(Desk!Line) \ {<< >>}
  <2> SUFFICES ASSUME after # << >> PROVE before \o joined \o Tail(after) \in Seq(Desk!Line) \ {<< >>}
    OBVIOUS
  <2>1. Tail(after) \in Seq(Desk!Line)  BY <1>11
  <2> QED BY <1>15, <1>16, <2>1
<1>19. \/ Desk!Spliced(text, m, new, joins) = before \o kept \o after
       \/ after # << >> /\ Desk!Spliced(text, m, new, joins) = before \o joined \o Tail(after)
  BY <1>4, <1>6, <1>8, <1>10, <1>12, <1>14 DEF Desk!Spliced
<1> QED BY <1>1, <1>17, <1>18, <1>19

\* What the service serves of a text that is shorter than what it may serve is the text.
LEMMA ServedIs ==
  ASSUME NEW text \in Seq(Desk!Line) \ {<< >>}, Window \in Nat
  PROVE  /\ Desk!FirstOf(text, Window) \in Seq(Desk!Line)
         /\ Len(Desk!FirstOf(text, Window)) < Window => Desk!FirstOf(text, Window) = text
<1>1. PICK n \in Nat : n = Len(text)  OBVIOUS
<1>2. CASE Window < n
  <2>1. Desk!FirstOf(text, Window) = SubSeq(text, 1, Window)  BY <1>1, <1>2 DEF Desk!FirstOf
  <2>2. SubSeq(text, 1, Window) \in Seq(Desk!Line) /\ Len(SubSeq(text, 1, Window)) = Window  BY <1>1, <1>2
  <2> QED BY <2>1, <2>2
<1>3. CASE ~ (Window < n)
  <2>1. Desk!FirstOf(text, Window) = SubSeq(text, 1, Len(text))  BY <1>1, <1>3 DEF Desk!FirstOf
  <2>2. SubSeq(text, 1, Len(text)) = text  BY <1>1
  <2> QED BY <2>1, <2>2
<1> QED BY <1>2, <1>3

\* What others do leaves an edit standing, or is noted beside it.
LEMMA StillStands ==
  ASSUME DeskInv, NEW b \in Author, doing'[b] = doing[b], loosest' = loosest, result'[b] = result[b],
         b \notin beside' => b \notin beside /\ (disk'[Desk!Notes] = disk[Desk!Notes] \/ Apart(b))
  PROVE  DoingIs(b)' /\ ResultIs(b)'
<1>1. DoingIs(b) /\ ResultIs(b)  BY DEF DeskInv
<1>2. ResultIs(b)'  BY <1>1 DEF ResultIs
<1>3. doing'[b].op = "edit" /\ b \notin beside' => EditStands(b)'
  BY <1>1 DEF DoingIs, EditStands, Apart
<1>4. doing'[b].op # "idle" /\ doing'[b].guard # Desk!Nothing /\ b \notin beside' => SeenStands(b)'
  BY <1>1 DEF DoingIs, SeenStands, Apart
<1> QED BY <1>1, <1>2, <1>3, <1>4 DEF DoingIs

\* Whatever is put in the place of a file of this conversation leaves the others' alone.
LEMMA PutsIs ==
  ASSUME DeskInv, NEW a \in Author, NEW file, Desk!IsPrefix(Desk!Mine, file),
         NEW text, file \in Desk!File => text \in Seq(Desk!Line) \ {<< >>}, Desk!Puts(a, file, text)
  PROVE  /\ disk' \in [Desk!File -> Seq(Desk!Line) \ {<< >>}] /\ Desk!OthersAreLeft'
         /\ \A b \in Author \ {a} : b \notin beside' =>
              b \notin beside /\ (disk'[Desk!Notes] = disk[Desk!Notes] \/ Apart(b))
         /\ a \notin beside' <=> a \notin beside
         /\ file \in Desk!File => disk'[file] = text
<1>1. disk' = [disk EXCEPT ![file] = text]  BY DEF Desk!Puts
<1>2. disk' \in [Desk!File -> Seq(Desk!Line) \ {<< >>}] /\ (file \in Desk!File => disk'[file] = text)
  BY <1>1 DEF DeskInv, DeskShape
<1>3. \A f \in Desk!File : f # file => disk'[f] = disk[f]  BY <1>1 DEF DeskInv, DeskShape
<1>4. Desk!OthersAreLeft'
  <2> SUFFICES ASSUME NEW f \in Desk!File, ~ Desk!IsPrefix(Desk!Mine, f) PROVE disk'[f] \in Start
    BY DEF Desk!OthersAreLeft
  <2> QED BY <1>3 DEF DeskInv, Desk!OthersAreLeft
<1>5. Desk!Notes \in Desk!File  BY DEF Desk!Notes, Desk!File
<1>6. ASSUME NEW b \in Author \ {a}, b \notin beside'
      PROVE  b \notin beside /\ (disk'[Desk!Notes] = disk[Desk!Notes] \/ Apart(b))
  <2>1. DoingIs(b)  BY DEF DeskInv
  <2>2. CASE disk[file] = text
    <3>1. disk'[Desk!Notes] = disk[Desk!Notes]  BY <1>2, <1>3, <1>5, <2>2
    <3> QED BY <1>6, <2>2, <3>1 DEF Desk!Puts
  <2>3. CASE disk[file] # text
    <3>1. b \notin beside /\ (doing[b].op = "idle" \/ doing[b].file # file)  BY <1>6, <2>3 DEF Desk!Puts
    <3> QED BY <1>3, <1>5, <3>1 DEF Apart
  <2> QED BY <2>2, <2>3
<1>7. a \notin beside' <=> a \notin beside  BY DEF Desk!Puts
<1> QED BY <1>2, <1>4, <1>6, <1>7

\* The folder of this conversation holds its notes and its draft.
LEMMA MineIs ==
  /\ Desk!Notes \in Desk!File /\ Desk!IsPrefix(Desk!Mine, Desk!Notes)
  /\ Desk!IsPrefix(Desk!Mine, Desk!Mine \o <<"draft">>)
<1>1. \A x : Desk!IsPrefix(Desk!Mine, Desk!Mine \o <<x>>)
  <2> SUFFICES ASSUME NEW x PROVE Desk!IsPrefix(Desk!Mine, Desk!Mine \o <<x>>)  OBVIOUS
  <2>1. PICK s, t : s = Desk!Mine /\ t = Desk!Mine \o <<x>>  OBVIOUS
  <2>2. /\ Len(s) = 2 /\ DOMAIN s = 1..2 /\ Len(t) = 3 /\ DOMAIN t = 1..3 /\ \A i \in 1..2 : t[i] = s[i]
    BY <2>1 DEF Desk!Mine
  <2> QED BY <2>1, <2>2 DEF Desk!IsPrefix
<1> QED BY <1>1 DEF Desk!Notes, Desk!File

\* A step of one author, told apart from what it does to the others.
LEMMA DeskAt ==
  ASSUME DeskInv, NEW a \in Author, loosest' = loosest, DOMAIN doing' = Author, DOMAIN result' = Author,
         disk' \in [Desk!File -> Seq(Desk!Line) \ {<< >>}], Desk!OthersAreLeft', DoingIs(a)', ResultIs(a)',
         \A b \in Author \ {a} :
           /\ doing'[b] = doing[b] /\ result'[b] = result[b]
           /\ b \notin beside' => b \notin beside /\ (disk'[Desk!Notes] = disk[Desk!Notes] \/ Apart(b))
  PROVE  DeskInv'
<1>1. \A b \in Author \ {a} : DoingIs(b)' /\ ResultIs(b)'  BY StillStands
<1>2. DeskShape'  BY DEF DeskInv, DeskShape
<1> QED BY <1>1, <1>2 DEF DeskInv

\* Somebody who is at nothing is doing as it should.
LEMMA IdleIs == ASSUME NEW a, doing'[a] = Desk!Idle PROVE DoingIs(a)'
<1>1. Desk!Idle.op = "idle"  BY DEF Desk!Idle
<1>2. doing'[a].op = "idle"  BY <1>1
<1> QED BY <1>2 DEF DoingIs

\* A reading, and a refusal, move nothing.
LEMMA DeskRests ==
  ASSUME DeskInv, NEW a \in Author, UNCHANGED <<disk, doing, result, loosest>>,
         beside' = beside \/ (beside' = beside \ {a} /\ doing[a] = Desk!Idle)
  PROVE  DeskInv'
<1>1. DoingIs(a)'
  <2>1. CASE beside' = beside  BY <2>1, StillStands
  <2>2. CASE doing[a] = Desk!Idle  BY <2>2, IdleIs
  <2> QED BY <2>1, <2>2
<1>2. ResultIs(a)'  BY DEF DeskInv, ResultIs
<1>3. disk' \in [Desk!File -> Seq(Desk!Line) \ {<< >>}] /\ DOMAIN doing' = Author /\ DOMAIN result' = Author
  BY DEF DeskInv, DeskShape
<1>4. Desk!OthersAreLeft'  BY DEF DeskInv, Desk!OthersAreLeft
<1> QED BY <1>1, <1>2, <1>3, <1>4, DeskAt

\* A write is decided on: with a fingerprint, only as its author had been shown the file.
LEMMA DeskChecks == ASSUME DeskInv, NEW a \in Author, Desk!ChecksWrite(a) PROVE DeskInv'
<1>1. doing[a] = Desk!Idle /\ beside' = beside \ {a} /\ UNCHANGED <<disk, result, loosest>>
  BY DEF Desk!ChecksWrite, Desk!Begins, Desk!Refuses
<1>2. CASE doing' = doing  BY <1>1, <1>2, DeskRests
<1>3. CASE doing' # doing
  <2>1. PICK name \in Desk!Name, op \in {"overwrite", "append", "patch"}, text \in Text :
          /\ Desk!Confined(name)
          /\ \E guard \in IF Desk!Normal(name) = Desk!Notes THEN Desk!Guards(a) ELSE {Desk!Nothing} :
               /\ ~ (guard # Desk!Nothing /\ Desk!Stale(Desk!Normal(name), guard))
               /\ Desk!Goes(a, op, Desk!Normal(name), guard,
                            IF guard = Desk!Nothing THEN Desk!Nothing ELSE Desk!Served(Desk!Normal(name)), text)
    BY <1>3 DEF Desk!ChecksWrite, Desk!Refuses
  <2>2. PICK file : file = Desk!Normal(name)  OBVIOUS
  <2>3. Desk!IsPrefix(Desk!Mine, file)  BY <2>1, <2>2 DEF Desk!Confined
  <2>4. PICK guard : /\ guard # Desk!Nothing => file = Desk!Notes
                     /\ ~ (guard # Desk!Nothing /\ Desk!Stale(file, guard))
                     /\ Desk!Goes(a, op, file, guard,
                                  IF guard = Desk!Nothing THEN Desk!Nothing ELSE Desk!Served(file), text)
    BY <2>1, <2>2
  <2>5. PICK seen : seen = IF guard = Desk!Nothing THEN Desk!Nothing ELSE Desk!Served(file)  OBVIOUS
  <2>6. guard # Desk!Nothing => seen = guard /\ file = Desk!Notes
                                /\ seen = Desk!FirstOf(disk[Desk!Notes], Window)
    BY <2>4, <2>5 DEF Desk!Stale, Desk!Served
  <2>7. PICK do : do = [Desk!Idle EXCEPT !.op = op, !.file = file, !.guard = guard, !.seen = seen, !.text = text]
    OBVIOUS
  <2>8. do.op = op /\ do.file = file /\ do.guard = guard /\ do.seen = seen /\ do.text = text
    BY <2>7 DEF Desk!Idle
  <2>9. doing' = [doing EXCEPT ![a] = do]  BY <2>4, <2>5, <2>7 DEF Desk!Goes
  <2>10. doing'[a] = do /\ DOMAIN doing' = Author /\ \A b \in Author \ {a} : doing'[b] = doing[b]
    BY <2>9 DEF DeskInv, DeskShape
  <2>15. guard # Desk!Nothing => SeenStands(a)'  BY <1>1, <2>6, <2>8, <2>10 DEF SeenStands
  <2>11. DoingIs(a)'  BY <2>3, <2>6, <2>8, <2>10, <2>15 DEF DoingIs
  <2>12. ResultIs(a)'  BY <1>1 DEF DeskInv, ResultIs
  <2>13. disk' \in [Desk!File -> Seq(Desk!Line) \ {<< >>}] /\ DOMAIN result' = Author
    BY <1>1 DEF DeskInv, DeskShape
  <2>14. Desk!OthersAreLeft'  BY <1>1 DEF DeskInv, Desk!OthersAreLeft
  <2> QED BY <1>1, <2>10, <2>11, <2>12, <2>13, <2>14, DeskAt
<1> QED BY <1>2, <1>3

\* What is told of a change.
LEMMA ToldIs ==
  ASSUME DeskInv, NEW a \in Author, NEW op, NEW done, NEW seen, NEW says, NEW rung,
         Desk!Told(a, op, done, seen, says, rung)
  PROVE  /\ DOMAIN result' = Author /\ \A b \in Author \ {a} : result'[b] = result[b]
         /\ result'[a].op = op /\ result'[a].done = done /\ result'[a].seen = seen /\ result'[a].says = says
         /\ result'[a].rung = rung /\ result'[a].guard = doing[a].guard
         /\ result'[a].left = disk'[doing[a].file] /\ result'[a].alone = (a \notin beside)
         /\ result'[a].was = Desk!Served(doing[a].file)
<1>1. PICK left, alone, was : /\ left = disk'[doing[a].file] /\ alone = (a \notin beside)
                             /\ was = Desk!Served(doing[a].file)
  OBVIOUS
<1>2. PICK word : word = [Desk!NoResult EXCEPT !.op = op, !.done = done, !.seen = seen, !.guard = doing[a].guard,
                            !.says = says, !.rung = rung, !.was = was, !.left = left, !.alone = alone]
  OBVIOUS
<1>3. /\ word.op = op /\ word.done = done /\ word.seen = seen /\ word.says = says /\ word.rung = rung
      /\ word.guard = doing[a].guard /\ word.left = left /\ word.alone = alone /\ word.was = was
  BY <1>2 DEF Desk!NoResult
<1>4. result' = [result EXCEPT ![a] = word]  BY <1>1, <1>2 DEF Desk!Told
<1>5. result'[a] = word /\ DOMAIN result' = Author /\ \A b \in Author \ {a} : result'[b] = result[b]
  BY <1>4 DEF DeskInv, DeskShape
<1> QED BY <1>1, <1>3, <1>5

\* A write: it happens or not, and what it names stays in the folder.
LEMMA DeskWrites == ASSUME ErrandsAssumption, DeskInv, NEW a \in Author, Desk!Writes(a) PROVE DeskInv'
<1>1. PICK do : do = doing[a]  OBVIOUS
<1>2. DoingIs(a) /\ do.op \in {"overwrite", "append", "patch"} /\ doing' = [doing EXCEPT ![a] = Desk!Idle]
      /\ loosest' = loosest
  BY <1>1 DEF DeskInv, Desk!Writes, Desk!Stops
<1>3. do.text \in Text /\ Desk!IsPrefix(Desk!Mine, do.file) /\ (do.guard # Desk!Nothing => do.seen = do.guard)
      /\ (do.guard # Desk!Nothing /\ a \notin beside => Desk!Served(do.file) = do.guard)
  BY <1>1, <1>2 DEF DoingIs, SeenStands, Desk!Served
<1>4. do.text \in Seq(Desk!Line) \ {<< >>}  BY <1>3 DEF ErrandsAssumption, Desk!EditsAssumption
<1>5. PICK text : text = Desk!Written(do.op, do.file, do.text)  OBVIOUS
<1>6. do.file \in Desk!File => text \in Seq(Desk!Line) \ {<< >>}
  <2> SUFFICES ASSUME do.file \in Desk!File PROVE text \in Seq(Desk!Line) \ {<< >>}  OBVIOUS
  <2>1. PICK old : old = disk[do.file]  OBVIOUS
  <2>2. old \in Seq(Desk!Line) /\ old # << >>  BY <2>1 DEF DeskInv, DeskShape
  <2>3. PICK new : new = do.text  OBVIOUS
  <2>4. new \in Seq(Desk!Line) /\ new # << >>  BY <1>4, <2>3
  <2>5. old \o new \in Seq(Desk!Line) /\ old \o new # << >>  BY <2>2, <2>4
  <2>6. new \o Tail(old) \in Seq(Desk!Line) /\ new \o Tail(old) # << >>
    <3>1. Tail(old) \in Seq(Desk!Line)  BY <2>2
    <3> QED BY <2>4, <3>1
  <2> QED BY <1>5, <2>1, <2>3, <2>4, <2>5, <2>6 DEF Desk!Written
<1>7. PICK op \in {"overwrite", "append", "patch"}, done \in BOOLEAN, seen \in {do.seen}, says \in {do.text} :
        Desk!Told(a, op, done, seen, says, 0)
  BY <1>1, <1>2 DEF Desk!Writes
<1>8. (disk' = disk /\ beside' = beside) \/ Desk!Puts(a, do.file, text)
  BY <1>1, <1>5 DEF Desk!Writes, Desk!Leaves
<1>9. /\ disk' \in [Desk!File -> Seq(Desk!Line) \ {<< >>}] /\ Desk!OthersAreLeft'
      /\ \A b \in Author \ {a} : b \notin beside' =>
           b \notin beside /\ (disk'[Desk!Notes] = disk[Desk!Notes] \/ Apart(b))
  <2>1. CASE disk' = disk /\ beside' = beside  BY <2>1 DEF DeskInv, DeskShape, Desk!OthersAreLeft
  <2>2. CASE Desk!Puts(a, do.file, text)  BY <1>3, <1>6, <2>2, PutsIs
  <2> QED BY <1>8, <2>1, <2>2
<1>10. doing'[a] = Desk!Idle /\ DOMAIN doing' = Author /\ \A b \in Author \ {a} : doing'[b] = doing[b]
  BY <1>2 DEF DeskInv, DeskShape
<1>11. DoingIs(a)'  BY <1>10, IdleIs
<1>12. /\ DOMAIN result' = Author /\ \A b \in Author \ {a} : result'[b] = result[b]
       /\ result'[a].op = op /\ result'[a].seen = seen /\ result'[a].guard = doing[a].guard
       /\ result'[a].was = Desk!Served(doing[a].file) /\ result'[a].alone = (a \notin beside)
  BY <1>7, ToldIs
<1>13. ResultIs(a)'  BY <1>1, <1>3, <1>7, <1>12 DEF ResultIs
<1> QED BY <1>2, <1>9, <1>10, <1>11, <1>12, <1>13, DeskAt

\* An edit is decided on: the quote is in one place, and what would come of it parses.
LEMMA DeskReads == ASSUME ErrandsAssumption, DeskInv, NEW a \in Author, Desk!ReadsToEdit(a) PROVE DeskInv'
<1>1. doing[a] = Desk!Idle /\ beside' = beside \ {a} /\ UNCHANGED <<disk, result, loosest>>
      /\ Desk!There(Desk!Notes)
  BY DEF Desk!ReadsToEdit, Desk!Begins, Desk!Refuses
<1>2. CASE doing' = doing  BY <1>1, <1>2, DeskRests
<1>3. CASE doing' # doing
  <2>1. PICK text : text = Desk!Served(Desk!Notes)  OBVIOUS
  <2>0. PICK guard \in Desk!Guards(a), q \in Quote, new \in Text, alike \in BOOLEAN, joins \in BOOLEAN :
          LET hits == Desk!Located(Desk!Served(Desk!Notes), q, loosest, alike) IN
          IF Desk!Stale(Desk!Notes, guard) \/ Desk!Cardinality(hits) # 1 THEN Desk!Refuses(a, Desk!Notes)
          ELSE LET m == CHOOSE x \in hits : TRUE
                   applied == Desk!Spliced(Desk!Served(Desk!Notes), m, new, joins) IN
               IF ~ Desk!Valid(applied) THEN Desk!Refuses(a, Desk!Notes)
               ELSE /\ doing' = [doing EXCEPT ![a] =
                         [op |-> "edit", file |-> Desk!Notes, guard |-> guard, seen |-> Desk!Served(Desk!Notes), text |-> new,
                          quote |-> m.text, rung |-> m.rung, joins |-> joins, says |-> applied]]
                    /\ UNCHANGED <<disk, shown, result>>
    BY DEF Desk!ReadsToEdit
  <2>2. LET hits == Desk!Located(text, q, loosest, alike)
            m == CHOOSE x \in hits : TRUE IN
        /\ ~ Desk!Stale(Desk!Notes, guard) /\ Cardinality(hits) = 1
        /\ Desk!Valid(Desk!Spliced(text, m, new, joins))
        /\ doing' = [doing EXCEPT ![a] =
             [op |-> "edit", file |-> Desk!Notes, guard |-> guard, seen |-> text, text |-> new, quote |-> m.text,
              rung |-> m.rung, joins |-> joins, says |-> Desk!Spliced(text, m, new, joins)]]
    BY <1>3, <2>0, <2>1 DEF Desk!Refuses, Desk!Cardinality, Cardinality
  <2>3. PICK hits : hits = Desk!Located(text, q, loosest, alike)  OBVIOUS
  <2>4. PICK m : m = CHOOSE x \in hits : TRUE  OBVIOUS
  <2>5. hits # {}
    <3>1. Cardinality({}) = 0  BY FS_EmptySet
    <3> QED BY <2>2, <2>3, <3>1
  <2>6. m \in hits  BY <2>4, <2>5
  <2>7. /\ text \in Seq(Desk!Line) /\ text = Desk!FirstOf(disk[Desk!Notes], Window)
    <3>1. disk[Desk!Notes] \in Seq(Desk!Line) \ {<< >>}  BY MineIs DEF DeskInv, DeskShape
    <3>2. Window \in Nat  BY DEF ErrandsAssumption, Desk!EditsAssumption
    <3> QED BY <2>1, <3>1, <3>2, ServedIs DEF Desk!Served
  <2>8. q \in Seq(Desk!Line) /\ loosest \in 1..3
    BY DEF ErrandsAssumption, Desk!EditsAssumption, DeskInv, DeskShape
  <2>9. /\ m.text \in Seq(Desk!Line) /\ m.from \in Desk!Occurs(text, m.text) /\ m.rung <= loosest
        /\ m = Desk!Match(m.from, m.from + Len(m.text) - 1, m.text, m.rung)
    BY <2>3, <2>6, <2>7, <2>8, LocatedIs
  <2>10. PICK applied : applied = Desk!Spliced(text, m, new, joins)  OBVIOUS
  <2>11. PICK do : do = [op |-> "edit", file |-> Desk!Notes, guard |-> guard, seen |-> text, text |-> new,
                         quote |-> m.text, rung |-> m.rung, joins |-> joins, says |-> applied]
    OBVIOUS
  <2>12. /\ do.op = "edit" /\ do.file = Desk!Notes /\ do.guard = guard /\ do.seen = text /\ do.text = new
         /\ do.quote = m.text /\ do.rung = m.rung /\ do.joins = joins /\ do.says = applied
    BY <2>11
  <2>13. doing' = [doing EXCEPT ![a] = do] /\ ~ Desk!Stale(Desk!Notes, guard) /\ Desk!Valid(applied)
    BY <2>2, <2>3, <2>4, <2>10, <2>11
  <2>14. doing'[a] = do /\ DOMAIN doing' = Author /\ \A b \in Author \ {a} : doing'[b] = doing[b]
    BY <2>13 DEF DeskInv, DeskShape
  <2>15. guard # Desk!Nothing => text = guard  BY <2>1, <2>13 DEF Desk!Stale
  <2>16. applied = Desk!Spliced(text, Desk!Match(m.from, m.from + Len(do.quote) - 1, do.quote, do.rung), do.text, do.joins)
    BY <2>9, <2>10, <2>12
  <2>17. EditStands(a)'
    <3>1. Desk!Notes' = Desk!Notes  BY DEF Desk!Notes
    <3> QED BY <1>1, <2>7, <2>9, <2>12, <2>13, <2>14, <2>16 DEF EditStands
  <2>22. SeenStands(a)'  BY <1>1, <2>7, <2>12, <2>14 DEF SeenStands, Desk!Notes
  <2>18. DoingIs(a)'  BY <1>1, <2>9, <2>12, <2>14, <2>15, <2>17, <2>22, MineIs DEF DoingIs
  <2>19. ResultIs(a)'  BY <1>1 DEF DeskInv, ResultIs
  <2>20. disk' \in [Desk!File -> Seq(Desk!Line) \ {<< >>}] /\ DOMAIN result' = Author
    BY <1>1 DEF DeskInv, DeskShape
  <2>21. Desk!OthersAreLeft'  BY <1>1 DEF DeskInv, Desk!OthersAreLeft
  <2> QED BY <1>1, <2>14, <2>18, <2>19, <2>20, <2>21, DeskAt
<1> QED BY <1>2, <1>3

\* The edit is made where the quote is by now, if that is one place; where nobody came
\* between, that is where it was found.
LEMMA DeskReplaces == ASSUME ErrandsAssumption, DeskInv, NEW a \in Author, Desk!Replaces(a) PROVE DeskInv'
<1>1. PICK do : do = doing[a]  OBVIOUS
<1>2. /\ DoingIs(a) /\ do.op = "edit" /\ doing' = [doing EXCEPT ![a] = Desk!Idle] /\ loosest' = loosest
  BY <1>1 DEF DeskInv, Desk!Replaces, Desk!Stops
<1>3. /\ do.text \in Text /\ do.file = Desk!Notes /\ do.quote \in Seq(Desk!Line) /\ do.rung <= loosest
      /\ (do.guard # Desk!Nothing => do.seen = do.guard)
      /\ (do.guard # Desk!Nothing /\ a \notin beside => Desk!Served(do.file) = do.guard)
  BY <1>1, <1>2 DEF DoingIs, SeenStands, Desk!Served
<1>4. PICK text : text = disk[Desk!Notes]  OBVIOUS
<1>5. text \in Seq(Desk!Line) \ {<< >>}  BY <1>4, MineIs DEF DeskInv, DeskShape
<1>6. PICK places : places = IF Desk!There(do.file) THEN Desk!Occurs(text, do.quote) ELSE {}  OBVIOUS
<1>7. PICK i : i = CHOOSE x \in places : TRUE  OBVIOUS
<1>8. PICK new : new = Desk!Spliced(text, Desk!Match(i, i + Len(do.quote) - 1, do.quote, do.rung), do.text, do.joins)
  OBVIOUS
<1>9. PICK how \in Desk!Outcome, done \in BOOLEAN :
        /\ IF how = "failed" \/ Cardinality(places) # 1 THEN disk' = disk /\ beside' = beside
           ELSE Desk!Puts(a, Desk!Notes, new)
        /\ done = (how = "done" /\ Cardinality(places) = 1)
        /\ Desk!Told(a, "edit", done, do.seen, do.says, do.rung)
  BY <1>1, <1>3, <1>4, <1>6, <1>7, <1>8 DEF Desk!Replaces, Desk!Leaves, Desk!Cardinality, Cardinality
<1>10. IsFiniteSet(places)
  <2>1. Len(text) \in Nat  BY <1>5
  <2>2. IsFiniteSet(1..Len(text))  BY <2>1, FS_Interval
  <2>3. places \subseteq 1..Len(text)  BY <1>6 DEF Desk!Occurs
  <2> QED BY <2>2, <2>3, FS_Subset
<1>11. Cardinality(places) = 1 => places = {i}
  <2> SUFFICES ASSUME Cardinality(places) = 1 PROVE places = {i}  OBVIOUS
  <2>1. PICK x : places = {x}  BY <1>10, FS_Singleton
  <2> QED BY <1>7, <2>1
<1>12. Cardinality(places) = 1 => new \in Seq(Desk!Line) \ {<< >>}
  <2> SUFFICES ASSUME Cardinality(places) = 1 PROVE new \in Seq(Desk!Line) \ {<< >>}  OBVIOUS
  <2>1. i \in Desk!Occurs(text, do.quote)  BY <1>6, <1>11
  <2>2. i \in 1..Len(text) /\ i + Len(do.quote) - 1 <= Len(text)  BY <2>1 DEF Desk!Occurs
  <2>3. PICK to : to = i + Len(do.quote) - 1  OBVIOUS
  <2>4. Len(do.quote) \in Nat /\ Len(text) \in Nat  BY <1>3, <1>5
  <2>5. to \in (i - 1)..Len(text)  BY <2>2, <2>3, <2>4
  <2>6. do.text \in Seq(Desk!Line) \ {<< >>}  BY <1>3 DEF ErrandsAssumption, Desk!EditsAssumption
  <2>7. PICK bring, quote, rung, joins : bring = do.text /\ quote = do.quote /\ rung = do.rung /\ joins = do.joins
    OBVIOUS
  <2>8. Desk!Spliced(text, Desk!Match(i, to, quote, rung), bring, joins) \in Seq(Desk!Line) \ {<< >>}
    BY <1>5, <2>2, <2>5, <2>6, <2>7, SplicedIs
  <2> QED BY <1>8, <2>3, <2>7, <2>8
<1>13. /\ disk' \in [Desk!File -> Seq(Desk!Line) \ {<< >>}] /\ Desk!OthersAreLeft'
       /\ \A b \in Author \ {a} : b \notin beside' =>
            b \notin beside /\ (disk'[Desk!Notes] = disk[Desk!Notes] \/ Apart(b))
       /\ done => disk'[Desk!Notes] = new
  <2>1. CASE how = "failed" \/ Cardinality(places) # 1
    <3>1. disk' = disk /\ beside' = beside /\ ~ done  BY <1>9, <2>1
    <3> QED BY <3>1 DEF DeskInv, DeskShape, Desk!OthersAreLeft
  <2>2. CASE ~ (how = "failed" \/ Cardinality(places) # 1)
    <3>1. Desk!Puts(a, Desk!Notes, new) /\ new \in Seq(Desk!Line) \ {<< >>}  BY <1>9, <1>12, <2>2
    <3> QED BY <3>1, PutsIs, MineIs
  <2> QED BY <2>1, <2>2
<1>14. doing'[a] = Desk!Idle /\ DOMAIN doing' = Author /\ \A b \in Author \ {a} : doing'[b] = doing[b]
  BY <1>2 DEF DeskInv, DeskShape
<1>15. DoingIs(a)'  BY <1>14, IdleIs
<1>16. PICK seen, says, rung : seen = do.seen /\ says = do.says /\ rung = do.rung  OBVIOUS
<1>17. /\ DOMAIN result' = Author /\ \A b \in Author \ {a} : result'[b] = result[b]
       /\ result'[a].op = "edit" /\ result'[a].done = done /\ result'[a].seen = seen /\ result'[a].says = says
       /\ result'[a].rung = rung /\ result'[a].guard = doing[a].guard
       /\ result'[a].left = disk'[doing[a].file] /\ result'[a].alone = (a \notin beside)
       /\ result'[a].was = Desk!Served(doing[a].file)
  <2>1. Desk!Told(a, "edit", done, seen, says, rung)  BY <1>9, <1>16
  <2> QED BY <2>1, ToldIs
<1>18. done /\ a \notin beside /\ Len(seen) < Window => disk'[Desk!Notes] = says /\ Desk!Valid(says)
  <2> SUFFICES ASSUME done, a \notin beside, Len(seen) < Window
               PROVE  disk'[Desk!Notes] = says /\ Desk!Valid(says)
    OBVIOUS
  <2>1. EditStands(a)  BY <1>1, <1>2 DEF DoingIs
  <2>2. PICK j : /\ j \in Desk!Occurs(seen, do.quote) /\ seen = Desk!FirstOf(text, Window) /\ Desk!Valid(says)
                 /\ says = Desk!Spliced(seen, Desk!Match(j, j + Len(do.quote) - 1, do.quote, do.rung), do.text, do.joins)
    BY <1>1, <1>4, <1>16, <2>1 DEF EditStands
  <2>3. Window \in Nat  BY DEF ErrandsAssumption, Desk!EditsAssumption
  <2>4. seen = text  BY <1>5, <2>2, <2>3, ServedIs
  <2>5. Cardinality(places) = 1  BY <1>9
  <2>6. places # {} /\ places = {i}  BY <1>11, <2>5
  <2>7. j \in places  BY <1>6, <2>2, <2>4, <2>6
  <2>8. j = i  BY <2>6, <2>7
  <2>9. says = new  BY <1>8, <2>2, <2>4, <2>8
  <2> QED BY <1>13, <2>2, <2>9
<1>19. ResultIs(a)'  BY <1>1, <1>2, <1>3, <1>16, <1>17, <1>18 DEF ResultIs
<1> QED BY <1>2, <1>13, <1>14, <1>15, <1>17, <1>19, DeskAt

\* A file is removed, or moved to where there is none.
LEMMA DeskMoves == ASSUME DeskInv, NEW a \in Author, Desk!Removes(a) \/ Desk!Moves(a) PROVE DeskInv'
<1>1. doing[a] = Desk!Idle /\ UNCHANGED <<doing, result, loosest>>
  BY DEF Desk!Removes, Desk!Moves, Desk!Begins
<1>2. DoingIs(a)'  BY <1>1, IdleIs
<1>3. ResultIs(a)'  BY <1>1 DEF DeskInv, ResultIs
<1>4. DOMAIN doing' = Author /\ DOMAIN result' = Author  BY <1>1 DEF DeskInv, DeskShape
<1>5. Desk!Absent \in Seq(Desk!Line) \ {<< >>}
  <2>1. PICK line : line = [lead |-> "", gap |-> 1, word |-> "absent"]  OBVIOUS
  <2>2. line \in Desk!Line  BY <2>1 DEF Desk!Line
  <2>3. <<line>> \in Seq(Desk!Line) /\ <<line>> # << >>  BY <2>2
  <2> QED BY <2>1, <2>3 DEF Desk!Absent, Desk!Only
<1>6. CASE Desk!Removes(a)
  <2>1. PICK name \in Desk!Name : Desk!Confined(name) /\ Desk!Puts(a, Desk!Normal(name), Desk!Absent)
    BY <1>6 DEF Desk!Removes
  <2>2. PICK file : file = Desk!Normal(name)  OBVIOUS
  <2>3. Desk!IsPrefix(Desk!Mine, file) /\ Desk!Puts(a, file, Desk!Absent)  BY <2>1, <2>2 DEF Desk!Confined
  <2> QED BY <1>1, <1>2, <1>3, <1>4, <1>5, <2>3, PutsIs, DeskAt
<1>7. CASE Desk!Moves(a)
  <2>1. PICK from \in Desk!Name, to \in Desk!Name :
          /\ Desk!Confined(from) /\ Desk!Confined(to) /\ Desk!There(Desk!Normal(from))
          /\ disk' = [disk EXCEPT ![Desk!Normal(to)] = disk[Desk!Normal(from)], ![Desk!Normal(from)] = Desk!Absent]
          /\ beside' = beside \union {b \in Author \ {a} : doing[b].op # "idle"}
    BY <1>7 DEF Desk!Moves
  <2>2. PICK old, new : old = Desk!Normal(from) /\ new = Desk!Normal(to)  OBVIOUS
  <2>3. /\ Desk!IsPrefix(Desk!Mine, old) /\ Desk!IsPrefix(Desk!Mine, new) /\ old \in Desk!File
        /\ disk' = [disk EXCEPT ![new] = disk[old], ![old] = Desk!Absent]
    BY <2>1, <2>2 DEF Desk!Confined, Desk!There, DeskInv, DeskShape
  <2>4. PICK text : text = disk[old] /\ text \in Seq(Desk!Line) \ {<< >>}  BY <2>3 DEF DeskInv, DeskShape
  <2>5. disk' \in [Desk!File -> Seq(Desk!Line) \ {<< >>}]
        /\ \A f \in Desk!File \ {old, new} : disk'[f] = disk[f]
    BY <1>5, <2>3, <2>4 DEF DeskInv, DeskShape
  <2>6. Desk!OthersAreLeft'  BY <2>3, <2>5 DEF DeskInv, Desk!OthersAreLeft
  <2>7. \A b \in Author \ {a} : b \notin beside' => b \notin beside /\ Apart(b)  BY <2>1 DEF Apart
  <2> QED BY <1>1, <1>2, <1>3, <1>4, <2>5, <2>6, <2>7, DeskAt
<1> QED BY <1>6, <1>7

\* Every step of everybody who shares the sandbox.
LEMMA DeskStep == ASSUME ErrandsAssumption, DeskInv, Desk!Next PROVE DeskInv'
<1>1. PICK a \in Author : \/ Desk!ReadsFile(a) \/ Desk!ChecksWrite(a) \/ Desk!Writes(a)
                          \/ Desk!ReadsToEdit(a) \/ Desk!Replaces(a) \/ Desk!Removes(a) \/ Desk!Moves(a)
  BY DEF Desk!Next
<1>2. CASE Desk!ReadsFile(a)  BY <1>2, DeskRests DEF Desk!ReadsFile
<1> QED BY <1>1, <1>2, DeskChecks, DeskWrites, DeskReads, DeskReplaces, DeskMoves

\* What the other parts do leaves the files as they stand.
LEMMA DeskStays == ASSUME DeskInv, UNCHANGED desk PROVE DeskInv'
BY DEF desk, DeskInv, DeskShape, DoingIs, ResultIs, EditStands, SeenStands, Desk!OthersAreLeft

\* Nobody has done anything.
LEMMA DeskStarted == ASSUME ErrandsAssumption, Desk!Init PROVE DeskInv
<1>1. PICK text \in Start : disk = [f \in Desk!File |-> IF f = Desk!Mine \o <<"draft">> THEN Desk!Absent ELSE text]
  BY DEF Desk!Init
<1>2. text \in Seq(Desk!Line) \ {<< >>}  BY DEF ErrandsAssumption, Desk!EditsAssumption
<1>3. Desk!Absent \in Seq(Desk!Line) \ {<< >>}
  <2>1. PICK line : line = [lead |-> "", gap |-> 1, word |-> "absent"]  OBVIOUS
  <2>2. line \in Desk!Line  BY <2>1 DEF Desk!Line
  <2>3. <<line>> \in Seq(Desk!Line) /\ <<line>> # << >>  BY <2>2
  <2> QED BY <2>1, <2>3 DEF Desk!Absent, Desk!Only
<1>4. disk \in [Desk!File -> Seq(Desk!Line) \ {<< >>}]  BY <1>1, <1>2, <1>3
<1>5. Desk!OthersAreLeft  BY <1>1, MineIs DEF Desk!OthersAreLeft
<1>6. DOMAIN doing = Author /\ DOMAIN result = Author /\ loosest \in 1..3
  BY DEF Desk!Init, ErrandsAssumption, Desk!EditsAssumption
<1>7. ASSUME NEW a \in Author PROVE DoingIs(a) /\ ResultIs(a)
  <2>1. doing[a].op = "idle" /\ result[a].done = FALSE
    BY DEF Desk!Init, Desk!Idle, Desk!NoResult
  <2> QED BY <2>1 DEF DoingIs, ResultIs
<1> QED BY <1>4, <1>5, <1>6, <1>7 DEF DeskInv, DeskShape

\* What is held of every edit under way is what its answer promises.
LEMMA DeskPromise == ASSUME DeskInv PROVE ChangesAreInformed
BY DEF DeskInv, ResultIs, ChangesAreInformed, Desk!ChangesAreInformed, Desk!GuardSaw, Desk!EditIsWhatItSays

\* A change that is told to be done with a fingerprint was decided on a file its author had been
\* shown, and was made on that one unless somebody changed it in between; and an edit nobody came
\* between leaves what it says: for any file, quote and replacement.
THEOREM EditsAreInformed == Spec => []ChangesAreInformed
<1>1. Init => DeskInv  BY DeskStarted, ErrandsAssumption DEF Init
<1>2. DeskInv /\ [Next]_vars => DeskInv'  BY DeskStep, DeskStays, ErrandsAssumption DEF Next, vars
<1>3. DeskInv => ChangesAreInformed  BY DeskPromise
<1> QED BY <1>1, <1>2, <1>3, PTL DEF Spec

-----------------------------------------------------------------------------
(* Notes. *)

Trusts == {"stated", "observed", "inferred", "untrusted"}
Homes == Conversation \union {"profile"}
Remembered == [trust : Trusts, confirmed : BOOLEAN, from : Nat, origin : Trusts, home : Homes,
               state : {"current", "replaced", "hidden"}]

\* A note descends from an earlier one, and what makes it more than untrusted is that
\* somebody stands behind it.
NoteIs(n) ==
  /\ note[n].from < n
  /\ note[n].trust # "untrusted" \/ note[n].confirmed => Notes!Vouched(n)

\* A correction that is under way carries the trust of what it corrects; what was forgotten
\* is hidden.
RecallingIs(c) ==
  LET do == recalling[c] IN
  /\ do.trust \in Trusts \union {"none"} /\ do.left \subseteq DOMAIN note /\ do.gone \subseteq DOMAIN note
  /\ do.op = "correct" => /\ do.trust \in Trusts
                          /\ \A n \in do.left : do.trust # "untrusted" => Notes!Vouched(n)
  /\ do.op = "forget" => do.named = do.left \union do.gone \union do.kept
  /\ \A n \in do.gone : note[n].state = "hidden"
  /\ known[c] \subseteq DOMAIN note

RecalledIs ==
  /\ recalled.notes \subseteq DOMAIN note /\ recalled.gone \subseteq DOMAIN note
  /\ Notes!RecallIsVouched /\ Notes!LabelIsTheLeast /\ Notes!ForgottenIsTold

NotesInv ==
  /\ note \in Seq(Remembered) /\ DOMAIN recalling = Conversation /\ DOMAIN known = Conversation
  /\ \A n \in DOMAIN note : NoteIs(n)
  /\ \A c \in Conversation : RecallingIs(c)
  /\ RecalledIs /\ Notes!IndexIsVouched

\* What a step may do to the notes there are.
Grown ==
  /\ note' \in Seq(Remembered) /\ DOMAIN note \subseteq DOMAIN note'
  /\ \A n \in DOMAIN note :
       /\ note'[n].from = note[n].from /\ note'[n].origin = note[n].origin /\ note'[n].home = note[n].home
       /\ note[n].confirmed => note'[n].confirmed
       /\ note[n].state = "hidden" => note'[n].state = "hidden"

\* A line stays as it was, however many notes are written after it.
LEMMA LineStays ==
  ASSUME NotesInv, Grown, NEW n \in DOMAIN note, NEW m \in Notes!Line(n) PROVE m \in Notes!Line(n)'
<1>1. \A k \in DOMAIN note : note[k].from < k /\ note[k].from \in Nat /\ k \in Nat
  <2>1. \A k \in DOMAIN note : note[k] \in Remembered /\ k \in Nat /\ NoteIs(k)  BY DEF NotesInv
  <2> QED BY <2>1 DEF NoteIs, Remembered
<1>2. DOMAIN note = 1..Len(note) /\ Len(note) \in Nat  BY DEF NotesInv
<1>3. m \in DOMAIN note /\ m \in DOMAIN note'  BY DEF Notes!Line, Grown
<1>4. SUFFICES ASSUME NEW s \in SUBSET DOMAIN note', n \in s, \A k \in s : note'[k].from \in s \union {0}
               PROVE  m \in s
  BY <1>3 DEF Notes!Line
<1>5. PICK t : t = s \intersect DOMAIN note  OBVIOUS
<1>6. t \in SUBSET DOMAIN note /\ n \in t  BY <1>4, <1>5
<1>7. ASSUME NEW k \in t PROVE note[k].from \in t \union {0}
  <2>1. k \in s /\ k \in DOMAIN note  BY <1>5, <1>7
  <2>2. note[k].from = note'[k].from  BY <2>1 DEF Grown
  <2>3. note[k].from \in s \union {0}  BY <1>4, <2>1, <2>2
  <2>4. note[k].from = 0 \/ note[k].from \in DOMAIN note  BY <1>1, <1>2, <2>1
  <2> QED BY <1>5, <2>3, <2>4
<1>8. m \in t  BY <1>6, <1>7 DEF Notes!Line
<1> QED BY <1>5, <1>8

\* Who stands behind a note does so for good.
LEMMA VouchedStays ==
  ASSUME NotesInv, Grown, NEW n \in DOMAIN note, Notes!Vouched(n) PROVE Notes!Vouched(n)'
<1>1. PICK m \in Notes!Line(n) : note[m].confirmed \/ (note[m].from = 0 /\ note[m].origin # "untrusted")
  BY DEF Notes!Vouched
<1>2. m \in DOMAIN note  BY DEF Notes!Line
<1>3. m \in Notes!Line(n)'  BY LineStays
<1>4. note'[m].confirmed \/ (note'[m].from = 0 /\ note'[m].origin # "untrusted")  BY <1>1, <1>2 DEF Grown
<1> QED BY <1>3, <1>4 DEF Notes!Vouched

\* A note is in its own line.
LEMMA InItsLine == ASSUME NEW n \in DOMAIN note PROVE n \in Notes!Line(n)
BY DEF Notes!Line

\* Who stands behind a note stands behind what corrects it.
LEMMA VouchedOn ==
  ASSUME note' \in Seq(Remembered), NEW n \in DOMAIN note', NEW k \in DOMAIN note', note'[n].from = k,
         Notes!Vouched(k)'
  PROVE  Notes!Vouched(n)'
<1>1. PICK m \in Notes!Line(k)' : note'[m].confirmed \/ (note'[m].from = 0 /\ note'[m].origin # "untrusted")
  BY DEF Notes!Vouched
<1>2. m \in DOMAIN note'  BY DEF Notes!Line
<1>3. k # 0  OBVIOUS
<1>4. m \in Notes!Line(n)'
  <2> SUFFICES ASSUME NEW s \in SUBSET DOMAIN note', n \in s, \A i \in s : note'[i].from \in s \union {0}
               PROVE  m \in s
    BY <1>2 DEF Notes!Line
  <2>1. k \in s  BY <1>3
  <2> QED BY <2>1 DEF Notes!Line
<1> QED BY <1>1, <1>4 DEF Notes!Vouched

\* A note that is there keeps being what it was, where what it says of itself is no more.
LEMMA NoteStays ==
  ASSUME NotesInv, Grown, NEW n \in DOMAIN note,
         \/ note'[n].trust = note[n].trust /\ note'[n].confirmed = note[n].confirmed
         \/ note'[n].confirmed
  PROVE  NoteIs(n)'
<1>1. NoteIs(n) /\ n \in DOMAIN note'  BY DEF NotesInv, Grown
<1>2. note'[n].from < n  BY <1>1 DEF NoteIs, Grown
<1>3. CASE note'[n].trust = note[n].trust /\ note'[n].confirmed = note[n].confirmed
  <2>1. note'[n].trust # "untrusted" \/ note'[n].confirmed => Notes!Vouched(n)'
    BY <1>1, <1>3, VouchedStays DEF NoteIs
  <2> QED BY <1>2, <2>1 DEF NoteIs
<1>4. CASE note'[n].confirmed
  <2>1. n \in Notes!Line(n)'  BY <1>1 DEF Notes!Line
  <2>2. Notes!Vouched(n)'  BY <1>4, <2>1 DEF Notes!Vouched
  <2> QED BY <1>2, <2>2 DEF NoteIs
<1> QED BY <1>3, <1>4

\* What others do leaves a conversation's own as it is.
LEMMA RecallingStays ==
  ASSUME NotesInv, Grown, NEW c \in Conversation, recalling'[c] = recalling[c], known'[c] = known[c]
  PROVE  RecallingIs(c)'
<1>1. RecallingIs(c)  BY DEF NotesInv
<1>2. PICK do : do = recalling[c]  OBVIOUS
<1>3. /\ do.trust \in Trusts \union {"none"} /\ do.left \subseteq DOMAIN note /\ do.gone \subseteq DOMAIN note
      /\ do.op = "correct" => /\ do.trust \in Trusts
                              /\ \A n \in do.left : do.trust # "untrusted" => Notes!Vouched(n)
      /\ do.op = "forget" => do.named = do.left \union do.gone \union do.kept
      /\ \A n \in do.gone : note[n].state = "hidden"
      /\ known[c] \subseteq DOMAIN note
  BY <1>1, <1>2 DEF RecallingIs
<1>4. \A n \in do.left : Notes!Vouched(n) => Notes!Vouched(n)'  BY <1>3, VouchedStays
<1>5. \A n \in do.gone : note'[n].state = "hidden"  BY <1>3 DEF Grown
<1>6. do.left \subseteq DOMAIN note' /\ do.gone \subseteq DOMAIN note' /\ known'[c] \subseteq DOMAIN note'
  BY <1>3 DEF Grown
<1> QED BY <1>2, <1>3, <1>4, <1>5, <1>6 DEF RecallingIs

\* What was told stays so.
LEMMA RecalledStays == ASSUME NotesInv, Grown, recalled' = recalled PROVE RecalledIs'
<1>1. RecalledIs  BY DEF NotesInv
<1>2. recalled.notes \subseteq DOMAIN note' /\ recalled.gone \subseteq DOMAIN note'  BY <1>1 DEF RecalledIs, Grown
<1>3. Notes!RecallIsVouched'
  <2> SUFFICES ASSUME recalled.of = "recall", NEW n \in recalled.notes
               PROVE  /\ Notes!Vouched(n)' /\ note'[n].home \in {Notes!Everybody, recalled.by}
                      /\ recalled.floor \in Notes!Floors
    BY DEF Notes!RecallIsVouched, Notes!Everybody, Notes!Floors
  <2>1. n \in DOMAIN note  BY <1>1 DEF RecalledIs
  <2>2. Notes!Vouched(n) /\ note[n].home \in {Notes!Everybody, recalled.by} /\ recalled.floor \in Notes!Floors
    BY <1>1 DEF RecalledIs, Notes!RecallIsVouched
  <2> QED BY <2>1, <2>2, VouchedStays DEF Grown
<1>4. Notes!LabelIsTheLeast'  BY <1>1 DEF RecalledIs, Notes!LabelIsTheLeast, Notes!Place, Notes!Ladder
<1>5. Notes!ForgottenIsTold'
  <2>1. recalled.of = "forget" => /\ recalled.named = recalled.gone \union recalled.kept
                                  /\ \A n \in recalled.gone : n \in DOMAIN note /\ note[n].state = "hidden"
    BY <1>1 DEF RecalledIs, Notes!ForgottenIsTold
  <2>2. \A n \in DOMAIN note : note[n].state = "hidden" => note'[n].state = "hidden"  BY DEF Grown
  <2> QED BY <2>1, <2>2 DEF Notes!ForgottenIsTold
<1> QED BY <1>2, <1>3, <1>4, <1>5 DEF RecalledIs

\* A step that changes no note.
LEMMA NotGrown == ASSUME NotesInv, note' = note PROVE Grown /\ \A n \in DOMAIN note' : NoteIs(n)'
<1>1. Grown  BY DEF NotesInv, Grown
<1> QED BY <1>1, NoteStays

\* A note is written: it descends from an earlier one whose trust it carries, or from none.
LEMMA IsWritten ==
  ASSUME NotesInv, NEW trust \in Trusts, NEW home \in Homes, NEW from \in {0} \union DOMAIN note,
         NEW old \in Seq(Remembered), DOMAIN old = DOMAIN note,
         \A n \in DOMAIN note :
           /\ old[n].from = note[n].from /\ old[n].origin = note[n].origin /\ old[n].home = note[n].home
           /\ old[n].confirmed = note[n].confirmed /\ old[n].trust = note[n].trust
           /\ note[n].state = "hidden" => old[n].state = "hidden",
         from # 0 /\ trust # "untrusted" => Notes!Vouched(from),
         note' = Append(old, Notes!New(trust, home, from))
  PROVE  Grown /\ (\A n \in DOMAIN note' : NoteIs(n)') /\ Len(note') \in DOMAIN note' /\ note'[Len(note')].home = home
<1>1. PICK new : new = Notes!New(trust, home, from)  OBVIOUS
<1>2. PICK n \in Nat : n = Len(old)  OBVIOUS
<1>3. DOMAIN note = 1..n /\ from \in 0..n  BY <1>2
<1>4. /\ new \in Remembered /\ new.trust = trust /\ new.from = from /\ new.origin = trust
      /\ new.confirmed = FALSE /\ new.home = home
  BY <1>1, <1>3 DEF Notes!New, Remembered
<1>5. /\ note' \in Seq(Remembered) /\ DOMAIN note' = 1..(n + 1) /\ Len(note') = n + 1 /\ note'[n + 1] = new
      /\ \A i \in 1..n : note'[i] = old[i]
  BY <1>1, <1>2, <1>4
<1>6. Grown  BY <1>3, <1>5 DEF Grown
<1>7. ASSUME NEW i \in 1..n PROVE NoteIs(i)'  BY <1>3, <1>5, <1>6, <1>7, NoteStays
<1>8. NoteIs(n + 1)'
  <2>1. n + 1 \in DOMAIN note'  BY <1>5
  <2>2. CASE from = 0 /\ trust # "untrusted"
    <3>1. n + 1 \in Notes!Line(n + 1)'  BY <2>1 DEF Notes!Line
    <3>2. Notes!Vouched(n + 1)'  BY <1>4, <1>5, <2>2, <3>1 DEF Notes!Vouched
    <3> QED BY <1>3, <1>4, <1>5, <3>2 DEF NoteIs
  <2>3. CASE from # 0 /\ trust # "untrusted"
    <3>1. from \in DOMAIN note /\ from \in DOMAIN note'  BY <2>3 DEF Grown, NotesInv
    <3>2. Notes!Vouched(from)'  BY <1>6, <2>3, <3>1, VouchedStays
    <3>3. Notes!Vouched(n + 1)'  BY <1>4, <1>5, <2>1, <3>1, <3>2, VouchedOn
    <3> QED BY <1>3, <1>4, <1>5, <3>3 DEF NoteIs
  <2>4. CASE trust = "untrusted"  BY <1>3, <1>4, <1>5, <2>4 DEF NoteIs
  <2> QED BY <2>2, <2>3, <2>4
<1>9. \A i \in 1..(n + 1) : i \in 1..n \/ i = n + 1  BY <1>2
<1> QED BY <1>4, <1>5, <1>6, <1>7, <1>8, <1>9

\* The ladder has four rungs, each in its place.
LEMMA PlaceIs ==
  /\ \A t \in Trusts : Notes!Place(t) \in 1..4
  /\ \A i \in 1..4 : Notes!Place(Notes!Ladder[i]) = i
<1>1. PICK l : l = Notes!Ladder  OBVIOUS
<1>2. /\ DOMAIN l = 1..4 /\ l[1] = "stated" /\ l[2] = "observed" /\ l[3] = "inferred" /\ l[4] = "untrusted"
  BY <1>1 DEF Notes!Ladder
<1>3. \A t : Notes!Place(t) = CHOOSE i \in 1..4 : l[i] = t  BY <1>1, <1>2 DEF Notes!Place
<1>4. \A i, j \in 1..4 : l[i] = l[j] => i = j
  <2>1. \A i \in 1..4 : i = 1 \/ i = 2 \/ i = 3 \/ i = 4  OBVIOUS
  <2> QED BY <1>2, <2>1
<1>5. ASSUME NEW i \in 1..4 PROVE Notes!Place(l[i]) = i  BY <1>3, <1>4
<1>6. \A t \in Trusts : \E i \in 1..4 : t = l[i]
  <2>1. 1 \in 1..4 /\ 2 \in 1..4 /\ 3 \in 1..4 /\ 4 \in 1..4  OBVIOUS
  <2> QED BY <1>2, <2>1 DEF Trusts
<1> QED BY <1>1, <1>5, <1>6

\* Of some of four places one is the highest.
LEMMA HighestOfFour == ASSUME NEW s, s \subseteq 1..4, s # {} PROVE \E i \in s : \A j \in s : j <= i
<1>1. \A j \in s : j = 1 \/ j = 2 \/ j = 3 \/ j = 4  OBVIOUS
<1>2. CASE 4 \in s  BY <1>1, <1>2
<1>3. CASE 4 \notin s /\ 3 \in s  BY <1>1, <1>3
<1>4. CASE 4 \notin s /\ 3 \notin s /\ 2 \in s  BY <1>1, <1>4
<1>5. CASE 4 \notin s /\ 3 \notin s /\ 2 \notin s
  <2>1. \A j \in s : j = 1  BY <1>1, <1>5
  <2>2. PICK k : k \in s  OBVIOUS
  <2>3. \A j \in s : j <= k  BY <2>1, <2>2
  <2> QED BY <2>2, <2>3
<1> QED BY <1>2, <1>3, <1>4, <1>5

\* The least trusted of some notes is the label of all of them.
LEMMA LabelIs ==
  ASSUME NEW notes_, NEW trusts, trusts = {note'[n].trust : n \in notes_}, trusts \subseteq Trusts
  PROVE  \A t \in trusts : Notes!Place(t) <= Notes!Place(Notes!Label(notes_))
<1> SUFFICES ASSUME NEW t0 \in trusts PROVE Notes!Place(t0) <= Notes!Place(Notes!Label(notes_))  OBVIOUS
<1>1. PICK places : places = {Notes!Place(note'[n].trust) : n \in notes_}  OBVIOUS
<1>2. places \subseteq 1..4 /\ notes_ # {} /\ Notes!Place(t0) \in places  BY <1>1, PlaceIs
<1>3. \E i \in places : \A j \in places : j <= i  BY <1>2, HighestOfFour
<1>4. PICK top : top = CHOOSE i \in places : \A n \in notes_ : Notes!Place(note'[n].trust) <= i  OBVIOUS
<1>5. top \in places /\ \A n \in notes_ : Notes!Place(note'[n].trust) <= top
  <2>1. \E i \in places : \A n \in notes_ : Notes!Place(note'[n].trust) <= i  BY <1>1, <1>3
  <2> QED BY <1>4, <2>1
<1>6. Notes!Label(notes_) = Notes!Ladder[top]  BY <1>1, <1>2, <1>4 DEF Notes!Label
<1>7. Notes!Place(Notes!Label(notes_)) = top  BY <1>2, <1>5, <1>6, PlaceIs
<1>8. Notes!Place(t0) <= top  BY <1>5
<1> QED BY <1>7, <1>8

\* What an answer says.
LEMMA AnswersIs ==
  ASSUME NotesInv, Grown, NEW c \in Conversation, NEW notes_ \in SUBSET DOMAIN note', NEW of, NEW floor,
         Notes!Answers(c, of, notes_, floor), of # "forget",
         of = "recall" => /\ \A n \in notes_ : Notes!Vouched(n)' /\ note'[n].home \in {"profile", c}
                          /\ notes_ # {} => floor \in Notes!Floors
  PROVE  /\ RecalledIs' /\ DOMAIN known' = Conversation /\ known'[c] \subseteq DOMAIN note'
         /\ \A b \in Conversation \ {c} : known'[b] = known[b]
<1>1. PICK label, trusts : label = Notes!Label(notes_) /\ trusts = {note'[n].trust : n \in notes_}  OBVIOUS
<1>2. PICK told_ : told_ = [Notes!NoResult EXCEPT !.by = c, !.of = of, !.notes = notes_, !.floor = floor,
                              !.label = label, !.trusts = trusts]
  OBVIOUS
<1>3. /\ told_.by = c /\ told_.of = of /\ told_.notes = notes_ /\ told_.floor = floor /\ told_.label = label
      /\ told_.trusts = trusts /\ told_.gone = {}
  BY <1>2 DEF Notes!NoResult
<1>4. recalled' = told_  BY <1>1, <1>2 DEF Notes!Answers
<1>5. trusts \subseteq Trusts
  <2>1. \A n \in DOMAIN note' : note'[n] \in Remembered  BY DEF Grown
  <2>2. \A n \in notes_ : note'[n].trust \in Trusts  BY <2>1 DEF Remembered
  <2> QED BY <1>1, <2>2
<1>6. \A t \in trusts : Notes!Place(t) <= Notes!Place(label)  BY <1>1, <1>5, LabelIs
<1>7. Notes!LabelIsTheLeast'
  BY <1>3, <1>4, <1>6 DEF Notes!LabelIsTheLeast, Notes!Place, Notes!Ladder
<1>8. Notes!RecallIsVouched'
  BY <1>3, <1>4 DEF Notes!RecallIsVouched, Notes!Everybody, Notes!Floors
<1>9. Notes!ForgottenIsTold'  BY <1>3, <1>4 DEF Notes!ForgottenIsTold
<1>10. RecalledIs'  BY <1>3, <1>4, <1>7, <1>8, <1>9 DEF RecalledIs
<1>11. known' = [known EXCEPT ![c] = @ \union notes_]  BY DEF Notes!Answers
<1>12. known[c] \subseteq DOMAIN note'  BY DEF NotesInv, RecallingIs, Grown
<1> QED BY <1>10, <1>11, <1>12 DEF NotesInv

\* An error says nothing of any note.
LEMMA RaisesIs ==
  ASSUME NotesInv, Grown, NEW c \in Conversation, Notes!Raises(c) PROVE RecalledIs' /\ known' = known
<1>1. PICK told_ : told_ = [Notes!NoResult EXCEPT !.by = c, !.of = "error"]  OBVIOUS
<1>2. told_.of = "error" /\ told_.notes = {} /\ told_.trusts = {} /\ told_.gone = {}
  BY <1>1 DEF Notes!NoResult
<1>3. recalled' = told_ /\ known' = known  BY <1>1 DEF Notes!Raises
<1> QED BY <1>2, <1>3 DEF RecalledIs, Notes!RecallIsVouched, Notes!LabelIsTheLeast, Notes!ForgottenIsTold

\* A step of one conversation.
LEMMA NotesAt ==
  ASSUME NotesInv, Grown, \A n \in DOMAIN note' : NoteIs(n)', RecalledIs', Notes!IndexIsVouched',
         NEW c \in Conversation, RecallingIs(c)', DOMAIN recalling' = Conversation, DOMAIN known' = Conversation,
         \A b \in Conversation \ {c} : recalling'[b] = recalling[b] /\ known'[b] = known[b]
  PROVE  NotesInv'
<1>1. \A b \in Conversation \ {c} : RecallingIs(b)'  BY RecallingStays
<1> QED BY <1>1 DEF NotesInv, Grown

\* A conversation that is in the middle of nothing.
LEMMA IdleConversation ==
  ASSUME NotesInv, Grown, NEW c \in Conversation,
         recalling'[c] = recalling[c] \/ recalling'[c] = Notes!Idle, known'[c] \subseteq DOMAIN note'
  PROVE  RecallingIs(c)'
<1>1. CASE recalling'[c] = Notes!Idle
  <2>1. /\ Notes!Idle.op = "idle" /\ Notes!Idle.left = {} /\ Notes!Idle.gone = {} /\ Notes!Idle.trust = "none"
    BY DEF Notes!Idle
  <2> QED BY <1>1, <2>1 DEF RecallingIs
<1>2. CASE recalling'[c] = recalling[c]
  <2>1. PICK do : do = recalling[c]  OBVIOUS
  <2>2. RecallingIs(c)  BY DEF NotesInv
  <2>3. /\ do.trust \in Trusts \union {"none"} /\ do.left \subseteq DOMAIN note /\ do.gone \subseteq DOMAIN note
        /\ do.op = "correct" => /\ do.trust \in Trusts
                                /\ \A n \in do.left : do.trust # "untrusted" => Notes!Vouched(n)
        /\ do.op = "forget" => do.named = do.left \union do.gone \union do.kept
        /\ \A n \in do.gone : note[n].state = "hidden"
    BY <2>1, <2>2 DEF RecallingIs
  <2>4. \A n \in do.left : Notes!Vouched(n) => Notes!Vouched(n)'  BY <2>3, VouchedStays
  <2>5. \A n \in do.gone : note'[n].state = "hidden"  BY <2>3 DEF Grown
  <2>6. do.left \subseteq DOMAIN note' /\ do.gone \subseteq DOMAIN note'  BY <2>3 DEF Grown
  <2> QED BY <1>2, <2>1, <2>3, <2>4, <2>5, <2>6 DEF RecallingIs
<1> QED BY <1>1, <1>2

\* The index is what it was.
LEMMA IndexStays == ASSUME Notes!IndexIsVouched, index' = index PROVE Notes!IndexIsVouched'
BY DEF Notes!IndexIsVouched

\* The service learns of something without the hub.
LEMMA NotesDistils == ASSUME NotesInv, Notes!Distils PROVE NotesInv'
<1>1. PICK trust \in {"observed", "inferred", "untrusted"} : note' = Append(note, Notes!New(trust, "profile", 0))
  BY DEF Notes!Distils, Notes!Everybody
<1>2. trust \in Trusts /\ "profile" \in Homes /\ note \in Seq(Remembered)  BY DEF Trusts, Homes, NotesInv
<1>3. Grown /\ \A n \in DOMAIN note' : NoteIs(n)'  BY <1>1, <1>2, IsWritten
<1>4. UNCHANGED <<recalling, known, recalled, index>>  BY DEF Notes!Distils
<1>5. \A c \in Conversation : RecallingIs(c)'  BY <1>3, <1>4, RecallingStays
<1>6. RecalledIs' /\ Notes!IndexIsVouched'  BY <1>3, <1>4, RecalledStays, IndexStays DEF NotesInv
<1> QED BY <1>3, <1>4, <1>5, <1>6 DEF NotesInv, Grown

\* What is retrieved has somebody who stands behind it.
LEMMA NotesRecalls ==
  ASSUME NotesInv, NEW c \in Conversation,
         Notes!Recalls(c) \/ Notes!OpensTopic(c) \/ Notes!FailsToRecall(c)
  PROVE  NotesInv'
<1>1. note' = note /\ UNCHANGED <<recalling, index>>
  BY DEF Notes!Recalls, Notes!OpensTopic, Notes!FailsToRecall, Notes!Elsewhere
<1>2. Grown /\ \A n \in DOMAIN note' : NoteIs(n)'  BY <1>1, NotGrown
<1>3. Notes!IndexIsVouched'  BY <1>1, IndexStays DEF NotesInv
<1>4. /\ RecalledIs' /\ DOMAIN known' = Conversation /\ known'[c] \subseteq DOMAIN note'
      /\ \A b \in Conversation \ {c} : known'[b] = known[b]
  <2>1. CASE Notes!Recalls(c)
    <3>1. PICK floor \in Notes!Floors \union {"unknown"}, hits \in SUBSET Notes!Retrieved(c) :
            Notes!Answers(c, "recall", IF c \in private THEN {} ELSE Notes!WithinFloor(hits, floor), floor)
      BY <2>1 DEF Notes!Recalls
    <3>2. PICK notes_ : notes_ = IF c \in private THEN {} ELSE Notes!WithinFloor(hits, floor)  OBVIOUS
    <3>3. notes_ \subseteq Notes!Retrieved(c) /\ (notes_ # {} => floor \in Notes!Floors)
      BY <3>1, <3>2 DEF Notes!WithinFloor
    <3>4. \A n \in notes_ : /\ n \in DOMAIN note /\ note[n].home \in {"profile", c}
                            /\ (note[n].trust # "untrusted" \/ note[n].confirmed)
      BY <3>3 DEF Notes!Retrieved, Notes!Current, Notes!Everybody
    <3>5. \A n \in notes_ : Notes!Vouched(n)
      <4>1. \A n \in DOMAIN note : NoteIs(n)  BY DEF NotesInv
      <4> QED BY <3>4, <4>1 DEF NoteIs
    <3>6. \A n \in notes_ : Notes!Vouched(n)' /\ note'[n].home \in {"profile", c}
      BY <1>1, <1>2, <3>4, <3>5, VouchedStays
    <3>7. Notes!Answers(c, "recall", notes_, floor) /\ notes_ \in SUBSET DOMAIN note'  BY <1>1, <3>1, <3>2, <3>4
    <3> QED BY <1>2, <3>3, <3>6, <3>7, AnswersIs
  <2>2. CASE Notes!OpensTopic(c)
    <3>1. PICK topic \in SUBSET Notes!Current : Notes!Answers(c, "topic", IF c \in private THEN {} ELSE topic, "none")
      BY <2>2 DEF Notes!OpensTopic
    <3>2. PICK notes_ : notes_ = IF c \in private THEN {} ELSE topic  OBVIOUS
    <3>3. Notes!Answers(c, "topic", notes_, "none") /\ notes_ \in SUBSET DOMAIN note'
      BY <1>1, <3>1, <3>2 DEF Notes!Current
    <3> QED BY <1>2, <3>3, AnswersIs
  <2>3. CASE Notes!FailsToRecall(c)
    <3>1. Notes!Raises(c)  BY <2>3 DEF Notes!FailsToRecall
    <3>2. RecalledIs' /\ known' = known  BY <1>2, <3>1, RaisesIs
    <3>3. RecallingIs(c)  BY DEF NotesInv
    <3> QED BY <1>1, <3>2, <3>3 DEF NotesInv, RecallingIs
  <2> QED BY <2>1, <2>2, <2>3
<1>5. RecallingIs(c)'  BY <1>1, <1>2, <1>4, IdleConversation
<1>6. DOMAIN recalling' = Conversation  BY <1>1 DEF NotesInv
<1> QED BY <1>1, <1>2, <1>3, <1>4, <1>5, <1>6, NotesAt

\* A write that is answered, or is not: what is known after it is a note there is.
LEMMA NotesAnswered ==
  ASSUME NotesInv, Grown, \A n \in DOMAIN note' : NoteIs(n)', NEW c \in Conversation, index' = index,
         Notes!Raises(c) \/ \E n \in DOMAIN note' : Notes!Answers(c, "write", {n}, "none"),
         DOMAIN recalling' = Conversation, \A b \in Conversation \ {c} : recalling'[b] = recalling[b],
         recalling'[c] = recalling[c] \/ recalling'[c] = Notes!Idle
  PROVE  NotesInv'
<1>1. /\ RecalledIs' /\ DOMAIN known' = Conversation /\ known'[c] \subseteq DOMAIN note'
      /\ \A b \in Conversation \ {c} : known'[b] = known[b]
  <2>1. CASE Notes!Raises(c)
    <3>1. RecalledIs' /\ known' = known  BY <2>1, RaisesIs
    <3>2. RecallingIs(c)  BY DEF NotesInv
    <3> QED BY <3>1, <3>2 DEF NotesInv, RecallingIs, Grown
  <2>2. ASSUME NEW n \in DOMAIN note', Notes!Answers(c, "write", {n}, "none")
        PROVE  /\ RecalledIs' /\ DOMAIN known' = Conversation /\ known'[c] \subseteq DOMAIN note'
               /\ \A b \in Conversation \ {c} : known'[b] = known[b]
    <3>1. {n} \in SUBSET DOMAIN note'  BY <2>2
    <3> QED BY <2>2, <3>1, AnswersIs
  <2> QED BY <2>1, <2>2
<1>2. RecallingIs(c)'  BY <1>1, IdleConversation
<1>3. Notes!IndexIsVouched'  BY IndexStays DEF NotesInv
<1> QED BY <1>1, <1>2, <1>3, NotesAt

\* A person's own word, and a note the person confirms.
LEMMA NotesWrites ==
  ASSUME NotesInv, NEW c \in Conversation, Notes!Writes(c) \/ Notes!Confirms(c) PROVE NotesInv'
<1>1. UNCHANGED <<recalling, index>>  BY DEF Notes!Writes, Notes!Confirms, Notes!Elsewhere
<1>2. DOMAIN recalling' = Conversation /\ \A b \in Conversation : recalling'[b] = recalling[b]
  BY <1>1 DEF NotesInv
<1>3. CASE Notes!Writes(c)
  <2>1. PICK home \in {"profile", c}, how \in Notes!Outcome :
          /\ note' = (IF how = "failed" THEN note ELSE Append(note, Notes!New("stated", home, 0)))
          /\ IF how = "done" THEN Notes!Answers(c, "write", {Len(note')}, "none") ELSE Notes!Raises(c)
    BY <1>3 DEF Notes!Writes, Notes!Everybody
  <2>2. CASE how = "failed"
    <3>1. Grown /\ \A n \in DOMAIN note' : NoteIs(n)'  BY <2>1, <2>2, NotGrown
    <3>2. Notes!Raises(c)  BY <2>1, <2>2
    <3> QED BY <1>1, <1>2, <3>1, <3>2, NotesAnswered
  <2>3. CASE how # "failed"
    <3>1. note' = Append(note, Notes!New("stated", home, 0))  BY <2>1, <2>3
    <3>2. "stated" \in Trusts /\ home \in Homes /\ note \in Seq(Remembered)  BY DEF Trusts, Homes, NotesInv
    <3>3. Grown /\ (\A n \in DOMAIN note' : NoteIs(n)') /\ Len(note') \in DOMAIN note'  BY <3>1, <3>2, IsWritten
    <3> QED BY <1>1, <1>2, <2>1, <3>3, NotesAnswered
  <2> QED BY <2>2, <2>3
<1>4. CASE Notes!Confirms(c)
  <2>1. PICK n \in known[c] \intersect Notes!Current, how \in Notes!Outcome :
          /\ note' \in (IF how = "failed" THEN {note} ELSE Notes!Confirmed(n))
          /\ IF how = "done" THEN Notes!Answers(c, "write", {n}, "none") ELSE Notes!Raises(c)
    BY <1>4 DEF Notes!Confirms
  <2>2. n \in DOMAIN note  BY DEF Notes!Current
  <2>3. Grown /\ \A k \in DOMAIN note' : NoteIs(k)'
    <3>1. CASE note' = note  BY <3>1, NotGrown
    <3>2. CASE \E t \in {note[n].trust, "stated"} : note' = [note EXCEPT ![n].confirmed = TRUE, ![n].trust = t]
      <4>1. PICK t \in {note[n].trust, "stated"} : note' = [note EXCEPT ![n].confirmed = TRUE, ![n].trust = t]
        BY <3>2
      <4>2. PICK old, new : old = note[n] /\ new = [old EXCEPT !.confirmed = TRUE, !.trust = t]  OBVIOUS
      <4>3. old \in Remembered  BY <2>2, <4>2 DEF NotesInv
      <4>4. /\ new \in Remembered /\ new.from = old.from /\ new.origin = old.origin /\ new.home = old.home
            /\ new.confirmed = TRUE /\ new.state = old.state
        BY <4>1, <4>2, <4>3 DEF Remembered, Trusts
      <4>5. note' = [note EXCEPT ![n] = new]  BY <2>2, <4>1, <4>2, <4>3 DEF Remembered, NotesInv
      <4>6. note \in Seq(Remembered)  BY DEF NotesInv
      <4>7. /\ note' \in Seq(Remembered) /\ DOMAIN note' = DOMAIN note /\ note'[n] = new
            /\ \A k \in DOMAIN note \ {n} : note'[k] = note[k]
        BY <2>2, <4>4, <4>5, <4>6
      <4>8. Grown  BY <4>2, <4>4, <4>7 DEF Grown
      <4>9. \A k \in DOMAIN note : NoteIs(k)'  BY <4>4, <4>7, <4>8, NoteStays
      <4> QED BY <4>7, <4>8, <4>9
    <3> QED BY <2>1, <3>1, <3>2 DEF Notes!Confirmed
  <2>4. n \in DOMAIN note'  BY <2>2, <2>3 DEF Grown
  <2>5. Notes!Raises(c) \/ \E k \in DOMAIN note' : Notes!Answers(c, "write", {k}, "none")  BY <2>1, <2>4
  <2> QED BY <1>1, <1>2, <2>3, <2>5, NotesAnswered
<1> QED BY <1>3, <1>4

\* A correction, or a forgetting, is begun: of notes it was told of.
LEMMA NotesBegins ==
  ASSUME NotesInv, NEW c \in Conversation, Notes!ReadsToCorrect(c) \/ Notes!Forgets(c) PROVE NotesInv'
<1>1. UNCHANGED <<note, known, recalled, index>>
  BY DEF Notes!ReadsToCorrect, Notes!Forgets, Notes!Elsewhere
<1>2. Grown /\ \A n \in DOMAIN note' : NoteIs(n)'  BY <1>1, NotGrown
<1>3. known[c] \subseteq DOMAIN note  BY DEF NotesInv, RecallingIs
<1>4. PICK do : /\ recalling' = [recalling EXCEPT ![c] = do] /\ do.gone = {} /\ do.left \subseteq DOMAIN note
                /\ do.trust \in Trusts \union {"none"}
                /\ do.op = "correct" => /\ do.trust \in Trusts
                                        /\ \A n \in do.left : do.trust # "untrusted" => Notes!Vouched(n)
                /\ do.op = "forget" => do.named = do.left /\ do.kept = {}
  <2>1. CASE Notes!ReadsToCorrect(c)
    <3>1. PICK n \in known[c] :
            recalling' = [recalling EXCEPT ![c] =
              [Notes!Idle EXCEPT !.op = "correct", !.left = {n}, !.trust = Notes!Carried(n)]]
      BY <2>1 DEF Notes!ReadsToCorrect
    <3>2. PICK trust : trust = note[n].trust  OBVIOUS
    <3>3. PICK do : do = [Notes!Idle EXCEPT !.op = "correct", !.left = {n}, !.trust = trust]  OBVIOUS
    <3>4. do.op = "correct" /\ do.left = {n} /\ do.trust = trust /\ do.gone = {}  BY <3>3 DEF Notes!Idle
    <3>5. n \in DOMAIN note  BY <1>3
    <3>6. note[n] \in Remembered /\ NoteIs(n)  BY <3>5 DEF NotesInv
    <3>7. trust \in Trusts /\ (trust # "untrusted" => Notes!Vouched(n))  BY <3>2, <3>6 DEF Remembered, NoteIs
    <3>8. recalling' = [recalling EXCEPT ![c] = do]  BY <3>1, <3>2, <3>3 DEF Notes!Carried
    <3> QED BY <3>4, <3>5, <3>7, <3>8
  <2>2. CASE Notes!Forgets(c)
    <3>1. PICK named \in SUBSET known[c] :
            recalling' = [recalling EXCEPT ![c] = [Notes!Idle EXCEPT !.op = "forget", !.left = named, !.named = named]]
      BY <2>2 DEF Notes!Forgets
    <3>2. PICK do : do = [Notes!Idle EXCEPT !.op = "forget", !.left = named, !.named = named]  OBVIOUS
    <3>3. /\ do.op = "forget" /\ do.left = named /\ do.trust = "none" /\ do.gone = {}
          /\ do.named = named /\ do.kept = {}
      BY <3>2 DEF Notes!Idle
    <3> QED BY <1>3, <3>1, <3>2, <3>3
  <2> QED BY <2>1, <2>2
<1>5. /\ recalling'[c] = do /\ DOMAIN recalling' = Conversation
      /\ \A b \in Conversation \ {c} : recalling'[b] = recalling[b]
  BY <1>4 DEF NotesInv
<1>6. \A n \in do.left : Notes!Vouched(n) => Notes!Vouched(n)'  BY <1>2, <1>4, VouchedStays
<1>7. RecallingIs(c)'  BY <1>1, <1>3, <1>4, <1>5, <1>6 DEF RecallingIs
<1>8. RecalledIs' /\ Notes!IndexIsVouched'  BY <1>1, <1>2, RecalledStays, IndexStays DEF NotesInv
<1>9. DOMAIN known' = Conversation /\ \A b \in Conversation : known'[b] = known[b]  BY <1>1 DEF NotesInv
<1> QED BY <1>2, <1>5, <1>7, <1>8, <1>9, NotesAt

\* A correction is a note of its own, as trusted as what it corrects was when it was read.
LEMMA NotesCorrects == ASSUME NotesInv, NEW c \in Conversation, Notes!Corrects(c) PROVE NotesInv'
<1>1. recalling' = [recalling EXCEPT ![c] = Notes!Idle] /\ index' = index /\ recalling[c].op = "correct"
  BY DEF Notes!Corrects, Notes!Elsewhere
<1>2. /\ recalling'[c] = Notes!Idle /\ DOMAIN recalling' = Conversation
      /\ \A b \in Conversation \ {c} : recalling'[b] = recalling[b]
  BY <1>1 DEF NotesInv
<1>3. PICK do : do = recalling[c]  OBVIOUS
<1>4. PICK n \in do.left, how \in Notes!Outcome :
        IF how = "failed" \/ n \notin Notes!Current \/ ~ Notes!Room THEN note' = note /\ Notes!Raises(c)
        ELSE /\ note' = Append([note EXCEPT ![n].state = "replaced"], Notes!New(do.trust, note[n].home, n))
             /\ IF how = "done" THEN Notes!Answers(c, "write", {Len(note')}, "none") ELSE Notes!Raises(c)
  BY <1>3 DEF Notes!Corrects
<1>5. CASE note' = note /\ Notes!Raises(c)
  <2>1. Grown /\ \A k \in DOMAIN note' : NoteIs(k)'  BY <1>5, NotGrown
  <2> QED BY <1>1, <1>2, <1>5, <2>1, NotesAnswered
<1>6. CASE ~ (note' = note /\ Notes!Raises(c))
  <2>1. /\ n \in Notes!Current
        /\ note' = Append([note EXCEPT ![n].state = "replaced"], Notes!New(do.trust, note[n].home, n))
        /\ Notes!Raises(c) \/ Notes!Answers(c, "write", {Len(note')}, "none")
    BY <1>4, <1>6
  <2>2. /\ do.trust \in Trusts /\ do.left \subseteq DOMAIN note
        /\ do.trust # "untrusted" => Notes!Vouched(n)
    BY <1>1, <1>3, <1>4 DEF NotesInv, RecallingIs
  <2>3. n \in DOMAIN note /\ note[n] \in Remembered /\ note[n].state = "current"
    BY <1>4, <2>1, <2>2 DEF NotesInv, Notes!Current
  <2>4. PICK new : new = [note[n] EXCEPT !.state = "replaced"]  OBVIOUS
  <2>5. /\ new \in Remembered /\ new.from = note[n].from /\ new.origin = note[n].origin
        /\ new.home = note[n].home /\ new.confirmed = note[n].confirmed /\ new.trust = note[n].trust
    BY <2>3, <2>4 DEF Remembered
  <2>6. PICK old : old = [note EXCEPT ![n] = new]  OBVIOUS
  <2>7. note \in Seq(Remembered)  BY DEF NotesInv
  <2>8. /\ old \in Seq(Remembered) /\ DOMAIN old = DOMAIN note /\ old[n] = new
        /\ \A k \in DOMAIN note \ {n} : old[k] = note[k]
    BY <2>3, <2>5, <2>6, <2>7
  <2>9. PICK trust, home : trust = do.trust /\ home = note[n].home  OBVIOUS
  <2>10. trust \in Trusts /\ home \in Homes  BY <2>2, <2>3, <2>9 DEF Remembered
  <2>11. note' = Append(old, Notes!New(trust, home, n))  BY <2>1, <2>4, <2>6, <2>9
  <2>12. \A k \in DOMAIN note :
           /\ old[k].from = note[k].from /\ old[k].origin = note[k].origin /\ old[k].home = note[k].home
           /\ old[k].confirmed = note[k].confirmed /\ old[k].trust = note[k].trust
           /\ note[k].state = "hidden" => old[k].state = "hidden"
    <3> SUFFICES ASSUME NEW k \in DOMAIN note
                 PROVE  /\ old[k].from = note[k].from /\ old[k].origin = note[k].origin
                        /\ old[k].home = note[k].home /\ old[k].confirmed = note[k].confirmed
                        /\ old[k].trust = note[k].trust
                        /\ note[k].state = "hidden" => old[k].state = "hidden"
      OBVIOUS
    <3>1. CASE k = n  BY <2>3, <2>5, <2>8, <3>1
    <3>2. CASE k # n  BY <2>8, <3>2
    <3> QED BY <3>1, <3>2
  <2>13. n \in {0} \union DOMAIN note /\ (trust # "untrusted" => Notes!Vouched(n))  BY <2>2, <2>3, <2>9
  <2>14. Grown /\ (\A k \in DOMAIN note' : NoteIs(k)') /\ Len(note') \in DOMAIN note'
    BY <2>8, <2>10, <2>11, <2>12, <2>13, IsWritten
  <2> QED BY <1>1, <1>2, <2>1, <2>14, NotesAnswered
<1> QED BY <1>5, <1>6

\* A note is hidden, and stays so; what became of every one is told when all are done.
LEMMA NotesForgets ==
  ASSUME NotesInv, NEW c \in Conversation, Notes!ForgetsOne(c) \/ Notes!Escapes(c) \/ Notes!Tells(c) PROVE NotesInv'
<1>1. PICK do : do = recalling[c]  OBVIOUS
<1>2. /\ do.left \subseteq DOMAIN note /\ do.gone \subseteq DOMAIN note /\ known[c] \subseteq DOMAIN note
      /\ do.trust \in Trusts \union {"none"} /\ \A k \in do.gone : note[k].state = "hidden"
      /\ do.op = "forget" => do.named = do.left \union do.gone \union do.kept
  BY <1>1 DEF NotesInv, RecallingIs
<1>3. index' = index /\ do.op = "forget"
  BY <1>1 DEF Notes!ForgetsOne, Notes!Escapes, Notes!Tells, Notes!Elsewhere
<1>4. CASE Notes!ForgetsOne(c)
  <2>1. PICK n \in do.left, how \in Notes!Outcome :
          /\ note' = (IF how = "failed" THEN note ELSE [note EXCEPT ![n].state = "hidden"])
          /\ recalling' = [recalling EXCEPT ![c].left = @ \ {n},
                                            ![c].gone = IF how = "done" THEN @ \union {n} ELSE @,
                                            ![c].kept = IF how = "done" THEN @ ELSE @ \union {n}]
    BY <1>1, <1>4 DEF Notes!ForgetsOne
  <2>2. n \in DOMAIN note /\ UNCHANGED <<known, recalled>>  BY <1>2, <1>4, <2>1 DEF Notes!ForgetsOne
  <2>3. Grown /\ (\A k \in DOMAIN note' : NoteIs(k)') /\ (how = "done" => note'[n].state = "hidden")
    <3>1. CASE how = "failed"  BY <2>1, <3>1, NotGrown
    <3>2. CASE how # "failed"
      <4>1. PICK new : new = [note[n] EXCEPT !.state = "hidden"]  OBVIOUS
      <4>2. note[n] \in Remembered /\ note \in Seq(Remembered)  BY <2>2 DEF NotesInv
      <4>3. /\ new \in Remembered /\ new.from = note[n].from /\ new.origin = note[n].origin
            /\ new.home = note[n].home /\ new.confirmed = note[n].confirmed /\ new.trust = note[n].trust
            /\ new.state = "hidden"
        BY <4>1, <4>2 DEF Remembered
      <4>4. note' = [note EXCEPT ![n] = new]  BY <2>1, <3>2, <4>1
      <4>5. /\ note' \in Seq(Remembered) /\ DOMAIN note' = DOMAIN note /\ note'[n] = new
            /\ \A k \in DOMAIN note \ {n} : note'[k] = note[k]
        BY <2>2, <4>2, <4>3, <4>4
      <4>6. Grown  BY <4>3, <4>5 DEF Grown
      <4>7. \A k \in DOMAIN note : NoteIs(k)'  BY <4>3, <4>5, <4>6, NoteStays
      <4> QED BY <4>3, <4>5, <4>6, <4>7
    <3> QED BY <3>1, <3>2
  <2>4. PICK left, gone, kept : /\ left = do.left \ {n} /\ gone = IF how = "done" THEN do.gone \union {n} ELSE do.gone
                                /\ kept = IF how = "done" THEN do.kept ELSE do.kept \union {n}
    OBVIOUS
  <2>5. PICK next : next = [do EXCEPT !.left = left, !.gone = gone, !.kept = kept]  OBVIOUS
  <2>6. recalling' = [recalling EXCEPT ![c] = next]  BY <1>1, <2>1, <2>4, <2>5 DEF NotesInv
  <2>7. recalling'[c] = next /\ DOMAIN recalling' = Conversation
        /\ \A b \in Conversation \ {c} : recalling'[b] = recalling[b]
    BY <2>6 DEF NotesInv
  <2>8. next.op = do.op /\ next.trust = do.trust /\ next.left \subseteq do.left /\ next.gone \subseteq do.gone \union {n}
        /\ (how # "done" => next.gone \subseteq do.gone)
    BY <2>4, <2>5
  <2>12. next.named = next.left \union next.gone \union next.kept
    <3>1. next.named = do.named /\ next.left = left /\ next.gone = gone /\ next.kept = kept  BY <2>5, <1>1
    <3>2. left \union gone \union kept = do.left \union do.gone \union do.kept  BY <2>1, <2>4
    <3> QED BY <1>2, <1>3, <3>1, <3>2
  <2>9. RecallingIs(c)'
    <3>1. \A k \in next.gone : note'[k].state = "hidden"  BY <1>2, <2>3, <2>8 DEF Grown
    <3>2. next.left \subseteq DOMAIN note' /\ next.gone \subseteq DOMAIN note' /\ known'[c] \subseteq DOMAIN note'
      BY <1>2, <2>2, <2>3, <2>8 DEF Grown
    <3>3. next.op # "correct" /\ next.trust \in Trusts \union {"none"}  BY <1>2, <1>3, <2>8
    <3> QED BY <2>7, <2>12, <3>1, <3>2, <3>3 DEF RecallingIs
  <2>10. RecalledIs' /\ Notes!IndexIsVouched'  BY <1>3, <2>2, <2>3, RecalledStays, IndexStays DEF NotesInv
  <2>11. DOMAIN known' = Conversation /\ \A b \in Conversation : known'[b] = known[b]  BY <2>2 DEF NotesInv
  <2> QED BY <2>3, <2>7, <2>9, <2>10, <2>11, NotesAt
<1>5. CASE Notes!Tells(c)
  <2>1. /\ note' = note /\ recalling' = [recalling EXCEPT ![c] = Notes!Idle]
        /\ IF do.gone = {} THEN Notes!Raises(c)
           ELSE /\ recalled' = [Notes!NoResult EXCEPT !.by = c, !.of = "forget", !.named = do.named,
                                                       !.gone = do.gone, !.kept = do.kept]
                /\ known' = known
        /\ do.left = {}
    BY <1>1, <1>5 DEF Notes!Tells
  <2>2. Grown /\ \A k \in DOMAIN note' : NoteIs(k)'  BY <2>1, NotGrown
  <2>3. /\ recalling'[c] = Notes!Idle /\ DOMAIN recalling' = Conversation
        /\ \A b \in Conversation \ {c} : recalling'[b] = recalling[b]
    BY <2>1 DEF NotesInv
  <2>4. CASE do.gone = {}  BY <1>3, <2>1, <2>2, <2>3, <2>4, NotesAnswered
  <2>5. CASE do.gone # {}
    <3>1. PICK told_ : told_ = [Notes!NoResult EXCEPT !.by = c, !.of = "forget", !.named = do.named,
                                                      !.gone = do.gone, !.kept = do.kept]
      OBVIOUS
    <3>2. /\ told_.of = "forget" /\ told_.gone = do.gone /\ told_.notes = {} /\ told_.trusts = {}
          /\ told_.named = do.named /\ told_.kept = do.kept
      BY <3>1 DEF Notes!NoResult
    <3>9. do.named = do.gone \union do.kept  BY <1>2, <1>3, <2>1
    <3>3. recalled' = told_ /\ known' = known  BY <2>1, <2>5, <3>1
    <3>4. \A k \in do.gone : k \in DOMAIN note' /\ note'[k].state = "hidden"  BY <1>2, <2>1
    <3>5. RecalledIs'
      BY <3>2, <3>3, <3>4, <3>9 DEF RecalledIs, Notes!RecallIsVouched, Notes!LabelIsTheLeast, Notes!ForgottenIsTold
    <3>6. DOMAIN known' = Conversation /\ known'[c] \subseteq DOMAIN note' /\ \A b \in Conversation : known'[b] = known[b]
      BY <1>2, <2>1, <3>3 DEF NotesInv
    <3>7. RecallingIs(c)'  BY <2>2, <2>3, <3>6, IdleConversation
    <3>8. Notes!IndexIsVouched'  BY <1>3, IndexStays DEF NotesInv
    <3> QED BY <2>2, <2>3, <3>5, <3>6, <3>7, <3>8, NotesAt
  <2> QED BY <2>4, <2>5
<1>6. CASE Notes!Escapes(c)
  <2>1. note' = note /\ known' = known /\ recalling' = [recalling EXCEPT ![c] = Notes!Idle]  BY <1>6 DEF Notes!Escapes
  <2>2. Grown /\ \A k \in DOMAIN note' : NoteIs(k)'  BY <2>1, NotGrown
  <2>3. /\ recalling'[c] = Notes!Idle /\ DOMAIN recalling' = Conversation
        /\ \A b \in Conversation \ {c} : recalling'[b] = recalling[b]
    BY <2>1 DEF NotesInv
  <2>4. PICK told_ : told_ = [Notes!NoResult EXCEPT !.by = c, !.of = "error", !.untold = do.gone]  OBVIOUS
  <2>5. told_.of = "error" /\ told_.gone = {} /\ told_.notes = {} /\ told_.trusts = {}
    BY <2>4 DEF Notes!NoResult
  <2>6. recalled' = told_  BY <1>1, <1>6, <2>4 DEF Notes!Escapes
  <2>7. RecalledIs'
    BY <2>5, <2>6 DEF RecalledIs, Notes!RecallIsVouched, Notes!LabelIsTheLeast, Notes!ForgottenIsTold
  <2>8. /\ DOMAIN known' = Conversation /\ known'[c] \subseteq DOMAIN note'
        /\ \A b \in Conversation : known'[b] = known[b]
    BY <1>2, <2>1 DEF NotesInv
  <2>9. RecallingIs(c)'  BY <2>2, <2>3, <2>8, IdleConversation
  <2>10. Notes!IndexIsVouched'  BY <1>3, IndexStays DEF NotesInv
  <2> QED BY <2>2, <2>3, <2>7, <2>8, <2>9, <2>10, NotesAt
<1> QED BY <1>4, <1>5, <1>6

\* Lessons touch no note.
LEMMA NotesLearns ==
  ASSUME NotesInv, NEW c \in Conversation, Notes!Learns(c) \/ Notes!Unlearns(c) PROVE NotesInv'
<1>1. UNCHANGED <<note, recalling, known, recalled, index>>  BY DEF Notes!Learns, Notes!Unlearns
<1>2. Grown /\ \A k \in DOMAIN note' : NoteIs(k)'  BY <1>1, NotGrown
<1>3. RecalledIs' /\ Notes!IndexIsVouched'  BY <1>1, <1>2, RecalledStays, IndexStays DEF NotesInv
<1>4. \A b \in Conversation : RecallingIs(b)'  BY <1>1, <1>2, RecallingStays
<1> QED BY <1>1, <1>2, <1>3, <1>4 DEF NotesInv, Grown

\* The memories the service answers with are three, and a function on three places has that length.
LEMMA ThreeCards == IsFiniteSet(1..3) /\ \A f : DOMAIN f = 1..3 => Len(f) \in Nat
<1>1. 1 \in Int /\ 3 \in Int  OBVIOUS
<1>2. IsFiniteSet(1..3)  BY <1>1, FS_Interval
<1>3. ASSUME NEW f, DOMAIN f = 1..3 PROVE Len(f) \in Nat  BY <1>3, LenProperties
<1> QED BY <1>2, <1>3

\* Whatever the order, only what is eligible is shown, and what is not shown is counted.
LEMMA NotesIndexed ==
  ASSUME ErrandsAssumption, NotesInv, NEW c \in Conversation, Notes!Indexes(c) PROVE NotesInv'
<1>1. UNCHANGED <<note, recalling, known, recalled>>  BY DEF Notes!Indexes
<1>2. Grown /\ \A k \in DOMAIN note' : NoteIs(k)'  BY <1>1, NotGrown
<1>3. RecalledIs'  BY <1>1, <1>2, RecalledStays
<1>4. \A b \in Conversation : RecallingIs(b)'  BY <1>1, <1>2, RecallingStays
<1>5. PICK cards \in [1..3 -> Notes!Card], limit \in Limits, opinion \in {"none", "reversed"} :
        \E ranked \in Notes!Ranked(cards) :
          LET asked == opinion # "none" /\ limit > 0
              top == Notes!FirstOf(IF asked THEN Notes!Reverse(ranked) ELSE ranked, Notes!AtLeastOne(limit)) IN
          index' = [cards |-> cards, limit |-> limit, shown |-> [i \in DOMAIN top |-> cards[top[i]]],
                    withheld |-> Len(cards) - Len(ranked), omitted |-> Len(ranked) - Len(top)]
  BY DEF Notes!Indexes
<1>6. PICK e : e = Notes!Eligible(cards)  OBVIOUS
<1>7. IsFiniteSet(e) /\ Cardinality(e) \in Nat /\ \A i \in e : cards[i].trusted
  <2>1. IsFiniteSet(1..3)  BY ThreeCards
  <2>2. e \subseteq 1..3  BY <1>6 DEF Notes!Eligible
  <2>3. IsFiniteSet(e)  BY <2>1, <2>2, FS_Subset
  <2> QED BY <1>6, <2>3, FS_CardinalityType DEF Notes!Eligible
<1>8. PICK ranked : /\ ranked \in [1..Cardinality(e) -> e]
        /\ LET asked == opinion # "none" /\ limit > 0
               top == Notes!FirstOf(IF asked THEN Notes!Reverse(ranked) ELSE ranked, Notes!AtLeastOne(limit)) IN
           index' = [cards |-> cards, limit |-> limit, shown |-> [i \in DOMAIN top |-> cards[top[i]]],
                     withheld |-> Len(cards) - Len(ranked), omitted |-> Len(ranked) - Len(top)]
  BY <1>5, <1>6 DEF Notes!Ranked, Notes!Cardinality, Cardinality
<1>9. ranked \in Seq(e) /\ Len(ranked) \in Nat  BY <1>7, <1>8
<1>10. PICK order : order = IF opinion # "none" /\ limit > 0 THEN Notes!Reverse(ranked) ELSE ranked  OBVIOUS
<1>11. order \in Seq(e)
  <2>1. PICK k \in Nat : k = Len(ranked)  BY <1>9
  <2>2. PICK back : back = [i \in 1..k |-> ranked[(k - i) + 1]]  OBVIOUS
  <2>3. \A i \in 1..k : (k - i) + 1 \in 1..k  BY <2>1
  <2>4. \A i \in 1..k : ranked[i] \in e  BY <1>9, <2>1
  <2>5. back \in [1..k -> e]  BY <2>2, <2>3, <2>4
  <2>6. back \in Seq(e)  BY <2>5
  <2>7. Notes!Reverse(ranked) = back  BY <2>1, <2>2 DEF Notes!Reverse
  <2> QED BY <1>9, <1>10, <2>6, <2>7
<1>12. PICK n : n = Notes!AtLeastOne(limit)  OBVIOUS
<1>13. n \in Nat
  <2>1. limit \in Nat  BY DEF ErrandsAssumption, Notes!MemoryAssumption
  <2> QED BY <1>12, <2>1 DEF Notes!AtLeastOne
<1>14. PICK top : top = Notes!FirstOf(order, n)  OBVIOUS
<1>15. top \in Seq(e) /\ Len(top) \in Nat
  <2>1. PICK m \in 0..Len(order) : m = IF n < Len(order) THEN n ELSE Len(order)  BY <1>11, <1>13
  <2>2. top = SubSeq(order, 1, m)  BY <1>14, <2>1 DEF Notes!FirstOf
  <2> QED BY <1>11, <2>1, <2>2
<1>16. PICK seen : seen = [i \in DOMAIN top |-> cards[top[i]]]  OBVIOUS
<1>17. index' = [cards |-> cards, limit |-> limit, shown |-> seen,
                 withheld |-> Len(cards) - Len(ranked), omitted |-> Len(ranked) - Len(top)]
  BY <1>8, <1>10, <1>12, <1>14, <1>16
<1>18. \A i \in DOMAIN top : top[i] \in e  BY <1>15
<1>19. DOMAIN seen = DOMAIN top /\ \A i \in DOMAIN top : seen[i].trusted  BY <1>7, <1>16, <1>18
<1>20. Len(seen) = Len(top)  BY <1>15, <1>16
<1>21. Len(cards) \in Nat
  <2>1. DOMAIN cards = 1..3  OBVIOUS
  <2> QED BY <2>1, ThreeCards
<1>22. PICK withheld, omitted : withheld = Len(cards) - Len(ranked) /\ omitted = Len(ranked) - Len(top)  OBVIOUS
<1>23. Len(seen) + omitted + withheld = Len(cards)  BY <1>9, <1>15, <1>20, <1>21, <1>22
<1>24. /\ index'.shown = seen /\ index'.cards = cards /\ index'.omitted = omitted /\ index'.withheld = withheld
  BY <1>17, <1>22
<1>25. Notes!IndexIsVouched'  BY <1>19, <1>23, <1>24 DEF Notes!IndexIsVouched
<1> QED BY <1>1, <1>2, <1>3, <1>4, <1>25 DEF NotesInv, Grown

\* Every step of the conversations and of the service.
LEMMA NotesStep == ASSUME ErrandsAssumption, NotesInv, Notes!Next PROVE NotesInv'
BY NotesDistils, NotesRecalls, NotesWrites, NotesBegins, NotesCorrects, NotesForgets, NotesLearns, NotesIndexed
   DEF Notes!Next

\* What the other parts do leaves the notes as they stand.
LEMMA NotesStay == ASSUME NotesInv, UNCHANGED notes PROVE NotesInv'
<1>1. UNCHANGED <<note, recalling, known, recalled, index>>  BY DEF notes
<1>2. Grown /\ \A k \in DOMAIN note' : NoteIs(k)'  BY <1>1, NotGrown
<1>3. RecalledIs' /\ Notes!IndexIsVouched'  BY <1>1, <1>2, RecalledStays, IndexStays DEF NotesInv
<1>4. \A b \in Conversation : RecallingIs(b)'  BY <1>1, <1>2, RecallingStays
<1> QED BY <1>1, <1>2, <1>3, <1>4 DEF NotesInv, Grown

\* Nothing was noted.
LEMMA NotesStarted == ASSUME Notes!Init PROVE NotesInv
<1>1. note = << >> /\ DOMAIN recalling = Conversation /\ DOMAIN known = Conversation /\ note \in Seq(Remembered)
  BY DEF Notes!Init
<1>2. \A c \in Conversation : recalling[c] = Notes!Idle /\ known[c] = {}  BY DEF Notes!Init
<1>3. /\ Notes!Idle.op = "idle" /\ Notes!Idle.left = {} /\ Notes!Idle.gone = {} /\ Notes!Idle.trust = "none"
  BY DEF Notes!Idle
<1>4. \A c \in Conversation : RecallingIs(c)  BY <1>2, <1>3 DEF RecallingIs
<1>5. recalled.of = "none" /\ recalled.notes = {} /\ recalled.gone = {} /\ recalled.trusts = {}
  BY DEF Notes!Init, Notes!NoResult
<1>6. RecalledIs  BY <1>5 DEF RecalledIs, Notes!RecallIsVouched, Notes!LabelIsTheLeast, Notes!ForgottenIsTold
<1>7. /\ index.shown = << >> /\ index.cards = << >> /\ index.omitted = 0 /\ index.withheld = 0
  BY DEF Notes!Init, Notes!NoIndex
<1>8. Notes!IndexIsVouched  BY <1>7 DEF Notes!IndexIsVouched
<1>9. \A n \in DOMAIN note : NoteIs(n)  BY <1>1
<1> QED BY <1>1, <1>4, <1>6, <1>8, <1>9 DEF NotesInv

\* What is held of every note is what the recalled ones are promised to be.
LEMMA NotesPromise == ASSUME NotesInv PROVE NotesAreVouched
BY DEF NotesInv, RecalledIs, NotesAreVouched, Notes!NotesAreVouched

\* What is recalled was stated or seen by somebody, or is marked as what nobody stands behind, through
\* every correction, and a forget that is answered tells what became of every note it named: for any
\* number of conversations, notes and memories.
THEOREM NotesStayVouched == Spec => []NotesAreVouched
<1>1. Init => NotesInv  BY NotesStarted DEF Init
<1>2. NotesInv /\ [Next]_vars => NotesInv'  BY NotesStep, NotesStay, ErrandsAssumption DEF Next, vars
<1>3. NotesInv => NotesAreVouched  BY NotesPromise
<1> QED BY <1>1, <1>2, <1>3, PTL DEF Spec
=============================================================================
