-------------------------- MODULE MCServices_proofs --------------------------
(***************************************************************************)
(* Proofs about the parts of MCServices, for every value of the constants. *)
(* Each has an inductive invariant of its own, over its own variables: what *)
(* the other parts do leaves it alone.                                     *)
(***************************************************************************)
EXTENDS MCServices, TLAPS, SequenceTheorems, FiniteSetTheorems

-----------------------------------------------------------------------------
(* SessionChanges. What is held is the last word, unless it was overtaken:  *)
(* so it does not matter when it lands, or whether it does.                *)

HeldIsLast == \A f \in Field \ overtaken : held[f] # Settings!Nothing => answered[f] = held[f]

SettingsInv == HeldIsLast /\ LastWordIsKept

\* store.update writes over a column; what is held for it was overtaken.
LEMMA SettingsUpdates ==
  ASSUME SettingsInv, NEW p, NEW names, Settings!Updates(p, names)
  PROVE  SettingsInv'
<1> USE DEF SettingsInv, HeldIsLast, LastWordIsKept, Settings!LastWordIsKept, Settings!Updates
<1> SUFFICES ASSUME NEW f \in Field, f \notin overtaken'
             PROVE  /\ held'[f] # Settings!Nothing => answered'[f] = held'[f]
                    /\ answered'[f] \in {set'[f], held'[f]}
  OBVIOUS
<1>1. CASE f \in names
  <2>1. set'[f] = p /\ answered'[f] = p  BY <1>1
  <2>2. held'[f] = Settings!Nothing  BY <1>1
  <2> QED BY <2>1, <2>2
<1>2. CASE f \notin names
  <2>1. set'[f] = set[f] /\ answered'[f] = answered[f] /\ held'[f] = held[f]  BY <1>2
  <2>2. f \notin overtaken  BY <1>2
  <2> QED BY <2>1, <2>2
<1> QED BY <1>1, <1>2

\* store.hold_changes: what is named is held, and the last word.
LEMMA SettingsHolds ==
  ASSUME SettingsInv, NEW p, NEW names, Settings!Holds(p, names)
  PROVE  SettingsInv'
<1> USE DEF SettingsInv, HeldIsLast, LastWordIsKept, Settings!LastWordIsKept, Settings!Holds, Settings!Merged
<1> SUFFICES ASSUME NEW f \in Field, f \notin overtaken'
             PROVE  /\ held'[f] # Settings!Nothing => answered'[f] = held'[f]
                    /\ answered'[f] \in {set'[f], held'[f]}
  OBVIOUS
<1>1. CASE f \in names
  <2>1. held'[f] = p /\ answered'[f] = p  BY <1>1
  <2> QED BY <2>1
<1>2. CASE f \notin names
  <2>1. set'[f] = set[f] /\ answered'[f] = answered[f] /\ held'[f] = held[f]  BY <1>2
  <2>2. f \notin overtaken  BY <1>2
  <2> QED BY <2>1, <2>2
<1> QED BY <1>1, <1>2

\* apply_pending: everything held lands at once.
LEMMA SettingsLands ==
  ASSUME SettingsInv, NEW t \in Settings!Turn, Settings!Lands(t)
  PROVE  SettingsInv'
<1> USE DEF SettingsInv, HeldIsLast, LastWordIsKept, Settings!LastWordIsKept, Settings!Lands
<1> SUFFICES ASSUME NEW f \in Field, f \notin overtaken'
             PROVE  /\ held'[f] # Settings!Nothing => answered'[f] = held'[f]
                    /\ answered'[f] \in {set'[f], held'[f]}
  OBVIOUS
<1>1. held'[f] = Settings!Nothing /\ answered'[f] = answered[f] /\ f \notin overtaken  OBVIOUS
<1>2. set'[f] = IF held[f] = Settings!Nothing THEN set[f] ELSE held[f]  OBVIOUS
<1> QED BY <1>1, <1>2

\* What writes no setting.
LEMMA SettingsRests ==
  ASSUME SettingsInv, UNCHANGED <<set, held, answered, overtaken>> PROVE SettingsInv'
BY DEF SettingsInv, HeldIsLast, LastWordIsKept, Settings!LastWordIsKept

\* Every step of the requests and of the turns.
LEMMA SettingsStep == ASSUME SettingsInv, Settings!Next PROVE SettingsInv'
<1>1. CASE \E p \in Settings!Patch : Settings!Asks(p)
  <2>1. PICK p \in Settings!Patch : Settings!Asks(p)  BY <1>1
  <2>2. PICK names \in Patches : Settings!Updates(p, names) \/ UNCHANGED <<set, held, answered, overtaken>>
    BY <2>1 DEF Settings!Asks
  <2> QED BY <2>2, SettingsUpdates, SettingsRests
<1>2. CASE \E p \in Settings!Patch : Settings!Writes(p)
  <2>1. PICK p \in Settings!Patch : Settings!Writes(p)  BY <1>2
  <2>2. Settings!Holds(p, patch[p].names) \/ Settings!Updates(p, patch[p].names)
    BY <2>1 DEF Settings!Writes
  <2> QED BY <2>2, SettingsHolds, SettingsUpdates
<1>3. CASE \E t \in Settings!Turn : Settings!Lands(t)  BY <1>3, SettingsLands
<1>4. CASE \E t \in Settings!Turn :
             \/ Settings!Submit(t) \/ Settings!Claim(t) \/ Settings!Parks(t) \/ Settings!Answered(t)
             \/ Settings!Finishes(t) \/ Settings!RouteEnds(t)
  BY <1>4, SettingsRests
     DEF Settings!Submit, Settings!Claim, Settings!Parks, Settings!Answered, Settings!Finishes,
         Settings!RouteEnds
<1>5. CASE Settings!Restart  BY <1>5, SettingsRests DEF Settings!Restart
<1> QED BY <1>1, <1>2, <1>3, <1>4, <1>5 DEF Settings!Next

\* Nothing was changed yet.
LEMMA SettingsStarted == ASSUME Settings!Init PROVE SettingsInv
BY DEF Settings!Init, SettingsInv, HeldIsLast, LastWordIsKept, Settings!LastWordIsKept

-----------------------------------------------------------------------------
(* SignIn. The row says what was told: nobody before it is decided, its     *)
(* approver after. A sign-in that was handed over left the row.             *)

Told == {"nothing", "approved", "refused", "error"}
Words == {"nothing", "poll", "slow_down", "authorization_pending", "access_denied", "expired_token"}

Codes == [state : {"pending", "approved", "denied", "consumed"},
          by : Approver \union {SignIn!NoOne}, token : Approver \union {SignIn!NoOne},
          interval : Nat, polled : Nat]
Clients == [place : {"waits", "polls", "refused", "in", "late", "unreachable"},
            interval : Nat, asked : Nat, token : Approver \union {SignIn!NoOne},
            retried : BOOLEAN]

SignInShape ==
  /\ clock \in Nat /\ dropped \in Nat /\ given \in Nat
  /\ code \in Codes /\ client \in Clients
  /\ wire \in Approver \union Words
  /\ decided \in [Approver -> Told]

\* Who approved is whom the row names.
ByTheRow == \A p \in Approver : decided[p] = "approved" <=> p = code.by

RowTells ==
  /\ code.state = "pending" =>
       /\ given = 0 /\ \A p \in Approver : decided[p] \in {"nothing", "error"}
  /\ code.state = "approved" =>
       /\ given = 0 /\ ByTheRow /\ code.token = code.by /\ code.by \in Approver
  /\ code.state = "denied" =>
       given = 0 /\ \E p \in Approver : decided[p] = "refused"
  /\ code.state = "consumed" => given = 1 /\ ByTheRow

\* What is on its way to the client, or with it, is what the row handed over.
HandedOver ==
  /\ wire # "nothing" <=> client.place = "polls"
  /\ wire \in Approver => code.state = "consumed" /\ wire = code.by
  /\ client.place = "in" => code.state = "consumed" /\ client.token = code.by

\* A refusal has its reason, as long as no connection was dropped: no second poll meets the row
\* that the first one took over.
RefusedForAReason ==
  /\ dropped = 0 /\ code.state = "consumed" => wire \in Approver \/ client.place = "in"
  /\ dropped = 0 /\ (wire \in {"access_denied", "expired_token"} \/ client.place = "refused") =>
       SignIn!Expired \/ \E p \in Approver : decided[p] = "refused"

SignInInv == SignInShape /\ RowTells /\ HandedOver /\ RefusedForAReason

\* The first decision is taken, the others are told an error.
LEMMA SignInDecides ==
  ASSUME ServicesAssumption, SignInInv, NEW p \in Approver, SignIn!Decides(p)
  PROVE  SignInInv'
<1> USE DEF Codes, Clients
<1> USE DEF SignIn!Decides, SignIn!NoOne, Told
<1>1. SignInShape /\ RowTells /\ HandedOver /\ RefusedForAReason  BY DEF SignInInv
<1>2. UNCHANGED <<clock, given, client, wire, dropped>> /\ decided[p] = "nothing"  OBVIOUS
<1>3. PICK approve \in BOOLEAN :
        IF SignIn!Expired \/ code.state # "pending"
        THEN decided' = [decided EXCEPT ![p] = "error"] /\ UNCHANGED code
        ELSE /\ decided' = [decided EXCEPT ![p] = IF approve THEN "approved" ELSE "refused"]
             /\ code' = [code EXCEPT !.state = IF approve THEN "approved" ELSE "denied",
                                     !.by = p, !.token = IF approve THEN p ELSE SignIn!NoOne]
  OBVIOUS
<1>4. p # "nobody"  BY DEF ServicesAssumption, SignIn!SignInAssumption
<1>5. CASE SignIn!Expired \/ code.state # "pending"
  <2>1. decided' = [decided EXCEPT ![p] = "error"] /\ UNCHANGED code  BY <1>3, <1>5
  <2>2. \A q \in Approver : /\ decided'[q] = "approved" <=> decided[q] = "approved"
                            /\ decided'[q] = "refused" <=> decided[q] = "refused"
                            /\ decided[q] \in {"nothing", "error"} => decided'[q] \in {"nothing", "error"}
    BY <1>1, <1>2, <2>1 DEF SignInShape
  <2>3. SignInShape'  BY <1>1, <1>2, <2>1 DEF SignInShape
  <2>4. RowTells'  BY <1>1, <1>2, <2>1, <2>2 DEF RowTells, ByTheRow
  <2>5. HandedOver'  BY <1>1, <1>2, <2>1 DEF HandedOver
  <2>6. RefusedForAReason'  BY <1>1, <1>2, <2>1, <2>2 DEF RefusedForAReason, SignIn!Expired
  <2> QED BY <2>3, <2>4, <2>5, <2>6 DEF SignInInv
<1>6. CASE ~ (SignIn!Expired \/ code.state # "pending")
  <2>1. /\ decided' = [decided EXCEPT ![p] = IF approve THEN "approved" ELSE "refused"]
        /\ code' = [code EXCEPT !.state = IF approve THEN "approved" ELSE "denied",
                                !.by = p, !.token = IF approve THEN p ELSE SignIn!NoOne]
    BY <1>3, <1>6
  <2>2. SignInShape'  BY <1>1, <1>2, <2>1 DEF SignInShape
  <2>3. \A q \in Approver : q # p => decided'[q] \in {"nothing", "error"}
    BY <1>1, <1>6, <2>1 DEF SignInShape, RowTells
  <2>4. decided'[p] = IF approve THEN "approved" ELSE "refused"  BY <1>1, <2>1 DEF SignInShape
  <2>5. code'.state = (IF approve THEN "approved" ELSE "denied") /\ code'.by = p
        /\ (approve => code'.token = p)
    BY <1>1, <2>1 DEF SignInShape
  <2>6. RowTells'  BY <1>1, <1>2, <1>6, <2>3, <2>4, <2>5 DEF RowTells, ByTheRow
  <2>7. wire \notin Approver /\ client.place # "in" /\ wire' = wire /\ client' = client
    BY <1>1, <1>2, <1>6 DEF HandedOver
  <2>8. HandedOver'  BY <1>1, <2>7 DEF HandedOver
  <2>9. decided[p] # "refused" /\ \A q \in Approver : decided[q] # "refused"
    BY <1>1, <1>2, <1>6 DEF RowTells
  <2>10. RefusedForAReason'  BY <1>1, <1>2, <2>5, <2>9 DEF RefusedForAReason, SignIn!Expired
  <2> QED BY <2>2, <2>6, <2>8, <2>10 DEF SignInInv
<1> QED BY <1>5, <1>6

\* The hub answers a poll, and hands over what was approved.
LEMMA SignInAnswers ==
  ASSUME ServicesAssumption, SignInInv, SignIn!Answers
  PROVE  SignInInv'
<1> USE DEF Codes, Clients
<1> USE DEF SignIn!Answers
<1>1. SignInShape /\ RowTells /\ HandedOver /\ RefusedForAReason  BY DEF SignInInv
<1>2. UNCHANGED <<clock, client, dropped, decided>> /\ wire = "poll"  OBVIOUS
<1>3. Approver \intersect Words = {} /\ SignIn!NoOne \notin Approver /\ Poll \in Nat
  BY DEF ServicesAssumption, SignIn!SignInAssumption, Words, SignIn!NoOne
<1>4. client.place = "polls" /\ "poll" \notin Approver /\ "poll" \in Words  BY <1>1, <1>2, <1>3 DEF HandedOver, Words
<1>5. dropped = 0 => code.state # "consumed"  BY <1>1, <1>2, <1>4 DEF RefusedForAReason
<1>6. CASE SignIn!Expired
  <2>1. wire' = "expired_token" /\ UNCHANGED <<code, given>>  BY <1>6
  <2>2. wire' \in Words \ Approver /\ wire' # "nothing"  BY <1>3, <2>1 DEF Words
  <2> QED BY <1>1, <1>2, <1>4, <1>5, <1>6, <2>1, <2>2
          DEF SignInInv, SignInShape, RowTells, ByTheRow, HandedOver, RefusedForAReason, SignIn!Expired
<1>7. CASE ~ SignIn!Expired /\ SignIn!TooSoon
  <2>1. wire' = "slow_down" /\ UNCHANGED given
        /\ code' = [code EXCEPT !.interval = @ + Poll, !.polled = clock]
    BY <1>7
  <2>2. wire' \in Words \ Approver /\ wire' \notin {"nothing", "access_denied", "expired_token"}
    BY <1>3, <2>1 DEF Words
  <2>3. SignInShape'
    <3>1. code.interval + Poll \in Nat /\ clock \in Nat  BY <1>1, <1>3 DEF SignInShape
    <3>2. PICK later \in Nat : later = code.interval + Poll  BY <3>1
    <3>3. code' = [code EXCEPT !.interval = later, !.polled = clock]  BY <2>1, <3>2
    <3>4. code' \in Codes  BY <1>1, <3>1, <3>3 DEF SignInShape
    <3> QED BY <1>1, <1>2, <2>1, <2>2, <3>4 DEF SignInShape
  <2>4. code'.state = code.state /\ code'.by = code.by /\ code'.token = code.token
    BY <1>1, <2>1 DEF SignInShape
  <2> QED BY <1>1, <1>2, <1>4, <1>5, <2>1, <2>2, <2>3, <2>4
          DEF SignInInv, RowTells, ByTheRow, HandedOver, RefusedForAReason, SignIn!Expired
<1>8. CASE ~ SignIn!Expired /\ ~ SignIn!TooSoon /\ code.state = "approved"
  <2>1. wire' = code.token /\ given' = given + 1
        /\ code' = [code EXCEPT !.polled = clock, !.state = "consumed", !.token = SignIn!NoOne]
    BY <1>1, <1>8 DEF SignIn!Redeemed, SignInShape
  <2>2. wire' \in Approver /\ wire' = code.by /\ wire' # "nothing" /\ given' = 1
    BY <1>1, <1>3, <1>8, <2>1 DEF RowTells, Words
  <2>3. SignInShape'
    <3>1. code' \in Codes  BY <1>1, <2>1 DEF SignInShape
    <3> QED BY <1>1, <1>2, <2>1, <2>2, <3>1 DEF SignInShape
  <2>4. code'.state = "consumed" /\ code'.by = code.by  BY <1>1, <2>1 DEF SignInShape
  <2>5. ByTheRow'  BY <1>1, <1>2, <1>8, <2>4 DEF RowTells, ByTheRow
  <2>6. wire' \notin Words  BY <1>3, <2>2
  <2> QED BY <1>1, <1>2, <1>4, <2>2, <2>3, <2>4, <2>5, <2>6
          DEF SignInInv, RowTells, HandedOver, RefusedForAReason, Words
<1>9. CASE ~ SignIn!Expired /\ ~ SignIn!TooSoon /\ code.state # "approved"
  <2>1. /\ code' = [code EXCEPT !.polled = clock] /\ UNCHANGED given
        /\ code.state = "pending" => wire' = "authorization_pending"
        /\ code.state = "denied" => wire' = "access_denied"
        /\ code.state = "consumed" => wire' = "expired_token"
    BY <1>9
  <2>2. wire' \in Words \ Approver /\ wire' # "nothing"  BY <1>1, <1>3, <1>9, <2>1 DEF Words, SignInShape
  <2>3. SignInShape'  BY <1>1, <1>2, <2>1, <2>2 DEF SignInShape
  <2>4. code'.state = code.state /\ code'.by = code.by /\ code'.token = code.token
    BY <1>1, <2>1 DEF SignInShape
  <2>5. RowTells'  BY <1>1, <1>2, <2>1, <2>4 DEF RowTells, ByTheRow
  <2>6. HandedOver'  BY <1>1, <1>2, <1>4, <2>2, <2>4 DEF HandedOver
  <2>7. RefusedForAReason'
    BY <1>1, <1>2, <1>4, <1>5, <1>9, <2>1, <2>4 DEF RefusedForAReason, SignIn!Expired, SignInShape, RowTells
  <2> QED BY <2>3, <2>5, <2>6, <2>7 DEF SignInInv
<1> QED BY <1>6, <1>7, <1>8, <1>9

\* A connection is dropped: what was on its way is lost, and no refusal is answered for.
LEMMA SignInDrops ==
  ASSUME ServicesAssumption, SignInInv, SignIn!Drops
  PROVE  SignInInv'
<1> USE DEF Codes, Clients
<1> USE DEF SignIn!Drops
<1>1. SignInShape /\ RowTells /\ HandedOver  BY DEF SignInInv
<1>2. UNCHANGED <<clock, code, given, decided>> /\ dropped' = dropped + 1 /\ wire # "nothing"  OBVIOUS
<1>3. dropped' \in Nat /\ dropped' # 0  BY <1>1, <1>2 DEF SignInShape
<1>4. \/ client' = [client EXCEPT !.place = "unreachable"] /\ wire' = "nothing"
      \/ client' = [client EXCEPT !.retried = TRUE] /\ wire' = "poll"
  OBVIOUS
<1>5. "poll" \notin Approver /\ "nothing" \notin Approver
  BY DEF ServicesAssumption, SignIn!SignInAssumption
<1>6. SignInShape'  BY <1>1, <1>2, <1>3, <1>4 DEF SignInShape, Words
<1>7. RowTells'  BY <1>1, <1>2 DEF RowTells, ByTheRow
<1>8. HandedOver'  BY <1>1, <1>2, <1>4, <1>5 DEF HandedOver, SignInShape
<1>9. RefusedForAReason'  BY <1>3 DEF RefusedForAReason
<1> QED BY <1>6, <1>7, <1>8, <1>9 DEF SignInInv

\* An answer arrives.
LEMMA SignInHears ==
  ASSUME ServicesAssumption, SignInInv, SignIn!Hears
  PROVE  SignInInv'
<1> USE DEF Codes, Clients
<1> USE DEF SignIn!Hears
<1>1. SignInShape /\ RowTells /\ HandedOver /\ RefusedForAReason  BY DEF SignInInv
<1>2. UNCHANGED <<clock, code, given, dropped, decided>> /\ wire \notin {"nothing", "poll"} /\ wire' = "nothing"
  OBVIOUS
<1>3. "nothing" \notin Approver /\ Approver \intersect Words = {} /\ Poll \in Nat
  BY DEF ServicesAssumption, SignIn!SignInAssumption, Words
<1>4. PICK heard : heard = [client EXCEPT !.asked = clock, !.retried = FALSE]  OBVIOUS
<1>5. /\ wire = "authorization_pending" => client' = [heard EXCEPT !.place = "waits"]
      /\ wire = "slow_down" => client' = [heard EXCEPT !.place = "waits", !.interval = @ + Poll]
      /\ wire \in {"access_denied", "expired_token"} => client' = [heard EXCEPT !.place = "refused"]
      /\ wire \in Approver => client' = [heard EXCEPT !.place = "in", !.token = wire]
  BY <1>3, <1>4 DEF Words
<1>6. wire \in Approver \/ wire \in {"authorization_pending", "slow_down", "access_denied", "expired_token"}
  BY <1>1, <1>2 DEF SignInShape, Words
<1>7. SignInShape'
  <2>1. client \in Clients /\ clock \in Nat  BY <1>1 DEF SignInShape
  <2>2. heard \in Clients  BY <1>4, <2>1
  <2>3. CASE wire = "slow_down"
    <3>1. PICK later \in Nat : later = heard.interval + Poll  BY <1>3, <2>2
    <3>2. client' = [heard EXCEPT !.place = "waits", !.interval = later]  BY <1>5, <2>3, <3>1
    <3>3. client' \in Clients  BY <2>2, <3>1, <3>2
    <3> QED BY <1>1, <1>2, <3>3 DEF SignInShape, Words
  <2>4. CASE wire # "slow_down"
    <3>1. client' \in Clients  BY <1>5, <1>6, <2>2, <2>4
    <3> QED BY <1>1, <1>2, <3>1 DEF SignInShape, Words
  <2> QED BY <2>3, <2>4
<1>8. RowTells'  BY <1>1, <1>2 DEF RowTells, ByTheRow
<1>9. /\ client'.place \in {"waits", "refused", "in"}
      /\ client'.place = "in" => wire \in Approver /\ client'.token = wire
      /\ client'.place = "refused" => wire \in {"access_denied", "expired_token"}
      /\ wire \in Approver => client'.place = "in"
  BY <1>1, <1>3, <1>4, <1>5, <1>6 DEF SignInShape, Words
<1>10. HandedOver'  BY <1>1, <1>2, <1>3, <1>9 DEF HandedOver
<1>11. client.place = "polls"  BY <1>1, <1>2 DEF HandedOver
<1>12. RefusedForAReason'
  BY <1>1, <1>2, <1>9, <1>11 DEF RefusedForAReason, SignIn!Expired
<1> QED BY <1>7, <1>8, <1>10, <1>12 DEF SignInInv

\* The client polls, gives up or waits, and time goes by.
LEMMA SignInWaits ==
  ASSUME ServicesAssumption, SignInInv, SignIn!Polls \/ SignIn!GivesUp \/ SignIn!Tick
  PROVE  SignInInv'
<1> USE DEF Codes, Clients
<1>1. SignInShape /\ RowTells /\ HandedOver /\ RefusedForAReason  BY DEF SignInInv
<1>2. "poll" \notin Approver  BY DEF ServicesAssumption, SignIn!SignInAssumption
<1>3. UNCHANGED <<code, given, dropped, decided>>
  BY DEF SignIn!Polls, SignIn!GivesUp, SignIn!Tick
<1>4. RowTells'  BY <1>1, <1>3 DEF RowTells, ByTheRow
<1>5. CASE SignIn!Polls
  <2>1. /\ client.place = "waits" /\ UNCHANGED clock /\ wire' = "poll"
        /\ client' = [client EXCEPT !.place = "polls", !.retried = FALSE]
    BY <1>5 DEF SignIn!Polls
  <2>2. SignInShape'  BY <1>1, <1>3, <2>1 DEF SignInShape, Words
  <2>3. client'.place = "polls"  BY <1>1, <2>1 DEF SignInShape
  <2>4. HandedOver'  BY <1>1, <1>2, <2>1, <2>3 DEF HandedOver
  <2>5. wire = "nothing"  BY <1>1, <2>1 DEF HandedOver
  <2>6. "nothing" \notin Approver  BY DEF ServicesAssumption, SignIn!SignInAssumption
  <2>7. RefusedForAReason'  BY <1>1, <1>3, <2>1, <2>3, <2>5, <2>6 DEF RefusedForAReason
  <2> QED BY <1>4, <2>2, <2>4, <2>7 DEF SignInInv
<1>6. CASE SignIn!GivesUp
  <2>1. /\ client.place = "waits" /\ UNCHANGED <<clock, wire>>
        /\ client' = [client EXCEPT !.place = "late"]
    BY <1>6 DEF SignIn!GivesUp
  <2>2. SignInShape'  BY <1>1, <1>3, <2>1 DEF SignInShape
  <2>3. client'.place = "late"  BY <1>1, <2>1 DEF SignInShape
  <2>4. HandedOver'  BY <1>1, <1>3, <2>1, <2>3 DEF HandedOver
  <2>5. RefusedForAReason'  BY <1>1, <1>3, <2>1, <2>3 DEF RefusedForAReason, SignIn!Expired
  <2> QED BY <1>4, <2>2, <2>4, <2>5 DEF SignInInv
<1>7. CASE SignIn!Tick
  <2>1. UNCHANGED <<client, wire>> /\ clock' = clock + 1  BY <1>7 DEF SignIn!Tick
  <2>2. SignInShape'  BY <1>1, <1>3, <2>1 DEF SignInShape
  <2>3. HandedOver'  BY <1>1, <1>3, <2>1 DEF HandedOver
  <2>4. SignIn!Expired => SignIn!Expired'
    BY <1>1, <2>1 DEF SignIn!Expired, SignInShape, ServicesAssumption, SignIn!SignInAssumption
  <2>5. RefusedForAReason'  BY <1>1, <1>3, <2>1, <2>4 DEF RefusedForAReason
  <2> QED BY <1>4, <2>2, <2>3, <2>5 DEF SignInInv
<1> QED BY <1>5, <1>6, <1>7

\* Every step of the client, the hub and the approvers.
LEMMA SignInStep == ASSUME ServicesAssumption, SignInInv, SignIn!Next PROVE SignInInv'
BY SignInDecides, SignInAnswers, SignInDrops, SignInHears, SignInWaits DEF SignIn!Next

\* A step of another part.
LEMMA SignInRests == ASSUME SignInInv, UNCHANGED signIn PROVE SignInInv'
BY DEF SignInInv, signIn, SignInShape, RowTells, ByTheRow, HandedOver, RefusedForAReason, SignIn!Expired

\* A code nobody has looked at.
LEMMA SignInStarted == ASSUME ServicesAssumption, SignIn!Init PROVE SignInInv
<1> USE DEF Codes, Clients, SignIn!Init, SignIn!Pending, SignIn!NoOne
<1>1. Poll \in Nat /\ "nothing" \notin Approver
  BY DEF ServicesAssumption, SignIn!SignInAssumption
<1>2. SignInShape  BY <1>1 DEF SignInShape, Words, Told
<1>3. RowTells  BY DEF RowTells
<1>4. HandedOver  BY <1>1 DEF HandedOver
<1>5. RefusedForAReason  BY <1>1 DEF RefusedForAReason
<1> QED BY <1>2, <1>3, <1>4, <1>5 DEF SignInInv

\* What the invariant says of who is in, and who was refused.
LEMMA SignInPromises == ASSUME SignInInv PROVE ApprovedIsHandedOnce
<1>1. given <= 1  BY DEF SignInInv, RowTells, SignInShape, Codes
<1>2. client.place = "in" => \A p \in Approver : decided[p] = "approved" <=> p = client.token
  BY DEF SignInInv, RowTells, HandedOver, ByTheRow
<1>3. client.place = "refused" /\ dropped = 0 =>
        SignIn!Expired \/ \E p \in Approver : decided[p] = "refused"
  BY DEF SignInInv, RefusedForAReason
<1> QED BY <1>1, <1>2, <1>3 DEF ApprovedIsHandedOnce, SignIn!ApprovedIsHandedOnce

-----------------------------------------------------------------------------
(* Probes. An answer that is held was true no longer before it was found    *)
(* than a probe takes: nothing that drops answers, or puts a late one back, *)
(* can make it older than that.                                            *)

State == {"ready", "not_connected"}
Rows == [answer : State \union {"unavailable", "none"}, at : Nat]
Readers == [place : {"idle", "asking", "told", "given"}, session : Session \union {"none"},
            began : Nat, answer : State \union {"unavailable", "none"}, within : Nat, age : Int]

ProbesShape ==
  /\ now \in Nat /\ connection \in State /\ was \in [State -> Nat]
  /\ cache \in [Session -> Rows] /\ reader \in [Reader -> Readers]

\* What a row says was true when it was found, or as a probe began before that.
RowsWereTrue ==
  \A s \in Session :
    cache[s] # Probes!NoRow =>
      /\ cache[s].at <= now
      /\ cache[s].answer # "none"
      /\ cache[s].answer \in State => Probes!LastTrue(cache[s].answer) + Ceiling >= cache[s].at

\* What a reader is told was true since it asked, and it has not asked for long.
ReadersAskInTime ==
  \A q \in Reader :
    /\ reader[q].place \in {"asking", "told"} =>
         /\ reader[q].session \in Session /\ reader[q].within \in {Ttl, Known}
         /\ reader[q].began <= now /\ now <= reader[q].began + Ceiling
    /\ reader[q].place = "told" =>
         reader[q].answer \in State /\ Probes!LastTrue(reader[q].answer) >= reader[q].began

ProbesInv ==
  /\ ProbesShape /\ (\A a \in State : was[a] <= now)
  /\ RowsWereTrue /\ ReadersAskInTime /\ GivenIsRecent

\* The durations.
LEMMA Durations ==
  ASSUME ServicesAssumption PROVE Ttl \in Nat /\ Known \in Nat /\ Ceiling \in Nat /\ 0 < Ttl /\ Ttl <= Known
BY DEF ServicesAssumption, Probes!ProbesAssumption

\* While the clock and the service move, an answer was last true no earlier than before.
LEMMA TruthStays ==
  ASSUME ServicesAssumption, ProbesInv, now' \in Nat, now' >= now, connection' \in State,
         was' \in [State -> Nat], \A a \in State : was'[a] <= now',
         \A a \in State : Probes!LastTrue(a)' >= Probes!LastTrue(a),
         UNCHANGED <<cache, reader>>,
         \A q \in Reader : reader[q].place \in {"asking", "told"} => now' <= reader[q].began + Ceiling
  PROVE  ProbesInv'
<1> USE Durations
<1>1. ProbesShape'  BY DEF ProbesInv, ProbesShape
<1>2. \A a \in State : Probes!LastTrue(a) \in Nat /\ Probes!LastTrue(a)' \in Nat
  BY DEF ProbesInv, ProbesShape, Probes!LastTrue
<1>3. RowsWereTrue'
  <2> SUFFICES ASSUME NEW s \in Session, cache[s] # Probes!NoRow
               PROVE  /\ cache[s].at <= now'
                      /\ cache[s].answer # "none"
                      /\ cache[s].answer \in State =>
                           Probes!LastTrue(cache[s].answer)' + Ceiling >= cache[s].at
    BY DEF RowsWereTrue, Probes!NoRow
  <2>1. cache[s].at \in Nat /\ cache[s].at <= now /\ now \in Nat /\ cache[s].answer # "none"
        /\ (cache[s].answer \in State => Probes!LastTrue(cache[s].answer) + Ceiling >= cache[s].at)
    BY DEF ProbesInv, ProbesShape, RowsWereTrue, Rows
  <2>2. PICK a : a = cache[s].answer  OBVIOUS
  <2>3. CASE a \in State
    <3>1. Probes!LastTrue(a)' >= Probes!LastTrue(a)  BY <2>3
    <3>2. Probes!LastTrue(a)' + Ceiling >= cache[s].at  BY <1>2, <2>1, <2>2, <2>3, <3>1
    <3>3. Probes!LastTrue(cache[s].answer)' = Probes!LastTrue(a)'  BY <2>2 DEF Probes!LastTrue
    <3> QED BY <2>1, <3>2, <3>3
  <2>4. CASE a \notin State  BY <2>1, <2>2, <2>4
  <2> QED BY <2>3, <2>4
<1>4. ReadersAskInTime'
  <2> SUFFICES ASSUME NEW q \in Reader
               PROVE  /\ reader[q].place \in {"asking", "told"} =>
                           /\ reader[q].session \in Session /\ reader[q].within \in {Ttl, Known}
                           /\ reader[q].began <= now' /\ now' <= reader[q].began + Ceiling
                      /\ reader[q].place = "told" =>
                           reader[q].answer \in State /\ Probes!LastTrue(reader[q].answer)' >= reader[q].began
    BY DEF ReadersAskInTime
  <2>1. reader[q] \in Readers /\ now \in Nat  BY DEF ProbesInv, ProbesShape
  <2>2. CASE reader[q].place \in {"asking", "told"}
    <3>1. /\ reader[q].session \in Session /\ reader[q].within \in {Ttl, Known}
          /\ reader[q].began <= now' /\ now' <= reader[q].began + Ceiling
      BY <2>1, <2>2 DEF ProbesInv, ReadersAskInTime, Readers
    <3>2. ASSUME reader[q].place = "told"
          PROVE  reader[q].answer \in State /\ Probes!LastTrue(reader[q].answer)' >= reader[q].began
      <4>1. reader[q].answer \in State /\ Probes!LastTrue(reader[q].answer) >= reader[q].began
        BY <3>2 DEF ProbesInv, ReadersAskInTime
      <4>2. PICK a \in State : a = reader[q].answer  BY <4>1
      <4>3. Probes!LastTrue(a)' >= reader[q].began  BY <1>2, <2>1, <4>1, <4>2 DEF Readers
      <4>4. Probes!LastTrue(reader[q].answer)' = Probes!LastTrue(a)'  BY <4>2 DEF Probes!LastTrue
      <4> QED BY <4>1, <4>3, <4>4
    <3> QED BY <3>1, <3>2
  <2>3. CASE reader[q].place \notin {"asking", "told"}  BY <2>3
  <2> QED BY <2>2, <2>3
<1>5. GivenIsRecent'  BY DEF ProbesInv, GivenIsRecent, Probes!GivenIsRecent
<1> QED BY <1>1, <1>3, <1>4, <1>5 DEF ProbesInv

\* The service changes its mind: what it said until now was true until now.
LEMMA ProbesBecomes ==
  ASSUME ServicesAssumption, ProbesInv, NEW state \in State, Probes!Becomes(state),
         UNCHANGED <<now, cache, reader>>
  PROVE  ProbesInv'
<1>1. connection' = state /\ was' = [was EXCEPT ![connection] = now] /\ connection # state
  BY DEF Probes!Becomes
<1>2. now \in Nat /\ connection \in State /\ was \in [State -> Nat] /\ \A a \in State : was[a] <= now
  BY DEF ProbesInv, ProbesShape
<1>3. was' \in [State -> Nat] /\ was'[connection] = now
      /\ \A a \in State : a # connection => was'[a] = was[a]
  BY <1>1, <1>2
<1>4. \A a \in State : was'[a] <= now'  BY <1>2, <1>3
<1>5. \A a \in State : Probes!LastTrue(a)' >= Probes!LastTrue(a)
  <2> SUFFICES ASSUME NEW a \in State PROVE Probes!LastTrue(a)' >= Probes!LastTrue(a)  OBVIOUS
  <2>1. CASE a = connection
    <3>1. Probes!LastTrue(a) = now  BY <2>1 DEF Probes!LastTrue
    <3>2. Probes!LastTrue(a)' = now  BY <1>1, <1>3, <2>1 DEF Probes!LastTrue
    <3> QED BY <1>2, <3>1, <3>2
  <2>2. CASE a # connection
    <3>1. Probes!LastTrue(a) = was[a]  BY <2>2 DEF Probes!LastTrue
    <3>2. Probes!LastTrue(a)' \in {now, was[a]}  BY <1>3, <2>2 DEF Probes!LastTrue
    <3> QED BY <1>2, <3>1, <3>2
  <2> QED BY <2>1, <2>2
<1>6. \A q \in Reader : reader[q].place \in {"asking", "told"} => now' <= reader[q].began + Ceiling
  BY DEF ProbesInv, ReadersAskInTime
<1> QED BY <1>1, <1>2, <1>3, <1>4, <1>5, <1>6, TruthStays

\* A tick: no probe goes past its ceiling.
LEMMA ProbesTick == ASSUME ServicesAssumption, ProbesInv, Probes!Tick PROVE ProbesInv'
<1> USE Durations
<1>1. now' = now + 1 /\ UNCHANGED <<connection, was, cache, reader>>
  BY DEF Probes!Tick, Probes!truths
<1>2. now \in Nat /\ connection \in State /\ was \in [State -> Nat] /\ (\A a \in State : was[a] <= now)
      /\ reader \in [Reader -> Readers]
  BY DEF ProbesInv, ProbesShape
<1>3. \A a \in State : Probes!LastTrue(a)' >= Probes!LastTrue(a)
  BY <1>1, <1>2 DEF Probes!LastTrue
<1>4. \A q \in Reader : reader[q].place \in {"asking", "told"} => now < reader[q].began + Ceiling
  BY DEF Probes!Tick
<1>5. \A q \in Reader : reader[q].began \in Nat  BY <1>2 DEF Readers
<1>6. \A q \in Reader : reader[q].place \in {"asking", "told"} => now' <= reader[q].began + Ceiling
  BY <1>1, <1>2, <1>4, <1>5
<1>7. now' \in Nat /\ now' >= now /\ (\A a \in State : was'[a] <= now')  BY <1>1, <1>2
<1> QED BY <1>1, <1>2, <1>3, <1>6, <1>7, TruthStays

\* What a reader is given, or goes on to ask, with nothing of the truth changed.
LEMMA ProbesReads ==
  ASSUME ServicesAssumption, ProbesInv, NEW q \in Reader, NEW new \in Readers,
         reader' = [reader EXCEPT ![q] = new], UNCHANGED <<now, connection, was>>,
         cache' \in [Session -> Rows], RowsWereTrue',
         new.place = "given" => new.age < new.within + Ceiling,
         new.place \in {"asking", "told"} =>
           /\ new.session \in Session /\ new.within \in {Ttl, Known}
           /\ new.began <= now /\ now <= new.began + Ceiling,
         new.place = "told" => new.answer \in State /\ Probes!LastTrue(new.answer) >= new.began
  PROVE  ProbesInv'
<1>1. reader \in [Reader -> Readers]  BY DEF ProbesInv, ProbesShape
<1>2. reader'[q] = new /\ \A r \in Reader : r # q => reader'[r] = reader[r]  BY <1>1
<1>3. ProbesShape' /\ \A a \in State : was'[a] <= now'  BY <1>1 DEF ProbesInv, ProbesShape
<1>4. ReadersAskInTime'
  BY <1>2 DEF ProbesInv, ReadersAskInTime, Probes!LastTrue
<1>5. GivenIsRecent'
  BY <1>2 DEF ProbesInv, GivenIsRecent, Probes!GivenIsRecent
<1> QED BY <1>3, <1>4, <1>5 DEF ProbesInv

\* get: what is held is given if it is fresh, forgotten if it is too old; else a probe begins.
LEMMA ProbesAsks ==
  ASSUME ServicesAssumption, ProbesInv, NEW q \in Reader, Probes!Asks(q) PROVE ProbesInv'
<1> USE Durations
<1>1. ProbesShape /\ RowsWereTrue  BY DEF ProbesInv
<1>2. UNCHANGED <<now, connection, was>> /\ now \in Nat
  BY <1>1 DEF Probes!Asks, Probes!truths, ProbesShape
<1>3. PICK s \in Session, within \in {Ttl, Known} :
        /\ cache' = Probes!Fetched(s, within)
        /\ IF Probes!Fresh(s, within) THEN Probes!Given(q, cache[s].answer, within)
           ELSE reader' = [reader EXCEPT ![q] = [Probes!Idle EXCEPT
                  !.place = "asking", !.session = s, !.within = within, !.began = now]]
  BY DEF Probes!Asks
<1>4. Probes!NoRow \in Rows  BY DEF Probes!NoRow, Rows
<1>5. cache' \in [Session -> Rows] /\ \A t \in Session : cache'[t] \in {cache[t], Probes!NoRow}
  BY <1>1, <1>3, <1>4 DEF Probes!Fetched, ProbesShape
<1>6. RowsWereTrue'
  BY <1>1, <1>2, <1>5 DEF RowsWereTrue, Probes!LastTrue, Probes!NoRow
<1>7. CASE ~ Probes!Fresh(s, within)
  <2>1. PICK new : new = [Probes!Idle EXCEPT !.place = "asking", !.session = s, !.within = within,
                                             !.began = now]
    OBVIOUS
  <2>2. s \in Session /\ within \in Nat  BY <1>3
  <2>3. new = [place |-> "asking", session |-> s, began |-> now, answer |-> "none", within |-> within,
               age |-> 0]
    BY <2>1 DEF Probes!Idle
  <2>4. new \in Readers  BY <1>2, <2>2, <2>3 DEF Readers
  <2>5. new.place = "asking" /\ new.session = s /\ new.within = within /\ new.began = now  BY <2>3
  <2>6. reader' = [reader EXCEPT ![q] = new]  BY <1>3, <1>7, <2>1
  <2>7. new.began <= now /\ now <= new.began + Ceiling /\ new.within \in {Ttl, Known}
    BY <1>2, <1>3, <2>5
  <2> QED BY <1>2, <1>5, <1>6, <2>2, <2>4, <2>5, <2>6, <2>7, ProbesReads
<1>8. CASE Probes!Fresh(s, within)
  <2>1. cache[s] # Probes!NoRow /\ now - cache[s].at < within  BY <1>8 DEF Probes!Fresh
  <2>2. cache[s] \in Rows /\ cache[s].at \in Nat  BY <1>1 DEF ProbesShape, Rows
  <2>3. PICK a : a = cache[s].answer  OBVIOUS
  <2>4. a \in State \union {"unavailable"}  BY <1>1, <2>1, <2>2, <2>3 DEF RowsWereTrue, Rows
  <2>5. PICK age : age = IF a = "unavailable" THEN 0 ELSE now - Probes!LastTrue(a)  OBVIOUS
  <2>6. a \in State => Probes!LastTrue(a) \in Nat /\ Probes!LastTrue(a) + Ceiling >= cache[s].at
    BY <1>1, <1>2, <2>1, <2>3 DEF RowsWereTrue, Probes!LastTrue, ProbesShape
  <2>7. a \in State => a # "unavailable"  BY DEF State
  <2>8. age \in Int /\ age < within + Ceiling
    BY <1>2, <1>3, <2>1, <2>2, <2>4, <2>5, <2>6, <2>7
  <2>9. PICK new : new = [Probes!Idle EXCEPT !.place = "given", !.within = within, !.age = age]  OBVIOUS
  <2>10. new \in Readers /\ new.place = "given" /\ new.within = within /\ new.age = age
    BY <1>3, <2>8, <2>9 DEF Probes!Idle, Readers
  <2>11. reader' = [reader EXCEPT ![q] = new]
    BY <1>3, <1>8, <2>3, <2>5, <2>9 DEF Probes!Given
  <2> QED BY <1>2, <1>5, <1>6, <2>8, <2>10, <2>11, ProbesReads
<1> QED BY <1>7, <1>8

\* The service answers what is true now.
LEMMA ProbesAnswers ==
  ASSUME ServicesAssumption, ProbesInv, NEW q \in Reader, Probes!Answers(q) PROVE ProbesInv'
<1>1. /\ reader[q].place = "asking" /\ UNCHANGED <<now, connection, was, cache>>
      /\ reader' = [reader EXCEPT ![q].place = "told", ![q].answer = connection]
  BY DEF Probes!Answers, Probes!truths
<1>2. reader \in [Reader -> Readers] /\ connection \in State /\ now \in Nat
  BY DEF ProbesInv, ProbesShape
<1>3. PICK new : new = [reader[q] EXCEPT !.place = "told", !.answer = connection]  OBVIOUS
<1>4. new \in Readers /\ new.place = "told" /\ new.answer = connection /\ new.began = reader[q].began
      /\ new.session = reader[q].session /\ new.within = reader[q].within
  BY <1>2, <1>3 DEF Readers
<1>5. reader' = [reader EXCEPT ![q] = new]  BY <1>1, <1>2, <1>3 DEF Readers
<1>6. /\ reader[q].session \in Session /\ reader[q].within \in {Ttl, Known}
      /\ reader[q].began <= now /\ now <= reader[q].began + Ceiling
  BY <1>1 DEF ProbesInv, ReadersAskInTime
<1>7. Probes!LastTrue(new.answer) = now  BY <1>4 DEF Probes!LastTrue
<1>8. Probes!LastTrue(new.answer) >= new.began  BY <1>2, <1>4, <1>6, <1>7 DEF Readers
<1>9. RowsWereTrue' /\ cache' \in [Session -> Rows]
  BY <1>1 DEF ProbesInv, ProbesShape, RowsWereTrue, Probes!LastTrue
<1> QED BY <1>1, <1>2, <1>4, <1>5, <1>6, <1>8, <1>9, ProbesReads

\* put: what a probe found is held, and given; it began no longer ago than its ceiling.
LEMMA ProbesPuts ==
  ASSUME ServicesAssumption, ProbesInv, NEW q \in Reader, reader[q].place \in {"asking", "told"},
         NEW answer, Probes!Puts(q, answer),
         answer = "unavailable" \/ (reader[q].place = "told" /\ answer = reader[q].answer)
  PROVE  ProbesInv'
<1> USE Durations
<1>1. /\ cache' = [cache EXCEPT ![reader[q].session] = [answer |-> answer, at |-> now]]
      /\ UNCHANGED <<now, connection, was>>
      /\ Probes!Given(q, answer, reader[q].within)
  BY DEF Probes!Puts, Probes!truths
<1>2. ProbesShape /\ RowsWereTrue /\ reader[q] \in Readers /\ now \in Nat
  BY DEF ProbesInv, ProbesShape
<1>3. /\ reader[q].session \in Session /\ reader[q].within \in {Ttl, Known}
      /\ reader[q].began \in Nat /\ reader[q].began <= now /\ now <= reader[q].began + Ceiling
  BY <1>2 DEF ProbesInv, ReadersAskInTime, Readers
<1>4. answer = "unavailable" \/ (answer \in State /\ Probes!LastTrue(answer) >= reader[q].began)
  BY DEF ProbesInv, ReadersAskInTime
<1>5. answer \in State => Probes!LastTrue(answer) \in Nat /\ Probes!LastTrue(answer) + Ceiling >= now
                          /\ answer # "unavailable"
  BY <1>2, <1>3, <1>4 DEF Probes!LastTrue, ProbesShape, State
<1>6. PICK row : row = [answer |-> answer, at |-> now]  OBVIOUS
<1>7. row \in Rows /\ row.answer = answer /\ row.at = now  BY <1>2, <1>4, <1>6 DEF Rows
<1>8. cache' \in [Session -> Rows]  BY <1>1, <1>2, <1>6, <1>7 DEF ProbesShape
<1>9. \A s \in Session : cache'[s] = cache[s] \/ cache'[s] = row
  BY <1>1, <1>2, <1>6 DEF ProbesShape
<1>10. answer # "none"  BY <1>4 DEF State
<1>11. RowsWereTrue'
  <2> SUFFICES ASSUME NEW s \in Session, cache'[s] # Probes!NoRow
               PROVE  /\ cache'[s].at <= now /\ cache'[s].answer # "none"
                      /\ cache'[s].answer \in State =>
                           Probes!LastTrue(cache'[s].answer) + Ceiling >= cache'[s].at
    BY <1>1 DEF RowsWereTrue, Probes!LastTrue, Probes!NoRow
  <2>1. CASE cache'[s] = cache[s]  BY <1>2, <2>1 DEF RowsWereTrue
  <2>2. CASE cache'[s] = row  BY <1>2, <1>5, <1>7, <1>10, <2>2
  <2> QED BY <1>9, <2>1, <2>2
<1>12. PICK age : age = IF answer = "unavailable" THEN 0 ELSE now - Probes!LastTrue(answer)  OBVIOUS
<1>13. age \in Int /\ age < reader[q].within + Ceiling
  BY <1>2, <1>3, <1>4, <1>5, <1>12
<1>14. PICK new : new = [Probes!Idle EXCEPT !.place = "given", !.within = reader[q].within, !.age = age]
  OBVIOUS
<1>15. new \in Readers /\ new.place = "given" /\ new.within = reader[q].within /\ new.age = age
  BY <1>3, <1>13, <1>14 DEF Probes!Idle, Readers
<1>16. reader' = [reader EXCEPT ![q] = new]  BY <1>1, <1>12, <1>14 DEF Probes!Given
<1> QED BY <1>1, <1>8, <1>11, <1>13, <1>15, <1>16, ProbesReads

\* drop: no answer is held any more.
LEMMA ProbesDrops == ASSUME ProbesInv, Probes!Drops PROVE ProbesInv'
<1>1. cache' = [s \in Session |-> Probes!NoRow] /\ UNCHANGED <<now, connection, was, reader>>
  BY DEF Probes!Drops, Probes!Dropped, Probes!truths
<1>2. Probes!NoRow \in Rows  BY DEF Probes!NoRow, Rows
<1>3. ProbesShape'  BY <1>1, <1>2 DEF ProbesInv, ProbesShape
<1>4. RowsWereTrue'  BY <1>1 DEF RowsWereTrue, Probes!NoRow
<1> QED BY <1>1, <1>3, <1>4
        DEF ProbesInv, ReadersAskInTime, Probes!LastTrue, GivenIsRecent, Probes!GivenIsRecent

\* What the ticket and the route do leaves answers and their readers alone.
LEMMA ProbesRests ==
  ASSUME ProbesInv, UNCHANGED <<now, connection, was, cache, reader>> PROVE ProbesInv'
BY DEF ProbesInv, ProbesShape, RowsWereTrue, ReadersAskInTime, Probes!LastTrue, Probes!NoRow,
       GivenIsRecent, Probes!GivenIsRecent

\* Every step of the readers, the routes, the service and the clock.
LEMMA ProbesStep == ASSUME ServicesAssumption, ProbesInv, Probes!Next PROVE ProbesInv'
<1>1. CASE Probes!Changes
  <2>1. \E state \in State : Probes!Becomes(state)  BY <1>1 DEF Probes!Changes, State
  <2>2. UNCHANGED <<now, cache, reader>>  BY <1>1 DEF Probes!Changes
  <2> QED BY <2>1, <2>2, ProbesBecomes
<1>2. CASE Probes!Tick  BY <1>2, ProbesTick
<1>3. CASE \E q \in Reader : Probes!Asks(q) \/ Probes!Answers(q)  BY <1>3, ProbesAsks, ProbesAnswers
<1>4. CASE \E q \in Reader : Probes!Arrives(q) \/ Probes!Fails(q)
  BY <1>4, ProbesPuts DEF Probes!Arrives, Probes!Fails
<1>5. CASE Probes!Elsewhere \/ Probes!Authorized \/ Probes!Tells \/ Probes!Opens
  BY <1>5, ProbesDrops DEF Probes!Elsewhere, Probes!Authorized, Probes!Tells, Probes!Opens
<1>6. CASE Probes!Calls \/ Probes!Polled \/ Probes!Unreached
  BY <1>6, ProbesRests DEF Probes!Calls, Probes!Polled, Probes!Unreached, Probes!truths
<1>7. CASE Probes!Disconnected
  <2>1. UNCHANGED <<now, cache, reader>>  BY <1>7 DEF Probes!Disconnected
  <2>2. Probes!Becomes("not_connected") \/ UNCHANGED <<connection, was>>
    BY <1>7 DEF Probes!Disconnected, Probes!truths
  <2> QED BY <2>1, <2>2, ProbesBecomes, ProbesRests DEF State
<1> QED BY <1>1, <1>2, <1>3, <1>4, <1>5, <1>6, <1>7 DEF Probes!Next

\* Nobody has asked.
LEMMA ProbesStarted == ASSUME ServicesAssumption, Probes!Init PROVE ProbesInv
<1> USE DEF Probes!Init
<1>1. Probes!NoRow \in Rows /\ Probes!Idle \in Readers /\ Probes!Idle.place = "idle"
  BY DEF Probes!NoRow, Probes!Idle, Rows, Readers
<1>2. ProbesShape /\ \A a \in State : was[a] <= now  BY <1>1 DEF ProbesShape, State
<1>3. RowsWereTrue  BY DEF RowsWereTrue
<1>4. ReadersAskInTime /\ GivenIsRecent
  BY <1>1 DEF ReadersAskInTime, GivenIsRecent, Probes!GivenIsRecent
<1> QED BY <1>2, <1>3, <1>4 DEF ProbesInv

-----------------------------------------------------------------------------
(* Calls. Work that may not be done twice is not begun again once it may    *)
(* have been done, and a token minted for a second attempt is no older than *)
(* the call: whoever refuses it has newer keys. What the cache holds does   *)
(* not matter.                                                             *)

Fields == {"place", "audience", "again", "second", "token", "attempt", "began", "done"}
Active == {"minting", "minted", "sending"}

\* A call's record under the keys that are good now.
Fair(r, good) ==
  /\ r = [f \in Fields |-> r[f]]
  /\ r.began \in Nat /\ r.done \in Nat /\ r.again \in BOOLEAN
  /\ r.place = "idle" => r.done = 0
  /\ r.done > 1 => r.again
  /\ r.place \in Active => r.began <= good /\ (~ r.again => r.done = 0)
  /\ r.place \in {"minted", "sending"} /\ r.second =>
       r.token \in Nat /\ r.began <= r.token /\ r.token <= good
  /\ r.place = "refused" => good > r.began

CallsInv ==
  keys \in Nat /\ call = [c \in Call |-> call[c]] /\ \A c \in Call : Fair(call[c], keys)

\* One call's record is written.
LEMMA CallMoves ==
  ASSUME CallsInv, NEW c \in Call, NEW r, Fair(r, keys), call' = [call EXCEPT ![c] = r], UNCHANGED keys
  PROVE  CallsInv'
BY DEF CallsInv

\* A call ends: what it did, and under which keys it began, are kept.
LEMMA CallEnds ==
  ASSUME CallsInv, NEW c \in Call, NEW record, NEW outcome \in Exchange!Over,
         Exchange!Ends(c, record, outcome), UNCHANGED keys,
         record.began \in Nat, record.done \in Nat, record.again \in BOOLEAN,
         record.done > 1 => record.again,
         outcome = "refused" => keys > record.began
  PROVE  CallsInv'
<1>1. PICK r : r = [Exchange!NotBegun EXCEPT !.place = outcome, !.again = record.again,
                                             !.began = record.began, !.done = record.done]
  OBVIOUS
<1>2. r = [place |-> outcome, audience |-> "none", again |-> record.again, second |-> FALSE,
           token |-> 0, attempt |-> 0, began |-> record.began, done |-> record.done]
  BY <1>1 DEF Exchange!NotBegun
<1>3. outcome \notin Active /\ outcome # "idle"  BY DEF Exchange!Over, Active
<1>4. /\ r = [f \in Fields |-> r[f]] /\ r.place = outcome
      /\ r.began = record.began /\ r.done = record.done /\ r.again = record.again
  BY <1>2 DEF Fields
<1>5. outcome \notin {"minted", "sending"}  BY <1>3 DEF Active
<1>6. Fair(r, keys)  BY <1>3, <1>4, <1>5 DEF Fair
<1>7. call' = [call EXCEPT ![c] = r]  BY <1>1 DEF Exchange!Ends
<1> QED BY <1>6, <1>7, CallMoves

\* A first attempt: what the cache holds is sent, or a token is minted.
LEMMA CallLooks ==
  ASSUME CallsInv, NEW c \in Call, NEW record, Exchange!Looks(c, record), UNCHANGED keys,
         record = [f \in Fields |-> record[f]],
         record.began \in Nat, record.done \in Nat, record.again \in BOOLEAN,
         record.began <= keys, ~ record.again => record.done = 0, ~ record.second
  PROVE  CallsInv'
<1>1. CASE \E entry \in Exchange!Held(record.audience) :
             call' = [call EXCEPT ![c] = [record EXCEPT !.place = "sending", !.token = entry.token]]
  <2>1. PICK token : call' = [call EXCEPT ![c] = [record EXCEPT !.place = "sending", !.token = token]]
    BY <1>1
  <2>2. PICK r : r = [record EXCEPT !.place = "sending", !.token = token]  OBVIOUS
  <2>3. /\ r = [f \in Fields |-> r[f]] /\ r.place = "sending"
        /\ r.began = record.began /\ r.done = record.done /\ r.again = record.again
        /\ r.second = record.second
    BY <2>2 DEF Fields
  <2>4. Fair(r, keys)  BY <2>3 DEF Fair, Active
  <2> QED BY <2>1, <2>2, <2>4, CallMoves
<1>2. CASE call' = [call EXCEPT ![c] = [record EXCEPT !.place = "minting"]]
  <2>1. PICK r : r = [record EXCEPT !.place = "minting"]  OBVIOUS
  <2>2. /\ r = [f \in Fields |-> r[f]] /\ r.place = "minting"
        /\ r.began = record.began /\ r.done = record.done /\ r.again = record.again
    BY <2>1 DEF Fields
  <2>3. Fair(r, keys)  BY <2>2 DEF Fair, Active
  <2> QED BY <1>2, <2>1, <2>3, CallMoves
<1> QED BY <1>1, <1>2 DEF Exchange!Looks

\* A call begins.
LEMMA CallBegins == ASSUME CallsInv, NEW c \in Call, Exchange!Begins(c) PROVE CallsInv'
<1>1. PICK audience \in Audience, again \in BOOLEAN :
        Exchange!Looks(c, [Exchange!NotBegun EXCEPT !.audience = audience, !.again = again,
                                                    !.attempt = 1, !.began = keys])
  BY DEF Exchange!Begins
<1>2. PICK r : r = [Exchange!NotBegun EXCEPT !.audience = audience, !.again = again, !.attempt = 1,
                                             !.began = keys]
  OBVIOUS
<1>3. r = [place |-> "idle", audience |-> audience, again |-> again, second |-> FALSE,
           token |-> 0, attempt |-> 1, began |-> keys, done |-> 0]
  BY <1>2 DEF Exchange!NotBegun
<1>4. /\ r = [f \in Fields |-> r[f]]
      /\ r.began = keys /\ r.done = 0 /\ r.again = again /\ ~ r.second
  BY <1>3 DEF Fields
<1>5. keys \in Nat /\ UNCHANGED keys /\ keys <= keys  BY DEF CallsInv, Exchange!Begins
<1>6. Exchange!Looks(c, r)  BY <1>1, <1>2
<1>7. r.began \in Nat /\ r.done \in Nat /\ r.again \in BOOLEAN /\ r.began <= keys
      /\ (~ r.again => r.done = 0)
  BY <1>4, <1>5
<1> QED BY <1>4, <1>5, <1>6, <1>7, CallLooks

\* A token is signed with the keys of now, and arrives; or it does not.
LEMMA CallMints ==
  ASSUME CallsInv, NEW c \in Call, Exchange!Signs(c) \/ Exchange!Mints(c) \/ Exchange!MintFails(c)
  PROVE  CallsInv'
<1>1. Fair(call[c], keys) /\ keys \in Nat /\ call = [d \in Call |-> call[d]]  BY DEF CallsInv
<1>2. UNCHANGED keys  BY DEF Exchange!Signs, Exchange!Mints, Exchange!MintFails
<1>3. CASE Exchange!Signs(c)
  <2>1. PICK r : r = [call[c] EXCEPT !.place = "minted", !.token = keys]  OBVIOUS
  <2>2. call' = [call EXCEPT ![c] = r] /\ call[c].place = "minting"
    BY <1>1, <1>3, <2>1 DEF Exchange!Signs, Fair, Fields
  <2>3. /\ r = [f \in Fields |-> r[f]] /\ r.place = "minted" /\ r.token = keys
        /\ r.began = call[c].began /\ r.done = call[c].done /\ r.again = call[c].again
    BY <1>1, <2>1 DEF Fair, Fields
  <2>4. Fair(r, keys)  BY <1>1, <2>2, <2>3 DEF Fair, Active
  <2> QED BY <1>2, <2>2, <2>4, CallMoves
<1>4. CASE Exchange!Mints(c)
  <2>1. PICK r : r = [call[c] EXCEPT !.place = "sending"]  OBVIOUS
  <2>2. call' = [call EXCEPT ![c] = r] /\ call[c].place = "minted"
    BY <1>1, <1>4, <2>1 DEF Exchange!Mints, Fair, Fields
  <2>3. /\ r = [f \in Fields |-> r[f]] /\ r.place = "sending" /\ r.token = call[c].token
        /\ r.began = call[c].began /\ r.done = call[c].done /\ r.again = call[c].again
        /\ r.second = call[c].second
    BY <1>1, <2>1 DEF Fair, Fields
  <2>4. Fair(r, keys)  BY <1>1, <2>2, <2>3 DEF Fair, Active
  <2> QED BY <1>2, <2>2, <2>4, CallMoves
<1>5. CASE Exchange!MintFails(c)
  <2>1. Exchange!Ends(c, call[c], "tokenless")  BY <1>5 DEF Exchange!MintFails
  <2>2. "tokenless" \in Exchange!Over /\ "tokenless" # "refused"  BY DEF Exchange!Over
  <2>3. call[c].began \in Nat /\ call[c].done \in Nat /\ call[c].again \in BOOLEAN
        /\ (call[c].done > 1 => call[c].again)
    BY <1>1 DEF Fair
  <2> QED BY <1>2, <2>1, <2>2, <2>3, CallEnds
<1> QED BY <1>3, <1>4, <1>5

\* A 401: the second one, of a token minted since the call began, has newer keys behind it.
LEMMA CallIsRefused == ASSUME CallsInv, NEW c \in Call, Exchange!Refused(c) PROVE CallsInv'
<1>1. Fair(call[c], keys) /\ keys \in Nat /\ call = [d \in Call |-> call[d]]  BY DEF CallsInv
<1>2. UNCHANGED keys /\ call[c].place = "sending" /\ call[c].token # keys  BY DEF Exchange!Refused
<1>3. CASE call[c].second
  <2>1. Exchange!Ends(c, call[c], "refused")  BY <1>3 DEF Exchange!Refused
  <2>2. keys > call[c].began  BY <1>1, <1>2, <1>3 DEF Fair
  <2> QED BY <1>1, <1>2, <2>1, <2>2, CallEnds DEF Fair, Exchange!Over
<1>4. CASE ~ call[c].second
  <2>1. PICK r : r = [call[c] EXCEPT !.place = "minting", !.second = TRUE]  OBVIOUS
  <2>2. call' = [call EXCEPT ![c] = r]
    BY <1>1, <1>4, <2>1 DEF Exchange!Refused, Exchange!Remint, Fair, Fields
  <2>3. /\ r = [f \in Fields |-> r[f]] /\ r.place = "minting"
        /\ r.began = call[c].began /\ r.done = call[c].done /\ r.again = call[c].again
    BY <1>1, <2>1 DEF Fair, Fields
  <2>4. Fair(r, keys)  BY <1>1, <1>2, <2>3 DEF Fair, Active
  <2> QED BY <1>2, <2>2, <2>4, CallMoves
<1> QED BY <1>3, <1>4

\* The next attempt of a record that may be begun again, or its end.
LEMMA CallTriesAgain ==
  ASSUME CallsInv, NEW c \in Call, NEW record, NEW outcome \in Exchange!Over, NEW may \in BOOLEAN,
         Exchange!TriesAgain(c, record, outcome, may), UNCHANGED keys, outcome # "refused",
         record = [f \in Fields |-> record[f]],
         record.began \in Nat, record.done \in Nat, record.again \in BOOLEAN,
         record.began <= keys, record.done > 1 => record.again,
         may => (~ record.again => record.done = 0)
  PROVE  CallsInv'
<1>1. CASE Exchange!Ends(c, record, outcome)  BY <1>1, CallEnds
<1>2. CASE may /\ Exchange!Looks(c, [record EXCEPT !.attempt = @ + 1, !.second = FALSE])
  <2>1. PICK r : r = [record EXCEPT !.attempt = @ + 1, !.second = FALSE]  OBVIOUS
  <2>2. /\ r = [f \in Fields |-> r[f]] /\ ~ r.second
        /\ r.began = record.began /\ r.done = record.done /\ r.again = record.again
    BY <2>1 DEF Fields
  <2> QED BY <1>2, <2>1, <2>2, CallLooks
<1> QED BY <1>1, <1>2 DEF Exchange!TriesAgain

\* A service answers, or does not.
LEMMA CallIsSent ==
  ASSUME CallsInv, NEW c \in Call,
         Exchange!Answers(c) \/ Exchange!TurnedAway(c) \/ Exchange!Unsent(c) \/ Exchange!Unclear(c)
  PROVE  CallsInv'
<1> USE DEF Exchange!Accepted
<1>1. Fair(call[c], keys) /\ keys \in Nat  BY DEF CallsInv
<1>2. UNCHANGED keys /\ call[c].place = "sending"
  BY DEF Exchange!Answers, Exchange!TurnedAway, Exchange!Unsent, Exchange!Unclear
<1>3. /\ call[c] = [f \in Fields |-> call[c][f]]
      /\ call[c].began \in Nat /\ call[c].done \in Nat /\ call[c].again \in BOOLEAN
      /\ call[c].began <= keys /\ (~ call[c].again => call[c].done = 0)
      /\ (call[c].done > 1 => call[c].again)
  BY <1>1, <1>2 DEF Fair, Active
<1>4. {"answered", "unavailable"} \subseteq Exchange!Over \ {"refused"}  BY DEF Exchange!Over
<1>5. CASE Exchange!TurnedAway(c) \/ Exchange!Unsent(c)
  <2>1. PICK outcome \in {"answered", "unavailable"} : Exchange!TriesAgain(c, call[c], outcome, TRUE)
    BY <1>5 DEF Exchange!TurnedAway, Exchange!Unsent
  <2> QED BY <1>2, <1>3, <1>4, <2>1, CallTriesAgain
<1>6. ASSUME NEW n \in {0, 1}
      PROVE  \E record :
               /\ record = [call[c] EXCEPT !.done = @ + n]
               /\ record = [f \in Fields |-> record[f]]
               /\ record.began = call[c].began /\ record.again = call[c].again
               /\ record.done = call[c].done + n
  <2>1. PICK record : record = [call[c] EXCEPT !.done = @ + n]  OBVIOUS
  <2>2. /\ record = [f \in Fields |-> record[f]]
        /\ record.began = call[c].began /\ record.again = call[c].again
        /\ record.done = call[c].done + n
    BY <1>3, <2>1 DEF Fields
  <2> QED BY <2>1, <2>2
<1>7. CASE Exchange!Answers(c)
  <2>1. PICK record :
          /\ record = [call[c] EXCEPT !.done = @ + 1]
          /\ record.began = call[c].began /\ record.again = call[c].again
          /\ record.done = call[c].done + 1
    BY <1>6
  <2>2. Exchange!Ends(c, record, "answered")  BY <1>7, <2>1 DEF Exchange!Answers
  <2>3. record.began \in Nat /\ record.done \in Nat /\ record.again \in BOOLEAN
        /\ (record.done > 1 => record.again)
    BY <1>3, <2>1
  <2> QED BY <1>2, <1>4, <2>2, <2>3, CallEnds
<1>8. CASE Exchange!Unclear(c)
  <2>1. PICK n \in {0, 1} :
          Exchange!TriesAgain(c, [call[c] EXCEPT !.done = @ + n], "unavailable", Exchange!MayRepeat(c))
    BY <1>8 DEF Exchange!Unclear
  <2>2. PICK record :
          /\ record = [call[c] EXCEPT !.done = @ + n]
          /\ record = [f \in Fields |-> record[f]]
          /\ record.began = call[c].began /\ record.again = call[c].again
          /\ record.done = call[c].done + n
    BY <1>6
  <2>3. PICK may : may = Exchange!MayRepeat(c)  OBVIOUS
  <2>4. Exchange!TriesAgain(c, record, "unavailable", may)  BY <2>1, <2>2, <2>3
  <2>5. may = record.again /\ may \in BOOLEAN  BY <1>3, <2>2, <2>3 DEF Exchange!MayRepeat
  <2>6. record.began \in Nat /\ record.done \in Nat /\ record.again \in BOOLEAN
        /\ record.began <= keys /\ (record.done > 1 => record.again)
    BY <1>3, <2>2, <2>5
  <2>7. may => (~ record.again => record.done = 0)  BY <2>5
  <2>8. record = [f \in Fields |-> record[f]]  BY <2>2
  <2>9. "unavailable" \in Exchange!Over /\ "unavailable" # "refused"  BY DEF Exchange!Over
  <2> QED BY <1>2, <2>4, <2>5, <2>6, <2>7, <2>8, <2>9, CallTriesAgain
<1> QED BY <1>5, <1>7, <1>8

\* Every step of the calls, the keyring and the services.
LEMMA CallsStep == ASSUME CallsInv, Exchange!Next PROVE CallsInv'
<1>1. CASE Exchange!KeysChange
  <2>1. keys' = keys + 1 /\ UNCHANGED call  BY <1>1 DEF Exchange!KeysChange
  <2>2. PICK more : more = keys + 1  OBVIOUS
  <2>3. keys \in Nat /\ more \in Nat /\ more > keys  BY <2>2 DEF CallsInv
  <2>4. \A r : Fair(r, keys) => Fair(r, more)  BY <2>3 DEF Fair
  <2>5. \A c \in Call : Fair(call[c], more)  BY <2>4 DEF CallsInv
  <2>6. keys' = more /\ call' = call  BY <2>1, <2>2
  <2>7. call' = [c \in Call |-> call'[c]]  BY <2>6 DEF CallsInv
  <2>8. \A c \in Call : Fair(call'[c], keys')  BY <2>5, <2>6
  <2>9. keys' \in Nat  BY <2>3, <2>6
  <2> QED BY <2>7, <2>8, <2>9 DEF CallsInv
<1>2. CASE ~ Exchange!KeysChange
  BY <1>2, CallBegins, CallMints, CallIsRefused, CallIsSent DEF Exchange!Next
<1> QED BY <1>1, <1>2

\* A step of another part.
LEMMA CallsRest == ASSUME CallsInv, UNCHANGED calls PROVE CallsInv'
BY DEF CallsInv, calls

\* No call has begun.
LEMMA CallsStarted == ASSUME Exchange!Init PROVE CallsInv
<1>1. Fair(Exchange!NotBegun, keys)
  BY DEF Exchange!Init, Exchange!NotBegun, Fair, Fields, Active
<1>2. keys \in Nat /\ call = [c \in Call |-> Exchange!NotBegun]  BY DEF Exchange!Init
<1> QED BY <1>1, <1>2 DEF CallsInv

\* What the invariant says of the work and of the keys.
LEMMA CallsPromise == ASSUME CallsInv PROVE CallIsAnsweredFairly
BY DEF CallsInv, Fair, CallIsAnsweredFairly, Exchange!CallIsAnsweredFairly,
       Exchange!DoneAtMostOnce, Exchange!RefusedOnlyUnderNewKeys

-----------------------------------------------------------------------------
(* Binding. The capability that a plan reaches for becomes the most recent *)
(* one, and is kept however many are ready: a slot at least is not free.   *)

BindingShape ==
  /\ plan \in [Actor -> Binding!Plan \union {<< >>}]
  /\ place = [a \in Actor |-> place[a]] /\ ready \in [Actor -> SUBSET Pack]

\* A plan of one capability that was ready has not been refused.
NotInVain(where, steps, able) ==
  where = "refused" /\ Binding!Cardinality(Binding!ToSet(steps)) = 1 => ~ Binding!ToSet(steps) \subseteq able

BindingInv == BindingShape /\ \A a \in Actor : NotInVain(place[a], plan[a], ready[a])

\* What was just used comes before everything else, so it is kept.
LEMMA LastUsedIsKept ==
  ASSUME ServicesAssumption, NEW used, NEW p \in Pack, NEW able, p \in able
  PROVE  p \in Binding!Kept(Binding!Remembered(used, p), able)
<1>1. PICK now1 : now1 = Binding!Remembered(used, p)  OBVIOUS
<1>2. now1[p] = {} /\ DOMAIN now1 = Pack  BY <1>1 DEF Binding!Remembered
<1>3. CASE now1 = Binding!NoUses
  <2>1. DOMAIN Binding!NoUses = {}  BY DEF Binding!NoUses
  <2> QED BY <1>2, <1>3, <2>1
<1>4. CASE now1 # Binding!NoUses
  <2>1. Binding!Recent(now1) = now1  BY <1>4 DEF Binding!Recent
  <2>2. \A q : ~ Binding!Before(now1, q, p)  BY <1>2, <2>1 DEF Binding!Before
  <2>3. {q \in able \ Free : Binding!Before(now1, q, p)} = {}  BY <2>2
  <2>4. Cardinality({}) = 0  BY FS_EmptySet
  <2>5. Binding!Cardinality({}) = 0  BY <2>4 DEF Binding!Cardinality, Cardinality
  <2>6. 0 < KeepRecent  BY DEF ServicesAssumption, Binding!BindingAssumption
  <2>7. Binding!Cardinality({q \in able \ Free : Binding!Before(now1, q, p)}) < KeepRecent
    BY <2>3, <2>5, <2>6
  <2> QED BY <1>1, <2>7 DEF Binding!Kept
<1> QED BY <1>3, <1>4

\* A plan has finitely many steps: one capability, all of them.
LEMMA OneCapability ==
  ASSUME NEW steps \in Binding!Plan \union {<< >>}, Binding!Cardinality(Binding!ToSet(steps)) = 1,
         ServicesAssumption
  PROVE  \E p \in Pack, n \in Nat \ {0} : DOMAIN steps = 1..n /\ \A i \in 1..n : steps[i] = p
<1>1. PICK S : S = Binding!ToSet(steps)  OBVIOUS
<1>2. S = {steps[i] : i \in DOMAIN steps}  BY <1>1 DEF Binding!ToSet
<1>3. MaxSteps \in Nat  BY DEF ServicesAssumption, Binding!BindingAssumption
<1>4. CASE steps = << >>
  <2>1. S = {}  BY <1>2, <1>4
  <2>2. Cardinality({}) = 0  BY FS_EmptySet
  <2>3. Binding!Cardinality({}) = 0  BY <2>2 DEF Binding!Cardinality, Cardinality
  <2> QED BY <1>1, <2>1, <2>3
<1>5. CASE steps \in Binding!Plan
  <2>1. PICK n \in 1..MaxSteps : steps \in [1..n -> Pack]  BY <1>5 DEF Binding!Plan
  <2>2. DOMAIN steps = 1..n /\ n \in Nat \ {0} /\ 1 \in 1..n  BY <1>3, <2>1
  <2>3. \A a, b \in Int : IsFiniteSet(a..b)  BY FS_Interval
  <2>4. IsFiniteSet(1..n)  BY <2>2, <2>3
  <2>5. IsFiniteSet(S)
    <3>1. steps \in [1..n -> S] /\ \A x \in S : \E i \in 1..n : steps[i] = x  BY <1>2, <2>1, <2>2
    <3>2. steps \in Surjection(1..n, S)  BY <3>1 DEF Surjection
    <3> QED BY <2>4, <3>2, FS_Surjection
  <2>6. Cardinality(S) = 1  BY <1>1 DEF Binding!Cardinality, Cardinality
  <2>7. \E x : S = {x}  BY <2>5, <2>6, FS_Singleton
  <2>8. PICK x : S = {x}  BY <2>7
  <2>9. \A i \in 1..n : steps[i] = x  BY <1>2, <2>2, <2>8
  <2>10. x \in Pack  BY <2>1, <2>2, <2>9
  <2> QED BY <2>2, <2>9, <2>10
<1> QED BY <1>4, <1>5

\* What moves one actor, and refuses nothing, leaves the others as they are.
LEMMA BindingMoves ==
  ASSUME BindingInv, NEW a \in Actor, BindingShape', place'[a] # "refused",
         \A b \in Actor : b # a => place'[b] = place[b] /\ plan'[b] = plan[b] /\ ready'[b] = ready[b]
  PROVE  BindingInv'
<1> SUFFICES ASSUME NEW b \in Actor PROVE NotInVain(place'[b], plan'[b], ready'[b])
  BY DEF BindingInv
<1>1. CASE b = a  BY <1>1 DEF NotInVain
<1>2. CASE b # a  BY <1>2 DEF BindingInv
<1> QED BY <1>1, <1>2

\* A plan of one ready capability runs, or is parked: what is held back is loaded first.
LEMMA BindingExecutes ==
  ASSUME ServicesAssumption, BindingInv, NEW a \in Actor, Binding!Executes(a)
  PROVE  BindingInv'
<1>1. BindingShape /\ UNCHANGED <<ready, suggested, plan, binds, plans>>
  BY DEF BindingInv, Binding!Executes
<1>2. PICK used : used = IF Binding!HeldBack(a) = {} THEN uses
                         ELSE Binding!Remembered(uses, CHOOSE q \in Binding!HeldBack(a) : TRUE)
  OBVIOUS
<1>3. IF Binding!ToSet(plan[a]) \subseteq Binding!Bound(a, used)
      THEN Binding!Goes(a, "running") \/ Binding!Goes(a, "parked") ELSE Binding!Goes(a, "refused")
  BY <1>2 DEF Binding!Executes
<1>4. PICK there \in {"running", "parked", "refused"} :
        place' = [place EXCEPT ![a] = there] /\
        (there = "refused" => ~ Binding!ToSet(plan[a]) \subseteq Binding!Bound(a, used))
  BY <1>3 DEF Binding!Goes
<1>5. place'[a] = there /\ \A b \in Actor : b # a => place'[b] = place[b]
  BY <1>1, <1>4 DEF BindingShape
<1>6. BindingShape'  BY <1>1, <1>4 DEF BindingShape
<1>7. NotInVain(there, plan[a], ready[a])
  <2> SUFFICES ASSUME there = "refused", Binding!Cardinality(Binding!ToSet(plan[a])) = 1,
                      Binding!ToSet(plan[a]) \subseteq ready[a]
               PROVE  FALSE
    BY DEF NotInVain
  <2>1. PICK p \in Pack, n \in Nat \ {0} : DOMAIN plan[a] = 1..n /\ \A i \in 1..n : plan[a][i] = p
    BY <1>1, OneCapability DEF BindingShape
  <2>2. 1 \in 1..n  BY <2>1
  <2>3. Binding!ToSet(plan[a]) = {p}  BY <2>1, <2>2 DEF Binding!ToSet
  <2>4. p \in ready[a]  BY <2>3
  <2>5. p \notin Binding!Bound(a, used)  BY <1>4, <2>3
  <2>6. CASE p \notin Binding!Deferred(a, uses)
    <3>1. p \in Binding!Bound(a, uses)  BY <2>4, <2>6 DEF Binding!Deferred
    <3>2. Binding!HeldBack(a) = {}  BY <2>1, <2>6 DEF Binding!HeldBack
    <3> QED BY <1>2, <2>5, <3>1, <3>2
  <2>7. CASE p \in Binding!Deferred(a, uses)
    <3>1. {i \in DOMAIN plan[a] : plan[a][i] \in Binding!Deferred(a, uses)} = 1..n  BY <2>1, <2>7
    <3>2. 1 \in {j \in 1..n : \A k \in 1..n : j <= k}  BY <2>2
    <3>3. Binding!HeldBack(a) = {p}  BY <2>1, <3>1, <3>2 DEF Binding!HeldBack
    <3>4. (CHOOSE q \in {p} : TRUE) = p  OBVIOUS
    <3>5. used = Binding!Remembered(uses, p)  BY <1>2, <3>3, <3>4
    <3>6. p \in Binding!Kept(used, ready[a])  BY <2>1, <2>4, <3>5, LastUsedIsKept
    <3> QED BY <2>5, <3>6 DEF Binding!Bound
  <2> QED BY <2>6, <2>7
<1> SUFFICES ASSUME NEW b \in Actor PROVE NotInVain(place'[b], plan'[b], ready'[b])
  BY <1>6 DEF BindingInv
<1>8. CASE b = a  BY <1>1, <1>5, <1>7, <1>8
<1>9. CASE b # a  BY <1>1, <1>5, <1>9 DEF BindingInv
<1> QED BY <1>8, <1>9

\* Every step of the actors.
LEMMA BindingStep == ASSUME ServicesAssumption, BindingInv, Binding!Next PROVE BindingInv'
<1>1. BindingShape  BY DEF BindingInv
<1>2. PICK a \in Actor :
        \/ Binding!Begins(a) \/ Binding!Seeds(a) \/ Binding!Assembles(a) \/ Binding!Plans(a)
        \/ Binding!Executes(a) \/ Binding!Ran(a) \/ Binding!Repairs(a) \/ Binding!TakesUp(a)
        \/ Binding!Ends(a)
  BY DEF Binding!Next
<1>3. CASE Binding!Executes(a)  BY <1>3, BindingExecutes
<1>4. CASE ~ Binding!Executes(a)
  <2>1. PICK there \in {"seeding", "probed", "shown", "planned", "resumed", "idle"} :
          place' = [place EXCEPT ![a] = there]
    BY <1>2, <1>4
       DEF Binding!Begins, Binding!Seeds, Binding!Assembles, Binding!Plans, Binding!Ran,
           Binding!Repairs, Binding!TakesUp, Binding!Ends, Binding!Goes, Binding!Probes
  <2>2. ready' = ready \/ \E able \in SUBSET Pack : ready' = [ready EXCEPT ![a] = able]
    BY <1>2, <1>4
       DEF ServicesAssumption, Binding!BindingAssumption, Binding!Begins, Binding!Seeds, Binding!Assembles, Binding!Plans, Binding!Ran,
           Binding!Repairs, Binding!TakesUp, Binding!Ends, Binding!Probes
  <2>3. plan' = plan \/ \E steps \in Binding!Plan \union {<< >>} : plan' = [plan EXCEPT ![a] = steps]
    <3>1. CASE Binding!Plans(a)
      <4>1. CASE \E p \in Binding!Plan : plan' = [plan EXCEPT ![a] = p]  BY <4>1
      <4>2. CASE \E p \in Binding!Bound(a, uses) : plan' = [plan EXCEPT ![a] = <<p>>]
        <5>1. PICK p \in Binding!Bound(a, uses) : plan' = [plan EXCEPT ![a] = <<p>>]  BY <4>2
        <5>2. Binding!Bound(a, uses) \subseteq ready[a]  BY DEF Binding!Bound, Binding!Kept
        <5>3. p \in Pack  BY <1>1, <5>1, <5>2 DEF BindingShape
        <5>4. <<p>> \in [1..1 -> Pack]  BY <5>3
        <5>5. 1 \in 1..MaxSteps  BY DEF ServicesAssumption, Loop!TurnLoopAssumption
        <5>6. <<p>> \in Binding!Plan  BY <5>4, <5>5 DEF Binding!Plan
        <5> QED BY <5>1, <5>6
      <4> QED BY <3>1, <4>1, <4>2 DEF Binding!Plans
    <3>2. CASE Binding!Ran(a) \/ Binding!Repairs(a) \/ Binding!Ends(a)
      <4>1. plan' = [plan EXCEPT ![a] = << >>]
        BY <3>2 DEF Binding!Ran, Binding!Repairs, Binding!Ends, Binding!Forgets
      <4> QED BY <4>1
    <3>3. CASE Binding!Begins(a) \/ Binding!Seeds(a) \/ Binding!Assembles(a) \/ Binding!TakesUp(a)
      BY <3>3 DEF Binding!Begins, Binding!Seeds, Binding!Assembles, Binding!TakesUp
    <3> QED BY <1>2, <1>4, <3>1, <3>2, <3>3
  <2>4. BindingShape'  BY <1>1, <2>1, <2>2, <2>3 DEF BindingShape
  <2>5. place'[a] # "refused"
        /\ \A b \in Actor : b # a => place'[b] = place[b] /\ plan'[b] = plan[b] /\ ready'[b] = ready[b]
    BY <1>1, <2>1, <2>2, <2>3 DEF BindingShape
  <2> QED BY <2>4, <2>5, BindingMoves
<1> QED BY <1>3, <1>4

\* A step of another part.
LEMMA BindingRests == ASSUME BindingInv, UNCHANGED binding PROVE BindingInv'
BY DEF BindingInv, BindingShape, binding

\* Nobody has planned.
LEMMA BindingStarted == ASSUME Binding!Init PROVE BindingInv
BY DEF Binding!Init, BindingInv, BindingShape, NotInVain

-----------------------------------------------------------------------------
(* TurnLoop. Words beside a plan are appended with its results, and what is *)
(* remembered is the end of what was appended, so they are not parted.      *)

Items == {"answer", "note", "beside", "results", "denied", "error"}
Followed(s) == \A i \in 1..Len(s) : s[i] = "beside" => i < Len(s) /\ s[i + 1] = "results"

LoopInv ==
  /\ items \in Seq(Items) /\ Followed(items)
  /\ end # "running" => step = "ended"
  /\ end = "success" =>
       items # << >> /\ (items[Len(items)] = "answer" \/ (items[Len(items)] = "note" /\ reply.noted))

\* The greater of two.
LEMMA LoopMax == ASSUME NEW a \in Int, NEW b \in Int
                 PROVE  Loop!Max({a, b}) \in {a, b} /\ Loop!Max({a, b}) >= a /\ Loop!Max({a, b}) >= b
<1>1. \E x \in {a, b} : \A y \in {a, b} : x >= y  OBVIOUS
<1> QED BY <1>1 DEF Loop!Max

\* What is appended in one piece stays in one piece, and is remembered last.
LEMMA LoopAdds ==
  ASSUME ServicesAssumption, items \in Seq(Items), Followed(items),
         NEW new \in Seq(Items), Followed(new), Loop!Adds(new)
  PROVE  /\ items' \in Seq(Items) /\ Followed(items')
         /\ new # << >> => items' # << >> /\ items'[Len(items')] = new[Len(new)]
<1>1. PICK all : all = items \o new  OBVIOUS
<1>2. all \in Seq(Items) /\ Len(all) = Len(items) + Len(new)
      /\ (\A i \in 1..Len(items) : all[i] = items[i])
      /\ (\A i \in 1..Len(new) : all[Len(items) + i] = new[i])
  BY <1>1
<1>3. Followed(all)
  <2> SUFFICES ASSUME NEW i \in 1..Len(all), all[i] = "beside"
               PROVE  i < Len(all) /\ all[i + 1] = "results"
    BY DEF Followed
  <2>1. CASE i <= Len(items)
    <3>1. i \in 1..Len(items)  BY <1>2, <2>1
    <3>2. items[i] = "beside"  BY <1>2, <3>1
    <3>3. i < Len(items) /\ items[i + 1] = "results"  BY <3>1, <3>2 DEF Followed
    <3>4. i + 1 \in 1..Len(items)  BY <3>1, <3>3
    <3> QED BY <1>2, <3>3, <3>4
  <2>2. CASE i > Len(items)
    <3>1. PICK j : j = i - Len(items)  OBVIOUS
    <3>2. j \in 1..Len(new) /\ i = Len(items) + j  BY <1>2, <2>2, <3>1
    <3>3. new[j] = "beside"  BY <1>2, <3>2
    <3>4. j < Len(new) /\ new[j + 1] = "results"  BY <3>2, <3>3 DEF Followed
    <3>5. j + 1 \in 1..Len(new) /\ i + 1 = Len(items) + (j + 1)  BY <3>2, <3>4
    <3>6. all[i + 1] = new[j + 1]  BY <1>2, <3>5
    <3> QED BY <1>2, <3>2, <3>4, <3>6
  <2> QED BY <1>2, <2>1, <2>2
<1>4. MaxItems \in Int /\ MaxItems >= 1
  <2>1. MaxRepairs \in Nat /\ MaxItems > MaxRepairs + 1  BY DEF ServicesAssumption, Loop!TurnLoopAssumption
  <2>2. MaxItems \in Nat  BY DEF ServicesAssumption, Loop!TurnLoopAssumption
  <2> QED BY <2>1, <2>2
<1>5. PICK m : m = Loop!Max({1, Len(all) - MaxItems + 1})  OBVIOUS
<1>6. m \in Int /\ m >= 1 /\ (Len(all) >= 1 => m <= Len(all)) /\ (Len(all) = 0 => m = 1)
  <2>1. Len(all) - MaxItems + 1 \in Int /\ Len(all) - MaxItems + 1 <= Len(all)  BY <1>2, <1>4
  <2>2. PICK b \in Int : b = Len(all) - MaxItems + 1  BY <2>1
  <2>3. m = Loop!Max({1, b})  BY <1>5, <2>2
  <2>4. m \in {1, b} /\ m >= 1 /\ m >= b
    <3>1. 1 \in Int /\ b \in Int  BY <2>2
    <3>2. Loop!Max({1, b}) \in {1, b} /\ Loop!Max({1, b}) >= 1 /\ Loop!Max({1, b}) >= b
      BY <3>1, LoopMax
    <3> QED BY <2>3, <3>2
  <2> QED BY <1>2, <1>4, <2>1, <2>2, <2>4
<1>7. items' = SubSeq(all, m, Len(all))  BY <1>1, <1>5 DEF Loop!Adds
<1>8. items' \in Seq(Items) /\ Len(items') = Len(all) - m + 1
      /\ \A i \in 1..(Len(all) - m + 1) : items'[i] = all[m + i - 1]
  <2>1. CASE Len(all) = 0
    <3>1. m = 1 /\ SubSeq(all, m, Len(all)) = << >>  BY <1>2, <1>6, <2>1
    <3> QED BY <1>2, <1>7, <2>1, <3>1
  <2>2. CASE Len(all) # 0
    <3>1. m \in 1..Len(all) /\ Len(all) \in 1..Len(all)  BY <1>2, <1>6, <2>2
    <3> QED BY <1>2, <1>7, <3>1
  <2> QED BY <2>1, <2>2
<1>9. Followed(items')
  <2> SUFFICES ASSUME NEW i \in 1..Len(items'), items'[i] = "beside"
               PROVE  i < Len(items') /\ items'[i + 1] = "results"
    BY DEF Followed
  <2>1. PICK j : j = m + i - 1  OBVIOUS
  <2>2. j \in 1..Len(all) /\ all[j] = "beside"  BY <1>2, <1>6, <1>8, <2>1
  <2>3. j < Len(all) /\ all[j + 1] = "results"  BY <1>3, <2>2 DEF Followed
  <2>4. i + 1 \in 1..Len(items') /\ m + (i + 1) - 1 = j + 1  BY <1>2, <1>6, <1>8, <2>1, <2>3
  <2>5. items'[i + 1] = all[m + (i + 1) - 1]  BY <1>8, <2>4
  <2> QED BY <2>3, <2>4, <2>5
<1>10. new # << >> => items' # << >> /\ items'[Len(items')] = new[Len(new)]
  <2> SUFFICES ASSUME new # << >> PROVE items' # << >> /\ items'[Len(items')] = new[Len(new)]
    OBVIOUS
  <2>1. Len(new) >= 1 /\ Len(new) \in 1..Len(new)  OBVIOUS
  <2>2. Len(items') >= 1 /\ Len(items') \in 1..(Len(all) - m + 1)  BY <1>2, <1>6, <1>8, <2>1
  <2>3. items'[Len(items')] = all[Len(all)]  BY <1>2, <1>6, <1>8, <2>2
  <2>4. all[Len(all)] = new[Len(new)]  BY <1>2, <2>1
  <2> QED BY <2>2, <2>3, <2>4
<1> QED BY <1>8, <1>9, <1>10

\* A step that appends, and does not end the turn with success.
LEMMA LoopGoesOn ==
  ASSUME ServicesAssumption, LoopInv, NEW new \in Seq(Items), Followed(new),
         Loop!Adds(new), end' # "success", end' # "running" => step' = "ended"
  PROVE  LoopInv'
BY LoopAdds DEF LoopInv

\* What the model says: an answer, or a note that it said nothing.
LEMMA LoopSpeaks == ASSUME ServicesAssumption, LoopInv, Loop!Speaks PROVE LoopInv'
<1> USE DEF Loop!Stops, Loop!Goes
<1>1. end = "running"  BY DEF LoopInv, Loop!Speaks
<1>2. PICK kept : kept = Loop!Said(Loop!HasText, IF reply.words THEN "answer" ELSE "note")  OBVIOUS
<1>3. kept = (IF reply.words THEN <<"answer">> ELSE IF reply.noted THEN <<"note">> ELSE << >>)
  BY <1>2 DEF Loop!Said, Loop!HasText
<1>4. kept \in Seq(Items) /\ Followed(kept)
  <2>1. <<"answer">> \in Seq(Items) /\ <<"note">> \in Seq(Items) /\ << >> \in Seq(Items)  BY DEF Items
  <2>2. Followed(<<"answer">>) /\ Followed(<<"note">>) /\ Followed(<< >>)  BY DEF Followed
  <2> QED BY <1>3, <2>1, <2>2
<1>5. <<"error">> \in Seq(Items) /\ Followed(<<"error">>)  BY DEF Items, Followed
<1>6. CASE cancelled /\ Loop!Stops("cancelled") /\ Loop!Adds(kept)  BY <1>4, <1>6, LoopGoesOn
<1>7. CASE ~ cancelled /\ Loop!Finished /\ Loop!Adds(kept)
           /\ Loop!Stops(IF reply.refuses THEN "refused" ELSE "success")
  <2>1. CASE reply.refuses  BY <1>4, <1>7, <2>1, LoopGoesOn
  <2>2. CASE ~ reply.refuses
    <3>1. reply.words \/ reply.noted  BY <1>7, <2>2 DEF Loop!Finished, Loop!HasText
    <3>2. kept # << >> /\ (kept[Len(kept)] = "answer" \/ (kept[Len(kept)] = "note" /\ reply.noted))
      BY <1>3, <3>1
    <3>3. items' \in Seq(Items) /\ Followed(items') /\ items' # << >>
          /\ (items'[Len(items')] = "answer" \/ (items'[Len(items')] = "note" /\ reply.noted))
      BY <1>4, <1>7, <3>2, LoopAdds DEF LoopInv
    <3>4. step' = "ended" /\ UNCHANGED reply  BY <1>7 DEF Loop!Speaks
    <3> QED BY <3>3, <3>4 DEF LoopInv
  <2> QED BY <2>1, <2>2
<1>8. CASE ~ cancelled /\ Loop!Adds(<<"error">>)
           /\ (Loop!Goes("top") \/ Loop!Stops("failed"))
  BY <1>1, <1>5, <1>8, LoopGoesOn
<1> QED BY <1>2, <1>6, <1>7, <1>8 DEF Loop!Speaks

\* How a plan ends: what was said beside it goes with its results.
LEMMA LoopRuns ==
  ASSUME ServicesAssumption, LoopInv, Loop!Ran \/ Loop!IsDenied \/ Loop!IsInvalid PROVE LoopInv'
<1> USE DEF Loop!Stops, Loop!Goes
<1>1. end = "running"  BY DEF LoopInv, Loop!Ran, Loop!IsDenied, Loop!IsInvalid, Loop!Running
<1>2. CASE Loop!Ran
  <2>1. PICK new : new = Loop!Said(Loop!Beside, "beside") \o <<"results">>  OBVIOUS
  <2>2. CASE Loop!Beside
    <3>1. Loop!Said(Loop!Beside, "beside") = <<"beside">>  BY <2>2 DEF Loop!Said
    <3>2. new = <<"beside">> \o <<"results">>  BY <2>1, <3>1
    <3>3. <<"beside">> \in Seq(Items) /\ <<"results">> \in Seq(Items)  BY DEF Items
    <3>4. Len(<<"beside">>) = 1 /\ Len(<<"results">>) = 1  OBVIOUS
    <3>5. new \in Seq(Items) /\ Len(new) = 2 /\ new[2] = "results"  BY <3>2, <3>3, <3>4
    <3>6. new \in Seq(Items) /\ Followed(new)  BY <3>5 DEF Followed
    <3> QED BY <1>1, <1>2, <2>1, <3>6, LoopGoesOn DEF Loop!Ran
  <2>3. CASE ~ Loop!Beside
    <3>1. new = <<"results">>  BY <2>1, <2>3 DEF Loop!Said
    <3>2. new \in Seq(Items) /\ Followed(new)  BY <3>1 DEF Items, Followed
    <3> QED BY <1>1, <1>2, <2>1, <3>2, LoopGoesOn DEF Loop!Ran
  <2> QED BY <2>2, <2>3
<1>3. CASE Loop!IsDenied
  <2>1. <<"denied">> \in Seq(Items) /\ Followed(<<"denied">>)  BY DEF Items, Followed
  <2> QED BY <1>1, <1>3, <2>1, LoopGoesOn DEF Loop!IsDenied, Loop!Denied
<1>4. CASE Loop!IsInvalid
  <2>1. <<"error">> \in Seq(Items) /\ Followed(<<"error">>)  BY DEF Items, Followed
  <2>2. <<"error", "results">> \in Seq(Items) /\ Followed(<<"error", "results">>)  BY DEF Items, Followed
  <2> QED BY <1>1, <1>4, <2>1, <2>2, LoopGoesOn DEF Loop!IsInvalid
<1> QED BY <1>2, <1>3, <1>4

\* A step that appends nothing, and ends the turn for another reason if it does.
LEMMA LoopRests ==
  ASSUME LoopInv, UNCHANGED items,
         UNCHANGED <<step, end, reply>> \/ (end' # "success" /\ (end' # "running" => step' = "ended"))
  PROVE  LoopInv'
BY DEF LoopInv

\* Every step of the loop.
LEMMA LoopStep == ASSUME ServicesAssumption, LoopInv, Loop!Next PROVE LoopInv'
<1> USE DEF Loop!Stops, Loop!Goes
<1>1. CASE Loop!CancelTurn  BY <1>1, LoopRests DEF Loop!CancelTurn, Loop!told
<1>2. CASE Loop!Top
  <2>1. UNCHANGED items /\ step = "top"  BY <1>2 DEF Loop!Top, Loop!told
  <2>2. end = "running"  BY <2>1 DEF LoopInv
  <2>3. Loop!LimitHit \in {"max_budget", "max_iterations", "none"}  BY DEF Loop!LimitHit
  <2>4. end' # "success" /\ (end' # "running" => step' = "ended")
    BY <1>2, <2>2, <2>3 DEF Loop!Top
  <2> QED BY <2>1, <2>4, LoopRests
<1>3. CASE \E r \in Loop!Reply : Loop!Answers(r)
  <2>1. UNCHANGED <<items, end>> /\ step \in {"asking", "falling_back"}  BY <1>3 DEF Loop!Answers
  <2>2. end = "running"  BY <2>1 DEF LoopInv
  <2>3. end' # "success" /\ ~ (end' # "running")  BY <2>1, <2>2
  <2> QED BY <2>1, <2>3, LoopRests
<1>4. CASE \E how \in {"refused", "unavailable", "broken"} : Loop!Fails(how)
  <2>1. UNCHANGED items /\ step \in {"asking", "falling_back"}  BY <1>4 DEF Loop!Fails
  <2>2. end = "running"  BY <2>1 DEF LoopInv
  <2>3. end' # "success" /\ (end' # "running" => step' = "ended")  BY <1>4, <2>2 DEF Loop!Fails
  <2> QED BY <2>1, <2>3, LoopRests
<1>5. CASE \E check \in Loop!Checks : Loop!HoldsBack(check)
  <2>1. UNCHANGED <<items, end>> /\ step = "replied"  BY <1>5 DEF Loop!HoldsBack
  <2>2. end = "running"  BY <2>1 DEF LoopInv
  <2> QED BY <2>1, <2>2, LoopRests
<1>6. CASE Loop!Acts
  <2>1. UNCHANGED items /\ step = "replied"  BY <1>6 DEF Loop!Acts, Loop!told
  <2>2. end = "running"  BY <2>1 DEF LoopInv
  <2>3. Loop!LimitHit \in {"max_budget", "max_iterations", "none"}  BY DEF Loop!LimitHit
  <2>4. end' # "success" /\ (end' # "running" => step' = "ended")
    BY <1>6, <2>2, <2>3 DEF Loop!Acts
  <2> QED BY <2>1, <2>4, LoopRests
<1>7. CASE Loop!Parks
  BY <1>7, LoopRests DEF Loop!Parks, Loop!told
<1>8. CASE Loop!Speaks \/ Loop!Ran \/ Loop!IsDenied \/ Loop!IsInvalid  BY <1>8, LoopSpeaks, LoopRuns
<1> QED BY <1>1, <1>2, <1>3, <1>4, <1>5, <1>6, <1>7, <1>8 DEF Loop!Next

\* Nothing was said yet.
LEMMA LoopStarted == ASSUME Loop!Init PROVE LoopInv
<1>1. << >> \in Seq(Items)  OBVIOUS
<1> QED BY <1>1 DEF Loop!Init, LoopInv, Followed

-----------------------------------------------------------------------------
(* The parts together. *)

\* The last answered change to a setting is in force or held, through every interleaving of
\* requests, turns that end, and restarts (hold_changes, apply_pending).
THEOREM LastWordStays == PartsSpec => []LastWordIsKept
<1>1. PartsInit => SettingsInv  BY SettingsStarted DEF PartsInit
<1>2. SettingsInv /\ [PartsNext]_partsVars => SettingsInv'
  BY SettingsStep, SettingsRests DEF PartsNext, partsVars, settings
<1>3. SettingsInv => LastWordIsKept  BY DEF SettingsInv
<1> QED BY <1>1, <1>2, <1>3, PTL DEF PartsSpec

\* A sign-in is handed to one answer, and is its approver's, however often a poll is dropped and
\* sent again and whoever decides meanwhile (auth/device.py decide, poll).
THEOREM SignInIsHandedOnce == PartsSpec => []ApprovedIsHandedOnce
<1>1. PartsInit => SignInInv  BY SignInStarted, ServicesAssumption DEF PartsInit
<1>2. SignInInv /\ [PartsNext]_partsVars => SignInInv'
  BY SignInStep, SignInRests, ServicesAssumption DEF PartsNext, partsVars
<1>3. SignInInv => ApprovedIsHandedOnce  BY SignInPromises
<1> QED BY <1>1, <1>2, <1>3, PTL DEF PartsSpec

\* What a reader is given of a service was true no longer ago than the reader allows and a probe
\* takes, whatever is dropped, put back by a late probe, or taken over from another reader
\* (ProbeCache.get, put, drop).
THEOREM AnswersAreRecent == PartsSpec => []GivenIsRecent
<1>1. PartsInit => ProbesInv  BY ProbesStarted, ServicesAssumption DEF PartsInit
<1>2. ProbesInv /\ [PartsNext]_partsVars => ProbesInv'
  BY ProbesStep, ProbesRests, ServicesAssumption DEF PartsNext, partsVars, probes
<1>3. ProbesInv => GivenIsRecent  BY DEF ProbesInv
<1> QED BY <1>1, <1>2, <1>3, PTL DEF PartsSpec

\* A service's work is done twice only where that is harmless, and a call is refused for good
\* only if the keys changed under it, for every number of calls, services, retries and entries
\* of the cache (auth/broker.py, packs/http.py).
THEOREM CallsAreFair == PartsSpec => []CallIsAnsweredFairly
<1>1. PartsInit => CallsInv  BY CallsStarted DEF PartsInit
<1>2. CallsInv /\ [PartsNext]_partsVars => CallsInv'  BY CallsStep, CallsRest DEF PartsNext, partsVars
<1>3. CallsInv => CallIsAnsweredFairly  BY CallsPromise
<1> QED BY <1>1, <1>2, <1>3, PTL DEF PartsSpec

\* A plan of one capability that is ready runs, whatever was held back and whatever the others
\* made recent while the model answered, for any catalogue, order and thresholds
\* (choose_bound, _held_back, remember_use).
THEOREM ReachingLoads == PartsSpec => []OneReachIsEnough
<1>1. PartsInit => BindingInv  BY BindingStarted DEF PartsInit
<1>2. BindingInv /\ [PartsNext]_partsVars => BindingInv'
  BY BindingStep, BindingRests, ServicesAssumption DEF PartsNext, partsVars
<1>3. BindingInv => OneReachIsEnough
  BY DEF BindingInv, NotInVain, OneReachIsEnough, Binding!OneReachIsEnough
<1> QED BY <1>1, <1>2, <1>3, PTL DEF PartsSpec

\* A turn that says it succeeded ends with its model's words, or with the note of a fallback whose
\* model wrote none; and what is written beside a plan is only said with its results, for every budget, every number of repairs and every length of what is remembered
\* (run_turn, _run_plan, _mark_fallback).
THEOREM AnswersAreGiven == PartsSpec => []SaysWhatItDid
<1>1. PartsInit => LoopInv  BY LoopStarted DEF PartsInit
<1>2. LoopInv /\ [PartsNext]_partsVars => LoopInv'
  BY LoopStep, LoopRests, ServicesAssumption DEF PartsNext, partsVars, loop
<1>3. LoopInv => SaysWhatItDid
  BY DEF LoopInv, Followed, SaysWhatItDid, Loop!NoSilentSuccess, Loop!NothingSaidThatDidNotRun, Loop!Last
<1> QED BY <1>1, <1>2, <1>3, PTL DEF PartsSpec
=============================================================================
