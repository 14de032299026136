-------------------------------- MODULE SignIn --------------------------------
(***************************************************************************)
(* Signing in a command-line client with a device code (auth/device.py,    *)
(* api/routers/device.py, cli/device.py): the client polls, a person       *)
(* approves or refuses the code from another client, and the poll after    *)
(* that takes the sign-in over.                                            *)
(*                                                                         *)
(* One code. A step at the hub is one statement after another on the SQL   *)
(* worker, each of its own (autocommit): what was written before an error  *)
(* is raised stays. Time goes by in ticks of the first interval.           *)
(***************************************************************************)
EXTENDS Naturals

CONSTANTS
  Approver,   \* the signed-in clients that may decide
  Poll,       \* POLL_SECONDS, and SLOW_DOWN_SECONDS: the same, in ticks
  Lifetime,   \* DEVICE_SECONDS, in ticks
  MaxDrops    \* bound: connections that are dropped, or answers that are lost

SignInAssumption ==
  /\ Poll \in Nat \ {0} /\ Lifetime \in Nat /\ MaxDrops \in Nat
  /\ Approver \intersect {"nobody", "nothing", "poll", "slow_down", "authorization_pending",
                           "access_denied", "expired_token"} = {}

NoOne == "nobody"
Pending == [state |-> "pending", by |-> NoOne, token |-> NoOne, interval |-> Poll, polled |-> 0]

VARIABLES
  now,
  code,      \* its row: state, account_id, session_token, interval, last_polled_at (0 before)
  given,     \* history: to how many answers the sign-in was handed
  client,    \* the polling client: where it is, its interval, when it last asked, what it holds
  wire,      \* what is under way for it: nothing, a poll, or an answer
  dropped,   \* connections dropped so far
  decided    \* approver -> what it was told: nothing, approved, refused, error

vars == <<now, code, given, client, wire, dropped, decided>>

Init ==
  /\ now = 1 /\ code = Pending /\ given = 0
  /\ client = [place |-> "waits", interval |-> Poll, asked |-> 1, token |-> NoOne, retried |-> FALSE]
  /\ wire = "nothing" /\ dropped = 0
  /\ decided = [p \in Approver |-> "nothing"]

Expired == now > Lifetime

-----------------------------------------------------------------------------
(* The hub. *)

\* decide: the first one is taken.
Decides(p) ==
  /\ decided[p] = "nothing"
  /\ \E approve \in BOOLEAN :
       IF Expired \/ code.state # "pending"
       THEN decided' = [decided EXCEPT ![p] = "error"] /\ UNCHANGED code
       ELSE /\ decided' = [decided EXCEPT ![p] = IF approve THEN "approved" ELSE "refused"]
            /\ code' = [code EXCEPT !.state = IF approve THEN "approved" ELSE "denied",
                                    !.by = p, !.token = IF approve THEN p ELSE NoOne]
  /\ UNCHANGED <<now, given, client, wire, dropped>>

\* poll. A poll before its time is told to slow down, and pushes the next one further off.
TooSoon == code.polled # 0 /\ now - code.polled < code.interval

Redeemed_Kept(row) == row
Redeemed(row) == [row EXCEPT !.state = "consumed", !.token = NoOne]

Answers ==
  /\ wire = "poll"
  /\ IF Expired THEN wire' = "expired_token" /\ UNCHANGED <<code, given>>
     ELSE IF TooSoon
     THEN /\ wire' = "slow_down" /\ UNCHANGED given
          /\ code' = [code EXCEPT !.interval = @ + Poll, !.polled = now]
     ELSE LET row == [code EXCEPT !.polled = now] IN
          IF code.state = "approved"
          THEN wire' = code.token /\ code' = Redeemed(row) /\ given' = given + 1
          ELSE /\ code' = row /\ UNCHANGED given
               /\ wire' = CASE code.state = "pending" -> "authorization_pending"
                            [] code.state = "denied" -> "access_denied"
                            [] OTHER -> "expired_token"
  /\ UNCHANGED <<now, client, dropped, decided>>

-----------------------------------------------------------------------------
(* The client, and the connection between them. *)

\* Its deadline had passed when it heard the last answer: looked at before it sleeps.
Late == client.asked - 1 >= Lifetime

Polls ==
  /\ client.place = "waits" /\ ~ Late /\ now - client.asked >= client.interval
  /\ client' = [client EXCEPT !.place = "polls", !.retried = FALSE] /\ wire' = "poll"
  /\ UNCHANGED <<now, code, given, dropped, decided>>

\* The hub drops the connection before the poll arrives, or as it answers: asked again, once.
Drops ==
  /\ wire # "nothing" /\ dropped < MaxDrops
  /\ dropped' = dropped + 1
  /\ IF client.retried THEN client' = [client EXCEPT !.place = "unreachable"] /\ wire' = "nothing"
     ELSE client' = [client EXCEPT !.retried = TRUE] /\ wire' = "poll"
  /\ UNCHANGED <<now, code, given, decided>>

Hears ==
  /\ wire \notin {"nothing", "poll"} /\ wire' = "nothing"
  /\ LET heard == [client EXCEPT !.asked = now, !.retried = FALSE] IN
     client' = CASE wire = "authorization_pending" -> [heard EXCEPT !.place = "waits"]
                 [] wire = "slow_down" -> [heard EXCEPT !.place = "waits", !.interval = @ + Poll]
                 [] wire \in {"access_denied", "expired_token"} -> [heard EXCEPT !.place = "refused"]
                 [] OTHER -> [heard EXCEPT !.place = "in", !.token = wire]
  /\ UNCHANGED <<now, code, given, dropped, decided>>

GivesUp ==
  /\ client.place = "waits" /\ Late
  /\ client' = [client EXCEPT !.place = "late"]
  /\ UNCHANGED <<now, code, given, wire, dropped, decided>>

\* NoOne is slow: a poll is asked when it is due, and answered in the same tick.
Tick ==
  /\ wire = "nothing"
  /\ IF client.place = "waits" THEN ~ Late /\ now - client.asked < client.interval
     ELSE ~ Expired
  /\ now' = now + 1
  /\ UNCHANGED <<code, given, client, wire, dropped, decided>>

Next ==
  \/ \E p \in Approver : Decides(p)
  \/ Answers \/ Polls \/ Drops \/ Hears \/ GivesUp \/ Tick

Spec == Init /\ [][Next]_vars

-----------------------------------------------------------------------------
\* The shape of every variable.
TypeOK ==
  /\ now \in Nat \ {0} /\ given \in Nat /\ dropped \in 0..MaxDrops
  /\ code.state \in {"pending", "approved", "denied", "consumed"}
  /\ {code.by, code.token, client.token} \subseteq Approver \union {NoOne}
  /\ {code.interval, client.interval} \subseteq Nat \ {0} /\ {code.polled, client.asked} \subseteq Nat
  /\ client.place \in {"waits", "polls", "refused", "in", "late", "unreachable"}
  /\ client.retried \in BOOLEAN
  /\ wire \in Approver \union {"nothing", "poll", "slow_down", "authorization_pending",
                                "access_denied", "expired_token"}
  /\ decided \in [Approver -> {"nothing", "approved", "refused", "error"}]

\* A sign-in is handed to one answer at most, however often a poll is sent again, and it is that
\* of the one client that was told it approved. Who is refused, with no connection dropped, was
\* denied or came too late (auth/device.py decide, poll).
ApprovedIsHandedOnce ==
  /\ given <= 1
  /\ client.place = "in" =>
       \A p \in Approver : decided[p] = "approved" <=> p = client.token
  /\ client.place = "refused" /\ dropped = 0 =>
       Expired \/ \E p \in Approver : decided[p] = "refused"

\* What _poll says of itself (cli/device.py): asking twice is safe.
AskingTwiceIsSafe ==
  client.place = "refused" => Expired \/ \E p \in Approver : decided[p] = "refused"
=============================================================================
