------------------------------ MODULE Workspaces ------------------------------
(***************************************************************************)
(* The sandbox the conversations of one profile share, and the folder each *)
(* has in it: provisioning, reset, release and deletion (core/container.py,*)
(* workspace/release.py, api/routers/sessions.py), beside the sandbox      *)
(* service, which archives what sits idle and wipes it.                    *)
(*                                                                         *)
(* A request is one call or one transaction a step; a call that fails may  *)
(* have been served. The lock of a profile is memory, as requests are.     *)
(***************************************************************************)
EXTENDS Naturals, FiniteSets

CONSTANTS
  NumSessions,   \* bound: conversations of the profile
  MaxSandboxes,  \* bound: sandboxes that are ever created
  MaxRequests,   \* bound: requests under way at a time
  MaxFaults      \* bound: how often the service archives one, or the process dies

WorkspacesAssumption ==
  NumSessions \in Nat /\ MaxSandboxes \in Nat /\ MaxRequests \in Nat /\ MaxFaults \in Nat

Session == 1..NumSessions
Sandbox == 1..MaxSandboxes
NoSandbox == 0

VARIABLES
  session,     \* conversation -> none, live, archived (archived_at), gone
  attached,    \* conversation -> workspace_environment_id
  sandbox,     \* sandbox -> none, ready, archived, destroyed
  folders,     \* <<sandbox, conversation>>: the folders there are
  work,        \* conversations with something of their own in their folder
  lock,        \* who holds the profile's lock: "provide" or "revive" of a conversation, "release"
  providing,   \* conversation -> where its ensure_workspace is
  found,       \* the sandbox the holder of the lock has listed, or NoSandbox
  resetting,   \* conversation -> where its reset_workspace is
  recorded,    \* conversation -> the sandbox its row named when the reset read it
  releasing,   \* where release_profile_workspace is
  discarding,  \* conversation -> the sandbox its row named when it was read for deletion
  stranded,    \* history: sandboxes that were destroyed by a release that did not forget them
  idles, stops

rows == <<session, attached>>
service == <<sandbox, folders, work, idles>>
requests == <<providing, resetting, recorded, releasing, discarding>>
history == <<stranded, stops>>
vars == <<rows, service, lock, found, requests, history>>

NotAsked == MaxSandboxes + 1
Free == <<"nobody", 0>>

Init ==
  /\ session = [s \in Session |-> "none"] /\ attached = [s \in Session |-> NoSandbox]
  /\ sandbox = [e \in Sandbox |-> "none"] /\ folders = {} /\ work = {}
  /\ lock = Free /\ found = NoSandbox
  /\ providing = [s \in Session |-> "off"] /\ resetting = [s \in Session |-> "off"]
  /\ recorded = [s \in Session |-> NoSandbox]
  /\ releasing = "off" /\ discarding = [s \in Session |-> NotAsked]
  /\ stranded = {} /\ idles = 0 /\ stops = 0

Listed == {e \in Sandbox : sandbox[e] \in {"ready", "archived"}}
Is(e, state) == sandbox' = [d \in Sandbox |-> IF d = e THEN state ELSE sandbox[d]]
At(s, place, request) == request' = [request EXCEPT ![s] = place]
\* A reset of a sandbox leaves nothing in it.
Wiped(e) == folders' = {f \in folders : f[1] # e} /\ work' = {s \in work : <<e, s>> \notin folders}
Made(e, s) == folders' = folders \union {<<e, s>>}
Removed(e, s) == folders' = folders \ {<<e, s>>} /\ work' = work \ {s}
Spare ==
  Cardinality({s \in Session : providing[s] # "off"}) + Cardinality({s \in Session : resetting[s] # "off"})
    + Cardinality({s \in Session : discarding[s] # NotAsked}) + (IF releasing = "off" THEN 0 ELSE 1)
    < MaxRequests
Unlocked == lock' = Free /\ found' = NoSandbox

-----------------------------------------------------------------------------
(* Conversations, and what they leave in their folders. *)

\* The row, and then its place in the sandbox.
Creates(s) ==
  /\ Spare /\ session[s] = "none" /\ \A r \in Session : r < s => session[r] # "none"
  /\ session' = [session EXCEPT ![s] = "live"] /\ At(s, "asks", providing)
  /\ UNCHANGED <<attached, service, lock, found, resetting, recorded, releasing, discarding, history>>

\* Archived, by the person or for sitting idle, or brought back.
Archives(s) ==
  /\ session[s] \in {"live", "archived"}
  /\ session' = [session EXCEPT ![s] = IF @ = "live" THEN "archived" ELSE "live"]
  /\ UNCHANGED <<attached, service, lock, found, requests, history>>

\* A turn leaves something in its folder.
Works(s) ==
  /\ session[s] = "live" /\ attached[s] # NoSandbox /\ s \notin work
  /\ sandbox[attached[s]] = "ready" /\ <<attached[s], s>> \in folders
  /\ work' = work \union {s}
  /\ UNCHANGED <<rows, sandbox, folders, idles, lock, found, requests, history>>

-----------------------------------------------------------------------------
(* ensure_workspace: under the profile's lock. *)

\* Asked for again by a retry, the attach route, or a reset of a conversation without one.
Asks(s) ==
  /\ session[s] \in {"live", "archived"} /\ attached[s] = NoSandbox /\ providing[s] = "off" /\ Spare
  /\ At(s, "asks", providing)
  /\ UNCHANGED <<rows, service, lock, found, resetting, recorded, releasing, discarding, history>>

\* The row is read again: attached meanwhile, or gone, there is nothing to do.
Takes(s) ==
  /\ providing[s] = "asks" /\ lock = Free
  /\ IF session[s] = "gone" \/ attached[s] # NoSandbox
     THEN At(s, "off", providing) /\ UNCHANGED lock
     ELSE At(s, "lists", providing) /\ lock' = <<"provide", s>>
  /\ UNCHANGED <<rows, service, found, resetting, recorded, releasing, discarding, history>>

Finds_Ready == {e \in Listed : sandbox[e] = "ready"}
\* What the listing is searched for: the profile's sandbox, archived or not.
Finds == Listed

Lists(s) ==
  /\ providing[s] = "lists"
  /\ IF Finds = {} THEN At(s, "creates", providing) /\ UNCHANGED found
     ELSE \E e \in Finds :
            found' = e /\ At(s, IF sandbox[e] = "archived" THEN "resets" ELSE "makes", providing)
  /\ UNCHANGED <<rows, service, lock, resetting, recorded, releasing, discarding, history>>

\* One that was archived is reset: what the archive left of it, nothing, is lost.
Resets(s) ==
  /\ providing[s] = "resets" /\ At(s, "makes", providing)
  /\ Is(found, "ready") /\ Wiped(found)
  /\ UNCHANGED <<rows, idles, lock, found, resetting, recorded, releasing, discarding, history>>

New(e) == sandbox[e] = "none" /\ \A d \in Sandbox : d < e => sandbox[d] # "none"

CreatesOne(s) ==
  /\ providing[s] = "creates"
  /\ \E e \in Sandbox : New(e) /\ Is(e, "ready") /\ found' = e
  /\ At(s, "makes", providing)
  /\ UNCHANGED <<rows, folders, work, idles, lock, resetting, recorded, releasing, discarding, history>>

Makes(s) ==
  /\ providing[s] = "makes" /\ sandbox[found] = "ready" /\ At(s, "attaches", providing)
  /\ Made(found, s)
  /\ UNCHANGED <<rows, sandbox, work, idles, lock, found, resetting, recorded, releasing, discarding, history>>

\* attach_workspace keeps what a row has, and is refused by one that is gone.
Attaches(s) ==
  /\ providing[s] = "attaches" /\ At(s, "off", providing) /\ Unlocked
  /\ attached' = IF session[s] = "gone" \/ attached[s] # NoSandbox THEN attached
                 ELSE [attached EXCEPT ![s] = found]
  /\ UNCHANGED <<session, service, resetting, recorded, releasing, discarding, history>>

\* A call fails, or was served and its answer is lost: 503, and the lock is free again.
FailsToProvide(s) ==
  /\ providing[s] \in {"lists", "resets", "creates", "makes"}
  /\ \/ UNCHANGED <<sandbox, folders, work>>
     \/ providing[s] = "resets" /\ Is(found, "ready") /\ Wiped(found)
     \/ /\ providing[s] = "creates" /\ \E e \in Sandbox : New(e) /\ Is(e, "ready")
        /\ UNCHANGED <<folders, work>>
     \/ /\ providing[s] = "makes" /\ sandbox[found] = "ready" /\ Made(found, s)
        /\ UNCHANGED <<sandbox, work>>
  /\ At(s, "off", providing) /\ Unlocked
  /\ UNCHANGED <<rows, idles, resetting, recorded, releasing, discarding, history>>

-----------------------------------------------------------------------------
(* reset_workspace: without the lock, but for the reset of an archived sandbox. *)

AsksToReset(s) ==
  /\ session[s] \in {"live", "archived"} /\ attached[s] # NoSandbox /\ resetting[s] = "off" /\ Spare
  /\ At(s, "deletes", resetting) /\ At(s, attached[s], recorded)
  /\ UNCHANGED <<rows, service, lock, found, providing, releasing, discarding, history>>

\* Deleting the folder may fail; nobody minds.
Empties(s) ==
  /\ resetting[s] = "deletes" /\ At(s, "makes", resetting)
  /\ \/ sandbox[recorded[s]] = "ready" /\ Removed(recorded[s], s)
     \/ UNCHANGED <<folders, work>>
  /\ UNCHANGED <<rows, sandbox, idles, lock, found, providing, recorded, releasing, discarding, history>>

\* Its folder is made again. An archived sandbox refuses, and is to be revived; the second
\* refusal, as one that is gone, is the end of it.
MakesAgain(s) ==
  /\ resetting[s] \in {"makes", "again"}
  /\ IF sandbox[recorded[s]] = "ready" THEN Made(recorded[s], s) ELSE UNCHANGED folders
  /\ IF resetting[s] = "makes" /\ sandbox[recorded[s]] = "archived"
     THEN At(s, "refused", resetting) /\ UNCHANGED recorded
     ELSE At(s, "off", resetting) /\ At(s, NoSandbox, recorded)
  /\ UNCHANGED <<rows, sandbox, work, idles, lock, found, providing, releasing, discarding, history>>

TakesToRevive(s) ==
  /\ resetting[s] = "refused" /\ lock = Free
  /\ lock' = <<"revive", s>> /\ At(s, "looks", resetting)
  /\ UNCHANGED <<rows, service, found, providing, recorded, releasing, discarding, history>>

\* Its state is read again: another request may have reset it and put a folder into it.
ToRevive(e) == sandbox[e] = "archived"

Looks(s) ==
  /\ resetting[s] = "looks"
  /\ IF ToRevive(recorded[s])
     THEN At(s, "revives", resetting) /\ UNCHANGED <<lock, found>>
     ELSE At(s, "again", resetting) /\ Unlocked
  /\ UNCHANGED <<rows, service, providing, recorded, releasing, discarding, history>>

Revives(s) ==
  /\ resetting[s] = "revives" /\ At(s, "again", resetting) /\ Unlocked
  /\ Is(recorded[s], "ready") /\ Wiped(recorded[s])
  /\ UNCHANGED <<rows, idles, providing, recorded, releasing, discarding, history>>

\* A call fails, or was served and its answer is lost: the request is over, and lets go.
FailsToReset(s) ==
  /\ resetting[s] \in {"makes", "again", "looks", "revives"}
  /\ \/ UNCHANGED <<sandbox, folders, work>>
     \/ /\ resetting[s] \in {"makes", "again"} /\ sandbox[recorded[s]] = "ready" /\ Made(recorded[s], s)
        /\ UNCHANGED <<sandbox, work>>
     \/ resetting[s] = "revives" /\ Is(recorded[s], "ready") /\ Wiped(recorded[s])
  /\ IF resetting[s] \in {"looks", "revives"} THEN Unlocked ELSE UNCHANGED <<lock, found>>
  /\ At(s, "off", resetting) /\ At(s, NoSandbox, recorded)
  /\ UNCHANGED <<rows, idles, providing, releasing, discarding, history>>

-----------------------------------------------------------------------------
(* release_profile_workspace, under the lock; and the deletion of a conversation. *)

Live == {s \in Session : session[s] = "live"}

Releases ==
  /\ releasing = "off" /\ Spare /\ lock = Free /\ Live = {} /\ Listed # {}
  /\ lock' = <<"release", 0>> /\ releasing' = "destroys" /\ found' \in Listed
  /\ UNCHANGED <<rows, service, providing, resetting, recorded, discarding, history>>

Destroys ==
  /\ releasing = "destroys" /\ releasing' = "forgets"
  /\ Is(found, "destroyed") /\ Wiped(found)
  /\ UNCHANGED <<rows, idles, lock, found, providing, resetting, recorded, discarding, history>>

\* The call raises, served or not: the release is over, and nothing is forgotten.
FailsToDestroy ==
  /\ releasing = "destroys" /\ releasing' = "off" /\ Unlocked
  /\ \/ UNCHANGED <<sandbox, folders, work, stranded>>
     \/ Is(found, "destroyed") /\ Wiped(found) /\ stranded' = stranded \union {found}
  /\ UNCHANGED <<rows, idles, providing, resetting, recorded, discarding, stops>>

\* Whatever has become of the conversations meanwhile, none names the sandbox any more.
Forgotten == [s \in Session |-> IF attached[s] = found THEN NoSandbox ELSE attached[s]]

Forgets ==
  /\ releasing = "forgets" /\ releasing' = "off" /\ Unlocked
  /\ attached' = Forgotten
  /\ UNCHANGED <<session, service, providing, resetting, recorded, discarding, history>>

\* The row is read first, and its folder deleted last, whatever was attached in between. The
\* sweep of archived conversations reads the row as it deletes it.
Reads(s) ==
  /\ session[s] \in {"live", "archived"} /\ discarding[s] = NotAsked /\ Spare
  /\ discarding' = [discarding EXCEPT ![s] = attached[s]]
  /\ UNCHANGED <<rows, service, lock, found, providing, resetting, recorded, releasing, history>>

Deletes(s) ==
  /\ session[s] \in {"live", "archived"}
  /\ \/ discarding[s] # NotAsked /\ UNCHANGED discarding
     \/ session[s] = "archived" /\ discarding[s] = NotAsked /\ Spare /\ discarding' = [discarding EXCEPT ![s] = attached[s]]
  /\ session' = [session EXCEPT ![s] = "gone"] /\ attached' = [attached EXCEPT ![s] = NoSandbox]
  /\ UNCHANGED <<service, lock, found, providing, resetting, recorded, releasing, history>>

Sweeps(s) ==
  /\ session[s] = "gone" /\ discarding[s] # NotAsked
  /\ discarding' = [discarding EXCEPT ![s] = NotAsked]
  /\ \/ discarding[s] \in Sandbox /\ sandbox[discarding[s]] = "ready" /\ Removed(discarding[s], s)
     \/ UNCHANGED <<folders, work>>
  /\ UNCHANGED <<rows, sandbox, idles, lock, found, providing, resetting, recorded, releasing, history>>

-----------------------------------------------------------------------------
\* The service archives a sandbox that sits idle, and wipes it.
Idles(e) ==
  /\ sandbox[e] = "ready" /\ idles + stops < MaxFaults /\ idles' = idles + 1
  /\ Is(e, "archived") /\ Wiped(e)
  /\ UNCHANGED <<rows, lock, found, requests, history>>

Dies ==
  /\ idles + stops < MaxFaults /\ stops' = stops + 1
  /\ stranded' = IF releasing = "forgets" THEN stranded \union {found} ELSE stranded
  /\ Unlocked
  /\ providing' = [s \in Session |-> "off"] /\ resetting' = [s \in Session |-> "off"]
  /\ recorded' = [s \in Session |-> NoSandbox]
  /\ releasing' = "off" /\ discarding' = [s \in Session |-> NotAsked]
  /\ UNCHANGED <<rows, service>>

Next ==
  \/ \E s \in Session :
       \/ Creates(s) \/ Archives(s) \/ Works(s)
       \/ Asks(s) \/ Takes(s) \/ Lists(s) \/ Resets(s) \/ CreatesOne(s) \/ Makes(s) \/ Attaches(s)
       \/ FailsToProvide(s)
       \/ AsksToReset(s) \/ Empties(s) \/ MakesAgain(s) \/ TakesToRevive(s) \/ Looks(s) \/ Revives(s)
       \/ FailsToReset(s)
       \/ Reads(s) \/ Deletes(s) \/ Sweeps(s)
  \/ Releases \/ Destroys \/ FailsToDestroy \/ Forgets
  \/ \E e \in Sandbox : Idles(e)
  \/ Dies

Spec == Init /\ [][Next]_vars

-----------------------------------------------------------------------------
TypeOK ==
  /\ session \in [Session -> {"none", "live", "archived", "gone"}]
  /\ attached \in [Session -> Sandbox \union {NoSandbox}]
  /\ sandbox \in [Sandbox -> {"none", "ready", "archived", "destroyed"}]
  /\ folders \subseteq Sandbox \X Session /\ work \subseteq Session
  /\ lock \in {Free, <<"release", 0>>} \union ({"provide", "revive"} \X Session)
  /\ providing \in [Session -> {"off", "asks", "lists", "resets", "creates", "makes", "attaches"}]
  /\ found \in Sandbox \union {NoSandbox}
  /\ resetting \in [Session -> {"off", "deletes", "makes", "refused", "looks", "revives", "again"}]
  /\ recorded \in [Session -> Sandbox \union {NoSandbox}]
  /\ releasing \in {"off", "destroys", "forgets"}
  /\ discarding \in [Session -> Sandbox \union {NoSandbox, NotAsked}]
  /\ stranded \subseteq Sandbox
  /\ idles \in 0..MaxFaults /\ stops \in 0..MaxFaults

\* A profile never holds a second sandbox, which would cost it another place under the
\* account's cap, whatever failed, was lost or died between a listing and a create.
OneSandbox == Cardinality(Listed) <= 1

\* A conversation names a sandbox that exists, or one that a release is about to make it
\* forget, or one whose release was cut off between destroying and forgetting it: by the
\* process dying, or by an answer that was lost after the sandbox was gone. No failure of
\* another request, and no order of requests, leaves a conversation without its sandbox.
AttachedExists ==
  \A s \in Session : attached[s] # NoSandbox =>
    \/ attached[s] \in Listed \union stranded
    \/ releasing = "forgets" /\ attached[s] = found

\* What a conversation has in its folder is only lost to its own reset or deletion, to the
\* service's archive, or to a release of the whole profile: never to another conversation
\* that provisions, resets or revives the sandbox they share.
LosesOnlyItsOwn ==
  \A s \in work \ work' :
    \/ resetting[s] = "deletes" /\ resetting'[s] = "makes"
    \/ session[s] = "gone"
    \/ idles' > idles
    \/ releasing = "destroys" /\ releasing' \in {"forgets", "off"}

\* No step costs the profile a second sandbox, leaves a conversation naming one that is not
\* there but by a release that is cut off, or loses work that was not the step's to lose.
SandboxIsKept == [][OneSandbox' /\ AttachedExists' /\ LosesOnlyItsOwn]_vars

-----------------------------------------------------------------------------
(* Promises the code makes and does not keep. *)

\* "The session's confined workspace directory goes with it": not the one it is given while
\* it is being deleted, and not while the sandbox is archived or away.
FolderGoesToo ==
  \A s \in Session : session[s] = "gone" /\ discarding[s] = NotAsked /\ providing[s] = "off" =>
    \A e \in Sandbox : <<e, s>> \notin folders

\* "Refused with 409 while the profile has conversations that are not archived": one that is
\* brought back between the look and the destroy loses what it had.
LiveWorkIsKept ==
  [][\A e \in Listed : sandbox'[e] = "destroyed" => work \intersect Live = {}]_vars

\* "And forget it on the sessions that pointed at it, so a later session in the profile makes
\* a fresh one": not after a death in between or an answer that was lost, nor by releasing it
\* again, which finds none.
ReleasedIsForgotten == releasing = "off" => \A s \in Session : attached[s] \in Listed \union {NoSandbox}
=============================================================================
