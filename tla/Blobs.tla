-------------------------------- MODULE Blobs --------------------------------
(***************************************************************************)
(* Files of one account and artifacts of one session: rows in SQLite and   *)
(* bytes on disk beside them (blobs/store.py), written on the one SQL      *)
(* worker, and the replies kept for a repeated request in the transaction  *)
(* that did its work (sessions/sql_store.py idempotent), for an hour.      *)
(*                                                                         *)
(* A call to the worker is a script of statements. What a transaction      *)
(* wrote is gone when the process dies before its commit, or when one of   *)
(* its statements fails; what it did to the disk is not.                   *)
(***************************************************************************)
EXTENDS Naturals, Sequences, FiniteSets

CONSTANTS
  Key,         \* idempotency keys of uploads: one for each file a person means to keep
  MaxBlobs,    \* bound: identifiers that are ever given out
  MaxCalls,    \* bound: calls to the worker
  MaxCrashes   \* bound: how often the process dies

Blob == 1..MaxBlobs
Artifact == "artifact"  \* in place of a key: the session's, and goes with it

BlobsAssumption ==
  {MaxBlobs, MaxCalls, MaxCrashes} \subseteq Nat /\ {Artifact, "none"} \intersect Key = {}
Nothing == 0

VARIABLES
  rows,     \* committed: blob -> the key its row was made for, Artifact, or "none"
  replies,  \* committed: key -> the blob the stored reply names, or Nothing
  session,  \* committed: whether the session's row is there
  disk,     \* blob -> its bytes: none yet, part, whole, or removed
  tx,       \* what the transaction under way has made of the rows, replies and session
  running,  \* the call under way: its script's name, where it is, its blob and key
  calls, crashes,
  made      \* history: key -> how many rows were committed for it since its reply last expired

vars == <<rows, replies, session, disk, tx, running, calls, crashes, made>>

Committed == [rows |-> rows, replies |-> replies, session |-> session]
Idle == [script |-> "none", pc |-> 1, blob |-> Nothing, key |-> "none"]

Init ==
  /\ rows = [b \in Blob |-> "none"] /\ replies = [k \in Key |-> Nothing] /\ session = TRUE
  /\ disk = [b \in Blob |-> "none"] /\ tx = Committed /\ running = Idle
  /\ calls = 0 /\ crashes = 0 /\ made = [k \in Key |-> 0]

-----------------------------------------------------------------------------
(* The calls. *)

Script_RepliesLater(name) ==
  CASE name = "upload" -> <<"insert", "write", "commit", "record", "commit">>
    [] name = "artifact" -> <<"insert", "write", "commit">>
    [] name = "delete" -> <<"drop", "unlink", "commit">>
    [] name = "unlink_session" -> <<"unlink_artifacts", "commit">>
    [] name = "drop_session" -> <<"drop_session", "commit">>
    [] name = "erase" -> <<"unlink_all", "drop_all", "commit">>

\* upload, put_artifact, delete, delete_session, SessionStore.delete and erase_account.
Script(name) ==
  CASE name = "upload" -> <<"insert", "write", "record", "commit">>
    [] name = "artifact" -> <<"insert", "write", "commit">>
    [] name = "delete" -> <<"drop", "unlink", "commit">>
    [] name = "unlink_session" -> <<"unlink_artifacts", "commit">>
    [] name = "drop_session" -> <<"drop_session", "commit">>
    [] name = "erase" -> <<"unlink_all", "drop_all", "commit">>

Fresh == {b \in Blob : \A c \in Blob : c < b => rows[c] # "none" \/ disk[c] # "none"}
Unused == {b \in Fresh : rows[b] = "none" /\ disk[b] = "none"}

Calls(name, blob, key) ==
  /\ running = Idle /\ calls < MaxCalls
  /\ calls' = calls + 1 /\ tx' = Committed
  /\ running' = [script |-> name, pc |-> 1, blob |-> blob, key |-> key]
  /\ UNCHANGED <<rows, replies, session, disk, crashes, made>>

\* A request whose reply is stored is answered with it; any may be sent again, its answer lost.
Uploads(k) == replies[k] = Nothing /\ \E b \in Unused : Calls("upload", b, k)
PutsArtifact == session /\ \E b \in Unused : Calls("artifact", b, Artifact)
Deletes(b) == rows[b] \in Key /\ Calls("delete", b, rows[b])
\* discard_session makes two calls: others run in between, and it may not come to the second.
Discards == session /\ Calls("unlink_session", Nothing, "none")
Forgets == session /\ Calls("drop_session", Nothing, "none")
Erases == Calls("erase", Nothing, "none")

\* An hour goes by, and the next idempotent call removes the reply before it looks for one
\* (sql_store.py:339): whoever looks finds it gone from now on, and a retry does the work again.
\* The call under way took the time when it began.
Expires(k) ==
  /\ running = Idle /\ replies[k] # Nothing
  /\ replies' = [replies EXCEPT ![k] = Nothing] /\ made' = [made EXCEPT ![k] = 0]
  /\ UNCHANGED <<rows, session, disk, running, calls, crashes>>
  /\ tx' = Committed'

-----------------------------------------------------------------------------
(* The worker. *)

Of(kinds) == {b \in Blob : tx.rows[b] \in kinds}
Unlinked(gone) == disk' = [b \in Blob |-> IF b \in gone THEN "removed" ELSE disk[b]]
Without(gone) == [b \in Blob |-> IF b \in gone THEN "none" ELSE tx.rows[b]]
Statement == Script(running.script)[running.pc]
Goes == running' = [running EXCEPT !.pc = @ + 1] /\ UNCHANGED <<calls, crashes>>

\* A statement within the transaction.
Writes ==
  /\ running # Idle /\ Goes /\ UNCHANGED <<rows, replies, session, disk, made>>
  /\ \/ Statement = "insert" /\ tx' = [tx EXCEPT !.rows[running.blob] = running.key]
     \/ Statement = "record" /\ tx' = [tx EXCEPT !.replies[running.key] = running.blob]
     \/ Statement = "drop" /\ tx' = [tx EXCEPT !.rows = Without({running.blob})]
     \/ Statement = "drop_session" /\ tx' = [tx EXCEPT !.rows = Without(Of({Artifact})), !.session = FALSE]
     \/ Statement = "drop_all"
        /\ tx' = [tx EXCEPT !.rows = Without(Blob), !.session = FALSE]

\* One that touches the disk.
Touches ==
  /\ running # Idle /\ Goes /\ UNCHANGED <<rows, replies, session, tx, made>>
  /\ \/ Statement = "write" /\ disk' = [disk EXCEPT ![running.blob] = "whole"]
     \/ Statement = "unlink" /\ Unlinked({running.blob})
     \/ Statement = "unlink_artifacts" /\ Unlinked(Of({Artifact}))
     \/ Statement = "unlink_all" /\ Unlinked(Of(Key \union {Artifact}))

Commits ==
  /\ running # Idle /\ Statement = "commit"
  /\ rows' = tx.rows /\ replies' = tx.replies /\ session' = tx.session
  /\ made' = [k \in Key |-> made[k] + Cardinality({b \in Of({k}) : rows[b] # k})]
  /\ running' = IF running.pc = Len(Script(running.script)) THEN Idle ELSE [running EXCEPT !.pc = @ + 1]
  /\ UNCHANGED <<disk, tx, calls, crashes>>

\* The disk is full as bytes are written: some are there, the transaction is rolled back.
Fails ==
  /\ running # Idle /\ Statement = "write"
  /\ disk' = [disk EXCEPT ![running.blob] = "part"]
  /\ tx' = Committed /\ running' = Idle
  /\ UNCHANGED <<rows, replies, session, calls, crashes, made>>

\* The process dies, maybe as bytes are written.
Crashes ==
  /\ crashes < MaxCrashes /\ crashes' = crashes + 1
  /\ tx' = Committed /\ running' = Idle
  /\ disk' \in {disk} \union
       IF running # Idle /\ Statement = "write" THEN {[disk EXCEPT ![running.blob] = "part"]} ELSE {}
  /\ UNCHANGED <<rows, replies, session, calls, made>>

Next ==
  \/ \E k \in Key : Uploads(k) \/ Expires(k)
  \/ \E b \in Blob : Deletes(b)
  \/ PutsArtifact \/ Discards \/ Forgets \/ Erases
  \/ Writes \/ Touches \/ Commits \/ Fails \/ Crashes

Spec == Init /\ [][Next]_vars

-----------------------------------------------------------------------------
\* The shape of every variable.
TypeOK ==
  /\ {rows, tx.rows} \subseteq [Blob -> Key \union {Artifact, "none"}]
  /\ {replies, tx.replies} \subseteq [Key -> Blob \union {Nothing}]
  /\ {session, tx.session} \subseteq BOOLEAN
  /\ disk \in [Blob -> {"none", "part", "whole", "removed"}]
  /\ calls \in 0..MaxCalls /\ crashes \in 0..MaxCrashes /\ made \in [Key -> Nat]

\* However often a request is sent, fails or dies on its way, it makes one row for as long as its
\* reply is kept, and the reply that is stored is there whenever the row was made ("Two commits
\* would leave a window in which the work is done and a retry arriving inside it does the work
\* again", idempotent); and a row's bytes are all there unless a call that was to remove them
\* has: a write that fails or is cut off leaves no row without its bytes.
UploadsAreKept ==
  /\ \A k \in Key : made[k] <= 1 /\ (made[k] = 1 <=> replies[k] # Nothing)
  /\ \A b \in Blob : rows[b] # "none" => disk[b] \in {"whole", "removed"}

-----------------------------------------------------------------------------
(* Refuted. *)

\* A row has its bytes: not after a crash between the unlink and the commit, nor when a
\* session is not deleted after its artifacts were.
RowHasItsBytes == running = Idle => \A b \in Blob : rows[b] # "none" => disk[b] = "whole"

\* Bytes have a row: not what a failed or dying upload wrote, nor an artifact that is put
\* between the two calls of discard_session.
BytesHaveARow == running = Idle => \A b \in Blob : disk[b] \in {"part", "whole"} => rows[b] # "none"

\* "retrying the same body returns the original file" (api/routers/files.py:46): an hour later
\* it makes another.
OneFileForAKey == \A k \in Key : Cardinality({b \in Blob : rows[b] = k}) <= 1
=============================================================================
