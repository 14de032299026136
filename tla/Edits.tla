--------------------------------- MODULE Edits ---------------------------------
(***************************************************************************)
(* Files of one sandbox, read and changed by the conversation and its      *)
(* helpers at once (packs/workspace.py over clients/environments.py), and  *)
(* how a quoted text is found in one (workspace/text.py).                  *)
(*                                                                         *)
(* A file is a sequence of lines, a fingerprint the text it was made of.   *)
(* The service is external: it serves a file's beginning, writes what it   *)
(* is told to, and replaces a text that is in the file exactly once.       *)
(***************************************************************************)
EXTENDS Naturals, Sequences, FiniteSets, SequencesExt

CONSTANTS
  Author,       \* who shares the sandbox
  Start,        \* bound: what the files say when the model begins
  Text,         \* bound: what is written, appended and put in the place of something
  Quote,        \* bound: what is quoted of a file
  Loosest,      \* workspace_edit_matching, as it may be set: how many rungs may be tried
  Window,       \* the lines the service serves of a file that is larger
  MaxLines,     \* bound: lines of a file
  MaxReads,     \* bound: readings
  MaxChanges    \* bound: operations that change a file

\* A line: what comes before its words, the space between them, and the words.
Line == [lead : {"", "space", "code"}, gap : {1, 2}, word : {"one", "two", "broken", "joined", "absent", "nothing"}]

EditsAssumption ==
  /\ IsFiniteSet(Author) /\ Loosest \subseteq 1..3
  /\ {Window, MaxLines, MaxReads, MaxChanges} \subseteq Nat
  /\ Start \union Text \union Quote \subseteq Seq(Line) /\ <<>> \notin Start \union Text

\* A file by where it is: this conversation's folder, and another's beside it.
Mine == <<"sessions", "mine">>
File == {Mine \o <<"notes">>, Mine \o <<"draft">>, <<"sessions", "theirs", "notes">>}
Notes == Mine \o <<"notes">>
\* How one may be named: plainly, by a detour, or out of the folder.
Name == {<<"notes">>, <<"draft">>, <<".", "notes">>, <<"..", "mine", "draft">>, <<"..", "theirs", "notes">>}

Only(word) == <<[lead |-> "", gap |-> 1, word |-> word]>>
Absent == Only("absent")
Nothing == Only("nothing")

\* The rungs of the ladder.
Exact == 1
Whitespace == 2
Fuzzy == 3

VARIABLES
  disk,     \* file -> its text, or Absent
  shown,    \* author -> the text its latest fingerprint of Notes was made of, or Nothing
  doing,    \* author -> the change that is on its way to the service
  result,   \* author -> what it was told last of a change
  loosest,  \* the person's setting
  beside,   \* history: authors under whose change another has changed the file
  reads, changes

vars == <<disk, shown, doing, result, loosest, beside, reads, changes>>

Idle == [op |-> "idle", file |-> Notes, guard |-> Nothing, seen |-> Nothing, text |-> <<>>,
         quote |-> <<>>, rung |-> 0, joins |-> FALSE, says |-> Nothing]
NoResult == [op |-> "none", done |-> FALSE, guard |-> Nothing, seen |-> Nothing, says |-> Nothing,
             was |-> Nothing, left |-> Nothing, rung |-> 0, alone |-> TRUE]

Init ==
  /\ \E text \in Start :
       disk = [f \in File |-> IF f = Mine \o <<"draft">> THEN Absent ELSE text]
  /\ shown = [a \in Author |-> Nothing] /\ doing = [a \in Author |-> Idle]
  /\ result = [a \in Author |-> NoResult] /\ loosest \in Loosest
  /\ beside = {} /\ reads = 0 /\ changes = 0

-----------------------------------------------------------------------------
(* Finding a quoted text. *)

\* Of a quote's first line what comes before it does not matter, unless it quotes that too.
Reads(l, q, first) ==
  l.gap = q.gap /\ l.word = q.word /\ (l.lead = q.lead \/ (first /\ q.lead = ""))
Occurs(text, q) ==
  {i \in 1..Len(text) : /\ i + Len(q) - 1 <= Len(text)
                       /\ \A k \in DOMAIN q : Reads(text[i + k - 1], q[k], k = 1)}

\* A line apart from its spacing.
Fold(l) == [lead |-> IF l.lead = "code" THEN "code" ELSE "", word |-> l.word]
Folded(text, q) ==
  {i \in 1..Len(text) : /\ i + Len(q) - 1 <= Len(text)
                       /\ \A k \in DOMAIN q : Fold(text[i + k - 1]) = Fold(q[k])}

\* From a line like the quote's first to the next like its last.
Anchored(text, q) ==
  {w \in (DOMAIN text) \X (DOMAIN text) :
     /\ w[1] <= w[2] /\ Fold(text[w[1]]) = Fold(q[1]) /\ Fold(text[w[2]]) = Fold(Last(q))
     /\ \A j \in w[1]..w[2] - 1 : Fold(text[j]) # Fold(Last(q))}

Match(from, to, text, rung) == [from |-> from, to |-> to, text |-> text, rung |-> rung]

\* The ladder stops at the first rung that finds anything. How alike two texts are is
\* difflib's to say.
Located(text, q, rungs, alike) ==
  LET exact == {Match(i, i + Len(q) - 1, q, Exact) : i \in Occurs(text, q)}
      folded == {Match(i, i + Len(q) - 1, SubSeq(text, i, i + Len(q) - 1), Whitespace) :
                   i \in Folded(text, q)}
      near == {Match(w[1], w[2], SubSeq(text, w[1], w[2]), Fuzzy) : w \in Anchored(text, q)} IN
  IF q = <<>> THEN {}
  ELSE IF exact # {} THEN exact
  ELSE IF rungs >= Whitespace /\ folded # {} THEN folded
  ELSE IF rungs = Fuzzy /\ alike THEN near ELSE {}

\* What a quote leaves of its first line stays before what takes its place. A looser match is
\* of whole lines with the end of the last one, which a replacement may not bring.
Spliced(text, m, new, joins) ==
  LET kept == [new EXCEPT ![1].lead = IF m.text[1].lead = text[m.from].lead THEN @
                                      ELSE text[m.from].lead]
      before == SubSeq(text, 1, m.from - 1)
      after == SubSeq(text, m.to + 1, Len(text)) IN
  IF m.rung = Exact THEN before \o kept \o after
  ELSE IF joins /\ after # <<>>
       THEN before \o [kept EXCEPT ![Len(kept)].word = "joined"] \o Tail(after)
       ELSE before \o kept \o after

\* Whether the text still parses, where anybody knows how to.
Valid(text) == \A i \in DOMAIN text : text[i].word # "broken"

-----------------------------------------------------------------------------
(* The service. *)

FirstOf(text, n) == SubSeq(text, 1, IF n < Len(text) THEN n ELSE Len(text))
Served(file) == FirstOf(disk[file], Window)
There(file) == file \in DOMAIN disk /\ disk[file] # Absent

\* A change is made and said so, is made and its answer lost, or fails.
Outcome == {"done", "lost", "failed"}

Puts(a, file, text) ==
  /\ disk' = [disk EXCEPT ![file] = text]
  /\ beside' = IF disk[file] = text THEN beside
               ELSE beside \union {b \in Author \ {a} : doing[b].op # "idle" /\ doing[b].file = file}
Leaves == UNCHANGED <<disk, beside>>

-----------------------------------------------------------------------------
(* Naming a file. *)

\* normpath, and refused if it would leave the folder.
Normal(name) ==
  FoldSeq(LAMBDA part, path : CASE part = "." -> path
                                [] part = ".." -> IF path = <<>> THEN path ELSE Front(path)
                                [] OTHER -> Append(path, part), Mine, name)
Confined(name) == Normal(name) # Mine /\ IsPrefix(Mine, Normal(name))

-----------------------------------------------------------------------------
(* Reading. *)

\* The whole of what is served, or less of it when that was asked for; the fingerprint is of
\* what came.
ReadsFile(a) ==
  /\ reads < MaxReads /\ reads' = reads + 1
  /\ \E n \in {1, Window} : shown' = [shown EXCEPT ![a] = FirstOf(disk[Notes], n)]
  /\ There(Notes) /\ UNCHANGED <<disk, doing, result, loosest, beside, changes>>

-----------------------------------------------------------------------------
(* Changing. *)

Told(a, op, done, seen, says, rung) ==
  result' = [result EXCEPT ![a] = [NoResult EXCEPT !.op = op, !.done = done, !.seen = seen,
    !.guard = doing[a].guard, !.says = says, !.rung = rung, !.was = Served(doing[a].file),
    !.left = disk'[doing[a].file], !.alone = a \notin beside]]

Begins(a) == doing[a] = Idle /\ changes < MaxChanges /\ changes' = changes + 1
Stops(a) == doing' = [doing EXCEPT ![a] = Idle]
NowShown(a, file, text) == shown' = IF file = Notes THEN [shown EXCEPT ![a] = text] ELSE shown

\* A change carries the fingerprint of the last reading, or none.
Guards(a) == {Nothing, shown[a]}
Stale_Never(file, guard) == FALSE
Stale(file, guard) == guard # Nothing /\ Served(file) # guard

Refuses(a, file) ==
  /\ UNCHANGED <<disk, doing, result>> /\ NowShown(a, file, Served(file))

Goes(a, op, file, guard, seen, text) ==
  doing' = [doing EXCEPT ![a] = [Idle EXCEPT !.op = op, !.file = file, !.guard = guard,
                                             !.seen = seen, !.text = text]]

\* _write and _patch look at the file only for a guard; what is written is parsed first.
ChecksWrite(a) ==
  /\ Begins(a)
  /\ \E name \in Name, op \in {"overwrite", "append", "patch"}, text \in Text :
       /\ Confined(name)
       /\ LET file == Normal(name) IN
          \E guard \in IF file = Notes THEN Guards(a) ELSE {Nothing} :
            /\ guard # Nothing => There(file)
            /\ IF guard # Nothing /\ Stale(file, guard) THEN Refuses(a, file)
               ELSE /\ IF op # "patch" /\ ~ Valid(text) THEN UNCHANGED doing
                       ELSE Goes(a, op, file, guard,
                                 IF guard = Nothing THEN Nothing ELSE Served(file), text)
                    /\ UNCHANGED <<disk, shown, result>>
  /\ beside' = beside \ {a} /\ UNCHANGED <<loosest, reads>>

Written(op, file, text) ==
  IF op = "overwrite" \/ ~ There(file) THEN text
  ELSE IF op = "append" THEN disk[file] \o text ELSE text \o Tail(disk[file])

\* The fingerprint that is answered is of what was sent; a patch answers with none.
Writes(a) ==
  LET do == doing[a] IN
  /\ do.op \in {"overwrite", "append", "patch"} /\ Stops(a)
  /\ \E how \in Outcome :
       /\ IF how = "failed" \/ (do.op = "patch" /\ ~ There(do.file)) THEN Leaves
          ELSE /\ Len(Written(do.op, do.file, do.text)) <= MaxLines
               /\ Puts(a, do.file, Written(do.op, do.file, do.text))
       /\ Told(a, do.op, how = "done" /\ (do.op = "patch" => There(do.file)), do.seen, do.text, 0)
       /\ IF how = "done" /\ do.op # "patch" THEN NowShown(a, do.file, do.text) ELSE UNCHANGED shown
  /\ UNCHANGED <<loosest, reads, changes>>

\* _edit reads the file, finds the quote, and parses what would come of it.
ReadsToEdit(a) ==
  /\ Begins(a) /\ There(Notes)
  /\ \E guard \in Guards(a), q \in Quote, new \in Text, alike, joins \in BOOLEAN :
       LET text == Served(Notes)
           found == Located(text, q, loosest, alike) IN
       IF Stale(Notes, guard) \/ Cardinality(found) # 1 THEN Refuses(a, Notes)
       ELSE LET m == CHOOSE x \in found : TRUE
                applied == Spliced(text, m, new, joins) IN
            IF ~ Valid(applied) THEN Refuses(a, Notes)
            ELSE /\ doing' = [doing EXCEPT ![a] =
                      [op |-> "edit", file |-> Notes, guard |-> guard, seen |-> text, text |-> new,
                       quote |-> m.text, rung |-> m.rung, joins |-> joins, says |-> applied]]
                 /\ UNCHANGED <<disk, shown, result>>
  /\ beside' = beside \ {a} /\ UNCHANGED <<loosest, reads>>

\* The service looks for the text that was found, in the file as it is by now.
Replaces(a) ==
  LET do == doing[a]
      text == disk[do.file]
      places == IF There(do.file) THEN Occurs(text, do.quote) ELSE {} IN
  /\ do.op = "edit" /\ Stops(a)
  /\ \E how \in Outcome :
       /\ IF how = "failed" \/ Cardinality(places) # 1 THEN Leaves
          ELSE LET i == CHOOSE x \in places : TRUE IN
               Puts(a, do.file, Spliced(text, Match(i, i + Len(do.quote) - 1, do.quote, do.rung),
                                        do.text, do.joins))
       /\ LET done == how = "done" /\ Cardinality(places) = 1 IN
          /\ Told(a, "edit", done, do.seen, do.says, do.rung)
          /\ IF done THEN NowShown(a, do.file, do.says) ELSE UNCHANGED shown
  /\ UNCHANGED <<loosest, reads, changes>>

\* Neither looks at the file first. A move to what is there is refused.
Removes(a) ==
  /\ Begins(a)
  /\ \E name \in Name : Confined(name) /\ There(Normal(name)) /\ Puts(a, Normal(name), Absent)
  /\ UNCHANGED <<shown, doing, result, loosest, reads>>

Moves(a) ==
  /\ Begins(a)
  /\ \E from, to \in Name :
       /\ Confined(from) /\ Confined(to) /\ There(Normal(from)) /\ ~ There(Normal(to))
       /\ disk' = [disk EXCEPT ![Normal(to)] = disk[Normal(from)], ![Normal(from)] = Absent]
       /\ beside' = beside \union {b \in Author \ {a} : doing[b].op # "idle"}
  /\ UNCHANGED <<shown, doing, result, loosest, reads>>

Next ==
  \E a \in Author :
    \/ ReadsFile(a) \/ ChecksWrite(a) \/ Writes(a)
    \/ ReadsToEdit(a) \/ Replaces(a) \/ Removes(a) \/ Moves(a)

Spec == Init /\ [][Next]_vars

-----------------------------------------------------------------------------
\* The shape of every variable.
TypeOK ==
  /\ disk \in [File -> Seq(Line)]
  /\ \A a \in Author : doing[a].op \in {"idle", "overwrite", "append", "patch", "edit"}
  /\ loosest \in Loosest /\ beside \subseteq Author
  /\ reads \in 0..MaxReads /\ changes \in 0..MaxChanges

\* "If another write landed first, it does not apply": whoever changes a file with a
\* fingerprint is told it is done only if the file, when it was looked at for that, read as
\* its author had been shown it, and if it read so still when it was changed, where nobody
\* else changed a file between that look and the change. (What somebody writes there is
\* overwritten unseen: StaleIsRefused.)
GuardSaw ==
  \A a \in Author : LET r == result[a] IN
    r.done /\ r.guard # Nothing => r.seen = r.guard /\ (r.alone => r.was = r.guard)

\* An edit nobody else came between leaves the file as the answer's fingerprint says, with
\* nothing in it that does not parse, and quotes no more loosely than the person allows.
EditIsWhatItSays ==
  \A a \in Author : result[a].op = "edit" /\ result[a].done /\ result[a].alone =>
    /\ result[a].rung <= loosest
    /\ Len(result[a].seen) < Window => result[a].left = result[a].says /\ Valid(result[a].left)

\* No name leads into another conversation's folder.
OthersAreLeft == \A file \in File : ~ IsPrefix(Mine, file) => disk[file] \in Start

\* The three together: what a change undoes was shown to its author, and what it leaves is
\* what it says, unless somebody comes between; and nothing of another's folder is touched.
ChangesAreInformed == GuardSaw /\ EditIsWhatItSays /\ OthersAreLeft

-----------------------------------------------------------------------------
(* Refuted. *)

\* "A stale write is refused rather than overwriting someone else's change" (read's own
\* description): the look and the write are two calls.
StaleIsRefused ==
  \A a \in Author : result[a].done /\ result[a].guard # Nothing => result[a].alone

\* A fingerprint that came with an answer names the file: an append answers with that of what
\* it added.
AnswerNamesTheFile ==
  \A a \in Author : result[a].done /\ result[a].alone /\ result[a].op \in {"overwrite", "append"}
    => result[a].says = result[a].left

\* "A validation failure never becomes a corrupted file": a patch is not parsed.
NeverBroken == \A a \in Author : result[a].done /\ result[a].alone => Valid(result[a].left)

\* An edit leaves the line after the quote a line of its own.
LinesStayApart == \A a \in Author : result[a].done =>
  \A i \in DOMAIN result[a].left : result[a].left[i].word # "joined"
=============================================================================
