---------------------------- MODULE WatchPromise ----------------------------
(***************************************************************************)
(* What a conversation is promised about the work siblings finish for it,  *)
(* with nothing of futures, timers, sweeps or listeners: each piece of      *)
(* work is opened once and ends once, as it is written down, and the        *)
(* conversation hears of one ending while the process lives. What it hears  *)
(* was written down first, unless it is an ending the hub itself decided.   *)
(* Subscriptions.tla is shown to implement this module.                     *)
(***************************************************************************)
CONSTANT Sub   \* the pieces of work

VARIABLES ledger,  \* what is written down of each
          news     \* what the conversation was last told of each, in this process

Decided == {"cancelled", "timed_out"}
Endings == Decided \union {"succeeded", "failed"}

Init ==
  /\ ledger = [s \in Sub |-> "absent"]
  /\ news = [s \in Sub |-> "none"]

Open(s) ==
  /\ ledger[s] = "absent"
  /\ ledger' = [ledger EXCEPT ![s] = "running"]
  /\ UNCHANGED news

End(s) ==
  /\ ledger[s] = "running"
  /\ \E how \in Endings : ledger' = [ledger EXCEPT ![s] = how]
  /\ UNCHANGED news

\* The conversation follows pieces of work that are not over.
Follow(ss) ==
  /\ \A s \in ss : ledger[s] = "running" /\ news[s] = "none"
  /\ news' = [s \in Sub |-> IF s \in ss THEN "running" ELSE news[s]]
  /\ UNCHANGED ledger

Hear(s) ==
  /\ news[s] = "running"
  /\ \E how \in Decided \union ({ledger[s]} \ {"running"}) : news' = [news EXCEPT ![s] = how]
  /\ UNCHANGED ledger

Restart == news' = [s \in Sub |-> "none"] /\ UNCHANGED ledger

Next ==
  \/ \E s \in Sub : Open(s) \/ End(s) \/ Hear(s)
  \/ \E ss \in SUBSET Sub : Follow(ss)
  \/ Restart

Spec == Init /\ [][Next]_<<ledger, news>>
=============================================================================
