------------------------------- MODULE MCWake -------------------------------
(* Instances of Wake for TLC. *)
EXTENDS Wake, TLC

CONSTANTS e1, e2

OneEnding == {e1}
TwoEndings == {e1, e2}
Alike == Permutations(TwoEndings)
Enqueue == {"enqueue"}
AnyPolicy == {"enqueue", "reject", "interrupt"}
=============================================================================
