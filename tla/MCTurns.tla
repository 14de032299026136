------------------------------- MODULE MCTurns -------------------------------
(* Instances of Turns for TLC. *)
EXTENDS Turns, TLC

CONSTANTS s1, s2, s3, absent

Sessions1 == {s1}
Sessions2 == {s1, s2}
Sessions3 == {s1, s2, s3}

\* Sessions are interchangeable in every safety run.
SessionSymmetry == Permutations(Session)
=============================================================================
