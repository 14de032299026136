------------------------------- MODULE MCCoder -------------------------------
(* An instance of Coder for TLC: its constants are numbers. *)
EXTENDS Coder
=============================================================================
