---------------------------- MODULE MCFuzzySync -----------------------------
(* Instances of FuzzySync for TLC. *)
EXTENDS FuzzySync
=============================================================================
