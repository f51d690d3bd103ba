------------------------------- MODULE MCZoo --------------------------------
(* Instances of Zoo for TLC. *)
EXTENDS Zoo
=============================================================================
