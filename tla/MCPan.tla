------------------------------- MODULE MCPan --------------------------------
(***************************************************************************)
(* ltp-pan with a few processes, for TLC.                                  *)
(***************************************************************************)
EXTENDS Pan, TLC

\* -s is not given.
Unset == -1

PidSymmetry == Permutations(Pids)

FairSpec == Spec /\ Scheduled
=============================================================================
