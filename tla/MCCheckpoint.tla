---------------------------- MODULE MCCheckpoint ----------------------------
(* An instance of Checkpoint: three processes, one checkpoint and  *)
(* an id that is out of range.                                             *)
EXTENDS Checkpoint
=============================================================================
