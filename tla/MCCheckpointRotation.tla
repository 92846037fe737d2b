------------------------- MODULE MCCheckpointRotation -------------------------
(* Small instances of CheckpointRotation for TLC. *)
EXTENDS CheckpointRotation

KeepTwo == [k \in Role |-> 2]

CrashAnywhere == RunPoints
===============================================================================
