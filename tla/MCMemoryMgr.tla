---------------------------- MODULE MCMemoryMgr ----------------------------
(* Instances of MemoryMgr for TLC. *)
EXTENDS MemoryMgr, TLC

\* The tasks are interchangeable: they start alike and no action names one.
TaskSymmetry == Permutations(Tasks)
=============================================================================
