---------------------------- MODULE MCScheduler ----------------------------
(* Instances of Scheduler for TLC: t0 runs kmain, the others are launched. *)
EXTENDS Scheduler, TLC

CONSTANTS t0, t1, t2, t3

NotStarted == <<>>
OneStarted == <<t1>>
TwoStarted == <<t1, t2>>
=============================================================================
