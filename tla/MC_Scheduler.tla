---------------------------- MODULE MC_Scheduler ----------------------------
(* Instances of Scheduler for TLC.                                         *)
EXTENDS Scheduler, TLC

CONSTANTS t1, w1, w2

MC_Interval == (t1 :> 2)
MC_Delay == (t1 :> 1)
=============================================================================
