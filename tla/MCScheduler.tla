---------------------------- MODULE MCScheduler -----------------------------
(* Small instances of Scheduler for TLC.                                   *)
EXTENDS Scheduler, TLC

CONSTANTS t1, t2, t3, t4, w1, w2, s1

(* Two start_runtime calls.                                                *)
TwoRuns  == << {t1, t2}, {t3} >>
=============================================================================
