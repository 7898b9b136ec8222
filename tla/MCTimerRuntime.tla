--------------------------- MODULE MCTimerRuntime ---------------------------
(* Small instances of TimerRuntime for TLC: main submits all the tasks, or *)
(* one of them is created by another.                                      *)
EXTENDS TimerRuntime

CONSTANTS t1, t2, t3, w1, w2, s1

AllTasks  == << Tasks >>
AllButOne == << Tasks \ {t2} >>
=============================================================================
