--------------------------- MODULE MCSpawnRuntime ---------------------------
(* Small instances of SpawnRuntime for TLC.                                *)
EXTENDS SpawnRuntime

CONSTANTS t1, t2, t3, w1, w2, s1, s2
=============================================================================
