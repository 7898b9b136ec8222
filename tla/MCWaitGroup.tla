----------------------------- MODULE MCWaitGroup ----------------------------
(* Small instances of WaitGroup for TLC.                                   *)
EXTENDS WaitGroup

CONSTANTS a, b, c, d

UpAndDown == {-1, 1, 2}
=============================================================================
