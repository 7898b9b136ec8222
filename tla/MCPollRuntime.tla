--------------------------- MODULE MCPollRuntime ----------------------------
(* Small instances of PollRuntime for TLC.                                 *)
EXTENDS PollRuntime

CONSTANTS t1, t2, t3
=============================================================================
