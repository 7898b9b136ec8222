------------------------------- MODULE MCChan -------------------------------
(* Small instances of Chan for TLC.                                        *)
EXTENDS Chan

CONSTANTS a, b, c, d, v1, v2, v3
=============================================================================
