------------------------------ MODULE MCAgent ------------------------------
(* Small instances of the agent process for TLC. *)
EXTENDS Agent

CONSTANTS k1, p1, p2, i1, i2

OneConn == {k1}
OneProcess == {p1}
TwoProcesses == {p1, p2}
Ids == {i1, i2}
=============================================================================
