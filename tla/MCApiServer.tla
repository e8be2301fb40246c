---------------------------- MODULE MCApiServer ----------------------------
(* Small instances of the API for TLC. *)
EXTENDS ApiServer

CONSTANTS k1, k2, k3

ThreeConns == {k1, k2, k3}
=============================================================================
