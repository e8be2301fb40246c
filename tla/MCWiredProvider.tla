--------------------------- MODULE MCWiredProvider ---------------------------
(* Small instances of the two providers for TLC. *)
EXTENDS WiredProvider

CONSTANTS c1, c2, w1, w2

OneClient == {c1}
TwoClients == {c1, c2}
Radio1 == {w1}
Radio2 == {w1, w2}
LanOnly == {Lan}
AgentKinds == {"wired.reachable"}
OneFailure == {"timeout"}
=============================================================================
