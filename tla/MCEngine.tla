------------------------------ MODULE MCEngine ------------------------------
(* Small instances of the engine for TLC. *)
EXTENDS Engine, TLC

CONSTANTS c1, c2, c3, w1, w2, lan

Clients1 == {c1}
Clients3 == {c1, c2, c3}
Radio1 == {w1}
Radio2 == {w1, w2}
Lan == {lan}
EveryKind == {"wifi.associated", "wifi.disassociated", "wired.reachable"}

\* The Wi-Fi provider verifies its events with snapshots and applies none.
AgentKinds == {"wired.reachable"}

OneFailure == {"timeout"}

ClientSymmetry == Permutations(Client)
=============================================================================
