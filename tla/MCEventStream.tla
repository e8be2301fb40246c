--------------------------- MODULE MCEventStream ---------------------------
(* Small instances of the event stream for TLC. *)
EXTENDS EventStream

CONSTANTS c1, c2, w1, w2, lan, ha, hb

OneClient == {c1}
TwoClients == {c1, c2}
Radio == {w1}
NoLan == {}
Lan == {lan}
AgentKinds == {"wired.reachable"}
OneFailure == {"timeout"}
OneConsumer == {ha}
TwoConsumers == {ha, hb}
=============================================================================
