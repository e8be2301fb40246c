--------------------------- MODULE MCUbusProvider ---------------------------
(* Small instances of the Wi-Fi provider for TLC. *)
EXTENDS UbusProvider, TLC

CONSTANTS c1, c2, w1, w2

OneClient == {c1}
TwoClients == {c1, c2}
Radio1 == {w1}
Radio2 == {w1, w2}
NoLan == {}
NoKinds == {}
OneFailure == {"timeout"}

Renaming == Permutations(Client) \cup Permutations(WiFiSource)
=============================================================================
