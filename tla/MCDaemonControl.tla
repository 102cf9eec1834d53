--------------------------- MODULE MCDaemonControl ---------------------------
(* Instances of DaemonControl for TLC. *)
EXTENDS DaemonControl, TLC

CONSTANTS d1, d2, c1, c2

TwoDaemons == {d1, d2}
OneClient == {c1}
TwoClients == {c1, c2}

Alike == Permutations(TwoDaemons) \cup Permutations(TwoClients)
=============================================================================
