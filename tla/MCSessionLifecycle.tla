------------------------ MODULE MCSessionLifecycle ------------------------
(* Instances of SessionLifecycle for TLC. *)
EXTENDS SessionLifecycle

CONSTANTS u1, u2, s1, k1, h1, h2

OneUid == {u1}
TwoUids == {u1, u2}
OneSid == {s1}
SameSid == [u \in Uids |-> s1]
NoClient == {}
OneKiller == {k1}
OneHandler == {h1}
TwoHandlers == {h1, h2}
=============================================================================
