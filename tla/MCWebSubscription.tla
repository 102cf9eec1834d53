------------------------- MODULE MCWebSubscription -------------------------
(* Instances of WebSubscription for TLC. *)
EXTENDS WebSubscription

CONSTANTS c1, c2

TwoConns == {c1, c2}
=============================================================================
