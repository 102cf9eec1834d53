--------------------------- MODULE MCNotifications ---------------------------
(* Instances of Notifications for TLC. *)
EXTENDS Notifications, TLC

CONSTANTS p1, p2, w1, w2, c1, A, B

OnePublisher == {p1}
TwoPublishers == {p1, p2}
OneWaiter == {w1}
TwoWaiters == {w1, w2}
OneCommand == {c1}
NoCommand == {}
TwoSessions == {A, B}

Alike == Permutations(TwoPublishers) \cup Permutations(TwoWaiters) \cup Permutations(TwoSessions)
=============================================================================
