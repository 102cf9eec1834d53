--------------------------- MODULE MCSizeControl ---------------------------
(* Instances of SizeControl for TLC. *)
EXTENDS SizeControl, TLC

CONSTANTS c1, c2, c3, u1, u2, s1, s2

ThreeConns == {c1, c2, c3}
TwoUsers == {u1, u2}
\* Two tabs of one user, one of another.
Two_One == c1 :> u1 @@ c2 :> u1 @@ c3 :> u2
TwoSizes == {s1, s2}
Alike == Permutations({c1, c2})
=============================================================================
