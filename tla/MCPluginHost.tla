---------------------------- MODULE MCPluginHost -----------------------------
(* Instances of PluginHost for TLC. *)
EXTENDS PluginHost, TLC

CONSTANTS a1, a2, h1, w1, w2

\* Two instances of one plugin.
TwoInstances == {a1, a2}
OneName == (a1 :> "A") @@ (a2 :> "A")
Alike == Permutations(TwoInstances) \cup Permutations({w1, w2})
=============================================================================
