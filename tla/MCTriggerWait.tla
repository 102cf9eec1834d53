---------------------------- MODULE MCTriggerWait ----------------------------
(* Instances of TriggerWait for TLC. *)
EXTENDS TriggerWait

CONSTANTS w1, w2, A, B

OneWaiter == {w1}
TwoWaiters == {w1, w2}
TwoPatterns == {A, B}
SomeNewlines == {{}, {2}, {1, 4}}
NoNewlines == {{}}
=============================================================================
