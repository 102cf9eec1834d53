---------------------------- MODULE StreamWindow ----------------------------
(***************************************************************************)
(* What a session promises the one client that reads it incrementally:     *)
(* the stream only grows, its retained part is a window of at most Cap     *)
(* bytes that only moves forward and always ends with the newest byte, and *)
(* the consumer's position only moves forward and never past the end.      *)
(***************************************************************************)
EXTENDS Integers

CONSTANT Cap

VARIABLES
  lo,   \* first retained stream position
  hi,   \* end of the stream
  at    \* position of the consumer

vars == <<lo, hi, at>>

Init == lo = 0 /\ hi = 0 /\ at = 0

\* The child writes; old bytes may leave the window.
Grow ==
  /\ hi' > hi
  /\ lo' \in lo..hi'
  /\ hi' - lo' <= Cap
  /\ UNCHANGED at

\* A delivery moves the consumer forward to a position of the stream.
Consume ==
  /\ at' > at
  /\ at' <= hi
  /\ UNCHANGED <<lo, hi>>

Next == Grow \/ Consume

Spec == Init /\ [][Next]_vars
=============================================================================
