--------------------------- MODULE MCOutputStream ---------------------------
(* Instances of OutputStream for TLC. *)
EXTENDS OutputStream

CONSTANTS h1

OneHandler == {h1}
StdoutKinds == {"incremental", "full", "query", "offset"}
IncrementalOnly == {"incremental"}
=============================================================================
