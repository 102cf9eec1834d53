--------------------------- MODULE MCFileTransfer ---------------------------
(* Two files moved over one connection, in up to three transfers, with     *)
(* one edit of a user.                                                     *)
EXTENDS FileTransfer
CONSTANTS f1, f2
MCFiles == {f1, f2}
MCPlace == [f \in MCFiles |-> IF f = f1 THEN 1 ELSE 2]
=============================================================================
