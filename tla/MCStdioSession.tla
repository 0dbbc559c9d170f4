---------------------------- MODULE MCStdioSession -----------------------------
(* StdioSession on a small instance. *)
EXTENDS StdioSession

CONSTANTS c1, c2, c3, i1, i2

\* Two calls under one id, a third under its own.
ReusedId == c1 :> i1 @@ c2 :> i1 @@ c3 :> i2
=============================================================================
