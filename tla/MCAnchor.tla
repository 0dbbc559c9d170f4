------------------------------ MODULE MCAnchor ------------------------------
(* Anchor on a small instance. *)
EXTENDS Anchor

CONSTANTS p1, p2, p3
=============================================================================
