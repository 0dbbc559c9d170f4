--------------------------- MODULE MCLeaseRecovery --------------------------
(* LeaseRecovery on a small instance. *)
EXTENDS LeaseRecovery

CONSTANTS p1, p2, p3
=============================================================================
