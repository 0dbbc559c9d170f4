----------------------------- MODULE MCWitness ------------------------------
(* Witness on a small instance. *)
EXTENDS Witness
=============================================================================
