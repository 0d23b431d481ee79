---------------------------- MODULE MCSnarkProver ----------------------------
(* Instances of SnarkProver for TLC. *)
EXTENDS SnarkProver, MCSnarkJobs
=============================================================================
