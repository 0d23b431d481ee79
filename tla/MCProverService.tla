-------------------------- MODULE MCProverService --------------------------
(* Instances of ProverService for TLC. *)
EXTENDS ProverService, MCSnarkJobs
=============================================================================
