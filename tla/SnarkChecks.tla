----------------------------- MODULE SnarkChecks -----------------------------
(***************************************************************************)
(* FRI proofs as the SNARK side sees them, and the checks `run_inner` of   *)
(* crates/zksync_os_snark_prover/src/lib.rs makes of a job's proofs before *)
(* it spends GPU time on them.                                             *)
(*                                                                         *)
(* A FRI proof is known by the program commitment its final registers      *)
(* 18..=25 carry and by whether it comes with a recursion chain that       *)
(* agrees with them.  Continuing a chain with the unified verifier's       *)
(* parameters is the function Continue, which leaves a full chain alone.   *)
(***************************************************************************)
EXTENDS ProtocolVersions

CONSTANT Continue   \* continue_recursion_chain on commitments

ASSUME ContinueAssumption ==
  /\ Continue \in [Commitment -> Commitment]
  /\ \A c \in Commitment : Continue[Continue[c]] = Continue[c]

(* What a binary can have for its commitment: its full chain. *)
Programs == {c \in Commitment : Continue[c] = c}

FriProof == [carried : Commitment, chain : BOOLEAN]

(* output_program_commitment *)
OutputCommitment(p) == IF p.chain THEN Continue[p.carried] ELSE p.carried

(* Mutant: the carried commitment of a single proof is not looked at. *)
PassesChecks_OutputOnly(j) ==
  ProgramCommitmentFor(j.vk) # NoCommitment =>
    \A i \in DOMAIN j.proofs : OutputCommitment(j.proofs[i]) = ProgramCommitmentFor(j.vk)

(* The up-front checks: every proof outputs the version's program, and the *)
(* proof of a single-proof job, which no merge will continue, carries it.  *)
(* A version without a recorded commitment is not checked.                 *)
PassesChecks(j) ==
  LET expected == ProgramCommitmentFor(j.vk)
  IN expected # NoCommitment =>
       \A i \in DOMAIN j.proofs :
          /\ OutputCommitment(j.proofs[i]) = expected
          /\ Len(j.proofs) = 1 => j.proofs[i].carried = expected

(* CarriedChainCombiner::combine succeeds: all proofs share one chain. *)
Combinable(j) ==
  \E c \in Commitment :
     \A i \in DOMAIN j.proofs : j.proofs[i].chain /\ OutputCommitment(j.proofs[i]) = c

(* merge_fris: a single proof as it is, several combined into one that     *)
(* carries their shared chain through.                                     *)
Merged(j) ==
  IF Len(j.proofs) = 1 THEN j.proofs[1]
  ELSE [carried |-> OutputCommitment(j.proofs[1]), chain |-> TRUE]
=============================================================================
