---------------------------- MODULE SnarkRunInner ----------------------------
(***************************************************************************)
(* One attempt of a SNARK prover at one sequencer: `run_inner` of          *)
(* crates/zksync_os_snark_prover/src/lib.rs, with merge_fris and the       *)
(* wrapper's life cycle.  The process that loops over attempts extends     *)
(* this module: it starts an attempt by setting `stage` to "pick" and      *)
(* reads the outcome in "true", "false" or "fatal".                        *)
(***************************************************************************)
EXTENDS SnarkChecks, FiniteSets

CONSTANTS
  Resident,       \* WrapperSource::Resident, else PerJob
  Jobs,           \* SNARK jobs a sequencer may hand out
  ProofBound,     \* counts of SNARK proofs saturate here
  NoJob, NoProof

(* SnarkProofInputs; `fits`: both ends of the range fit 32 bits. *)
SnarkJob == [vk : VkHash, proofs : Seq(FriProof), fits : BOOLEAN]

ASSUME JobsAssumption ==
  /\ Jobs \subseteq SnarkJob
  /\ NoJob \notin SnarkJob
  /\ NoProof \notin FriProof
ASSUME ResidentAssumption == Resident \in BOOLEAN
ASSUME CountAssumption == ProofBound \in Nat \ {0}

VARIABLES
  stage,         \* how far the attempt is, and how it returned
  snarkJob,      \* the job picked
  proof,         \* the proof to wrap
  device,        \* who holds GPU memory
  hostCache,     \* WrapperSource::PerJob.host_cache is Some
  combinerWarm,  \* the combiner has built its caches
  derivations,   \* full setup derivations of the wrapper so far, up to 2
  taken,         \* proofs the sequencer took since the caller reset it
  bound,         \* the program the wrapper, or its cache, is bound to
  disk           \* the program of app.bin, as it lies on disk

program == <<bound, disk>>
snarkVars == <<stage, snarkJob, proof, device, hostCache, combinerWarm,
               derivations, taken, bound, disk>>

Returned == {"true", "false", "fatal"}
Stage == {"idle", "pick", "merge", "combine", "build", "wrap", "snarkify", "submit"}
           \cup Returned

SnarkTypeOK ==
  /\ stage \in Stage
  /\ snarkJob \in Jobs \cup {NoJob}
  /\ proof \in FriProof \cup {NoProof}
  /\ device \subseteq {"fri", "combiner", "wrapper"}
  /\ hostCache \in BOOLEAN
  /\ combinerWarm \in BOOLEAN
  /\ derivations \in 0..2
  /\ taken \in 0..ProofBound
  /\ bound \in Programs \cup {NoCommitment}
  /\ disk \in Programs

(* Counters saturate. *)
UpTo(n, most) == IF n < most THEN n + 1 ELSE n

(* A process that has set up nothing yet. *)
SnarkInit ==
  /\ stage = "idle"
  /\ snarkJob = NoJob
  /\ proof = NoProof
  /\ device = {}
  /\ hostCache = FALSE
  /\ combinerWarm = FALSE
  /\ derivations = 0
  /\ taken = 0
  /\ bound = NoCommitment
  /\ disk \in Programs

-----------------------------------------------------------------------------
Goto(s) == stage' = s

(* Every error leaves through `?`; a per-job wrapper is dropped with it. *)
Fatal ==
  /\ Goto("fatal")
  /\ snarkJob' = NoJob /\ proof' = NoProof
  /\ device' = IF Resident THEN {"wrapper"} ELSE {}
  /\ UNCHANGED <<hostCache, combinerWarm, derivations, taken, program>>

-----------------------------------------------------------------------------
(* No job, an error, or a timeout - with which a job handed out is lost.   *)
PickNothing ==
  /\ stage = "pick"
  /\ Goto("false")
  /\ UNCHANGED <<snarkJob, proof, device, hostCache, combinerWarm, derivations, taken, program>>

(* A range beyond 32 bits panics in the client, no proofs are an error. *)
Unusable(j) == ~j.fits \/ j.proofs = <<>>

PickFatal(j) ==
  /\ stage = "pick"
  /\ Unusable(j)
  /\ Fatal

PickSkip(j) ==
  /\ stage = "pick"
  /\ ~Unusable(j)
  /\ ~Contains(j.vk) \/ ~PassesChecks(j)
  /\ Goto("false")
  /\ UNCHANGED <<snarkJob, proof, device, hostCache, combinerWarm, derivations, taken, program>>

(* Mutant: the proofs of the job are not looked at. *)
PickJob_Unchecked(j) ==
  /\ stage = "pick"
  /\ ~Unusable(j)
  /\ Contains(j.vk)
  /\ Goto("merge")
  /\ snarkJob' = j
  /\ UNCHANGED <<proof, device, hostCache, combinerWarm, derivations, taken, program>>

PickJob(j) ==
  /\ stage = "pick"
  /\ ~Unusable(j)
  /\ Contains(j.vk) /\ PassesChecks(j)
  /\ Goto("merge")
  /\ snarkJob' = j
  /\ UNCHANGED <<proof, device, hostCache, combinerWarm, derivations, taken, program>>

(* merge_fris: a single proof is passed on, several go to the combiner,    *)
(* which warms up on first use and takes the GPU until it is done.         *)
MergeOne ==
  /\ stage = "merge"
  /\ Len(snarkJob.proofs) = 1
  /\ proof' = Merged(snarkJob)
  /\ Goto("build")
  /\ UNCHANGED <<snarkJob, device, hostCache, combinerWarm, derivations, taken, program>>

MergeMany ==
  /\ stage = "merge"
  /\ Len(snarkJob.proofs) > 1
  /\ combinerWarm' = TRUE
  /\ device' = device \cup {"combiner"}
  /\ Goto("combine")
  /\ UNCHANGED <<snarkJob, proof, hostCache, derivations, taken, program>>

Combine ==
  /\ stage = "combine"
  /\ Combinable(snarkJob)
  /\ proof' = Merged(snarkJob)
  /\ device' = device \ {"combiner"}
  /\ Goto("build")
  /\ UNCHANGED <<snarkJob, hostCache, combinerWarm, derivations, taken, program>>

(* "would be re-picked forever, so treat merge failures as fatal" *)
CombineFails == stage = "combine" /\ Fatal

(* Derive the wrapper's setup and bind the program that lies on disk. *)
DeriveWrapper ==
  /\ derivations' = UpTo(derivations, 2)
  /\ bound' = disk

(* A resident wrapper is there; a per-job one is built: from the cache of  *)
(* its predecessor if there is one, which it takes and whose program it    *)
(* keeps, else from the files.                                             *)
BuildWrapper ==
  /\ stage = "build"
  /\ device' = device \cup {"wrapper"}
  /\ hostCache' = FALSE
  /\ IF Resident \/ hostCache THEN UNCHANGED <<derivations, bound>> ELSE DeriveWrapper
  /\ Goto("wrap")
  /\ UNCHANGED <<snarkJob, proof, combinerWarm, taken, disk>>

(* The cache is gone by the time creating the wrapper can fail. *)
BuildFails ==
  /\ stage = "build" /\ ~Resident
  /\ Goto("fatal")
  /\ snarkJob' = NoJob /\ proof' = NoProof
  /\ hostCache' = FALSE
  /\ UNCHANGED <<device, combinerWarm, derivations, taken, program>>

(* prove_risc_wrapper and prove_compression: the circuit constrains the    *)
(* carried commitment to the one the wrapper is bound to.                  *)
Satisfiable == proof.carried = bound

(* Mutant: the circuit does not constrain the program. *)
Wrap_Unconstrained ==
  /\ stage = "wrap"
  /\ Goto("snarkify")
  /\ UNCHANGED <<snarkJob, proof, device, hostCache, combinerWarm, derivations, taken, program>>

Wrap ==
  /\ stage = "wrap"
  /\ Satisfiable
  /\ Goto("snarkify")
  /\ UNCHANGED <<snarkJob, proof, device, hostCache, combinerWarm, derivations, taken, program>>

WrapFails == stage \in {"wrap", "snarkify"} /\ Fatal

(* Mutant: the wrapper is dropped with its job. *)
Snarkify_DropsCache ==
  /\ stage = "snarkify"
  /\ Goto("submit")
  /\ proof' = NoProof
  /\ device' = IF Resident THEN device ELSE device \ {"wrapper"}
  /\ UNCHANGED <<snarkJob, hostCache, combinerWarm, derivations, taken, program>>

(* Mutant: a resident wrapper is dropped with its job, too. *)
Snarkify_DropsResident ==
  /\ stage = "snarkify"
  /\ Goto("submit")
  /\ proof' = NoProof
  /\ device' = device \ {"wrapper"}
  /\ hostCache' = TRUE
  /\ UNCHANGED <<snarkJob, combinerWarm, derivations, taken, program>>

(* prove_snark, then a per-job wrapper is retired into the host cache. *)
Snarkify ==
  /\ stage = "snarkify"
  /\ Goto("submit")
  /\ proof' = NoProof
  /\ device' = IF Resident THEN device ELSE device \ {"wrapper"}
  /\ hostCache' = ~Resident
  /\ UNCHANGED <<snarkJob, combinerWarm, derivations, taken, program>>

Return(outcome) ==
  /\ Goto(outcome)
  /\ snarkJob' = NoJob
  /\ UNCHANGED <<proof, device, hostCache, combinerWarm, derivations, program>>

SubmitOk ==
  /\ stage = "submit"
  /\ taken' = UpTo(taken, ProofBound)
  /\ Return("true")

(* Mutant: a proof counts as soon as it is generated. *)
SubmitFails_Counted ==
  /\ stage = "submit"
  /\ UNCHANGED taken
  /\ Return("true")

(* Refused, or lost on its way. *)
SubmitFails ==
  /\ stage = "submit"
  /\ UNCHANGED taken
  /\ Return("false")

(* The sequencer takes the proof, but its answer is lost or late. *)
SubmitUnheard ==
  /\ stage = "submit"
  /\ taken' = UpTo(taken, ProofBound)
  /\ Return("false")

-----------------------------------------------------------------------------
PickStep == PickNothing \/ \E j \in Jobs : PickFatal(j) \/ PickSkip(j) \/ PickJob(j)

ProvingStep ==
  \/ MergeOne \/ MergeMany \/ Combine \/ CombineFails
  \/ BuildWrapper \/ BuildFails \/ Wrap \/ WrapFails \/ Snarkify
  \/ SubmitOk \/ SubmitFails \/ SubmitUnheard

SnarkStep == PickStep \/ ProvingStep

-----------------------------------------------------------------------------
(* What is known of the job grows with the stages: past the pick it passed *)
(* the checks, while combining it has several proofs, the proof to wrap is *)
(* what the merge makes of them, and the wrapper's program is what a       *)
(* wrapped proof carries.                                                  *)
Proving == {"merge", "combine", "build", "wrap", "snarkify"}

AcceptableJobs == {j \in Jobs : ~Unusable(j) /\ Contains(j.vk) /\ PassesChecks(j)}
Mergeable(j) == Len(j.proofs) = 1 \/ Combinable(j)

JobInv ==
  /\ stage \in Proving \cup {"submit"} => snarkJob \in AcceptableJobs
  /\ stage = "combine" => Len(snarkJob.proofs) > 1
  /\ stage \in {"build", "wrap", "snarkify", "submit"} => Mergeable(snarkJob)
  /\ stage \in {"build", "wrap", "snarkify"} => proof = Merged(snarkJob)
  /\ stage \in {"snarkify", "submit"} => Merged(snarkJob).carried = bound

(* A SNARK that is submitted executed the program its job's version is     *)
(* bound to: no job of another program becomes a SNARK, whatever wrapper   *)
(* the process has, came with it over the cache, or was bound to when.     *)
SubmitsOwnProgram ==
  stage = "submit" /\ ProgramCommitmentFor(snarkJob.vk) # NoCommitment
    => bound = ProgramCommitmentFor(snarkJob.vk)

(* The attempt as SnarkAttempt sees it. *)
At == IF stage \in Proving THEN "prove" ELSE IF stage = "submit" THEN "submit" ELSE "rest"
WorkFor(client) == IF At = "rest" THEN NoJob ELSE [job |-> snarkJob, client |-> client]
WrapperFits ==
  {f \in Programs \X AcceptableJobs : Mergeable(f[2]) /\ Merged(f[2]).carried = f[1]}

(* "Reject wrong-program proofs up front": if the program of the job's     *)
(* version is the one the wrapper's VK is bound to, a proof that reaches   *)
(* the wrapper satisfies its circuit - merged, passed on unmerged, or      *)
(* carrying a chain one fold short, over retries and replaced binaries.    *)
WrapSatisfiable ==
  stage \in {"wrap", "snarkify"} /\ ProgramCommitmentFor(snarkJob.vk) = bound
    => Satisfiable
=============================================================================
