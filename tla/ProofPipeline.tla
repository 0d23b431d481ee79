---------------------------- MODULE ProofPipeline ----------------------------
(***************************************************************************)
(* From sealed batches to settled ones.  The FRI provers are what          *)
(* FriProving shows them to be, a ProofLedger; the SNARK queues of the     *)
(* sequencers hand out runs of proven batches; a fleet of standalone SNARK *)
(* provers, the loop of SnarkProver with an attempt in three steps (pick,  *)
(* prove, submit), turns them into SNARKs; an operator may step in with    *)
(* the command line client                                                 *)
(* (crates/sequencer_proof_client/src/main.rs).                            *)
(***************************************************************************)
EXTENDS SnarkChecks, FiniteSets

CONSTANTS
  Clients,       \* the sequencers of --sequencer-urls, in round-robin order
  LastBatch,     \* every sequencer's batches are 1..LastBatch
  BatchVk,       \* BatchVk[s][b]: the version sequencer s runs batch b at
  FriProvable,   \* batches <<s, b>> that get a FRI proof
  ProofOf,       \* the FRI proof recorded for a batch
  MaxRange,      \* batches per SNARK job
  SnarkProvers,
  Binary,        \* Binary[p]: the program prover p's wrapper is bound to
  CrashBound,    \* crashes in a behaviour
  None           \* no job, no file

Sequencers == {Clients[c] : c \in DOMAIN Clients}
Batches == 1..LastBatch
Inputs == Sequencers \X Batches

(* A SNARK job: a run of consecutive batches of one version. *)
Range == [seq : Sequencers, from : Batches, to : Batches]
Covered(r) == {r.seq} \X (r.from..r.to)
Vk(r) == BatchVk[r.seq][r.from]

Jobs ==
  {r \in Range : /\ r.to \in r.from..(r.from + MaxRange - 1)
                 /\ \A b \in r.from..r.to : BatchVk[r.seq][b] = Vk(r)}

(* What pick_snark_job returns of it. *)
Sent(r) ==
  [vk |-> Vk(r),
   proofs |-> [k \in 1..(r.to - r.from + 1) |-> ProofOf[<<r.seq, r.from + k - 1>>]]]

(* A submit request: what it claims and what the SNARK in it proves. *)
Submission == [claims : Range, vk : VkHash,
               proof : [covers : SUBSET Inputs, program : Commitment]]

ASSUME ClientsAssumption == Len(Clients) > 0 /\ Clients \in Seq(Sequencers)
ASSUME QueueAssumption ==
  /\ LastBatch \in Nat /\ MaxRange \in Nat
  /\ BatchVk \in [Sequencers -> [Batches -> VkHash]]
  /\ FriProvable \subseteq Inputs
  /\ ProofOf \in [Inputs -> FriProof]
  /\ CrashBound \in Nat
  /\ None \notin Range \cup Submission
ASSUME BinaryAssumption == Binary \in [SnarkProvers -> Programs]

VARIABLES
  proven,    \* batches with a FRI proof
  snarks,    \* submissions the sequencers hold
  leases,    \* jobs handed out and not yet expired
  late,      \* submissions nobody waits for that may still be served
  pc,        \* where `run_linking_fri_snark` is, per prover
  cursor,    \* position in `clients.iter().cycle()`
  job,       \* the job in work
  file,      \* snark_proof.json in the prover's output directory
  crashes    \* crashes so far

proverVars == <<pc, cursor, job, file, crashes>>
vars == <<proven, snarks, leases, late, pc, cursor, job, file, crashes>>

TypeOK ==
  /\ proven \subseteq Inputs
  /\ snarks \subseteq Submission /\ late \subseteq Submission
  /\ leases \subseteq Jobs
  /\ pc \in [SnarkProvers -> {"down", "pick", "prove", "submit"}]
  /\ cursor \in [SnarkProvers -> DOMAIN Clients]
  /\ job \in [SnarkProvers -> Jobs \cup {None}]
  /\ file \in [SnarkProvers -> Submission \cup {None}]
  /\ crashes \in 0..CrashBound

Settled(held) == UNION {Covered(m.claims) : m \in held}
settled == Settled(snarks)

Fri == INSTANCE ProofLedger WITH Provable <- FriProvable

Init ==
  /\ Fri!Init
  /\ snarks = {} /\ leases = {} /\ late = {}
  /\ pc = [p \in SnarkProvers |-> "down"]
  /\ cursor = [p \in SnarkProvers |-> 1]
  /\ job = [p \in SnarkProvers |-> None]
  /\ file = [p \in SnarkProvers |-> None]
  /\ crashes = 0

-----------------------------------------------------------------------------
(* The sequencers (external): SNARK queues with leases.                    *)

(* Jobs a pick may be answered with: all batches proven, none settled or   *)
(* part of a job that is out.                                              *)
Offered ==
  {r \in Jobs : /\ Covered(r) \subseteq proven
                /\ Covered(r) \cap settled = {}
                /\ \A l \in leases : Covered(r) \cap Covered(l) = {}}

(* A submission is taken unless a batch it claims is settled already. *)
Serve(m) ==
  /\ snarks' = IF Covered(m.claims) \cap settled = {} THEN snarks \cup {m} ELSE snarks
  /\ leases' = leases \ {m.claims}

ProveFri(i) ==
  /\ Fri!ProveBatch(i)
  /\ UNCHANGED <<snarks, leases, late, proverVars>>

(* Any number of leases run out between two steps of the provers. *)
Expire(some) ==
  /\ some # {} /\ some \subseteq leases
  /\ leases' = leases \ some
  /\ UNCHANGED <<proven, snarks, late, proverVars>>

(* A pick whose answer nobody proves: the prover gave up waiting for it,   *)
(* or it was the operator's `pick-snark`, which saves the job to a file.   *)
PickUnheard(r) ==
  /\ r \in Offered
  /\ leases' = leases \cup {r}
  /\ UNCHANGED <<proven, snarks, late, proverVars>>

ServeLate(m) ==
  /\ m \in late
  /\ late' = late \ {m}
  /\ Serve(m)
  /\ UNCHANGED <<proven, proverVars>>

(* The operator pushes a prover's last proof by hand (`submit-snark`),     *)
(* with the range it was made for: after a failed submission, or a crash.  *)
SubmitByHand(p) ==
  /\ file[p] # None
  /\ Serve(file[p])
  /\ UNCHANGED <<proven, late, proverVars>>

-----------------------------------------------------------------------------
(* The provers.                                                            *)

Client(p) == Clients[cursor[p]]
NextClient_NoWrap(c) == c + 1  \* mutant: `iter()` without `cycle()`
NextClient_Same(c) == c  \* mutant: `first()` instead of the cycle
NextClient(c) == IF c = Len(Clients) THEN 1 ELSE c + 1

Start(p) ==
  /\ pc[p] = "down"
  /\ LevelAgreed
  /\ pc' = [pc EXCEPT ![p] = "pick"]
  /\ cursor' = [cursor EXCEPT ![p] = 1]
  /\ UNCHANGED <<proven, snarks, leases, late, job, file, crashes>>

(* run_inner returned Ok, true or false: the next client's turn. *)
NextTurn(p) ==
  /\ pc' = [pc EXCEPT ![p] = "pick"]
  /\ cursor' = [cursor EXCEPT ![p] = NextClient(@)]
  /\ job' = [job EXCEPT ![p] = None]

(* It returned an error, or the process was killed. *)
Die(p) ==
  /\ pc' = [pc EXCEPT ![p] = "down"]
  /\ job' = [job EXCEPT ![p] = None]
  /\ UNCHANGED <<proven, snarks, leases, late, cursor, file>>

PickNothing(p) ==
  /\ pc[p] = "pick"
  /\ NextTurn(p)
  /\ UNCHANGED <<proven, snarks, leases, late, file, crashes>>

Acceptable_Unchecked(r) == Contains(Vk(r))  \* mutant: the proofs are not looked at
Acceptable(r) == Contains(Vk(r)) /\ PassesChecks(Sent(r))

Picked(p, r) ==
  /\ pc[p] = "pick"
  /\ r \in Offered /\ r.seq = Client(p)
  /\ leases' = leases \cup {r}
  /\ UNCHANGED <<proven, snarks, late, file, crashes>>

(* Dropped without a word to the sequencer, whose lease runs on. *)
SkipJob(p, r) ==
  /\ Picked(p, r)
  /\ ~Acceptable(r)
  /\ NextTurn(p)

TakeJob_Unchecked(p, r) ==  \* mutant: a job that is not acceptable is taken, too
  /\ Picked(p, r)
  /\ pc' = [pc EXCEPT ![p] = "prove"]
  /\ job' = [job EXCEPT ![p] = r]
  /\ UNCHANGED cursor

TakeJob(p, r) ==
  /\ Picked(p, r)
  /\ Acceptable(r)
  /\ pc' = [pc EXCEPT ![p] = "prove"]
  /\ job' = [job EXCEPT ![p] = r]
  /\ UNCHANGED cursor

(* Merging r's proofs can succeed, and so can wrapping the result with a   *)
(* wrapper that is bound to program c.                                     *)
Fits(c, r) ==
  /\ Len(Sent(r).proofs) = 1 \/ Combinable(Sent(r))
  /\ Merged(Sent(r)).carried = c

Wrappable(p, r) == Fits(Binary[p], r)

SubmissionOf_NextClient(p) ==  \* mutant: submits where the next pick would go
  [claims |-> [job[p] EXCEPT !.seq = Clients[NextClient(cursor[p])]], vk |-> Vk(job[p]),
   proof |-> [covers |-> Covered(job[p]), program |-> Binary[p]]]

(* The request of a prover that submits: range and version saved before    *)
(* the merge, to the `client` it picked from.                              *)
SubmissionOf(p) ==
  [claims |-> [job[p] EXCEPT !.seq = Client(p)], vk |-> Vk(job[p]),
   proof |-> [covers |-> Covered(job[p]), program |-> Binary[p]]]

(* The SNARK is written to snark_proof.json before it is submitted, if it  *)
(* can be.                                                                 *)
Prove(p) ==
  /\ pc[p] = "prove"
  /\ Wrappable(p, job[p])
  /\ pc' = [pc EXCEPT ![p] = "submit"]
  /\ file' \in {file, [file EXCEPT ![p] = SubmissionOf(p)]}
  /\ UNCHANGED <<proven, snarks, leases, late, cursor, job, crashes>>

ProveFails(p) ==
  /\ pc[p] = "prove"
  /\ ~Wrappable(p, job[p])
  /\ Die(p)
  /\ UNCHANGED crashes

(* Served; whether the answer arrives makes no difference to the queues. *)
Submit(p) ==
  /\ pc[p] = "submit"
  /\ Serve(SubmissionOf(p))
  /\ NextTurn(p)
  /\ UNCHANGED <<proven, late, file, crashes>>

(* Refused or lost. *)
SubmitFails(p) ==
  /\ pc[p] = "submit"
  /\ NextTurn(p)
  /\ UNCHANGED <<proven, snarks, leases, late, file, crashes>>

(* Given up on, not taken back. *)
SubmitTimesOut(p) ==
  /\ pc[p] = "submit"
  /\ late' = late \cup {SubmissionOf(p)}
  /\ NextTurn(p)
  /\ UNCHANGED <<proven, snarks, leases, file, crashes>>

Crash(p) ==
  /\ pc[p] # "down"
  /\ crashes < CrashBound
  /\ crashes' = crashes + 1
  /\ Die(p)

-----------------------------------------------------------------------------
SequencerStep ==
  \/ \E i \in FriProvable : ProveFri(i)
  \/ \E some \in SUBSET leases : Expire(some)
  \/ \E r \in Offered : PickUnheard(r)
  \/ \E m \in late : ServeLate(m)
  \/ \E p \in SnarkProvers : SubmitByHand(p)

ProverStep(p) ==
  \/ Start(p) \/ PickNothing(p)
  \/ \E r \in Offered : SkipJob(p, r) \/ TakeJob(p, r)
  \/ Prove(p) \/ ProveFails(p)
  \/ Submit(p) \/ SubmitFails(p) \/ SubmitTimesOut(p)
  \/ Crash(p)

Next == SequencerStep \/ \E p \in SnarkProvers : ProverStep(p)

Spec == Init /\ [][Next]_vars

(* The jobs prover p can settle. *)
CanProve(p) ==
  {r \in Jobs : /\ LevelAgreed /\ Covered(r) \subseteq FriProvable
                /\ Acceptable(r) /\ Wrappable(p, r)}

Asking(p, s) == pc[p] = "pick" /\ Client(p) = s

(* Fairness.  Every prover's thread goes on and dead provers are started   *)
(* again; FRI proofs come as ProofLedger has it.  Of the sequencers and    *)
(* the network only this is assumed (SF), for a prover that can prove job  *)
(* r: its polls do not always meet leases, the queue does not always cut   *)
(* the batches otherwise or hand r to another, its submits of r are not    *)
(* always lost.  Late and manual submissions need not arrive.              *)
ProverFairness(p) ==
  /\ WF_vars(Start(p))
  /\ WF_vars(PickNothing(p))
  /\ WF_vars(Prove(p) \/ ProveFails(p))
  /\ WF_vars(Submit(p) \/ SubmitFails(p) \/ SubmitTimesOut(p))
  /\ \A s \in {r.seq : r \in CanProve(p)} : SF_vars(Asking(p, s) /\ Expire(leases))
  /\ \A r \in CanProve(p) : /\ SF_vars(TakeJob(p, r))
                            /\ SF_vars(job[p] = r /\ Submit(p))

FairSpec ==
  /\ Spec
  /\ \A i \in FriProvable : WF_vars(ProveFri(i))
  /\ \A p \in SnarkProvers : ProverFairness(p)

-----------------------------------------------------------------------------
(* What a submission claims is what its SNARK covers, those batches have   *)
(* FRI proofs, run at the version it names, and executed the program that  *)
(* version is bound to.                                                    *)
Genuine(m) ==
  /\ m.claims \in Jobs
  /\ m.proof.covers = Covered(m.claims)
  /\ m.proof.covers \subseteq proven
  /\ m.vk = Vk(m.claims)
  /\ Contains(m.vk)
  /\ ProgramCommitmentFor(m.vk) # NoCommitment =>
       m.proof.program = ProgramCommitmentFor(m.vk)

(* Every SNARK a sequencer holds, every one still on its way and every one *)
(* an operator may find on a prover's disk is genuine - whichever binary   *)
(* the prover runs, and whatever timed out, crashed or was picked twice.   *)
SnarksGenuine ==
  \A m \in snarks \cup late \cup ({file[p] : p \in SnarkProvers} \ {None}) : Genuine(m)

(* The inductive invariant: a prover at work on a job was given it by the  *)
(* sequencer its cursor still points at and accepted it, and one that      *)
(* submits has a wrapper the job's proofs fit.                             *)
WorkInv(p) ==
  /\ pc[p] \in {"prove", "submit"} =>
       /\ job[p] \in Jobs /\ job[p].seq = Client(p)
       /\ Covered(job[p]) \subseteq proven
       /\ Acceptable(job[p])
  /\ pc[p] = "submit" => Wrappable(p, job[p])

PipelineInv ==
  /\ TypeOK
  /\ \A p \in SnarkProvers : WorkInv(p)
  /\ SnarksGenuine

Ledger == INSTANCE Settlement
            WITH Provable <- FriProvable, Ranges <- {Covered(r) : r \in Jobs}

(* The system settles what it promises: whole jobs, of proven batches      *)
(* only, no batch twice.                                                   *)
ImplementsSettlement == Ledger!SafeSpec

(* A prover of the pipeline is one of SnarkProver and ProverService        *)
(* reduced to what SnarkAttempt says of them: three steps per job.         *)
Busy(p) == pc[p] \in {"prove", "submit"}

AcceptableJobs == {r \in Jobs : Acceptable(r)}
WrapperFits == {f \in Programs \X AcceptableJobs : Fits(f[1], f[2])}

AttemptOf(p) == INSTANCE SnarkAttempt
  WITH Clients <- DOMAIN Clients, NoWork <- None, NoProgram <- NoCommitment,
       at <- IF Busy(p) THEN pc[p] ELSE "rest",
       work <- IF Busy(p) THEN [job |-> job[p], client |-> cursor[p]] ELSE None,
       bound <- Binary[p]

ImplementsAttempts ==
  /\ \A p \in SnarkProvers : AttemptOf(p)!Init
  /\ [][\A p \in SnarkProvers : AttemptOf(p)!Step]_vars

(* Some prover can still settle batch i, alone or with its neighbours.     *)
CanSettle(i) ==
  \E p \in SnarkProvers : \E r \in CanProve(p) : i \in Covered(r) /\ Covered(r) \cap settled = {}

(* Every batch is settled in the end, in spite of jobs everyone skips,     *)
(* jobs that kill every prover but one, lost leases and submissions,       *)
(* unless its neighbours are settled without it and leave it with a proof  *)
(* one fold short, which no prover wraps alone.                            *)
SettledUnlessAlone == \A i \in Inputs : <>(i \in settled \/ ~CanSettle(i))
=============================================================================
