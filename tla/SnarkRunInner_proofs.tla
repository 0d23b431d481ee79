------------------------ MODULE SnarkRunInner_proofs ------------------------
(***************************************************************************)
(* What holds through every step of a SNARK attempt, whoever runs it: the  *)
(* types of its variables and JobInv, and the moves of SnarkAttempt.  The  *)
(* modules that loop over attempts cite AttemptKeepsJob, AttemptMoves and  *)
(* LoopKeepsJob in their own proofs.                                       *)
(***************************************************************************)
EXTENDS SnarkRunInner, ProtocolVersions_proofs

LEMMA CountersTyped == \A n \in Nat : \A k \in 0..n : UpTo(k, n) \in 0..n
BY DEF UpTo

LEMMA NoneIsNoProgram == NoCommitment \notin Programs
BY NoneAssumption DEF Programs

(* A usable job has proofs, and each of them is a FRI proof. *)
LEMMA JobTyped ==
  ASSUME NEW j \in Jobs, ~Unusable(j)
  PROVE  /\ j.proofs \in Seq(FriProof)
         /\ Len(j.proofs) \in Nat \ {0}
         /\ 1 \in DOMAIN j.proofs
         /\ j.proofs[1] \in FriProof
<1>1. j.proofs \in Seq(FriProof) /\ j.proofs # <<>>
  BY JobsAssumption DEF Unusable, SnarkJob
<1> QED BY <1>1

LEMMA MergedTyped ==
  ASSUME NEW j \in Jobs, ~Unusable(j)
  PROVE  Merged(j) \in FriProof
<1>1. \A p \in FriProof : OutputCommitment(p) \in Commitment
  BY ContinueAssumption DEF FriProof, OutputCommitment
<1> QED BY <1>1, JobTyped DEF Merged, FriProof

(* The merge of a job that passed the checks carries the program its       *)
(* version records: several proofs are continued, a single one was asked.  *)
LEMMA ChecksPin ==
  ASSUME NEW j \in Jobs, ~Unusable(j), PassesChecks(j),
         ProgramCommitmentFor(j.vk) # NoCommitment
  PROVE  Merged(j).carried = ProgramCommitmentFor(j.vk)
<1>1. /\ OutputCommitment(j.proofs[1]) = ProgramCommitmentFor(j.vk)
      /\ Len(j.proofs) = 1 => j.proofs[1].carried = ProgramCommitmentFor(j.vk)
  BY JobTyped DEF PassesChecks
<1> QED BY <1>1 DEF Merged

(* Of the jobs a version's commitment is checked for, the merge - whose    *)
(* failure ends the process - fails for those only in which some proof     *)
(* came without a recursion chain: that the chains agree, and with the     *)
(* version's program, the up-front checks have established.                *)
THEOREM MergeFailsOnlyUnchained ==
  ASSUME NEW j \in Jobs, ~Unusable(j), PassesChecks(j),
         ProgramCommitmentFor(j.vk) # NoCommitment
  PROVE  Mergeable(j) <=> Len(j.proofs) = 1 \/ \A i \in DOMAIN j.proofs : j.proofs[i].chain
<1> DEFINE expected == ProgramCommitmentFor(j.vk)
<1>1. \A i \in DOMAIN j.proofs : OutputCommitment(j.proofs[i]) = expected
  BY DEF PassesChecks
<1>2. expected \in Commitment
  <2>1. j.proofs[1] \in FriProof /\ OutputCommitment(j.proofs[1]) = expected
    BY <1>1, JobTyped
  <2> QED BY <2>1, ContinueAssumption DEF FriProof, OutputCommitment
<1>3. ASSUME \A i \in DOMAIN j.proofs : j.proofs[i].chain
      PROVE  Combinable(j)
  BY <1>1, <1>2, <1>3 DEF Combinable
<1>4. Combinable(j) => \A i \in DOMAIN j.proofs : j.proofs[i].chain
  BY DEF Combinable
<1> QED BY <1>3, <1>4 DEF Mergeable

(* The acceptable job in work, and the fact that its merge is a FRI proof. *)
LEMMA WorkTyped ==
  ASSUME JobInv, stage \in Proving \cup {"submit"}
  PROVE  /\ snarkJob \in AcceptableJobs /\ snarkJob \in Jobs /\ ~Unusable(snarkJob)
         /\ PassesChecks(snarkJob)
         /\ Merged(snarkJob) \in FriProof
         /\ Len(snarkJob.proofs) \in Nat \ {0}
<1>1. snarkJob \in AcceptableJobs
  BY DEF JobInv
<1>2. snarkJob \in Jobs /\ ~Unusable(snarkJob) /\ PassesChecks(snarkJob)
  BY <1>1 DEF AcceptableJobs
<1> QED BY <1>1, <1>2, JobTyped, MergedTyped

LEMMA AttemptKeepsTypes ==
  ASSUME SnarkTypeOK, JobInv, SnarkStep
  PROVE  SnarkTypeOK'
<1> USE DEF SnarkTypeOK, Stage, Returned, program, Goto
<1>1. CASE PickStep
  BY <1>1 DEF PickStep, PickNothing, PickFatal, Fatal, PickSkip, PickJob
<1>2. CASE MergeOne \/ Combine
  BY <1>2, WorkTyped DEF MergeOne, Combine, Proving
<1>3. CASE MergeMany \/ CombineFails
  BY <1>3 DEF MergeMany, CombineFails, Fatal
<1>4. CASE BuildWrapper
  <2>1. derivations' \in 0..2 /\ bound' \in Programs \cup {NoCommitment}
    BY <1>4, CountersTyped DEF BuildWrapper, DeriveWrapper
  <2> QED BY <1>4, <2>1 DEF BuildWrapper
<1>5. CASE BuildFails \/ Wrap \/ WrapFails
  BY <1>5 DEF BuildFails, Wrap, WrapFails, Fatal
<1>6. CASE Snarkify
  BY <1>6, ResidentAssumption DEF Snarkify
<1>7. CASE SubmitOk \/ SubmitFails \/ SubmitUnheard
  <2>1. taken' \in 0..ProofBound
    BY <1>7, CountersTyped, CountAssumption DEF SubmitOk, SubmitFails, SubmitUnheard
  <2>2. /\ stage' \in {"true", "false"} /\ snarkJob' = NoJob
        /\ UNCHANGED <<proof, device, hostCache, combinerWarm, derivations, bound, disk>>
    BY <1>7 DEF SubmitOk, SubmitFails, SubmitUnheard, Return
  <2> QED BY <2>1, <2>2
<1> QED BY <1>1, <1>2, <1>3, <1>4, <1>5, <1>6, <1>7 DEF SnarkStep, ProvingStep

(* JobInv after a step that leaves the attempt with nothing in work. *)
LEMMA RestKeepsJob ==
  ASSUME stage' \in {"idle", "pick"} \cup Returned
  PROVE  JobInv'
BY DEF JobInv, Proving, Returned

(* The steps of the loops around it start, end or leave alone an attempt. *)
LEMMA LoopKeepsJob ==
  ASSUME JobInv,
         stage' \in {"idle", "pick"} \cup Returned \/ UNCHANGED <<stage, snarkJob, proof, bound>>
  PROVE  JobInv'
<1>1. CASE UNCHANGED <<stage, snarkJob, proof, bound>>
  BY <1>1 DEF JobInv
<1> QED BY <1>1, RestKeepsJob

LEMMA AttemptKeepsJob ==
  ASSUME SnarkTypeOK, JobInv, SnarkStep
  PROVE  SnarkTypeOK' /\ JobInv'
<1> SUFFICES JobInv'
  BY AttemptKeepsTypes
<1> USE DEF program, Goto
<1>1. ASSUME NEW j \in Jobs, PickJob(j)
      PROVE  JobInv'
  <2>1. stage' = "merge" /\ snarkJob' \in AcceptableJobs
    BY <1>1 DEF PickJob, AcceptableJobs
  <2> QED BY <2>1 DEF JobInv
<1>2. CASE MergeOne \/ Combine
  <2>1. /\ stage' = "build" /\ proof' = Merged(snarkJob) /\ snarkJob' = snarkJob
        /\ Mergeable(snarkJob)
    BY <1>2 DEF MergeOne, Combine, Mergeable
  <2>2. snarkJob \in AcceptableJobs
    BY <1>2 DEF JobInv, MergeOne, Combine, Proving
  <2> QED BY <2>1, <2>2 DEF JobInv
<1>3. CASE MergeMany
  <2>1. stage' = "combine" /\ snarkJob' = snarkJob /\ Len(snarkJob.proofs) > 1
    BY <1>3 DEF MergeMany
  <2>2. snarkJob \in AcceptableJobs
    BY <1>3 DEF JobInv, MergeMany, Proving
  <2> QED BY <2>1, <2>2 DEF JobInv
<1>4. CASE BuildWrapper
  BY <1>4 DEF BuildWrapper, JobInv, Proving
<1>5. CASE Wrap
  BY <1>5 DEF Wrap, JobInv, Proving, Satisfiable
<1>6. CASE Snarkify
  BY <1>6 DEF Snarkify, JobInv, Proving
<1>7. CASE stage' \in Returned
  BY <1>7, RestKeepsJob
<1>8. \/ stage' \in Returned
      \/ \E j \in Jobs : PickJob(j)
      \/ MergeOne \/ Combine \/ MergeMany \/ BuildWrapper \/ Wrap \/ Snarkify
  BY DEF SnarkStep, PickStep, ProvingStep, Returned, PickNothing, PickFatal, Fatal, PickSkip,
     CombineFails, BuildFails, WrapFails, SubmitOk, SubmitFails, SubmitUnheard, Return
<1> QED BY <1>1, <1>2, <1>3, <1>4, <1>5, <1>6, <1>7, <1>8

(* How far a step moves the attempt.  The five cases are what SnarkAttempt *)
(* knows of it: nothing, a pick, a proof, the end, and a setup derived for *)
(* the program on disk when there is neither a wrapper nor its cache.      *)
Rests == At' = At /\ bound' = bound /\ (At # "rest" => snarkJob' = snarkJob)
Picks == /\ At = "rest" /\ At' = "prove"
         /\ snarkJob' \in AcceptableJobs /\ bound' = bound
Proves == /\ At = "prove" /\ At' = "submit"
          /\ <<bound, snarkJob>> \in WrapperFits
          /\ snarkJob' = snarkJob /\ bound' = bound
Ends == At # "rest" /\ At' = "rest" /\ bound' = bound
Binds == /\ At = "prove" /\ At' = "prove" /\ snarkJob' = snarkJob
         /\ stage = "build" /\ ~Resident /\ ~hostCache /\ bound' = disk

Moves == Rests \/ Picks \/ Proves \/ Ends \/ Binds

LEMMA AttemptMoves ==
  ASSUME SnarkTypeOK, JobInv, SnarkStep
  PROVE  Moves
<1> USE DEF program, Goto, At, Proving, Moves
<1>1. CASE PickNothing \/ \E j \in Jobs : PickFatal(j) \/ PickSkip(j)
  BY <1>1 DEF PickNothing, PickFatal, PickSkip, Fatal, Rests
<1>2. ASSUME NEW j \in Jobs, PickJob(j)
      PROVE  Picks
  BY <1>2 DEF PickJob, AcceptableJobs, Picks
<1>3. CASE MergeOne \/ MergeMany \/ Combine \/ Wrap
  BY <1>3 DEF MergeOne, MergeMany, Combine, Wrap, Rests
<1>4. CASE BuildWrapper
  <2>1. stage = "build" /\ stage' = "wrap" /\ snarkJob' = snarkJob
    BY <1>4 DEF BuildWrapper
  <2>2. bound' = bound \/ (~Resident /\ ~hostCache /\ bound' = disk)
    BY <1>4 DEF BuildWrapper, DeriveWrapper
  <2> QED BY <2>1, <2>2 DEF Rests, Binds
<1>5. CASE Snarkify
  <2>1. stage = "snarkify" /\ stage' = "submit" /\ UNCHANGED <<snarkJob, bound>>
    BY <1>5 DEF Snarkify
  <2>2. /\ snarkJob \in AcceptableJobs /\ Mergeable(snarkJob)
        /\ Merged(snarkJob).carried = bound
    BY <2>1 DEF JobInv
  <2>3. bound \in Programs
    <3>1. bound \in Commitment
      BY <2>1, <2>2, WorkTyped DEF FriProof
    <3> QED BY <3>1, NoneAssumption DEF SnarkTypeOK
  <2> QED BY <2>1, <2>2, <2>3 DEF Proves, WrapperFits
<1>6. CASE CombineFails \/ BuildFails \/ WrapFails
  BY <1>6 DEF CombineFails, BuildFails, WrapFails, Fatal, Ends
<1>7. CASE SubmitOk \/ SubmitFails \/ SubmitUnheard
  BY <1>7 DEF SubmitOk, SubmitFails, SubmitUnheard, Return, Ends
<1> QED
  BY <1>1, <1>2, <1>3, <1>4, <1>5, <1>6, <1>7 DEF SnarkStep, PickStep, ProvingStep

(* Where a wrapper is bound to a program, JobInv gives WrapSatisfiable. *)
LEMMA JobFitsWrapper ==
  ASSUME JobInv, stage \in {"wrap", "snarkify"} => bound \in Commitment
  PROVE  WrapSatisfiable
<1> SUFFICES ASSUME stage \in {"wrap", "snarkify"},
                    ProgramCommitmentFor(snarkJob.vk) = bound
             PROVE  Satisfiable
  BY DEF WrapSatisfiable
<1>1. /\ snarkJob \in Jobs /\ ~Unusable(snarkJob) /\ PassesChecks(snarkJob)
      /\ proof = Merged(snarkJob)
  BY WorkTyped DEF JobInv, Proving
<1>2. ProgramCommitmentFor(snarkJob.vk) # NoCommitment
  BY NoneAssumption
<1> QED BY <1>1, <1>2, ChecksPin DEF Satisfiable

(* JobInv gives SubmitsOwnProgram: the checks pin the program the merge    *)
(* carries, and the circuit pins that to the wrapper's.                    *)
LEMMA JobPinsProgram ==
  ASSUME JobInv
  PROVE  SubmitsOwnProgram
<1> SUFFICES ASSUME stage = "submit", ProgramCommitmentFor(snarkJob.vk) # NoCommitment
             PROVE  bound = ProgramCommitmentFor(snarkJob.vk)
  BY DEF SubmitsOwnProgram
<1>1. Merged(snarkJob).carried = bound
  BY DEF JobInv
<1>2. snarkJob \in Jobs /\ ~Unusable(snarkJob) /\ PassesChecks(snarkJob)
  BY WorkTyped
<1> QED BY <1>1, <1>2, ChecksPin
=============================================================================
