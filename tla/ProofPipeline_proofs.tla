------------------------ MODULE ProofPipeline_proofs ------------------------
(***************************************************************************)
(* Every SNARK that reaches, or may reach, a sequencer is genuine, and the *)
(* pipeline implements the safety of Settlement: for any sequencers,       *)
(* batches, FRI proofs, provers, binaries and table of versions.           *)
(***************************************************************************)
EXTENDS ProofPipeline, TLAPS

LEMMA ClientsTyped ==
  /\ 1 \in DOMAIN Clients
  /\ \A c \in DOMAIN Clients : NextClient(c) \in DOMAIN Clients /\ Clients[c] \in Sequencers
BY ClientsAssumption DEF NextClient, Sequencers

LEMMA JobTyped ==
  ASSUME NEW r \in Jobs
  PROVE  /\ r \in Range
         /\ r.seq \in Sequencers /\ r.from \in Batches /\ r.to \in Batches
         /\ Vk(r) \in VkHash
         /\ Covered(r) \subseteq Inputs
         /\ Covered(r) # {}
<1>1. r \in Range /\ r.to \in r.from..(r.from + MaxRange - 1)
  BY DEF Jobs
<1>2. /\ r.seq \in Sequencers /\ r.from \in Batches /\ r.to \in Batches
      /\ r.from \in Nat /\ r.to \in Nat /\ r.from <= r.to
  BY <1>1, QueueAssumption DEF Range, Batches
<1>3. Vk(r) \in VkHash
  BY <1>2, QueueAssumption DEF Vk
<1>4. r.from..r.to \subseteq Batches /\ r.from \in r.from..r.to
  BY <1>2, QueueAssumption DEF Batches
<1>5. Covered(r) \subseteq Inputs
  BY <1>2, <1>4 DEF Covered, Inputs
<1>6. <<r.seq, r.from>> \in Covered(r)
  BY <1>4 DEF Covered
<1> QED BY <1>1, <1>2, <1>3, <1>5, <1>6

(* The proofs of a job, one per batch of its range. *)
LEMMA SentTyped ==
  ASSUME NEW r \in Jobs
  PROVE  /\ Sent(r).vk = Vk(r)
         /\ 1 \in DOMAIN Sent(r).proofs
<1>1. r.from \in Nat /\ r.to \in Nat /\ r.from <= r.to
  BY QueueAssumption DEF Jobs, Range, Batches
<1> QED BY <1>1 DEF Sent

(* What an accepted job's proofs wrap to is the program its version is     *)
(* bound to, so a prover that can wrap it runs that program.               *)
LEMMA ChecksPin ==
  ASSUME NEW p \in SnarkProvers, NEW r \in Jobs, Acceptable(r), Wrappable(p, r),
         ProgramCommitmentFor(Vk(r)) # NoCommitment
  PROVE  Binary[p] = ProgramCommitmentFor(Vk(r))
<1> DEFINE j == Sent(r)
           expected == ProgramCommitmentFor(Vk(r))
<1>1. j.vk = Vk(r) /\ 1 \in DOMAIN j.proofs
  BY SentTyped
<1>2. PassesChecks(j)
  BY DEF Acceptable
<1>3. /\ OutputCommitment(j.proofs[1]) = expected
      /\ Len(j.proofs) = 1 => j.proofs[1].carried = expected
  BY <1>1, <1>2 DEF PassesChecks
<1>4. Merged(j).carried = expected
  BY <1>3 DEF Merged
<1> QED BY <1>4 DEF Wrappable, Fits

(* A prover that can wrap the job it works on makes a genuine submission.  *)
LEMMA SubmissionGenuine ==
  ASSUME TypeOK, NEW p \in SnarkProvers, WorkInv(p),
         pc[p] \in {"prove", "submit"}, Wrappable(p, job[p])
  PROVE  SubmissionOf(p) \in Submission /\ Genuine(SubmissionOf(p))
<1> DEFINE r == job[p]
           m == SubmissionOf(p)
<1>1. r \in Jobs /\ r.seq = Client(p) /\ Covered(r) \subseteq proven /\ Acceptable(r)
  BY DEF WorkInv
<1>2. r \in Range /\ Covered(r) \subseteq Inputs /\ Vk(r) \in VkHash
  BY <1>1, JobTyped
<1>3. Binary[p] \in Commitment
  BY BinaryAssumption DEF Programs
<1>4. m.claims = r
  BY <1>1, <1>2 DEF SubmissionOf, Range
<1>5. m.vk = Vk(r) /\ m.proof.covers = Covered(r) /\ m.proof.program = Binary[p]
  BY DEF SubmissionOf
<1>6. m \in Submission
  <2>1. [r EXCEPT !.seq = Client(p)] = r
    BY <1>1, <1>2 DEF Range
  <2> QED BY <2>1, <1>2, <1>3 DEF SubmissionOf, Submission
<1>7. Contains(Vk(r))
  BY <1>1 DEF Acceptable
<1>8. ProgramCommitmentFor(Vk(r)) # NoCommitment => Binary[p] = ProgramCommitmentFor(Vk(r))
  BY <1>1, ChecksPin
<1>9. Genuine(m)
  BY <1>1, <1>4, <1>5, <1>7, <1>8 DEF Genuine
<1> QED BY <1>6, <1>9

LEMMA InitInv == Init => PipelineInv
<1> SUFFICES ASSUME Init PROVE PipelineInv
  OBVIOUS
<1>1. TypeOK
  BY ClientsTyped, QueueAssumption DEF Init, TypeOK, Fri!Init
<1>2. \A p \in SnarkProvers : WorkInv(p)
  BY DEF Init, WorkInv
<1>3. SnarksGenuine
  BY DEF Init, SnarksGenuine
<1> QED BY <1>1, <1>2, <1>3 DEF PipelineInv

(* FRI proofs stay, and with them what is genuine and who works on what. *)
LEMMA GenuineKept ==
  ASSUME NEW m, Genuine(m), proven \subseteq proven'
  PROVE  Genuine(m)'
BY DEF Genuine

LEMMA WorkKept ==
  ASSUME NEW q \in SnarkProvers, WorkInv(q), proven \subseteq proven',
         pc'[q] = pc[q], job'[q] = job[q], cursor'[q] = cursor[q]
  PROVE  WorkInv(q)'
BY DEF WorkInv, Client, Acceptable, Wrappable

Held == snarks \cup late \cup ({file[p] : p \in SnarkProvers} \ {None})

(* The invariant after a step that leaves the provers alone. *)
LEMMA QueueStepInv ==
  ASSUME PipelineInv, UNCHANGED proverVars,
         proven \subseteq proven', proven' \subseteq Inputs,
         leases' \subseteq Jobs, snarks' \subseteq Held, late' \subseteq Held,
         snarks' \subseteq Submission, late' \subseteq Submission
  PROVE  PipelineInv'
<1>1. TypeOK'
  BY DEF PipelineInv, TypeOK, proverVars
<1>2. ASSUME NEW q \in SnarkProvers PROVE WorkInv(q)'
  BY <1>2, WorkKept DEF PipelineInv, proverVars
<1>3. SnarksGenuine'
  <2>1. file' = file
    BY DEF proverVars
  <2>2. ASSUME NEW m \in Held PROVE Genuine(m)'
    BY <2>2, GenuineKept DEF PipelineInv, SnarksGenuine, Held
  <2>3. (snarks \cup late \cup ({file[p] : p \in SnarkProvers} \ {None}))' \subseteq Held
    BY <2>1 DEF Held
  <2> QED BY <2>2, <2>3 DEF SnarksGenuine
<1> QED BY <1>1, <1>2, <1>3 DEF PipelineInv

(* The invariant after a step of prover p that leaves the FRI proofs alone *)
(* and adds no submissions but some it made.                               *)
LEMMA ProverStepInv ==
  ASSUME PipelineInv, NEW p \in SnarkProvers, UNCHANGED proven,
         NEW made \in SUBSET Submission, \A m \in made : Genuine(m),
         leases' \subseteq Jobs,
         snarks' \subseteq snarks \cup made, late' \subseteq late \cup made,
         file' = file \/ \E m \in made : file' = [file EXCEPT ![p] = m],
         crashes' \in 0..CrashBound,
         pc' \in [SnarkProvers -> {"down", "pick", "prove", "submit"}],
         cursor' \in [SnarkProvers -> DOMAIN Clients],
         job' \in [SnarkProvers -> Jobs \cup {None}],
         \A q \in SnarkProvers \ {p} :
            pc'[q] = pc[q] /\ job'[q] = job[q] /\ cursor'[q] = cursor[q],
         WorkInv(p)'
  PROVE  PipelineInv'
<1>1. TypeOK'
  BY DEF PipelineInv, TypeOK
<1>2. ASSUME NEW q \in SnarkProvers PROVE WorkInv(q)'
  <2>1. CASE q = p
    BY <2>1
  <2>2. CASE q # p
    BY <2>2, WorkKept DEF PipelineInv
  <2> QED BY <2>1, <2>2
<1>3. SnarksGenuine'
  <2>1. ASSUME NEW k \in Held \cup made PROVE Genuine(k)'
    BY <2>1, GenuineKept DEF PipelineInv, SnarksGenuine, Held
  <2>2. ASSUME NEW q \in SnarkProvers PROVE file'[q] \in made \cup {file[q]}
    BY <2>2 DEF PipelineInv, TypeOK
  <2>3. (snarks \cup late \cup ({file[q] : q \in SnarkProvers} \ {None}))' \subseteq Held \cup made
    BY <2>2 DEF Held
  <2> QED BY <2>1, <2>3 DEF SnarksGenuine
<1> QED BY <1>1, <1>2, <1>3 DEF PipelineInv

(* The same for a step with no submission. *)
LEMMA SilentStepInv ==
  ASSUME PipelineInv, NEW p \in SnarkProvers,
         UNCHANGED <<proven, snarks, late, file>>,
         leases' \subseteq Jobs, crashes' \in 0..CrashBound,
         pc' \in [SnarkProvers -> {"down", "pick", "prove", "submit"}],
         cursor' \in [SnarkProvers -> DOMAIN Clients],
         job' \in [SnarkProvers -> Jobs \cup {None}],
         \A q \in SnarkProvers \ {p} :
            pc'[q] = pc[q] /\ job'[q] = job[q] /\ cursor'[q] = cursor[q],
         WorkInv(p)'
  PROVE  PipelineInv'
<1>1. {} \in SUBSET Submission /\ \A m \in {} : Genuine(m)
  OBVIOUS
<1>2. snarks' \subseteq snarks \cup {} /\ late' \subseteq late \cup {} /\ file' = file
  OBVIOUS
<1> QED BY <1>1, <1>2, ProverStepInv

(* Between two jobs there is nothing for WorkInv to say. *)
LEMMA IdleInv ==
  ASSUME NEW p \in SnarkProvers, pc'[p] \in {"down", "pick"}
  PROVE  WorkInv(p)'
BY DEF WorkInv

(* NextTurn and Die leave p between two jobs and the others alone. *)
LEMMA NextTurnTyped ==
  ASSUME TypeOK, NEW p \in SnarkProvers, NextTurn(p)
  PROVE  /\ pc' \in [SnarkProvers -> {"down", "pick", "prove", "submit"}]
         /\ cursor' \in [SnarkProvers -> DOMAIN Clients]
         /\ job' \in [SnarkProvers -> Jobs \cup {None}]
         /\ \A q \in SnarkProvers \ {p} :
              pc'[q] = pc[q] /\ job'[q] = job[q] /\ cursor'[q] = cursor[q]
         /\ pc'[p] = "pick"
BY ClientsTyped DEF TypeOK, NextTurn

LEMMA DieInv ==
  ASSUME PipelineInv, NEW p \in SnarkProvers, Die(p), crashes' \in 0..CrashBound
  PROVE  PipelineInv'
<1>1. /\ pc' \in [SnarkProvers -> {"down", "pick", "prove", "submit"}]
      /\ job' \in [SnarkProvers -> Jobs \cup {None}]
      /\ \A q \in SnarkProvers \ {p} : pc'[q] = pc[q] /\ job'[q] = job[q]
      /\ pc'[p] = "down"
      /\ UNCHANGED <<proven, snarks, leases, late, cursor, file>>
  BY DEF PipelineInv, TypeOK, Die
<1>2. leases' \subseteq Jobs /\ cursor' \in [SnarkProvers -> DOMAIN Clients]
  BY <1>1 DEF PipelineInv, TypeOK
<1> QED BY <1>1, <1>2, IdleInv, SilentStepInv

(* Serving a submission stores it or nothing, and frees its lease. *)
LEMMA ServeTyped ==
  ASSUME NEW m, Serve(m)
  PROVE  snarks' \subseteq snarks \cup {m} /\ leases' \subseteq leases
BY DEF Serve

LEMMA StepInv == PipelineInv /\ [Next]_vars => PipelineInv'
<1> SUFFICES ASSUME PipelineInv, [Next]_vars PROVE PipelineInv'
  OBVIOUS
<1> USE DEF proverVars
<1>t. TypeOK
  BY DEF PipelineInv
<1>b. leases \subseteq Jobs /\ snarks \subseteq Submission /\ late \subseteq Submission
      /\ proven \subseteq Inputs /\ crashes \in 0..CrashBound
  BY <1>t DEF TypeOK
<1>1. ASSUME NEW i \in FriProvable, ProveFri(i) PROVE PipelineInv'
  <2>1. i \in Inputs
    BY QueueAssumption
  <2>2. /\ proven' = proven \cup {i}
        /\ UNCHANGED <<snarks, leases, late, pc, cursor, job, file, crashes>>
    BY <1>1 DEF ProveFri, Fri!ProveBatch
  <2> QED BY <2>1, <2>2, <1>b, QueueStepInv DEF Held
<1>2. ASSUME NEW some \in SUBSET leases, Expire(some) PROVE PipelineInv'
  BY <1>2, <1>b, QueueStepInv DEF Expire, Held
<1>3. ASSUME NEW r \in Offered, PickUnheard(r) PROVE PipelineInv'
  BY <1>3, <1>b, QueueStepInv DEF PickUnheard, Offered, Held
<1>4. ASSUME NEW m \in late, ServeLate(m) PROVE PipelineInv'
  <2>1. snarks' \subseteq snarks \cup {m} /\ leases' \subseteq leases
    BY <1>4, ServeTyped DEF ServeLate
  <2> QED BY <1>4, <2>1, <1>b, QueueStepInv DEF ServeLate, Held
<1>5. ASSUME NEW p \in SnarkProvers, SubmitByHand(p) PROVE PipelineInv'
  <2>1. snarks' \subseteq snarks \cup {file[p]} /\ leases' \subseteq leases
    BY <1>5, ServeTyped DEF SubmitByHand
  <2>2. file[p] \in Held /\ file[p] \in Submission
    BY <1>5, <1>t DEF SubmitByHand, Held, TypeOK
  <2> QED BY <1>5, <2>1, <2>2, <1>b, QueueStepInv DEF SubmitByHand, Held
<1>6. ASSUME NEW p \in SnarkProvers, ProverStep(p) PROVE PipelineInv'
  <2>w. WorkInv(p)
    BY DEF PipelineInv
  <2>1. CASE Start(p)
    <3>1. /\ pc' \in [SnarkProvers -> {"down", "pick", "prove", "submit"}]
          /\ cursor' \in [SnarkProvers -> DOMAIN Clients]
          /\ pc'[p] = "pick"
          /\ \A q \in SnarkProvers \ {p} : pc'[q] = pc[q] /\ cursor'[q] = cursor[q]
          /\ UNCHANGED <<proven, snarks, leases, late, job, file, crashes>>
      BY <2>1, <1>t, ClientsTyped DEF Start, TypeOK
    <3>2. job' \in [SnarkProvers -> Jobs \cup {None}]
      BY <3>1, <1>t DEF TypeOK
    <3> QED BY <3>1, <3>2, <1>b, IdleInv, SilentStepInv
  <2>2. CASE PickNothing(p) \/ SubmitFails(p)
    <3>1. NextTurn(p) /\ UNCHANGED <<proven, snarks, leases, late, file, crashes>>
      BY <2>2 DEF PickNothing, SubmitFails
    <3> QED BY <3>1, <1>b, <1>t, NextTurnTyped, IdleInv, SilentStepInv
  <2>3. ASSUME NEW r \in Offered, SkipJob(p, r) PROVE PipelineInv'
    <3>1. /\ NextTurn(p) /\ leases' \subseteq Jobs
          /\ UNCHANGED <<proven, snarks, late, file, crashes>>
      BY <2>3, <1>b DEF SkipJob, Picked, Offered
    <3> QED BY <3>1, <1>b, <1>t, NextTurnTyped, IdleInv, SilentStepInv
  <2>4. ASSUME NEW r \in Offered, TakeJob(p, r) PROVE PipelineInv'
    <3>1. r \in Jobs /\ Covered(r) \subseteq proven /\ r.seq = Client(p) /\ Acceptable(r)
      BY <2>4 DEF Offered, TakeJob, Picked
    <3>2. /\ pc' = [pc EXCEPT ![p] = "prove"] /\ job' = [job EXCEPT ![p] = r]
          /\ leases' \subseteq Jobs
          /\ UNCHANGED <<cursor, proven, snarks, late, file, crashes>>
      BY <2>4, <3>1, <1>b DEF TakeJob, Picked
    <3>3. /\ pc' \in [SnarkProvers -> {"down", "pick", "prove", "submit"}]
          /\ cursor' \in [SnarkProvers -> DOMAIN Clients]
          /\ job' \in [SnarkProvers -> Jobs \cup {None}]
          /\ pc'[p] = "prove" /\ job'[p] = r
          /\ \A q \in SnarkProvers \ {p} :
                pc'[q] = pc[q] /\ job'[q] = job[q] /\ cursor'[q] = cursor[q]
      BY <3>1, <3>2, <1>t DEF TypeOK
    <3>4. WorkInv(p)'
      BY <3>1, <3>2, <3>3 DEF WorkInv, Client, Acceptable
    <3> QED BY <3>2, <3>3, <3>4, <1>b, SilentStepInv
  <2>5. CASE Prove(p)
    <3> DEFINE m == SubmissionOf(p)
    <3>1. m \in Submission /\ Genuine(m)
      BY <2>5, <2>w, <1>t, SubmissionGenuine DEF Prove
    <3>2. /\ pc' = [pc EXCEPT ![p] = "submit"]
          /\ file' = file \/ file' = [file EXCEPT ![p] = m]
          /\ UNCHANGED <<proven, snarks, leases, late, cursor, job, crashes>>
      BY <2>5 DEF Prove
    <3>3. /\ pc' \in [SnarkProvers -> {"down", "pick", "prove", "submit"}]
          /\ cursor' \in [SnarkProvers -> DOMAIN Clients]
          /\ job' \in [SnarkProvers -> Jobs \cup {None}]
          /\ \A q \in SnarkProvers \ {p} :
                pc'[q] = pc[q] /\ job'[q] = job[q] /\ cursor'[q] = cursor[q]
      BY <3>2, <1>t DEF TypeOK
    <3>4. WorkInv(p)'
      BY <2>5, <2>w, <3>2 DEF Prove, WorkInv, Client, Acceptable, Wrappable
    <3>5. /\ {m} \in SUBSET Submission /\ \A k \in {m} : Genuine(k)
          /\ file' = file \/ \E k \in {m} : file' = [file EXCEPT ![p] = k]
      BY <3>1, <3>2
    <3> HIDE DEF m
    <3> QED BY <3>2, <3>3, <3>4, <3>5, <1>b, ProverStepInv
  <2>6. CASE ProveFails(p)
    BY <2>6, <1>b, DieInv DEF ProveFails
  <2>7. CASE Submit(p) \/ SubmitTimesOut(p)
    <3> DEFINE m == SubmissionOf(p)
    <3>1. m \in Submission /\ Genuine(m)
      BY <2>7, <2>w, <1>t, SubmissionGenuine DEF Submit, SubmitTimesOut, WorkInv
    <3>2. /\ NextTurn(p) /\ UNCHANGED <<proven, file, crashes>>
          /\ snarks' \subseteq snarks \cup {m} /\ late' \subseteq late \cup {m}
          /\ leases' \subseteq leases
      BY <2>7, ServeTyped DEF Submit, SubmitTimesOut
    <3>3. {m} \in SUBSET Submission /\ \A k \in {m} : Genuine(k)
      BY <3>1
    <3> HIDE DEF m
    <3> QED BY <3>2, <3>3, <1>b, <1>t, NextTurnTyped, IdleInv, ProverStepInv
  <2>8. CASE Crash(p)
    <3>1. crashes' \in 0..CrashBound
      BY <2>8, <1>b, QueueAssumption DEF Crash
    <3> QED BY <2>8, <3>1, DieInv DEF Crash
  <2> QED BY <1>6, <2>1, <2>2, <2>3, <2>4, <2>5, <2>6, <2>7, <2>8 DEF ProverStep
<1>7. CASE UNCHANGED vars
  BY <1>7, <1>b, QueueStepInv DEF vars, Held
<1> QED BY <1>1, <1>2, <1>3, <1>4, <1>5, <1>6, <1>7 DEF Next, SequencerStep

(* Every prover at work holds an accepted job of the sequencer it will     *)
(* submit to, and every submission anywhere is genuine.                    *)
THEOREM PipelineInvariance == Spec => []PipelineInv
BY InitInv, StepInv, PTL DEF Spec

(* The types of the pipeline's variables. *)
THEOREM PipelineTyped == Spec => []TypeOK
<1>1. PipelineInv => TypeOK
  BY DEF PipelineInv
<1> QED BY <1>1, PipelineInvariance, PTL

(* Whatever table, binaries, jobs and failures: a SNARK a sequencer holds, *)
(* or may still be handed, covers the proven batches it claims and         *)
(* executed the program their version is bound to.                         *)
THEOREM OnlyGenuineSnarks == Spec => []SnarksGenuine
<1>1. PipelineInv => SnarksGenuine
  BY DEF PipelineInv
<1> QED BY <1>1, PipelineInvariance, PTL

(* Serving a genuine submission settles its job, or changes nothing. *)
LEMMA ServeRefines ==
  ASSUME NEW m, Genuine(m), Serve(m), UNCHANGED proven
  PROVE  [Ledger!Next]_<<proven, settled>>
<1> DEFINE r == Covered(m.claims)
<1>1. CASE r \cap settled = {}
  <2>1. r \in {Covered(j) : j \in Jobs} /\ r \subseteq proven
    BY DEF Genuine
  <2>2. settled' = settled \cup r
    <3>1. snarks' = snarks \cup {m}
      BY <1>1 DEF Serve
    <3> QED BY <3>1 DEF settled, Settled
  <2>3. Ledger!Settle(r)
    BY <1>1, <2>1, <2>2 DEF Ledger!Settle
  <2> QED BY <2>1, <2>3 DEF Ledger!Next
<1>2. CASE r \cap settled # {}
  BY <1>2 DEF Serve, settled, Settled
<1> QED BY <1>1, <1>2

LEMMA StepRefines ==
  ASSUME PipelineInv, [Next]_vars
  PROVE  [Ledger!Next]_<<proven, settled>>
<1>1. ASSUME NEW i \in FriProvable, ProveFri(i)
      PROVE  [Ledger!Next]_<<proven, settled>>
  <2>1. Ledger!Prove
    BY <1>1, QueueAssumption DEF ProveFri, Fri!ProveBatch, Ledger!Prove, Ledger!Fri!Next,
                Ledger!Fri!ProveBatch, settled, Settled
  <2> QED BY <2>1 DEF Ledger!Next
<1>2. ASSUME NEW m \in late, ServeLate(m)
      PROVE  [Ledger!Next]_<<proven, settled>>
  BY <1>2, ServeRefines DEF ServeLate, PipelineInv, SnarksGenuine
<1>3. ASSUME NEW p \in SnarkProvers, SubmitByHand(p)
      PROVE  [Ledger!Next]_<<proven, settled>>
  BY <1>3, ServeRefines DEF SubmitByHand, PipelineInv, SnarksGenuine
<1>4. ASSUME NEW p \in SnarkProvers, Submit(p)
      PROVE  [Ledger!Next]_<<proven, settled>>
  <2>1. Genuine(SubmissionOf(p))
    BY <1>4, SubmissionGenuine DEF Submit, PipelineInv, WorkInv
  <2> QED BY <1>4, <2>1, ServeRefines DEF Submit
<1>5. CASE UNCHANGED <<proven, snarks>>
  BY <1>5 DEF settled, Settled
<1>6. \/ UNCHANGED <<proven, snarks>>
      \/ \E i \in FriProvable : ProveFri(i)
      \/ \E m \in late : ServeLate(m)
      \/ \E p \in SnarkProvers : SubmitByHand(p) \/ Submit(p)
  BY DEF Next, SequencerStep, ProverStep, vars, Expire, PickUnheard, Start, PickNothing,
     SkipJob, TakeJob, Picked, Prove, ProveFails, SubmitFails, SubmitTimesOut, Crash, Die
<1> QED BY <1>1, <1>2, <1>3, <1>4, <1>5, <1>6

(* Every step of the pipeline is a step of Settlement or leaves it alone:  *)
(* nothing is settled without FRI proofs, in other parts than a job's, or  *)
(* twice.                                                                  *)
THEOREM RefinesSettlement == Spec => ImplementsSettlement
<1>1. Init => Ledger!Init
  BY DEF Init, Fri!Init, Ledger!Init, Ledger!Fri!Init, settled, Settled
<1>2. PipelineInv /\ [Next]_vars => [Ledger!Next]_<<proven, settled>>
  BY StepRefines
<1> QED BY <1>1, <1>2, PipelineInvariance, PTL DEF Spec, ImplementsSettlement, Ledger!SafeSpec

-----------------------------------------------------------------------------
(* What a prover does not take part in leaves its attempt as it is. *)
LEMMA OthersRest ==
  ASSUME NEW q \in SnarkProvers,
         pc'[q] = pc[q], job'[q] = job[q], cursor'[q] = cursor[q]
  PROVE  AttemptOf(q)!Step
BY DEF AttemptOf!Step, Busy

(* A prover that has no job in work before and after rests; one that had a *)
(* job and has none is done with it.                                       *)
LEMMA IdleStep ==
  ASSUME NEW p \in SnarkProvers, pc'[p] \in {"down", "pick"}
  PROVE  AttemptOf(p)!Step
<1>1. CASE Busy(p)
  <2>1. AttemptOf(p)!End
    BY <1>1 DEF AttemptOf!End, Busy
  <2> QED BY <2>1 DEF AttemptOf!Step, AttemptOf!Next
<1>2. CASE ~Busy(p)
  BY <1>2 DEF AttemptOf!Step, Busy
<1> QED BY <1>1, <1>2

LEMMA TakeRefines ==
  ASSUME PipelineInv, NEW p \in SnarkProvers, NEW r \in Offered, TakeJob(p, r)
  PROVE  AttemptOf(p)!Step
<1>1. /\ pc[p] = "pick" /\ pc'[p] = "prove" /\ job'[p] = r /\ cursor'[p] = cursor[p]
      /\ cursor[p] \in DOMAIN Clients
  BY DEF PipelineInv, TypeOK, TakeJob, Picked
<1>2. r \in AcceptableJobs
  BY DEF TakeJob, AcceptableJobs, Offered
<1>3. AttemptOf(p)!Take(r, cursor[p])
  BY <1>1 DEF AttemptOf!Take, Busy
<1> QED BY <1>1, <1>2, <1>3 DEF AttemptOf!Step, AttemptOf!Next

(* Here WorkInv is needed: what is proved was acceptable when picked. *)
LEMMA ProveRefines ==
  ASSUME PipelineInv, NEW p \in SnarkProvers, Prove(p)
  PROVE  AttemptOf(p)!Step
<1>1. /\ pc[p] = "prove" /\ pc'[p] = "submit" /\ job'[p] = job[p] /\ cursor'[p] = cursor[p]
  BY DEF PipelineInv, TypeOK, Prove
<1>2. job[p] \in AcceptableJobs /\ Binary[p] \in Programs /\ Fits(Binary[p], job[p])
  BY BinaryAssumption DEF PipelineInv, WorkInv, Prove, Wrappable, AcceptableJobs
<1>3. <<Binary[p], job[p]>> \in WrapperFits
  BY <1>2 DEF WrapperFits
<1>4. AttemptOf(p)!Prove
  BY <1>1, <1>3 DEF AttemptOf!Prove, Busy
<1> QED BY <1>4 DEF AttemptOf!Step, AttemptOf!Next

LEMMA ProverStepAttempts ==
  ASSUME PipelineInv, NEW p \in SnarkProvers, ProverStep(p), NEW q \in SnarkProvers
  PROVE  AttemptOf(q)!Step
<1>t. TypeOK
  BY DEF PipelineInv
<1>1. CASE q # p
  <2>1. pc'[q] = pc[q] /\ job'[q] = job[q] /\ cursor'[q] = cursor[q]
    BY <1>t, <1>1 DEF TypeOK, ProverStep, Start, PickNothing, SkipJob, TakeJob, Picked, Prove,
       ProveFails, Submit, SubmitFails, SubmitTimesOut, Crash, NextTurn, Die
  <2> QED BY <2>1, OthersRest
<1>2. CASE q = p
  <2>1. ASSUME NEW r \in Offered, TakeJob(p, r)
        PROVE  AttemptOf(p)!Step
    BY <2>1, TakeRefines
  <2>2. CASE Prove(p)
    BY <1>2, <2>2, ProveRefines
  <2>3. CASE pc'[p] \in {"down", "pick"}
    BY <1>2, <2>3, IdleStep
  <2>4. (\E r \in Offered : TakeJob(p, r)) \/ Prove(p) \/ pc'[p] \in {"down", "pick"}
    BY <1>t DEF TypeOK, ProverStep, Start, PickNothing, SkipJob, ProveFails, Submit,
       SubmitFails, SubmitTimesOut, Crash, NextTurn, Die
  <2> QED BY <1>2, <2>1, <2>2, <2>3, <2>4
<1> QED BY <1>1, <1>2

(* Every prover of the pipeline implements SnarkAttempt, as the standalone *)
(* prover and the service do: the pipeline's three steps of a job are what *)
(* the attempts of SnarkRunInner amount to.                                *)
THEOREM PipelineImplementsAttempts == Spec => ImplementsAttempts
<1>1. Init => \A p \in SnarkProvers : AttemptOf(p)!Init
  BY BinaryAssumption DEF Init, AttemptOf!Init, Busy
<1>2. PipelineInv /\ [Next]_vars => [\A p \in SnarkProvers : AttemptOf(p)!Step]_vars
  <2> SUFFICES ASSUME PipelineInv, Next, NEW q \in SnarkProvers
               PROVE  AttemptOf(q)!Step
    OBVIOUS
  <2>1. CASE SequencerStep
    <3>1. UNCHANGED <<pc, job, cursor>>
      BY <2>1 DEF SequencerStep, ProveFri, Expire, PickUnheard, ServeLate, SubmitByHand, proverVars
    <3> QED BY <3>1, OthersRest
  <2>2. CASE \E p \in SnarkProvers : ProverStep(p)
    BY <2>2, ProverStepAttempts
  <2> QED BY <2>1, <2>2 DEF Next
<1> QED BY <1>1, <1>2, PipelineInvariance, PTL DEF Spec, ImplementsAttempts
=============================================================================
