------------------------ MODULE ProverService_proofs ------------------------
(***************************************************************************)
(* The safety of the combined prover service for any version table, any    *)
(* jobs its sequencers send and any limits: ServiceInv is inductive, and   *)
(* GPU exclusivity, the single setup derivation and the satisfiability of  *)
(* what is wrapped follow from it.                                         *)
(***************************************************************************)
EXTENDS ProverService, SnarkRunInner_proofs, FiniteSetTheorems

LEMMA InitService == Init => ServiceInv
<1> SUFFICES ASSUME Init PROVE ServiceInv
  OBVIOUS
<1>1. /\ stage = "idle" /\ phase = "create" /\ device = {} /\ derivations = 0 /\ taken = 0
      /\ combinerWarm = FALSE /\ hostCache = FALSE /\ snarkJob = NoJob /\ proof = NoProof
      /\ bound = NoCommitment /\ disk \in Programs
  BY PerJobAssumption DEF Init, SnarkInit
<1>2. SnarkTypeOK
  <2>1. hostCache \in BOOLEAN /\ combinerWarm \in BOOLEAN
    BY <1>1, Zenon
  <2>2. derivations \in 0..2 /\ taken \in 0..ProofBound
    BY <1>1, CountAssumption
  <2>3. stage \in Stage /\ device \subseteq {"fri", "combiner", "wrapper"}
    BY <1>1 DEF Stage
  <2> QED BY <1>1, <2>1, <2>2, <2>3, Zenon DEF SnarkTypeOK
<1>3. TypeOK
  BY <1>2, ServiceAssumption, CountAssumption DEF Init, TypeOK, Phase
<1>4. StageInv /\ device = Holder /\ JobInv /\ BoundInv /\ TakenInv
  BY <1>1 DEF StageInv, Holder, JobInv, Proving, BoundInv, TakenInv
<1>5. DerivedOnce
  BY <1>1 DEF DerivedOnce
<1> QED BY <1>3, <1>4, <1>5 DEF ServiceInv

(* A step of the attempt. *)
LEMMA AttemptInv ==
  ASSUME ServiceInv, Attempt
  PROVE  ServiceInv'
<1>1. SnarkTypeOK' /\ JobInv'
  BY AttemptKeepsJob DEF ServiceInv, TypeOK, Attempt
<1>2. TypeOK'
  BY <1>1 DEF ServiceInv, TypeOK, Attempt, serviceVars
<1>3. StageInv' /\ device' = Holder' /\ DerivedOnce' /\ BoundInv'
  <2> USE PerJobAssumption DEF ServiceInv, TypeOK, SnarkTypeOK, serviceVars, program, Goto,
      Attempt, StageInv, Holder, DerivedOnce, BoundInv
  <2> HIDE DEF TypeOK, SnarkTypeOK
  <2>1. CASE PickStep
    BY <2>1 DEF PickStep, PickNothing, PickFatal, Fatal, PickSkip, PickJob
  <2>2. CASE MergeOne \/ MergeMany \/ Combine \/ CombineFails
    BY <2>2 DEF MergeOne, MergeMany, Combine, CombineFails, Fatal
  <2>3. CASE BuildWrapper
    <3>1. stage = "build" /\ device = {} /\ device # {"wrapper"}
      BY <2>3 DEF BuildWrapper
    <3>2. derivations \in 0..1 /\ (hostCache <=> derivations = 1)
      BY <3>1 DEF TypeOK, SnarkTypeOK
    <3>3. derivations' = 1 /\ bound' \in Programs
      <4>1. CASE hostCache
        BY <2>3, <3>2, <4>1 DEF BuildWrapper, TypeOK, SnarkTypeOK
      <4>2. CASE ~hostCache
        BY <2>3, <3>2, <4>2 DEF BuildWrapper, DeriveWrapper, UpTo, TypeOK, SnarkTypeOK
      <4> QED BY <4>1, <4>2
    <3>4. device' = {"wrapper"} /\ phase' = "snark" /\ stage' = "wrap" /\ hostCache' = FALSE
      BY <2>3, <3>1 DEF BuildWrapper
    <3> QED BY <3>3, <3>4, NoneIsNoProgram
  <2>4. CASE BuildFails \/ Wrap \/ WrapFails \/ Snarkify
    BY <2>4 DEF BuildFails, Wrap, WrapFails, Fatal, Snarkify
  <2>5. CASE SubmitOk \/ SubmitFails \/ SubmitUnheard
    BY <2>5 DEF SubmitOk, SubmitFails, SubmitUnheard, Return
  <2> QED BY <2>1, <2>2, <2>3, <2>4, <2>5 DEF SnarkStep, ProvingStep
<1>4. TakenInv'
  <2>1. taken \in 0..ProofBound /\ ProofBound > 0
    BY CountAssumption DEF ServiceInv, TypeOK, SnarkTypeOK
  <2>2. CASE SubmitOk
    BY <2>1, <2>2 DEF SubmitOk, UpTo, TakenInv
  <2>3. CASE ~SubmitOk
    <3>1. stage' # "true"
      BY <2>3 DEF Attempt, SnarkStep, PickStep, ProvingStep, Goto, PickNothing, PickFatal,
         PickSkip, PickJob, Fatal, MergeOne, MergeMany, Combine, CombineFails, BuildWrapper,
         BuildFails, Wrap, WrapFails, Snarkify, SubmitFails, SubmitUnheard, Return
    <3> QED BY <3>1 DEF TakenInv
  <2> QED BY <2>2, <2>3
<1> QED BY <1>1, <1>2, <1>3, <1>4 DEF ServiceInv

(* Steps of the service itself leave the job and the wrapper alone. *)
LEMMA ServiceStepInv ==
  ASSUME ServiceInv, Next, ~Attempt
  PROVE  ServiceInv'
<1> USE PerJobAssumption, ServiceAssumption, CountAssumption
    DEF ServiceInv, TypeOK, SnarkTypeOK, Stage, Returned, Phase, StageInv, Holder,
        program, DerivedOnce, BoundInv, TakenInv
<1>0. JobInv'
  BY LoopKeepsJob DEF Next, FriStep, CreateFriProver, CreateFails, FriAttempt, FriFatal, Fail,
     SnarkFatal, SnarkAcquired, SnarkTimedOut, EndCycle, Pause, Retry, Tick, Replace, snarkVars
<1>1. CASE CreateFriProver
  BY <1>0, <1>1 DEF CreateFriProver
<1>2. CASE CreateFails
  BY <1>0, <1>2 DEF CreateFails, snarkVars
<1>3. ASSUME NEW generated \in BOOLEAN, FriAttempt(generated)
      PROVE  ServiceInv'
  <2>1. friCount' \in 0..MaxFrisPerSnark
    BY <1>3, CountersTyped DEF FriAttempt
  <2>2. CASE phase' = "snark"
    BY <1>0, <1>3, <2>1, <2>2 DEF FriAttempt
  <2>3. CASE phase' # "snark"
    BY <1>0, <1>3, <2>1, <2>3 DEF FriAttempt
  <2> QED BY <2>2, <2>3
<1>4. CASE FriFatal \/ SnarkFatal
  <2>1. Fail
    BY <1>4 DEF FriFatal, SnarkFatal
  <2> QED BY <1>0, <2>1 DEF Fail
<1>5. ASSUME NEW count \in 0..ProofBound, EndCycle(count), phase = "snark",
             stage \in {"true", "false"}
      PROVE  ServiceInv'
  <2>1. cursor' \in 1..ClientCount
    BY <1>5 DEF EndCycle
  <2> QED BY <1>0, <1>5, <2>1 DEF EndCycle
<1>6. CASE SnarkAcquired
  BY <1>5, <1>6, CountersTyped DEF SnarkAcquired
<1>7. CASE SnarkTimedOut
  BY <1>5, <1>7 DEF SnarkTimedOut
<1>8. CASE Pause
  BY <1>0, <1>8 DEF Pause, snarkVars
<1>9. CASE Retry
  BY <1>0, <1>9 DEF Retry
<1>10. CASE Tick
  <2>1. sinceSnark' \in 0..MaxSnarkLatency /\ sinceAcquire' \in 0..AcquireTimeout
    BY <1>10, CountersTyped DEF Tick
  <2> QED BY <1>0, <1>10, <2>1 DEF Tick, snarkVars
<1>11. ASSUME NEW c \in Programs, Replace(c)
       PROVE  ServiceInv'
  BY <1>0, <1>11 DEF Replace, serviceVars
<1> QED
  BY <1>1, <1>2, <1>3, <1>4, <1>6, <1>7, <1>8, <1>9, <1>10, <1>11 DEF Next, FriStep

(* ServiceInv holds in every state of the service. *)
THEOREM ServiceInvariance == Spec => []ServiceInv
<1>1. ServiceInv /\ [Next]_vars => ServiceInv'
  <2> SUFFICES ASSUME ServiceInv, [Next]_vars PROVE ServiceInv'
    OBVIOUS
  <2>1. CASE UNCHANGED vars
    BY <2>1, LoopKeepsJob DEF vars, ServiceInv, TypeOK, SnarkTypeOK, StageInv, Holder,
       DerivedOnce, BoundInv, TakenInv
  <2>2. CASE Next
    BY <2>2, AttemptInv, ServiceStepInv
  <2> QED BY <2>1, <2>2
<1> QED BY <1>1, InitService, PTL DEF Spec

(* The types of all variables of the service are as declared. *)
THEOREM ServiceTyped == Spec => []TypeOK
BY ServiceInvariance, PTL DEF ServiceInv

(* Never two of FRI prover, combiner and wrapper on the GPU. *)
THEOREM GpuExclusive == Spec => []DeviceExclusive
<1>1. ServiceInv => DeviceExclusive
  <2> SUFFICES ASSUME ServiceInv PROVE DeviceExclusive
    OBVIOUS
  <2>1. device = {} \/ \E x : device = {x}
    BY DEF ServiceInv, Holder
  <2>2. Cardinality(device) <= 1
    <3>1. CASE device = {}
      BY <3>1, FS_EmptySet
    <3>2. CASE \E x : device = {x}
      BY <3>2, FS_Singleton
    <3> QED BY <2>1, <3>1, <3>2
  <2> QED BY <2>2 DEF ServiceInv, Holder, StageInv, DeviceExclusive
<1> QED BY <1>1, ServiceInvariance, PTL

(* The wrapper's setups are derived at most once in the life of a process. *)
THEOREM SetupDerivedOnce == Spec => []DerivedOnce
BY ServiceInvariance, PTL DEF ServiceInv

(* Whatever its sequencers send, the service wraps no unsatisfiable proof. *)
THEOREM OnlySatisfiableWrapped == Spec => []WrapSatisfiable
<1>1. ServiceInv => WrapSatisfiable
  BY JobFitsWrapper DEF ServiceInv, TypeOK, SnarkTypeOK, BoundInv, Programs
<1> QED BY <1>1, ServiceInvariance, PTL

(* The only step that binds a program is the first wrapper's construction. *)
THEOREM ProgramKeptForLife == Spec => BoundForLife
<1>1. ServiceInv /\ [Next]_vars => [bound # NoCommitment => bound' = bound]_vars
  <2> SUFFICES ASSUME ServiceInv, Next, bound # NoCommitment
               PROVE  bound' = bound
    BY DEF vars
  <2>1. CASE Attempt
    <3>1. CASE BuildWrapper
      <4>1. stage = "build" /\ phase = "snark" /\ device = {} /\ derivations = 1
        BY <2>1, <3>1 DEF Attempt, BuildWrapper, ServiceInv, BoundInv, DerivedOnce, Holder,
           TypeOK, SnarkTypeOK
      <4>2. hostCache
        BY <4>1 DEF ServiceInv, DerivedOnce
      <4> QED BY <3>1, <4>2 DEF BuildWrapper
    <3>2. CASE ~BuildWrapper
      BY <2>1, <3>2 DEF Attempt, SnarkStep, PickStep, ProvingStep, program, PickNothing,
         PickFatal, PickSkip, PickJob, Fatal, MergeOne, MergeMany, Combine, CombineFails,
         BuildFails, Wrap, WrapFails, Snarkify, SubmitOk, SubmitFails, SubmitUnheard, Return
    <3> QED BY <3>1, <3>2
  <2>2. CASE ~Attempt
    BY <2>2 DEF Next, FriStep, program, snarkVars, CreateFriProver, CreateFails, FriAttempt,
       FriFatal, Fail, SnarkFatal, EndCycle, SnarkAcquired, SnarkTimedOut, Pause, Retry,
       Tick, Replace
  <2> QED BY <2>1, <2>2
<1> QED BY <1>1, ServiceInvariance, PTL DEF Spec, BoundForLife

(* A SNARK is counted only by SnarkAcquired, after a submission that was   *)
(* taken in the phase that ends with it.                                   *)
THEOREM CountedProofsDelivered == Spec => CountsDelivered
<1>1. ServiceInv /\ [Next]_vars => [snarkCount' # snarkCount => taken > 0]_vars
  <2> SUFFICES ASSUME ServiceInv, Next, snarkCount' # snarkCount
               PROVE  taken > 0
    BY DEF vars
  <2>1. SnarkAcquired
    BY DEF Next, Attempt, FriStep, snarkVars, serviceVars, CreateFriProver, CreateFails,
       FriAttempt, FriFatal, Fail, SnarkFatal, EndCycle, SnarkTimedOut, Pause, Retry, Tick,
       Replace
  <2> QED BY <2>1 DEF SnarkAcquired, ServiceInv, TakenInv
<1> QED BY <1>1, ServiceInvariance, PTL DEF Spec, CountsDelivered

(* No SNARK of another program is submitted, whatever the FRI prover runs. *)
THEOREM ServiceSubmitsOwn == Spec => []SubmitsOwnProgram
<1>1. ServiceInv => SubmitsOwnProgram
  BY JobPinsProgram DEF ServiceInv
<1> QED BY <1>1, ServiceInvariance, PTL

(* A setup is derived only where there is no cache, hence before a program *)
(* is bound: this is where the host cache matters to the refinement.       *)
LEMMA AttemptRefines ==
  ASSUME ServiceInv, Attempt
  PROVE  [AttemptOf!Next]_<<At, WorkFor(cursor), bound>>
<1>1. Moves /\ cursor' = cursor /\ cursor \in 1..ClientCount /\ disk \in Programs
  BY AttemptMoves DEF ServiceInv, TypeOK, SnarkTypeOK, Attempt, serviceVars
<1>2. CASE Rests
  BY <1>1, <1>2 DEF Rests, WorkFor
<1>3. CASE Picks
  <2>1. AttemptOf!Take(snarkJob', cursor)
    BY <1>1, <1>3 DEF Picks, WorkFor, AttemptOf!Take
  <2> QED BY <1>1, <1>3, <2>1 DEF Picks, AttemptOf!Next
<1>4. CASE Proves
  <2>1. AttemptOf!Prove
    BY <1>1, <1>4 DEF Proves, WorkFor, AttemptOf!Prove
  <2> QED BY <2>1 DEF AttemptOf!Next
<1>5. CASE Ends
  <2>1. AttemptOf!End
    BY <1>5 DEF Ends, WorkFor, AttemptOf!End
  <2> QED BY <2>1 DEF AttemptOf!Next
<1>6. CASE Binds
  <2>1. phase = "snark" /\ device = {} /\ derivations \in 0..2
    BY <1>6 DEF Binds, Attempt, ServiceInv, Holder, TypeOK, SnarkTypeOK
  <2>2. derivations = 0
    BY <1>6, <2>1 DEF Binds, ServiceInv, DerivedOnce
  <2>3. AttemptOf!Bind(disk)
    BY <1>1, <1>6, <2>2 DEF Binds, ServiceInv, BoundInv, WorkFor, AttemptOf!Bind
  <2> QED BY <1>1, <2>3 DEF AttemptOf!Next
<1> QED BY <1>1, <1>2, <1>3, <1>4, <1>5, <1>6 DEF Moves

(* All other steps of the service take place between two attempts. *)
LEMMA ServiceStepRefines ==
  ASSUME ServiceInv, Next, ~Attempt
  PROVE  UNCHANGED <<At, WorkFor(cursor), bound>>
<1> USE DEF At, Proving, program
<1>1. CASE FriStep \/ SnarkFatal \/ SnarkAcquired \/ SnarkTimedOut \/ Pause \/ Retry
  <2>1. At = "rest" /\ At' = "rest" /\ bound' = bound
    BY <1>1 DEF ServiceInv, StageInv, FriStep, CreateFriProver, CreateFails, FriAttempt,
       FriFatal, Fail, SnarkFatal, SnarkAcquired, SnarkTimedOut, EndCycle, Pause, Retry, snarkVars
  <2> QED BY <2>1 DEF WorkFor
<1>2. CASE Tick \/ \E c \in Programs : Replace(c)
  BY <1>2 DEF Tick, Replace, WorkFor, snarkVars, serviceVars
<1> QED BY <1>1, <1>2 DEF Next

(* The combined service implements SnarkAttempt, too, although it builds a *)
(* wrapper per job and may have its app.bin replaced between two of them.  *)
THEOREM ServiceImplementsAttempt == Spec => ImplementsAttempt
<1>1. Init => AttemptOf!Init
  BY DEF Init, SnarkInit, AttemptOf!Init, At, Proving, WorkFor
<1>2. ServiceInv /\ [Next]_vars => [AttemptOf!Next]_<<At, WorkFor(cursor), bound>>
  <2> SUFFICES ASSUME ServiceInv, [Next]_vars
               PROVE  [AttemptOf!Next]_<<At, WorkFor(cursor), bound>>
    OBVIOUS
  <2>1. CASE UNCHANGED vars
    BY <2>1 DEF vars, At, WorkFor
  <2> QED BY <2>1, AttemptRefines, ServiceStepRefines
<1> QED BY <1>1, <1>2, ServiceInvariance, PTL DEF Spec, ImplementsAttempt, AttemptOf!Spec
=============================================================================
