------------------------- MODULE SnarkProver_proofs -------------------------
(***************************************************************************)
(* The safety of the standalone SNARK prover for any version table, any    *)
(* jobs its sequencers send and any binaries that come to lie on disk:     *)
(* ProverInv is inductive; what is wrapped for the bound program satisfies *)
(* its circuit, and the sequencers have taken what was counted.            *)
(***************************************************************************)
EXTENDS SnarkProver, SnarkRunInner_proofs

LEMMA InitProver == Init => ProverInv
<1> SUFFICES ASSUME Init PROVE ProverInv
  OBVIOUS
<1>1. /\ stage = "idle" /\ run = "startup" /\ device = {} /\ derivations = 0 /\ taken = 0
      /\ combinerWarm = FALSE /\ hostCache = FALSE /\ snarkJob = NoJob /\ proof = NoProof
      /\ bound = NoCommitment /\ disk \in Programs /\ cursor = 1 /\ proofCount = 0
  BY DEF Init, SnarkInit
<1>2. SnarkTypeOK
  <2>1. hostCache \in BOOLEAN /\ combinerWarm \in BOOLEAN
    BY <1>1, Zenon
  <2>2. derivations \in 0..2 /\ taken \in 0..ProofBound
    BY <1>1, CountAssumption
  <2>3. stage \in Stage /\ device \subseteq {"fri", "combiner", "wrapper"}
    BY <1>1 DEF Stage
  <2> QED BY <1>1, <2>1, <2>2, <2>3, Zenon DEF SnarkTypeOK
<1>3. TypeOK
  BY <1>1, <1>2, ProverAssumption, CountAssumption DEF TypeOK, Alive
<1>4. LoopInv /\ device = HeldDevices /\ JobInv /\ WrapperInv
  BY <1>1 DEF LoopInv, HeldDevices, JobInv, Proving, WrapperInv
<1>5. CountInv
  BY <1>1 DEF CountInv, CountsTaken
<1> QED BY <1>3, <1>4, <1>5 DEF ProverInv

(* A step of the attempt: the wrapper stays, the combiner comes and goes,  *)
(* and `taken` grows before `proofCount` does.                             *)
LEMMA AttemptInv ==
  ASSUME ProverInv, Attempt
  PROVE  ProverInv'
<1>1. SnarkTypeOK' /\ JobInv'
  BY AttemptKeepsJob DEF ProverInv, TypeOK, Attempt
<1>2. TypeOK'
  BY <1>1 DEF ProverInv, TypeOK, Attempt, runVars
<1>3. /\ run = "running" /\ UNCHANGED <<run, cursor, proofCount>>
      /\ derivations = 1 /\ bound \in Programs /\ device = HeldDevices /\ SnarkStep
  BY DEF ProverInv, WrapperInv, Attempt, runVars
<1>4. /\ stage' # "idle" /\ device' = HeldDevices' /\ UNCHANGED <<derivations, bound>>
  <2> USE <1>3, ResidentWrapper DEF HeldDevices, Goto, program
  <2>1. CASE PickStep
    BY <2>1 DEF PickStep, PickNothing, PickFatal, Fatal, PickSkip, PickJob
  <2>2. CASE MergeOne \/ MergeMany \/ Combine \/ CombineFails
    BY <2>2 DEF MergeOne, MergeMany, Combine, CombineFails, Fatal
  <2>3. CASE BuildWrapper \/ BuildFails \/ Wrap \/ WrapFails \/ Snarkify
    BY <2>3 DEF BuildWrapper, BuildFails, Wrap, WrapFails, Fatal, Snarkify
  <2>4. CASE SubmitOk \/ SubmitFails \/ SubmitUnheard
    BY <2>4 DEF SubmitOk, SubmitFails, SubmitUnheard, Return
  <2> QED BY <2>1, <2>2, <2>3, <2>4 DEF SnarkStep, ProvingStep
<1>5. CountInv'
  <2>1. /\ proofCount \in 0..ProofBound /\ taken \in 0..ProofBound /\ proofCount <= taken
        /\ ProofBound \in Nat \ {0}
    BY ProverAssumption, CountAssumption DEF ProverInv, TypeOK, SnarkTypeOK, CountInv, CountsTaken
  <2>2. CASE SubmitOk
    BY <1>3, <2>1, <2>2 DEF SubmitOk, UpTo, CountInv, CountsTaken
  <2>3. CASE SubmitUnheard
    BY <1>3, <2>1, <2>3 DEF SubmitUnheard, UpTo, Return, Goto, CountInv, CountsTaken
  <2>4. CASE ~SubmitOk /\ ~SubmitUnheard
    <3>1. taken' = taken /\ stage' # "true"
      BY <1>3, <2>4 DEF SnarkStep, PickStep, ProvingStep, Goto, PickNothing, PickFatal,
         PickSkip, PickJob, Fatal, MergeOne, MergeMany, Combine, CombineFails, BuildWrapper,
         BuildFails, Wrap, WrapFails, Snarkify, SubmitFails, Return
    <3> QED BY <1>3, <2>1, <3>1 DEF CountInv, CountsTaken
  <2> QED BY <2>2, <2>3, <2>4
<1> QED
  BY <1>1, <1>2, <1>3, <1>4, <1>5 DEF ProverInv, LoopInv, WrapperInv

(* Steps of the loop leave the job alone. *)
LEMMA LoopStepInv ==
  ASSUME ProverInv, Next, ~Attempt
  PROVE  ProverInv'
<1> USE ProverAssumption, CountAssumption
    DEF ProverInv, TypeOK, SnarkTypeOK, Stage, Returned, Alive, LoopInv, HeldDevices,
        WrapperInv, CountInv, CountsTaken, Goto, program
<1>0. JobInv'
  BY LoopKeepsJob DEF Next, StartUp, StartUpFails, Panic, Kill, Gone, Generated, NotGenerated,
     Wake, Restart, Replace, snarkVars
<1>1. CASE StartUp
  <2>1. derivations' = 1 /\ bound' \in Programs
    BY <1>1 DEF StartUp, DeriveWrapper, UpTo
  <2> QED BY <1>0, <1>1, <2>1 DEF StartUp
<1>2. CASE Gone
  <2>1. /\ run' = "dead" /\ stage' = "idle" /\ snarkJob' = NoJob /\ proof' = NoProof
        /\ device' = {} /\ combinerWarm' = FALSE /\ derivations' = 0 /\ bound' = NoCommitment
        /\ cursor' = 1 /\ proofCount' = 0 /\ taken' = 0
        /\ hostCache' = hostCache /\ disk' = disk
    BY <1>2 DEF Gone
  <2>2. TypeOK'
    <3>1. hostCache' \in BOOLEAN /\ combinerWarm' \in BOOLEAN
      BY <2>1
    <3> QED BY <2>1, <3>1
  <2>3. LoopInv' /\ (device = HeldDevices)'
    BY <2>1
  <2>4. WrapperInv' /\ CountInv'
    BY <2>1
  <2> QED BY <1>0, <2>2, <2>3, <2>4
<1>3. CASE Generated
  <2>1. Counted \in 0..ProofBound /\ cursor' \in 1..ClientCount /\ proofCount' = Counted
    BY <1>3 DEF Generated, Counted, UpTo, NextClient
  <2>2. proofCount' <= taken
    BY <1>3 DEF Generated, Counted, UpTo
  <2>3. CASE run' = "exited"
    BY <1>0, <1>3, <2>1, <2>2, <2>3 DEF Generated
  <2>4. CASE run' = "running"
    BY <1>0, <1>3, <2>1, <2>2, <2>4 DEF Generated
  <2> QED BY <1>3, <2>3, <2>4 DEF Generated
<1>4. CASE NotGenerated \/ Restart
  BY <1>0, <1>4 DEF NotGenerated, Restart, snarkVars
<1>5. CASE Wake
  <2>1. cursor' \in 1..ClientCount
    BY <1>5 DEF Wake, NextClient
  <2> QED BY <1>0, <1>5, <2>1 DEF Wake
<1>6. ASSUME NEW c \in Programs, Replace(c)
      PROVE  ProverInv'
  BY <1>0, <1>6 DEF Replace, runVars
<1> QED
  BY <1>1, <1>2, <1>3, <1>4, <1>5, <1>6 DEF Next, StartUpFails, Panic, Kill

(* ProverInv holds in every state of the standalone prover. *)
THEOREM ProverInvariance == Spec => []ProverInv
<1>1. ProverInv /\ [Next]_vars => ProverInv'
  <2> SUFFICES ASSUME ProverInv, [Next]_vars PROVE ProverInv'
    OBVIOUS
  <2>1. CASE UNCHANGED vars
    BY <2>1, LoopKeepsJob DEF vars, ProverInv, TypeOK, SnarkTypeOK, LoopInv, HeldDevices,
       WrapperInv, CountInv, CountsTaken
  <2>2. CASE Next
    BY <2>2, AttemptInv, LoopStepInv
  <2> QED BY <2>1, <2>2
<1> QED BY <1>1, InitProver, PTL DEF Spec

(* The types of all variables are as declared. *)
THEOREM ProverTyped == Spec => []TypeOK
BY ProverInvariance, PTL DEF ProverInv

(* Every counted proof was taken by a sequencer, for all ways calls fail. *)
THEOREM CountedProofsTaken == Spec => []CountsTaken
BY ProverInvariance, PTL DEF ProverInv, CountInv

(* A job of the version the prover is bound to never fails in the circuit. *)
THEOREM ResidentWrapsSatisfiable == Spec => []WrapSatisfiable
<1>1. ProverInv => WrapSatisfiable
  <2> SUFFICES ASSUME ProverInv PROVE WrapSatisfiable
    OBVIOUS
  <2>1. stage \in {"wrap", "snarkify"} => run \in {"running", "sleeping"}
    BY DEF ProverInv, LoopInv, TypeOK, Alive
  <2>2. stage \in {"wrap", "snarkify"} => bound \in Commitment
    BY <2>1 DEF ProverInv, WrapperInv, Programs
  <2> QED BY <2>2, JobFitsWrapper DEF ProverInv
<1> QED BY <1>1, ProverInvariance, PTL

(* A SNARK is submitted for the program its job's version is bound to. *)
THEOREM ResidentSubmitsOwn == Spec => []SubmitsOwnProgram
<1>1. ProverInv => SubmitsOwnProgram
  BY JobPinsProgram DEF ProverInv
<1> QED BY <1>1, ProverInvariance, PTL

(* A step of the attempt is one of SnarkAttempt's, which has none to bind  *)
(* a program in a process with a resident wrapper.                         *)
LEMMA AttemptRefines ==
  ASSUME ProverInv, Attempt
  PROVE  [AttemptOf!Next]_<<At, WorkFor(cursor), bound>>
<1>1. Moves /\ cursor' = cursor /\ cursor \in 1..ClientCount /\ ~Binds
  BY AttemptMoves, ResidentWrapper DEF ProverInv, TypeOK, Attempt, runVars, Binds
<1>2. CASE Rests
  BY <1>1, <1>2 DEF Rests, WorkFor
<1>3. CASE Picks
  <2>1. AttemptOf!Take(snarkJob', cursor)
    BY <1>1, <1>3 DEF Picks, WorkFor, AttemptOf!Take
  <2> QED BY <1>1, <1>3, <2>1 DEF Picks, AttemptOf!Next
<1>4. CASE Proves
  <2>1. AttemptOf!Prove
    BY <1>1, <1>4 DEF Proves, WorkFor, AttemptOf!Prove
  <2> QED BY <2>1 DEF AttemptOf!Next
<1>5. CASE Ends
  <2>1. AttemptOf!End
    BY <1>5 DEF Ends, WorkFor, AttemptOf!End
  <2> QED BY <2>1 DEF AttemptOf!Next
<1> QED BY <1>1, <1>2, <1>3, <1>4, <1>5 DEF Moves

(* Of the loop's steps only startup binds and only a death unbinds; none   *)
(* happens between a pick and the end of its attempt but a death.          *)
LEMMA LoopStepRefines ==
  ASSUME ProverInv, Next, ~Attempt
  PROVE  [AttemptOf!Next]_<<At, WorkFor(cursor), bound>>
<1> USE DEF At, Proving, Goto, program
<1>1. CASE StartUp
  <2>1. AttemptOf!Bind(disk)
    BY <1>1 DEF StartUp, DeriveWrapper, ProverInv, LoopInv, WrapperInv, WorkFor, AttemptOf!Bind
  <2> QED BY <2>1 DEF AttemptOf!Next, ProverInv, TypeOK, SnarkTypeOK
<1>2. CASE Gone
  <2>1. AttemptOf!Die
    BY <1>2 DEF Gone, WorkFor, AttemptOf!Die
  <2> QED BY <2>1 DEF AttemptOf!Next
<1>3. CASE Generated \/ NotGenerated \/ Wake \/ Restart
  <2>1. At = "rest" /\ At' = "rest" /\ bound' = bound
    BY <1>3 DEF Generated, NotGenerated, Wake, Restart, ProverInv, LoopInv, snarkVars
  <2> QED BY <2>1 DEF WorkFor
<1>4. CASE \E c \in Programs : Replace(c)
  BY <1>4 DEF Replace, runVars, WorkFor
<1> QED BY <1>1, <1>2, <1>3, <1>4 DEF Next, StartUpFails, Panic, Kill

(* The standalone prover implements SnarkAttempt: over kills, restarts and *)
(* replaced binaries every proof it submits is of the job it picked, to    *)
(* the sequencer it picked from, by a wrapper of the program it is bound   *)
(* to, which does not change while the process lives.                      *)
THEOREM ProverImplementsAttempt == Spec => ImplementsAttempt
<1>1. Init => AttemptOf!Init
  BY DEF Init, SnarkInit, AttemptOf!Init, At, Proving, WorkFor
<1>2. ProverInv /\ [Next]_vars => [AttemptOf!Next]_<<At, WorkFor(cursor), bound>>
  <2> SUFFICES ASSUME ProverInv, [Next]_vars
               PROVE  [AttemptOf!Next]_<<At, WorkFor(cursor), bound>>
    OBVIOUS
  <2>1. CASE UNCHANGED vars
    BY <2>1 DEF vars, At, WorkFor
  <2> QED BY <2>1, AttemptRefines, LoopStepRefines
<1> QED BY <1>1, <1>2, ProverInvariance, PTL DEF Spec, ImplementsAttempt, AttemptOf!Spec
=============================================================================
