------------------------- MODULE SnarkAttempt_proofs -------------------------
(***************************************************************************)
(* What SnarkAttempt promises, and with it every process shown to          *)
(* implement it: between a pick and the end of its attempt the job is an   *)
(* acceptable one of one sequencer, and what is submitted was proved by a  *)
(* wrapper its job fits, which is still the one the process is bound to.   *)
(***************************************************************************)
EXTENDS SnarkAttempt, TLAPS

WorkHeld ==
  /\ at \in {"rest", "prove", "submit"}
  /\ IF at = "rest" THEN work = NoWork
     ELSE work \in [job : AcceptableJobs, client : Clients]

ProofFits == at = "submit" => <<bound, work.job>> \in WrapperFits

AttemptInv == WorkHeld /\ ProofFits

(* AttemptInv is inductive, since a program is bound at rest or before a   *)
(* job is proved, never between a proof and its submission.                *)
THEOREM AttemptsFit == Spec => []AttemptInv
<1> USE DEF AttemptInv, WorkHeld, ProofFits
<1>1. Init => AttemptInv
  BY DEF Init
<1>2. AttemptInv /\ [Next]_<<at, work, bound>> => AttemptInv'
  <2> SUFFICES ASSUME AttemptInv, [Next]_<<at, work, bound>> PROVE AttemptInv'
    OBVIOUS
  <2>1. ASSUME NEW j \in AcceptableJobs, NEW c \in Clients, Take(j, c) PROVE AttemptInv'
    BY <2>1 DEF Take
  <2>2. CASE Prove
    BY <2>2 DEF Prove
  <2>3. CASE End \/ Die
    BY <2>3 DEF End, Die
  <2>4. ASSUME NEW program \in Programs, Bind(program) PROVE AttemptInv'
    BY <2>4 DEF Bind
  <2>5. CASE UNCHANGED <<at, work, bound>>
    BY <2>5
  <2> QED BY <2>1, <2>2, <2>3, <2>4, <2>5 DEF Next
<1> QED BY <1>1, <1>2, PTL DEF Spec
=============================================================================
