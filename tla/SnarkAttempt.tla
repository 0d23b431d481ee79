---------------------------- MODULE SnarkAttempt ----------------------------
(***************************************************************************)
(* What a SNARK prover does with a job, whatever process runs it and       *)
(* however many stages it takes: it picks an acceptable job from one of    *)
(* its sequencers, perhaps proves it, and then holds a proof for that      *)
(* sequencer until the attempt ends.  A proof exists only of a job that    *)
(* fits the program the process is bound to, and a process is bound once.  *)
(***************************************************************************)
CONSTANTS
  AcceptableJobs,   \* the jobs that pass the checks
  WrapperFits,      \* <<program, job>>: a wrapper bound to program can prove job
  Clients,          \* sequencers
  Programs,
  NoWork, NoProgram

VARIABLES
  at,      \* resting, proving a job, or submitting the proof of one
  work,    \* the job and whom it is for
  bound    \* the program the process is bound to

Init ==
  /\ at = "rest"
  /\ work = NoWork
  /\ bound \in Programs \cup {NoProgram}

Take(j, c) ==
  /\ at = "rest"
  /\ at' = "prove"
  /\ work' = [job |-> j, client |-> c]
  /\ UNCHANGED bound

Prove ==
  /\ at = "prove"
  /\ <<bound, work.job>> \in WrapperFits
  /\ at' = "submit"
  /\ UNCHANGED <<work, bound>>

(* The proof is delivered, or lost, or there is none. *)
End ==
  /\ at # "rest"
  /\ at' = "rest"
  /\ work' = NoWork
  /\ UNCHANGED bound

Bind(program) ==
  /\ bound = NoProgram
  /\ at # "submit"
  /\ bound' = program
  /\ UNCHANGED <<at, work>>

(* The process dies; its successor is a new one. *)
Die ==
  /\ at' = "rest"
  /\ work' = NoWork
  /\ bound' = NoProgram

Next ==
  \/ End \/ Prove \/ Die
  \/ \E c \in Clients : \E j \in AcceptableJobs : Take(j, c)
  \/ \E program \in Programs : Bind(program)

Step == UNCHANGED <<at, work, bound>> \/ Next

Spec == Init /\ [][Next]_<<at, work, bound>>
=============================================================================
