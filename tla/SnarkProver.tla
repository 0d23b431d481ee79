----------------------------- MODULE SnarkProver -----------------------------
(***************************************************************************)
(* The standalone SNARK prover: `run_linking_fri_snark` of                 *)
(* crates/zksync_os_snark_prover/src/lib.rs, over the SNARK attempt of     *)
(* SnarkRunInner.  One process with a resident wrapper goes round its      *)
(* sequencers; a supervisor starts it again when it dies.  Unlike the FRI  *)
(* prover it never asks whether a supported version proves its app.bin.    *)
(***************************************************************************)
EXTENDS SnarkRunInner

CONSTANTS
  ClientCount,   \* sequencers of --sequencer-urls
  Iterations,    \* --iterations, or NoLimit
  NoLimit

ASSUME ResidentWrapper == Resident = TRUE
ASSUME ProverAssumption ==
  /\ ClientCount \in Nat \ {0}
  /\ Iterations # NoLimit => Iterations \in 0..ProofBound

VARIABLES
  run,           \* where `run_linking_fri_snark` is
  cursor,        \* position in `clients.iter().cycle()`
  proofCount     \* `proof_count`

runVars == <<run, cursor, proofCount>>
vars == <<stage, snarkJob, proof, device, hostCache, combinerWarm, derivations, taken,
          bound, disk, run, cursor, proofCount>>

Alive == {"startup", "running", "sleeping"}

TypeOK ==
  /\ SnarkTypeOK
  /\ run \in Alive \cup {"exited", "dead"}
  /\ cursor \in 1..ClientCount
  /\ proofCount \in 0..ProofBound

Init ==
  /\ SnarkInit
  /\ run = "startup"
  /\ cursor = 1
  /\ proofCount = 0

-----------------------------------------------------------------------------
(* create_snark_wrapper, create_combiner - which needs the security level  *)
(* of the table - and warm_up, then the loop at its first client.          *)
StartUp ==
  /\ run = "startup"
  /\ LevelAgreed
  /\ DeriveWrapper
  /\ device' = {"wrapper"}
  /\ combinerWarm' = TRUE
  /\ run' = "running"
  /\ Goto("pick")
  /\ UNCHANGED <<snarkJob, proof, hostCache, taken, disk, cursor, proofCount>>

(* The process is gone, with all it held; its successor starts anew. *)
Gone ==
  /\ run' = "dead"
  /\ Goto("idle")
  /\ snarkJob' = NoJob /\ proof' = NoProof
  /\ device' = {}
  /\ combinerWarm' = FALSE /\ derivations' = 0 /\ bound' = NoCommitment
  /\ cursor' = 1 /\ proofCount' = 0 /\ taken' = 0
  /\ UNCHANGED <<hostCache, disk>>

StartUpFails == run = "startup" /\ Gone

Attempt == run = "running" /\ SnarkStep /\ UNCHANGED runVars

(* `.expect("Failed to run SNARK prover")` *)
Panic == run = "running" /\ stage = "fatal" /\ Gone

(* A kill, at any moment. *)
Kill == run \in Alive /\ Gone

NextClient_NoWrap == cursor + 1  \* mutant: `iter()` without `cycle()`
NextClient == IF cursor = ClientCount THEN 1 ELSE cursor + 1

Counted == UpTo(proofCount, ProofBound)

Generated ==
  /\ run = "running" /\ stage = "true"
  /\ proofCount' = Counted
  /\ IF Iterations # NoLimit /\ Counted >= Iterations
     THEN run' = "exited" /\ Goto("idle") /\ device' = {} /\ UNCHANGED cursor
     ELSE run' = "running" /\ Goto("pick") /\ UNCHANGED device /\ cursor' = NextClient
  /\ UNCHANGED <<snarkJob, proof, hostCache, combinerWarm, derivations, taken, program>>

(* No proof: five seconds of sleep before the next client's turn. *)
NotGenerated ==
  /\ run = "running" /\ stage = "false"
  /\ run' = "sleeping"
  /\ UNCHANGED <<snarkVars, cursor, proofCount>>

Wake_SameClient ==  \* mutant: the client that had nothing is asked again
  /\ run = "sleeping"
  /\ run' = "running"
  /\ Goto("pick")
  /\ UNCHANGED <<snarkJob, proof, device, hostCache, combinerWarm, derivations, taken,
                 program, cursor, proofCount>>

Wake ==
  /\ run = "sleeping"
  /\ run' = "running"
  /\ Goto("pick")
  /\ cursor' = NextClient
  /\ UNCHANGED <<snarkJob, proof, device, hostCache, combinerWarm, derivations, taken,
                 program, proofCount>>

Restart ==
  /\ run = "dead"
  /\ run' = "startup"
  /\ UNCHANGED <<snarkVars, cursor, proofCount>>

(* The operator puts another binary in the place of app.bin. *)
Replace(c) ==
  /\ c # disk
  /\ disk' = c
  /\ UNCHANGED <<stage, snarkJob, proof, device, hostCache, combinerWarm, derivations,
                 taken, bound, runVars>>

-----------------------------------------------------------------------------
Next ==
  \/ StartUp \/ StartUpFails \/ Restart
  \/ Attempt
  \/ Panic \/ Kill \/ Generated \/ NotGenerated \/ Wake
  \/ \E c \in Programs : Replace(c)

Spec == Init /\ [][Next]_vars

(* The prover's thread goes on, every attempt comes to an end, and a dead  *)
(* process is started again; that attempts succeed is not assumed.         *)
FairSpec ==
  /\ Spec
  /\ WF_vars(StartUp \/ StartUpFails \/ Restart)
  /\ WF_vars(Attempt)
  /\ WF_vars(Panic \/ Generated \/ NotGenerated \/ Wake)

-----------------------------------------------------------------------------
(* "Only successfully generated proofs count": the sequencers have taken   *)
(* every proof this process counted, and a process that exits has given    *)
(* them as many as --iterations asks for - also if submissions are refused *)
(* or lost, and whatever an earlier process contributed.                   *)
CountsTaken ==
  /\ proofCount <= taken
  /\ run = "exited" => taken >= Iterations

(* The inductive invariant.  While it runs, the resident wrapper holds its *)
(* GPU memory, derived once and bound to one program; the combiner joins   *)
(* it for the duration of a merge; a proof acknowledged but not counted    *)
(* yet is in `taken`.                                                      *)
LoopInv ==
  /\ run = "running" => stage # "idle"
  /\ run = "sleeping" => stage = "false"
  /\ run \in {"startup", "exited", "dead"} => stage = "idle"

HeldDevices ==
  IF run \notin {"running", "sleeping"} THEN {}
  ELSE IF stage = "combine" THEN {"wrapper", "combiner"} ELSE {"wrapper"}

WrapperInv ==
  /\ run \in {"running", "sleeping"} => derivations = 1 /\ bound \in Programs
  /\ run \in {"startup", "dead"} =>
       derivations = 0 /\ bound = NoCommitment /\ proofCount = 0 /\ taken = 0

CountInv ==
  /\ CountsTaken
  /\ run = "running" /\ stage = "true" => proofCount < taken \/ taken = ProofBound

ProverInv ==
  /\ TypeOK
  /\ LoopInv
  /\ device = HeldDevices
  /\ JobInv
  /\ WrapperInv
  /\ CountInv

AttemptOf == INSTANCE SnarkAttempt
               WITH Clients <- 1..ClientCount, NoWork <- NoJob, NoProgram <- NoCommitment,
                    at <- At, work <- WorkFor(cursor)

(* What the prover does with its jobs are attempts: the job and its        *)
(* sequencer stay together from the pick to the submit, and the program a  *)
(* process proves with is bound before its first proof and never again,    *)
(* over kills, restarts and replaced binaries.                             *)
ImplementsAttempt == AttemptOf!Spec

(* A process that neither keeps dying nor is done asks each of its         *)
(* sequencers again and again - past one with nothing to offer, and past   *)
(* one whose only job it must skip every time.                             *)
EverySequencerPolled ==
  \A c \in 1..ClientCount :
    []<>(run = "running" /\ stage = "pick" /\ cursor = c) \/ []<>(run = "dead") \/ <>(run = "exited")

(* "the merge's GPU prover sizes its device pool to all free VRAM, so the  *)
(* wrapper's device-resident state must not be alive yet", and a resident  *)
(* wrapper is for where it "does not compete for the GPU (the standalone   *)
(* SNARK prover binary)".                                                  *)
MergeBeforeWrapper == "combiner" \in device => "wrapper" \notin device
=============================================================================
