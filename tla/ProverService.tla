---------------------------- MODULE ProverService ----------------------------
(***************************************************************************)
(* The combined prover service: `run` and acquire_snark_proof of           *)
(* crates/zksync_os_prover_service/src/lib.rs, over the SNARK attempt of   *)
(* SnarkRunInner.  One process on one GPU serves its sequencers in turn:   *)
(* FRI proofs until a limit is hit, then one SNARK phase, then the next    *)
(* sequencer.  The FRI attempt, which FriProving models in full, is its    *)
(* outcome here.                                                           *)
(***************************************************************************)
EXTENDS SnarkRunInner

CONSTANTS
  ClientCount,         \* sequencers of --sequencer-urls
  UserSnarkLatency,    \* --max-snark-latency as given, or Unset
  UserFrisPerSnark,    \* --max-fris-per-snark as given, or Unset
  Unset,
  DefaultSnarkLatency, \* clap's default_value (3600 s), in ticks
  DefaultFrisPerSnark, \* clap's default_value (100)
  AcquireTimeout,      \* --snark-acquire-timeout-secs, in ticks
  Iterations           \* --iterations, or Unset

(* clap fills in a default whether or not the other option is given: the   *)
(* conflict is only between two options that are both on the command line. *)
MaxSnarkLatency == IF UserSnarkLatency = Unset THEN DefaultSnarkLatency ELSE UserSnarkLatency
MaxFrisPerSnark == IF UserFrisPerSnark = Unset THEN DefaultFrisPerSnark ELSE UserFrisPerSnark

ASSUME PerJobAssumption == Resident = FALSE
ASSUME ServiceAssumption ==
  /\ ClientCount \in Nat \ {0}
  /\ MaxSnarkLatency \in Nat /\ MaxFrisPerSnark \in Nat /\ AcquireTimeout \in Nat
  /\ UserSnarkLatency = Unset \/ UserFrisPerSnark = Unset
  /\ Iterations # Unset => Iterations \in 0..ProofBound

VARIABLES
  phase,         \* where `run` is
  cursor,        \* position in `clients.iter().cycle()`
  friCount,      \* `fri_proof_count` of this cycle, up to MaxFrisPerSnark
  snarkCount,    \* `snark_proof_count`
  sinceSnark,    \* snark_latency.elapsed(), up to MaxSnarkLatency
  sinceAcquire   \* started_at.elapsed(), up to AcquireTimeout

serviceVars == <<phase, cursor, friCount, snarkCount, sinceSnark, sinceAcquire>>
vars == <<stage, snarkJob, proof, device, hostCache, combinerWarm, derivations, taken,
          bound, disk, phase, cursor, friCount, snarkCount, sinceSnark, sinceAcquire>>

Phase == {"create", "fri", "snark", "pause", "exited", "failed"}

TypeOK ==
  /\ SnarkTypeOK
  /\ phase \in Phase
  /\ cursor \in 1..ClientCount
  /\ friCount \in 0..MaxFrisPerSnark
  /\ snarkCount \in 0..ProofBound
  /\ sinceSnark \in 0..MaxSnarkLatency
  /\ sinceAcquire \in 0..AcquireTimeout

Init ==
  /\ SnarkInit
  /\ phase = "create"
  /\ cursor = 1
  /\ friCount = 0 /\ snarkCount = 0 /\ sinceSnark = 0 /\ sinceAcquire = 0

-----------------------------------------------------------------------------
(* The FRI phase.                                                          *)

(* create_prover and the startup checks, at the head of every cycle. *)
CreateFriProver ==
  /\ phase = "create"
  /\ LevelAgreed /\ SupportsProgram(disk)
  /\ phase' = "fri"
  /\ device' = device \cup {"fri"}
  /\ friCount' = 0
  /\ UNCHANGED <<stage, snarkJob, proof, hostCache, combinerWarm, derivations, taken,
                 program, cursor, snarkCount, sinceSnark, sinceAcquire>>

CreateFails ==
  /\ phase = "create"
  /\ phase' = "failed"
  /\ UNCHANGED <<snarkVars, cursor, friCount, snarkCount, sinceSnark, sinceAcquire>>

FriPhaseOver_CountOnly(count) == count >= MaxFrisPerSnark  \* mutant: no latency test
FriPhaseOver(count) == sinceSnark >= MaxSnarkLatency \/ count >= MaxFrisPerSnark

(* Mutant: without `drop(fri_prover)`. *)
FriAttempt_KeepsProver(generated) ==
  LET count == IF generated THEN UpTo(friCount, MaxFrisPerSnark) ELSE friCount
  IN /\ phase = "fri"
     /\ friCount' = count
     /\ IF FriPhaseOver(count)
        THEN phase' = "snark" /\ stage' = "pick" /\ sinceAcquire' = 0 /\ taken' = 0
        ELSE UNCHANGED <<phase, stage, sinceAcquire, taken>>
     /\ UNCHANGED <<snarkJob, proof, device, hostCache, combinerWarm, derivations,
                    program, cursor, snarkCount, sinceSnark>>

(* run_inner of the FRI prover returned; when a limit is reached the       *)
(* prover is dropped and the SNARK phase begins.                           *)
FriAttempt(generated) ==
  LET count == IF generated THEN UpTo(friCount, MaxFrisPerSnark) ELSE friCount
  IN /\ phase = "fri"
     /\ friCount' = count
     /\ IF FriPhaseOver(count)
        THEN /\ phase' = "snark"
             /\ stage' = "pick"
             /\ device' = device \ {"fri"}
             /\ sinceAcquire' = 0
             /\ taken' = 0
        ELSE UNCHANGED <<phase, stage, device, sinceAcquire, taken>>
     /\ UNCHANGED <<snarkJob, proof, hostCache, combinerWarm, derivations,
                    program, cursor, snarkCount, sinceSnark>>

(* A panic or an error ends the process, and its hold on the GPU. *)
Fail ==
  /\ phase' = "failed"
  /\ stage' = "idle"
  /\ device' = {}
  /\ UNCHANGED <<snarkJob, proof, hostCache, combinerWarm, derivations, taken,
                 program, cursor, friCount, snarkCount, sinceSnark, sinceAcquire>>

FriFatal == phase = "fri" /\ Fail

-----------------------------------------------------------------------------
(* The SNARK phase: acquire_snark_proof around SnarkRunInner.              *)

Attempt == phase = "snark" /\ SnarkStep /\ UNCHANGED serviceVars

SnarkFatal == phase = "snark" /\ stage = "fatal" /\ Fail

(* Mutant: the clients are not cycled. *)
EndCycle_NoWrap(count) ==
  /\ snarkCount' = count
  /\ sinceSnark' = 0
  /\ phase' = IF Iterations # Unset /\ count >= Iterations THEN "exited" ELSE "create"
  /\ cursor' = cursor + 1
  /\ stage' = "idle"
  /\ UNCHANGED <<snarkJob, proof, device, hostCache, combinerWarm, derivations, taken,
                 program, friCount, sinceAcquire>>

(* The tail of a cycle: count, reset the latency clock either way, test    *)
(* the iteration limit, turn to the next sequencer.                        *)
EndCycle(count) ==
  /\ snarkCount' = count
  /\ sinceSnark' = 0
  /\ phase' = IF Iterations # Unset /\ count >= Iterations THEN "exited" ELSE "create"
  /\ cursor' = IF phase' = "exited" THEN cursor
               ELSE IF cursor = ClientCount THEN 1 ELSE cursor + 1
  /\ stage' = "idle"
  /\ UNCHANGED <<snarkJob, proof, device, hostCache, combinerWarm, derivations, taken,
                 program, friCount, sinceAcquire>>

SnarkAcquired ==
  /\ phase = "snark" /\ stage = "true"
  /\ EndCycle(UpTo(snarkCount, ProofBound))

SnarkTimedOut ==
  /\ phase = "snark" /\ stage = "false"
  /\ sinceAcquire >= AcquireTimeout
  /\ EndCycle(snarkCount)

(* SNARK_POLL_INTERVAL, then the next attempt, with no look at the clock.  *)
Pause ==
  /\ phase = "snark" /\ stage = "false"
  /\ sinceAcquire < AcquireTimeout
  /\ phase' = "pause"
  /\ UNCHANGED <<snarkVars, cursor, friCount, snarkCount, sinceSnark, sinceAcquire>>

(* Mutant: `started_at` is taken anew for every attempt. *)
Retry_RestartsClock ==
  /\ phase = "pause"
  /\ phase' = "snark"
  /\ stage' = "pick"
  /\ sinceAcquire' = 0
  /\ UNCHANGED <<snarkJob, proof, device, hostCache, combinerWarm, derivations, taken,
                 program, cursor, friCount, snarkCount, sinceSnark>>

Retry ==
  /\ phase = "pause"
  /\ phase' = "snark"
  /\ stage' = "pick"
  /\ UNCHANGED <<snarkJob, proof, device, hostCache, combinerWarm, derivations, taken,
                 program, cursor, friCount, snarkCount, sinceSnark, sinceAcquire>>

(* Time passes while the service proves, waits for answers and sleeps. *)
Tick ==
  /\ phase \notin {"exited", "failed"}
  /\ sinceSnark' = UpTo(sinceSnark, MaxSnarkLatency)
  /\ sinceAcquire' = IF phase \in {"snark", "pause"}
                     THEN UpTo(sinceAcquire, AcquireTimeout) ELSE sinceAcquire
  /\ UNCHANGED <<snarkVars, phase, cursor, friCount, snarkCount>>

(* The operator puts another binary in the place of app.bin. *)
Replace(c) ==
  /\ phase \notin {"exited", "failed"}
  /\ c # disk
  /\ disk' = c
  /\ UNCHANGED <<stage, snarkJob, proof, device, hostCache, combinerWarm, derivations,
                 taken, bound, serviceVars>>

-----------------------------------------------------------------------------
FriStep ==
  \/ CreateFriProver \/ CreateFails
  \/ \E generated \in BOOLEAN : FriAttempt(generated)
  \/ FriFatal

Next ==
  \/ FriStep
  \/ Attempt
  \/ SnarkFatal \/ SnarkAcquired \/ SnarkTimedOut \/ Pause \/ Retry
  \/ Tick
  \/ \E c \in Programs : Replace(c)

Spec == Init /\ [][Next]_vars

(* The clock runs, and the one thread of the service always goes on: every *)
(* attempt comes to an end, some way or other.  That FRI attempts succeed  *)
(* is not assumed: a queue may stay empty for ever.                        *)
FairSpec ==
  /\ Spec
  /\ WF_vars(Tick)
  /\ WF_vars(CreateFriProver \/ CreateFails)
  /\ WF_vars(FriAttempt(FALSE))
  /\ WF_vars(Attempt)
  /\ WF_vars(SnarkFatal \/ SnarkAcquired \/ SnarkTimedOut \/ Pause \/ Retry)

-----------------------------------------------------------------------------
(* FRI prover, combiner and wrapper each need essentially the whole card:  *)
(* never two of them hold GPU memory at once, over retries, failures and   *)
(* the alternation of phases, and the holder is the one at work.           *)
DeviceExclusive ==
  /\ Cardinality(device) <= 1
  /\ "fri" \in device => phase = "fri"
  /\ "combiner" \in device => phase = "snark" /\ stage = "combine"
  /\ "wrapper" \in device => phase = "snark" /\ stage \in {"wrap", "snarkify"}

(* "only the process's first SNARK job pays the full setup-chain           *)
(* derivation": the host cache follows the wrapper through every job,      *)
(* failed submissions included, for as long as the process lives.          *)
DerivedOnce ==
  /\ derivations <= 1
  /\ phase # "failed" /\ stage # "fatal" /\ derivations = 1 /\ device # {"wrapper"} => hostCache

(* The inductive invariant behind them: between attempts SnarkRunInner     *)
(* rests, who holds the GPU is determined by phase and stage, and the job  *)
(* is what the stage says.                                                 *)
StageInv ==
  /\ phase = "snark" => stage # "idle"
  /\ phase = "pause" => stage = "false"
  /\ phase \notin {"snark", "pause"} => stage = "idle"

Holder ==
  IF phase = "fri" THEN {"fri"}
  ELSE IF stage = "combine" THEN {"combiner"}
  ELSE IF stage \in {"wrap", "snarkify"} THEN {"wrapper"}
  ELSE {}

(* A program is bound when the setup is derived, and not before; there is  *)
(* no cache and no wrapper without it.                                     *)
BoundInv ==
  /\ bound # NoCommitment <=> derivations > 0
  /\ hostCache \/ stage \in {"wrap", "snarkify"} => derivations > 0

(* Between an acknowledged submission and its being counted. *)
TakenInv == stage = "true" => taken > 0

ServiceInv ==
  /\ TypeOK
  /\ StageInv
  /\ device = Holder
  /\ JobInv
  /\ DerivedOnce
  /\ BoundInv
  /\ TakenInv

(* app_bin_path is "only consumed on the cache-less first build": what a   *)
(* process wraps for is the program it found on disk for its first SNARK   *)
(* job, whatever replaces that file and however many wrappers follow.      *)
BoundForLife == [][bound # NoCommitment => bound' = bound]_vars

(* What --iterations counts are proofs the sequencer of this very phase    *)
(* has taken: one more counted is at least one more taken in the phase     *)
(* that ends, whatever was refused, lost or repeated in it.                *)
CountsDelivered == [][snarkCount' # snarkCount => taken > 0]_vars

AttemptOf == INSTANCE SnarkAttempt
               WITH Clients <- 1..ClientCount, NoWork <- NoJob, NoProgram <- NoCommitment,
                    at <- At, work <- WorkFor(cursor)

(* What the service does with SNARK jobs are attempts, too: the job and    *)
(* its sequencer stay together from the pick to the submit, and no proof   *)
(* is made by a wrapper its job does not fit - although a phase repeats    *)
(* attempts, wrappers come and go and the FRI prover changes its binary.   *)
ImplementsAttempt == AttemptOf!Spec

(* Every sequencer gets its FRI phase again and again: neither a busy FRI  *)
(* queue nor a SNARK queue with nothing to offer keeps the service.        *)
EverySequencerServed ==
  \A c \in 1..ClientCount :
    []<>(phase = "fri" /\ cursor = c) \/ <>(phase \in {"exited", "failed"})

(* snark_acquire_times_out_instead_of_looping_forever: the service returns *)
(* to FRI proving, or ends, however often the SNARK attempts fail.         *)
SnarkPhaseEnds == (phase = "snark") ~> (phase \notin {"snark", "pause"})

(* "Here we do exactly one SNARK proof": a SNARK phase that comes to its   *)
(* normal end has got exactly one proof taken by the sequencer.            *)
ExactlyOneSnark ==
  [][phase = "snark" /\ phase' \in {"create", "exited"} => taken = 1]_vars

(* "--max-snark-latency OR --max-fris-per-snark": with a latency given,    *)
(* the FRI phase gives way to SNARK proving for latency alone.             *)
LatencyAlone ==
  [][UserSnarkLatency # Unset /\ phase = "fri" /\ phase' = "snark"
       => sinceSnark >= MaxSnarkLatency]_vars
=============================================================================
