----------------------------- MODULE FriProving -----------------------------
(***************************************************************************)
(* A fleet of standalone FRI provers                                       *)
(* (crates/zksync_os_fri_prover/src/lib.rs, `run` and `run_inner`) and the *)
(* FRI job queues of the sequencers they serve, which are external and     *)
(* known only through the HTTP client                                      *)
(* (crates/sequencer_proof_client/src/sequencer_proof_client.rs).          *)
(*                                                                         *)
(* Every HTTP call is two or three steps: the prover sends, the sequencer  *)
(* may serve, the prover may get the reply - or give up first, in which    *)
(* case the request it no longer waits for may still be served, later or   *)
(* never.  Several provers run at once and a prover may die at any step.   *)
(***************************************************************************)
EXTENDS ProtocolVersions, FiniteSets

CONSTANTS
  Provers,        \* prover processes
  Clients,        \* the sequencers of --sequencer-urls, in round-robin order
  Batches,        \* batch numbers; every sequencer has its own batch sequence
  JobVk,          \* JobVk[s][b]: the version sequencer s runs batch b at
  Malformed,      \* <<s, b>> whose prover input is not a multiple of 4 bytes
  Aware,          \* sequencers that honour `supported_vk_hashes`
  Idempotent,     \* sequencers that answer 2xx for a batch they already have
  Down,           \* sequencers that never answer
  Program,        \* Program[p]: commitment of p's app.bin, None on CPU builds
  Iterations,     \* --iterations, or NoLimit
  NoLimit,
  CountBound,     \* proof counts saturate here
  CrashBound,     \* crashes in a behaviour
  NoJob

Sequencers == {Clients[c] : c \in DOMAIN Clients}
Inputs == Sequencers \X Batches

(* FriJobInputs.  The prover input is opaque to the prover and determined  *)
(* by whose batch it is.                                                   *)
Job == [batch : Batches, vk : VkHash, input : Inputs]

(* A submit request: where it goes and SubmitFriProofPayload.  A proof is  *)
(* known by the input it is of and the program it executed.                *)
Submission == [to : Sequencers, batch : Batches, vk : VkHash,
               proof : [input : Inputs, program : Commitment]]

ASSUME ClientsAssumption == Len(Clients) > 0 /\ Clients \in Seq(Sequencers)
ASSUME JobAssumption ==
  /\ JobVk \in [Sequencers -> [Batches -> VkHash]]
  /\ NoJob \notin Job
ASSUME ProgramAssumption == Program \in [Provers -> Commitment \cup {NoCommitment}]
ASSUME BoundAssumption ==
  /\ CountBound \in Nat \ {0}
  /\ CrashBound \in Nat
  /\ Iterations # NoLimit => Iterations \in 0..CountBound

VARIABLES
  pc,           \* where `run` is, per prover
  cursor,       \* position in `clients.iter().cycle()`
  job,          \* the job answered to, or being proved by, a prover
  reply,        \* the sequencer's answer to the call in progress
  proofCount,   \* `proof_count`
  crashes,      \* crashes so far
  leased,       \* inputs handed out and not yet expired
  ledger,       \* submissions the sequencers hold as their batches' proofs
  latePicks,    \* sequencers a pick nobody waits for may still reach
  lateSubmits   \* submits nobody waits for that may still be served

proverVars == <<pc, cursor, job, reply, proofCount, crashes>>
sequencerVars == <<leased, ledger>>
lateVars == <<latePicks, lateSubmits>>
vars == <<pc, cursor, job, reply, proofCount, crashes, leased, ledger,
          latePicks, lateSubmits>>

Running == {"poll", "picking", "proving", "submitting"}
Reply == {"none", "job", "no_content", "accepted", "refused"}

TypeOK ==
  /\ pc \in [Provers -> Running \cup {"boot", "exited", "dead"}]
  /\ cursor \in [Provers -> DOMAIN Clients]
  /\ job \in [Provers -> Job \cup {NoJob}]
  /\ reply \in [Provers -> Reply]
  /\ proofCount \in [Provers -> 0..CountBound]
  /\ crashes \in 0..CrashBound
  /\ leased \subseteq Inputs
  /\ ledger \subseteq Submission
  /\ latePicks \subseteq Sequencers
  /\ lateSubmits \subseteq Submission

Init ==
  /\ pc = [p \in Provers |-> "boot"]
  /\ cursor = [p \in Provers |-> 1]
  /\ job = [p \in Provers |-> NoJob]
  /\ reply = [p \in Provers |-> "none"]
  /\ proofCount = [p \in Provers |-> 0]
  /\ crashes = 0
  /\ leased = {} /\ ledger = {} /\ latePicks = {} /\ lateSubmits = {}

-----------------------------------------------------------------------------
(* The run loop.                                                           *)

Client(p) == Clients[cursor[p]]
NextClient_NoWrap(c) == c + 1  \* mutant: `iter()` without `cycle()`
NextClient(c) == IF c = Len(Clients) THEN 1 ELSE c + 1
Counted(n) == IF n < CountBound THEN n + 1 ELSE n
LimitReached(n) == Iterations # NoLimit /\ n >= Iterations

(* Mutant: a failed attempt is retried with the same client. *)
Return_SameClient(p, generated) ==
  LET count == IF generated THEN Counted(proofCount[p]) ELSE proofCount[p]
  IN /\ pc' = [pc EXCEPT ![p] = IF generated /\ LimitReached(count)
                                THEN "exited" ELSE "poll"]
     /\ proofCount' = [proofCount EXCEPT ![p] = count]
     /\ cursor' = IF generated THEN [cursor EXCEPT ![p] = NextClient(@)] ELSE cursor
     /\ job' = [job EXCEPT ![p] = NoJob]
     /\ reply' = [reply EXCEPT ![p] = "none"]
     /\ UNCHANGED crashes

(* run_inner returned `generated`: count it and test the limit, or sleep   *)
(* and go on; either way the next turn is the next client's.               *)
Return(p, generated) ==
  LET count == IF generated THEN Counted(proofCount[p]) ELSE proofCount[p]
  IN /\ pc' = [pc EXCEPT ![p] = IF generated /\ LimitReached(count)
                                THEN "exited" ELSE "poll"]
     /\ proofCount' = [proofCount EXCEPT ![p] = count]
     /\ cursor' = [cursor EXCEPT ![p] = NextClient(@)]
     /\ job' = [job EXCEPT ![p] = NoJob]
     /\ reply' = [reply EXCEPT ![p] = "none"]
     /\ UNCHANGED crashes

(* A fatal error: `?` out of run_inner and `.expect` in run, or a crash.   *)
Die(p) ==
  /\ pc' = [pc EXCEPT ![p] = "dead"]
  /\ job' = [job EXCEPT ![p] = NoJob]
  /\ reply' = [reply EXCEPT ![p] = "none"]
  /\ UNCHANGED <<cursor, proofCount>>

(* Startup: create_prover, program_commitment, supports_program.           *)
MayStart(p) ==
  /\ LevelAgreed
  /\ Program[p] # NoCommitment
  /\ SupportsProgram(Program[p])

Boot(p) ==
  /\ pc[p] = "boot"
  /\ pc' = [pc EXCEPT ![p] = IF MayStart(p) THEN "poll" ELSE "dead"]
  /\ cursor' = [cursor EXCEPT ![p] = 1]
  /\ proofCount' = [proofCount EXCEPT ![p] = 0]
  /\ UNCHANGED <<job, reply, crashes, sequencerVars, lateVars>>

(* client.pick_fri_job(): the request is sent. *)
Poll(p) ==
  /\ pc[p] = "poll"
  /\ pc' = [pc EXCEPT ![p] = "picking"]
  /\ UNCHANGED <<cursor, job, reply, proofCount, crashes, sequencerVars, lateVars>>

-----------------------------------------------------------------------------
(* run_inner, one action per way through it.                               *)

(* 204, or an unexpected status: nothing to do for this client. *)
ReceiveNothing(p) ==
  /\ pc[p] = "picking"
  /\ reply[p] \in {"no_content", "refused"}
  /\ Return(p, FALSE)
  /\ UNCHANGED <<sequencerVars, lateVars>>

Mismatched_Unchecked(p) == FALSE  \* mutant: the commitment check is missing
Mismatched(p) == ProgramCommitmentFor(job[p].vk) # Program[p]

(* A job of an unsupported version, or of one that proves another program: *)
(* dropped without a word to the sequencer, whose lease runs on.           *)
SkipJob(p) ==
  /\ pc[p] = "picking"
  /\ reply[p] = "job"
  /\ ~Contains(job[p].vk) \/ Mismatched(p)
  /\ Return(p, FALSE)
  /\ UNCHANGED <<sequencerVars, lateVars>>

(* The `ensure!` on the input's length fails: fatal. *)
RejectInput(p) ==
  /\ pc[p] = "picking"
  /\ reply[p] = "job"
  /\ Contains(job[p].vk) /\ ~Mismatched(p)
  /\ job[p].input \in Malformed
  /\ Die(p)
  /\ UNCHANGED <<crashes, sequencerVars, lateVars>>

StartProving(p) ==
  /\ pc[p] = "picking"
  /\ reply[p] = "job"
  /\ Contains(job[p].vk) /\ ~Mismatched(p)
  /\ job[p].input \notin Malformed
  /\ pc' = [pc EXCEPT ![p] = "proving"]
  /\ reply' = [reply EXCEPT ![p] = "none"]
  /\ UNCHANGED <<cursor, job, proofCount, crashes, sequencerVars, lateVars>>

(* create_proof, then submit_fri_proof is sent. *)
Prove(p) ==
  /\ pc[p] = "proving"
  /\ pc' = [pc EXCEPT ![p] = "submitting"]
  /\ UNCHANGED <<cursor, job, reply, proofCount, crashes, sequencerVars, lateVars>>

(* The request of a prover that is submitting: run_inner still holds the   *)
(* `client` it picked from.                                                *)
SubmissionOf(p) ==
  [to |-> Client(p), batch |-> job[p].batch, vk |-> job[p].vk,
   proof |-> [input |-> job[p].input, program |-> Program[p]]]

ReceiveAccepted(p) ==
  /\ pc[p] = "submitting"
  /\ reply[p] = "accepted"
  /\ Return(p, TRUE)
  /\ UNCHANGED <<sequencerVars, lateVars>>

ReceiveRefused_Counted(p) ==  \* mutant: a generated proof counts though refused
  /\ pc[p] = "submitting"
  /\ reply[p] = "refused"
  /\ Return(p, TRUE)
  /\ UNCHANGED <<sequencerVars, lateVars>>

ReceiveRefused(p) ==
  /\ pc[p] = "submitting"
  /\ reply[p] = "refused"
  /\ Return(p, FALSE)
  /\ UNCHANGED <<sequencerVars, lateVars>>

(* A request that gets no answer is given up but not taken back: it may    *)
(* still reach the sequencer.                                              *)
Abandon(p) ==
  /\ latePicks' = IF pc[p] = "picking" /\ reply[p] = "none"
                  THEN latePicks \cup {Client(p)} ELSE latePicks
  /\ lateSubmits' = IF pc[p] = "submitting" /\ reply[p] = "none"
                    THEN lateSubmits \cup {SubmissionOf(p)} ELSE lateSubmits

Calling(p) == pc[p] \in {"picking", "submitting"}

GiveUp_Patient(p) ==  \* mutant: no timeout on an unanswered request
  /\ Calling(p)
  /\ reply[p] # "none"
  /\ Return(p, FALSE)
  /\ UNCHANGED <<sequencerVars, lateVars>>

(* The request timeout or a transport error: `Ok(false)` for either.  If   *)
(* there is an answer it is lost on the way.                               *)
GiveUp(p) ==
  /\ Calling(p)
  /\ Abandon(p)
  /\ Return(p, FALSE)
  /\ UNCHANGED sequencerVars

-----------------------------------------------------------------------------
(* Failures of a process, and its restart by whoever operates it.          *)

(* A panic, a failed proof, a kill: at any point of a running prover. *)
Crash(p) ==
  /\ pc[p] \in Running
  /\ crashes < CrashBound
  /\ crashes' = crashes + 1
  /\ Abandon(p)
  /\ Die(p)
  /\ UNCHANGED sequencerVars

Restart(p) ==
  /\ pc[p] = "dead"
  /\ pc' = [pc EXCEPT ![p] = "boot"]
  /\ UNCHANGED <<cursor, job, reply, proofCount, crashes, sequencerVars, lateVars>>

-----------------------------------------------------------------------------
(* The sequencers (external): a queue of FRI jobs with leases.             *)

Up(s) == s \notin Down
Proven(s, b) == \E m \in ledger : m.to = s /\ m.batch = b

(* Batches a pick may be answered with.  A sequencer that knows the        *)
(* `supported_vk_hashes` parameter only hands out declared versions.       *)
Free(s) == {b \in Batches : <<s, b>> \notin leased /\ ~Proven(s, b)}

Offered(s) ==
  {b \in Free(s) :
     s \in Aware /\ DeclaredVkHashes # {} => JobVk[s][b] \in DeclaredVkHashes}

Answer(p, answer) == reply' = [reply EXCEPT ![p] = answer]

Waiting(p, at) == pc[p] = at /\ reply[p] = "none" /\ Up(Client(p))

ServePick(p, b) ==
  LET s == Client(p)
  IN /\ Waiting(p, "picking")
     /\ b \in Offered(s)
     /\ leased' = leased \cup {<<s, b>>}
     /\ job' = [job EXCEPT ![p] = [batch |-> b, vk |-> JobVk[s][b], input |-> <<s, b>>]]
     /\ Answer(p, "job")
     /\ UNCHANGED <<pc, cursor, proofCount, crashes, ledger, lateVars>>

ServeEmpty(p) ==
  /\ Waiting(p, "picking")
  /\ Offered(Client(p)) = {}
  /\ Answer(p, "no_content")
  /\ UNCHANGED <<pc, cursor, job, proofCount, crashes, sequencerVars, lateVars>>

(* Take m as the proof of its batch, unless there is one already. *)
Record(m) ==
  /\ ledger' = IF Proven(m.to, m.batch) THEN ledger ELSE ledger \cup {m}
  /\ leased' = leased \ {<<m.to, m.batch>>}

ServeSubmit(p) ==
  LET m == SubmissionOf(p)
  IN /\ Waiting(p, "submitting")
     /\ Record(m)
     /\ Answer(p, IF Proven(m.to, m.batch) /\ m.to \notin Idempotent
                  THEN "refused" ELSE "accepted")
     /\ UNCHANGED <<pc, cursor, job, proofCount, crashes, lateVars>>

(* An error status to either call, for reasons of the sequencer's own. *)
ServeError(p) ==
  /\ Waiting(p, "picking") \/ Waiting(p, "submitting")
  /\ Answer(p, "refused")
  /\ UNCHANGED <<pc, cursor, job, proofCount, crashes, sequencerVars, lateVars>>

(* The abandoned requests, served: the job picked has nobody to prove it.  *)
ServeLatePick(s, b) ==
  /\ s \in latePicks /\ Up(s)
  /\ b \in Offered(s)
  /\ latePicks' = latePicks \ {s}
  /\ leased' = leased \cup {<<s, b>>}
  /\ UNCHANGED <<proverVars, ledger, lateSubmits>>

ServeLateSubmit(m) ==
  /\ m \in lateSubmits /\ Up(m.to)
  /\ lateSubmits' = lateSubmits \ {m}
  /\ Record(m)
  /\ UNCHANGED <<proverVars, latePicks>>

(* The operator's `pick-fri`, which declares no versions and saves the job *)
(* to a file.                                                              *)
PickByHand(s, b) ==
  /\ Up(s)
  /\ b \in Free(s)
  /\ leased' = leased \cup {<<s, b>>}
  /\ UNCHANGED <<proverVars, ledger, lateVars>>

Expire(s, b) ==
  /\ <<s, b>> \in leased
  /\ leased' = leased \ {<<s, b>>}
  /\ UNCHANGED <<proverVars, ledger, lateVars>>

-----------------------------------------------------------------------------
ProverStep(p) ==
  \/ Boot(p) \/ Poll(p) \/ ReceiveNothing(p) \/ SkipJob(p) \/ RejectInput(p)
  \/ StartProving(p) \/ Prove(p) \/ ReceiveAccepted(p) \/ ReceiveRefused(p)
  \/ GiveUp(p) \/ Crash(p) \/ Restart(p)

SequencerStep ==
  \/ \E p \in Provers : \/ \E b \in Batches : ServePick(p, b)
                        \/ ServeEmpty(p) \/ ServeSubmit(p) \/ ServeError(p)
  \/ \E s \in Sequencers, b \in Batches : ServeLatePick(s, b) \/ PickByHand(s, b) \/ Expire(s, b)
  \/ \E m \in lateSubmits : ServeLateSubmit(m)

Next == (\E p \in Provers : ProverStep(p)) \/ SequencerStep

Spec == Init /\ [][Next]_vars
-----------------------------------------------------------------------------
(* The batches prover p can prove. *)
Suitable(p) ==
  {i \in Inputs :
     LET vk == JobVk[i[1]][i[2]]
     IN /\ MayStart(p) /\ Up(i[1])
        /\ i \notin Malformed
        /\ Contains(vk) /\ ProgramCommitmentFor(vk) = Program[p]}

(* Fairness.  The runtime schedules a prover's own steps (WF) and the      *)
(* client's timeout always fires; a dead process is started again.  Of the *)
(* network and the sequencers only this is assumed (SF), for a prover that *)
(* can prove batch i: leases of i do not always outlast its polls, a batch *)
(* it is offered is not always given to another, and its calls about i are *)
(* not always lost.  The abandoned requests may well be.                   *)
Asking(p, s) == Waiting(p, "picking") /\ Client(p) = s
On(p, i) == job[p] # NoJob /\ job[p].input = i

ProverFairness(p) ==
  /\ WF_vars(Boot(p) \/ Poll(p) \/ Prove(p) \/ Restart(p))
  /\ WF_vars(ReceiveNothing(p) \/ SkipJob(p) \/ RejectInput(p)
              \/ ReceiveAccepted(p) \/ ReceiveRefused(p))
  /\ WF_vars(GiveUp(p))
  /\ \A i \in Suitable(p) :
       /\ SF_vars(Asking(p, i[1]) /\ Expire(i[1], i[2]))
       /\ SF_vars(Asking(p, i[1]) /\ ServePick(p, i[2]))
       /\ SF_vars(On(p, i) /\ StartProving(p))
       /\ SF_vars(On(p, i) /\ ServeSubmit(p))

FairSpec == Spec /\ \A p \in Provers : ProverFairness(p)

-----------------------------------------------------------------------------
(* A proof is of the batch it is submitted for, at the sequencer that      *)
(* handed the batch out, under that batch's own version, and executed the  *)
(* program the version is bound to.                                        *)
Sound(m) ==
  /\ m.proof.input = <<m.to, m.batch>>
  /\ m.vk = JobVk[m.to][m.batch]
  /\ Contains(m.vk)
  /\ m.proof.program = ProgramCommitmentFor(m.vk)

(* Whatever a prover sends, whatever of it arrives late, and whatever a    *)
(* sequencer ends up holding is sound: run_inner keeps the client, the     *)
(* job and the checked binary together from the pick to the submit, over   *)
(* timeouts and across the sequencers it alternates between.               *)
SubmissionsSound ==
  /\ \A p \in Provers : pc[p] \in {"proving", "submitting"} => Sound(SubmissionOf(p))
  /\ \A m \in lateSubmits \cup ledger : Sound(m)

(* The inductive strengthening of SubmissionsSound.  What a prover has     *)
(* been handed is the batch of the sequencer its cursor still points at.   *)
HandedOver(p) ==
  /\ job[p] \in Job
  /\ job[p].input = <<Client(p), job[p].batch>>
  /\ job[p].vk = JobVk[Client(p)][job[p].batch]

Vetted(p) == Contains(job[p].vk) /\ ~Mismatched(p) /\ job[p].input \notin Malformed

(* m is sound and some prover that could start can have made it. *)
Honest(m) ==
  /\ Sound(m)
  /\ m.proof.input \notin Malformed
  /\ \E p \in Provers : MayStart(p) /\ Program[p] = m.proof.program

(* Every prover at work passed the startup checks; the job of a running    *)
(* call is the one its own sequencer handed out, and from proving on it    *)
(* passed the checks of run_inner; a job reply answers a pick; and every   *)
(* submission outside the provers is honest.                               *)
ProverInv(p) ==
  /\ pc[p] \in Running => MayStart(p)
  /\ reply[p] # "none" => Calling(p)
  /\ reply[p] = "job" => pc[p] = "picking" /\ HandedOver(p)
  /\ pc[p] \in {"proving", "submitting"} => HandedOver(p) /\ Vetted(p)

FleetInv ==
  /\ TypeOK
  /\ \A p \in Provers : ProverInv(p)
  /\ \A m \in lateSubmits \cup ledger : Honest(m)

Acknowledged == {p \in Provers : pc[p] = "submitting" /\ reply[p] = "accepted"}

(* The proofs the running provers have counted, and one, numbered 0, that  *)
(* each of them is about to count.                                         *)
Credits ==
  {c \in Provers \X (0..CountBound) :
     IF c[2] = 0 THEN c[1] \in Acknowledged ELSE c[2] <= proofCount[c[1]]}

(* "Only successfully generated proofs count" (--iterations): where a      *)
(* sequencer acknowledges a batch once, there is for every proof that is   *)
(* counted, or about to be, another one in the sequencers' ledgers, and a  *)
(* prover that exits has contributed its iterations.                       *)
CountsBacked ==
  /\ Idempotent = {} => Cardinality(Credits) <= Cardinality(ledger)
  /\ \A p \in Provers : pc[p] = "exited" => proofCount[p] >= Iterations

(* Round robin with timeouts serves every sequencer: a prover that can     *)
(* start and is not done polls each of its sequencers again and again,     *)
(* also past one that never answers.  A restart begins at the first, so a  *)
(* prover that keeps dying need only poll those up to one whose jobs it    *)
(* dies of; the sequencers after that one may be starved.                  *)
EverySequencerPolled ==
  \A p \in Provers, c \in DOMAIN Clients :
    \/ ~MayStart(p)
    \/ []<>(pc[p] = "picking" /\ cursor[p] = c)
    \/ []<>(pc[p] = "dead" /\ cursor[p] < c)
    \/ <>[](pc[p] = "exited")

ProvenInputs == {<<m.to, m.batch>> : m \in ledger}
ProvableInputs == UNION {Suitable(p) : p \in Provers}

Ledger == INSTANCE ProofLedger WITH proven <- ProvenInputs, Provable <- ProvableInputs

(* The fleet implements the ledger it promises: a batch is proven once,    *)
(* only if a prover runs the program its version is bound to, and then it  *)
(* is proven in the end - in spite of skipped jobs, lost and late calls,   *)
(* leases left behind by provers that could not prove their job, and a     *)
(* batch that kills whoever picks it.                                      *)
ImplementsLedger == Ledger!Spec

(* Its safety alone, which needs no fairness: however many provers prove a *)
(* batch after its lease ran out, and in whatever order their submissions  *)
(* are served, it becomes proven once, and only if it is provable at all.  *)
ImplementsSafeLedger == Ledger!SafeSpec

Unanswered(p) == Calling(p) /\ reply[p] = "none"

(* "If no response is received within this time, the prover will exit"     *)
(* (--request-timeout-secs): giving up an unanswered call ends the prover. *)
TimeoutExits ==
  [][\A p \in Provers : Unanswered(p) /\ GiveUp(p) => pc'[p] = "exited"]_vars
=============================================================================
