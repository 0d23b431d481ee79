# Verification of the ZKsync OS Airbender prover

TLA+ models of the provers in `src/crates`, the TLC runs that check them on
small instances, and the TLAPS proofs that carry the most important of the
checked properties to every instance. This file says what the system consists
of, which module models which part of it, what is checked, what is proved, and
what is left.

Paths without a prefix are below `src/crates/`; FRI, SN, SV, CL and PV stand for
`zksync_os_fri_prover/src/lib.rs`, `zksync_os_snark_prover/src/lib.rs`,
`zksync_os_prover_service/src/lib.rs`,
`sequencer_proof_client/src/sequencer_proof_client.rs` and
`protocol_version/src/lib.rs`.

## 1. Inventory

### 1.1 Components

| component | state it keeps | operations | what makes it correct |
|---|---|---|---|
| **Protocol version table** (PV) | none: a compile-time list of versions, each with a VK hash, perhaps an app-program commitment and a FRI security level | `contains`, `vk_hashes`, `program_commitment_for`, `supports_program`, `proving_security_level` | the startup checks and the per-job checks agree: a prover that starts has work, one security level fits all |
| **FRI prover** (FRI) | per process: the loaded program's setups, the round-robin position, the proof count; per turn: the job | `run` (startup, loop), `run_inner` (pick, checks, prove, submit), `create_prover`, `create_proof` | a proof reaches only the sequencer, batch and version it was made for, with the program that version is bound to; every sequencer is polled |
| **Sequencer proof client** (CL, `lib.rs`) | the HTTP client, a timeout, the declared VK hashes | pick / submit / peek, for FRI and SNARK | every call ends; a given-up call may still take effect |
| **Sequencer job queues** (external) | which batches are leased, which are proven | pick, submit, lease expiry | each batch proven once |
| **SNARK attempt** (SN `run_inner`, `merge_fris`, `WrapperSource`) | the wrapper (resident, or per job with a host cache), the combiner and its caches | pick, up-front checks, merge, build wrapper, wrap, SNARK, submit | nothing the wrapper's circuit cannot prove is tried; setups are derived once; the GPU has one tenant |
| **Standalone SNARK prover** (SN `run_linking_fri_snark`) | round-robin position, proof count | loop over attempts | every sequencer is polled |
| **Combined service** (SV) | the above on one GPU: phase, round-robin position, two counters, two clocks | `run`, `acquire_snark_proof` | phases alternate and end, the GPU has one tenant, every sequencer is served |
| **Process shutdown** (three `main.rs`) | a `watch` channel, the metrics task, a 10 s timer | `select!` between work, metrics and ctrl-c | shutdown ends, a finished prover is not reported as a failure |
| **Command line client** (`sequencer_proof_client/src/main.rs`) | none | manual pick, submit, peek | - |
| Endpoint parsing, file based client, metrics | - | - | see section 7 |

### 1.2 Interactions

Provers pull: they pick a job from a sequencer over HTTP, work for seconds or
minutes, and submit the proof with the batch number and VK hash of the pick.
The provers of a fleet never talk to each other; they meet only in the
sequencers' queues, where a pick takes a lease that the sequencer expires on its
own. A SNARK job is a run of consecutive FRI proofs, so a FRI proof recorded for
the wrong program surfaces only there. In the combined service the FRI attempt
and the SNARK attempt share one thread and one GPU, and the wrapper's host cache
and the combiner survive the alternation of phases.

### 1.3 What is hard here

- **Calls that end without an answer.** A request that timed out may be served
  before, after or never (CL:224); the prover has long turned to the next
  sequencer.
- **Leases nobody serves.** Jobs a prover skips (FRI:285), picks nobody waits for, and
  dead provers all leave leases behind.
- **Several versions, several binaries.** Five questions are asked of the
  version table at three moments (startup, pick, SNARK); their answers must fit
  together.
- **Fatal and skippable errors.** A malformed input kills the process (FRI:325), a
  wrong version is skipped, a refused submission is forgotten.
- **Resources across phases.** GPU memory, the wrapper and its cache move between
  phases, and every early return of `run_inner` must leave them right.
- **Ranges cut anew.** When the lease of a SNARK job runs out, its batches may be
  handed out in other ranges while the first prover is still at work, and a batch whose
  proof is one fold short (SN:461) can only be wrapped together with a neighbour.
- **Binaries that change.** The program is read from `app.bin` at every FRI cycle, but
  bound into the wrapper once (SN:81-93); the standalone SNARK prover never compares it
  with the versions it serves.
- **Clocks.** Two elapsed-time tests in SV are read only between attempts.

The complete list, each at its line with the properties that cover it, is
`hazards` in `PROJECT.json`.

## 2. Modules

| module | models | uses |
|---|---|---|
| `ProtocolVersions` | the version table and its five queries, as pure operators over a CONSTANT table | - |
| `ProofLedger` | abstract: what a fleet promises its sequencers | - |
| `FriProving` | a fleet of FRI provers and the FRI queues of their sequencers | `ProtocolVersions`, `ProofLedger` (refined) |
| `SnarkChecks` | FRI proofs as the SNARK side sees them, the up-front checks of a job and the merge, as pure operators | `ProtocolVersions` |
| `SnarkRunInner` | one SNARK attempt, per-job or resident wrapper | `SnarkChecks` |
| `SnarkAttempt` | abstract: what a SNARK process does with a job, in three steps | - |
| `ProverService` | the combined service | `SnarkRunInner`, `SnarkAttempt` (refined) |
| `SnarkProver` | the standalone SNARK prover: one process, its restarts | `SnarkRunInner`, `SnarkAttempt` (refined) |
| `Settlement` | abstract: what FRI and SNARK provers together promise | `ProofLedger` |
| `ProofPipeline` | sequencers whose proven batches feed their SNARK queues, a fleet of SNARK provers, an operator with the command line client | `SnarkChecks`, `ProofLedger`, `Settlement` and `SnarkAttempt` (refined) |
| `Shutdown` | the three `main` functions from `select!` to exit | - |
| `MCFriProving`, `MCSnarkJobs`, `MCProverService`, `MCSnarkProver`, `MCProofPipeline` | constants of the TLC runs | |
| `ProtocolVersions_proofs`, `FriProving_proofs`, `SnarkAttempt_proofs`, `SnarkRunInner_proofs`, `ProverService_proofs`, `SnarkProver_proofs`, `ProofPipeline_proofs`, `Shutdown_proofs` | theorems and proofs | |

The composition goes through `ProofLedger`: `FriProving` implements it, `ProofPipeline`
contains an instance of it in the place of the FRI provers, and `Settlement`, which
`ProofPipeline` implements, contains it again. On the SNARK side it goes through
`SnarkAttempt`: the two processes that run `SnarkRunInner` implement it, and so does every
prover of the pipeline.

### 2.1 ProtocolVersions

`Versions` is the list `SupportedProtocolVersions` holds. In the code it is
`[V8]`, fixed by `Default`; here it is a constant, so that the results hold for
the table after the next edit of that file too. `ProgramCommitmentFor` keeps the
first-hit semantics of `iter().find(..)`, which matters if a hash is listed
twice. `ProvingSecurityLevel` distinguishes "none recorded" from the panic on
mixed levels.

### 2.2 FriProving

One prover is `pc` (where `run` is), `cursor` (the position in
`clients.iter().cycle()`), `job`, `reply` and `proofCount`.

| code | action |
|---|---|
| `create_prover`, `program_commitment`, `supports_program` (FRI:147-204) | `Boot` - to the loop, or dead |
| `pick_fri_job` sent | `Poll` |
| no job / error status | `ReceiveNothing` |
| unsupported VK, or commitment of another program (FRI:284-308) | `SkipJob` |
| `ensure!` on the input length (FRI:321-333) | `RejectInput` - fatal |
| the checks passed; `create_proof`; submit sent | `StartProving`, `Prove` |
| answer to the submit | `ReceiveAccepted`, `ReceiveRefused` |
| timeout or transport error of either call (FRI:262-283, 382-397) | `GiveUp` |
| a panic, failed proof or kill | `Crash`; `Restart` is the supervisor's |
| count, limit test, sleep, next client (FRI:217-246) | `Return`, part of each of the above that returns `Ok` |

A call is not atomic: the prover sends, the sequencer serves (`ServePick`,
`ServeEmpty`, `ServeSubmit`, `ServeError`), the prover gets the reply. `GiveUp` is
possible at any moment in between. If nothing had been served, the request
joins `latePicks` or `lateSubmits` and may still be served then
(`ServeLatePick`, `ServeLateSubmit`) or never; if it had, the answer is lost.

The sequencer is not in this repository. It is modelled as the client's types,
status handling and comments use it: a pick hands out a batch that is neither
leased nor proven, restricted to the declared VK hashes if the sequencer is new
enough to know the `supported_vk_hashes` parameter (`Aware`, CL:154-167); leases
expire at any time; the first valid submission for a batch is kept. Two things
the code does not settle are parameters: whether a second submission for a
batch is refused or acknowledged (`Idempotent`), and which sequencers are down.
`PickByHand` is the command line client's `pick-fri`, which declares no versions and so is
offered any free batch. A sequencer is assumed not to verify proofs, so soundness rests on the provers.

### 2.3 SnarkChecks, SnarkRunInner and ProverService

`SnarkRunInner` is `run_inner` of SN: `stage` walks through pick, merge, combine,
build, wrap, snarkify, submit to an outcome `true`, `false` or `fatal`. A FRI
proof is a record `[carried, chain]`: the program commitment its final registers
hold, and whether it comes with a recursion chain that agrees with them.
`Continue` is `continue_recursion_chain` with the unified verifier's parameters
(SN:158-182); all that is assumed of it is that a full chain is left alone.
`Satisfiable` is the wrapper circuit's constraint: the carried commitment is
the one the wrapper is `bound` to, which `DeriveWrapper` takes from `disk`, the program of
`app.bin` at that moment. An operator may `Replace` the file at any time; a wrapper
rebuilt from the host cache keeps its program (`BuildWrapper`), the next FRI prover does not.

`ProverService` is `run` of SV: `phase` is `create` (startup checks, repeated at
every cycle), `fri`, `snark`, `pause` (the 1 s poll interval of
`acquire_snark_proof`), `exited` or `failed`. A FRI attempt is its outcome
(generated or not, or fatal), since `FriProving` models its inside. `Tick` moves both
clocks at any time, so every reading of `elapsed()` between attempts is covered.
`device` is the set of holders of GPU memory; the FRI prover is in it from
`create_prover` to `drop`, the combiner while it combines, a wrapper from its
construction until it is retired or dropped.

### 2.4 SnarkProver

`run_linking_fri_snark`, with `run` saying where it is: `startup` (wrapper, combiner,
warm-up), `running` (an attempt of `SnarkRunInner` is under way), `sleeping` (the 5 s after a
turn without a proof), `exited`, `dead`. A failed attempt panics (`Panic`, the `expect` of
SN:386); `Kill` may come at any moment; `Restart` is the supervisor's. `Gone` resets
everything a process holds, so that a restart begins at the first sequencer and counts
from 0. The wrapper is resident: it is in `device` from `StartUp` on, also while the
combiner merges.

### 2.5 SnarkAttempt

The interface of a SNARK process: `Take` an acceptable job from a sequencer, `Prove` it if it
fits the program the process is bound to, `End` the attempt; `Bind` the program once in a
life, not between a proof and its submission; `Die`. `SnarkRunInner` says how its variables map to
these (`At`, `WorkFor`, `WrapperFits`). `Snarkify` is `Prove`, every outcome of an attempt that
had a job is `End`, and what happens within `pick` or between merge and wrap is a stutter - but for
`BuildWrapper` without a cache in the service, which is `Bind`, as `StartUp` is in `SnarkProver`.

### 2.6 ProofPipeline and Settlement

Every sequencer has batches `1..LastBatch`, each of a version. A SNARK job is a range of
consecutive batches of one version (`Jobs`); what a pick returns of it is `Sent`, one FRI
proof per batch. The queue offers any job whose batches are proven, not settled, and
not part of a leased job (`Offered`): how a sequencer cuts ranges is not in this
repository, so every way is possible. It does not filter by declared versions,
and does not verify SNARKs. A submission is what it claims (range, version, sequencer) and
what its SNARK proves (`covers`, `program`).

| code | action |
|---|---|
| `create_snark_wrapper`, `create_combiner` (SN:357-374) | `Start` |
| pick without a job, error or timeout (SN:478-505) | `PickNothing`; if the job was handed out all the same, also `PickUnheard` |
| checks of the version and of the proofs (SN:426-475) | `SkipJob`, or `TakeJob` |
| merge, wrap, SNARK, `snark_proof.json` (SN:520-586) | `Prove`; `ProveFails` kills the process |
| submission: served, refused or lost, given up on (SN:588-633) | `Submit`, `SubmitFails`, `SubmitTimesOut` (then `ServeLate`, or never) |
| `pick-snark`, `submit-snark` (`sequencer_proof_client/src/main.rs:171-212`) | `PickUnheard`, `SubmitByHand` |
| next client, with or without the sleep (SN:386-404) | `NextTurn`, part of each of the above that returns `Ok` |

An attempt has three steps here where `SnarkRunInner` has eight stages: nothing else can be
seen between them but the passing of time. That this is the same attempt is `ImplementsAttempts`
here and `ImplementsAttempt` there. A prover's `Binary` is constant, as `bound` is in the life of
a process (`SnarkAttempt`); a process that comes back with another binary is another
prover of the fleet here. FRI proofs
appear as `ProofLedger` has it; which proof a batch gets is the constant `ProofOf`, any
program and any chain, since sequencers may have taken proofs of other fleets.

`Settlement` says: batches become proven as in `ProofLedger`, and proven batches become
settled, the batches of one job at a time, none twice. `ProofPipeline` implements it with
`settled` mapped to the union of the ranges its sequencers hold SNARKs for.

### 2.7 Shutdown

The three `main` functions in one module, `binary` saying which it is. They differ
in three ways that matter. FRI prover and service poll their work inside `main`
(`Inline`): while a proof is computed no other branch of `select!` is looked at, and a
panic of the work is one of `main`. The SNARK prover's work is on a blocking thread:
it survives the interrupt, and the runtime dropped at the end of `main` waits for it
(`RuntimeDown`, `WorkCutOff`: tokio's behaviour, external). Finally, FRI and SNARK prover
`send` the stop signal, only when the work is done, and panic if there is no receiver; the
service uses `send_replace`, on every branch, and also ends when its metrics task does.

`work` alternates between synchronous stretches and awaits until it returns or panics.
SIGINT kills until `ctrl_c()` has been polled once (`handler`); for inline work, whether that
is before the first long computation depends on the random order in which `select!` polls.

## 3. Runs

| run | instance | shows |
|---|---|---|
| `fri_fleet` | 2 provers of one binary; 2 sequencers, each with a batch both can prove and one neither can (a version nobody supports, a version of another program); 2 iterations, 1 crash; duplicates are refused | `TypeOK`, `FleetInv`, `SubmissionsSound`, `CountsBacked`, `ImplementsSafeLedger`, under all losses, late requests and expiries |
| `fri_progress` | 3 provers of different binaries (one cannot start), first sequencer down, a batch that kills whoever has its binary, 1 crash | `SubmissionsSound`, `EverySequencerPolled` and `ImplementsLedger` (refinement of `ProofLedger`, its liveness included) |
| `fri_timeout_exits` | the same | **violated**: `TimeoutExits` |
| `service` | 2 sequencers, 2 versions of different programs and one unknown, 11 kinds of SNARK job, a replaced binary, limits 2, 2 iterations | `TypeOK`, `DeviceExclusive`, `DerivedOnce`, `WrapSatisfiable`, `ServiceInv`, `BoundForLife`, `CountsDelivered`, `SubmitsOwnProgram`, `ImplementsAttempt`, `EverySequencerServed`, `SnarkPhaseEnds` |
| `service_one_snark` | the same | **violated**: `ExactlyOneSnark` |
| `service_limits` | the same with a user-given latency | **violated**: `LatencyAlone` |
| `snark_prover` | 2 sequencers, the versions and jobs of `service`, 2 iterations, kills and restarts without bound | `TypeOK`, `WrapSatisfiable`, `SubmitsOwnProgram`, `CountsTaken`, `ProverInv`, `ImplementsAttempt`, `EverySequencerPolled` |
| `snark_prover_gpu` | the same | **violated**: `MergeBeforeWrapper` |
| `pipeline` | 2 provers of one binary, 2 sequencers; one with a short-chained batch and a full one, the other, of another version, with a batch proved by the wrong program and one proved by its own, which the provers take and die of; ranges of up to 2; 1 crash besides | `TypeOK`, `SnarksGenuine`, `PipelineInv`, `ImplementsSettlement`, `ImplementsAttempts` |
| `pipeline_progress` | 2 provers, one killed by every job; the sequencer asked first has none; a short-chained batch and a full one at the other; 1 crash | `SettledUnlessAlone` |
| `shutdown` | all three processes | `TypeOK`, `StopBeforeWait`, `SuccessEarned`, `ShutdownInv`, `ProcessEnds` |
| `shutdown_signal` | the same | **violated**: `StopSignalSent` |

`CHECK_DEADLOCK FALSE` is set where the system may stop, which is everywhere but in
`fri_progress` and `fri_timeout_exits`, whose provers have no limit: a prover stops for good
when it has done its `--iterations`, the service when it fails as well, and `Shutdown`
ends with its process, so states without a successor are states in which the processes have ended.

### 3.1 Bounds, and why they are enough

- *Provers 2 or 3.* Two of one binary (`fri_fleet`) are needed for a lease to expire
  under one prover and for the other to submit first; two of different binaries
  (`fri_progress`) skip what the other can prove, and the third there is a build that cannot
  start. No batch of `fri_progress` has two able provers: the liveness check of such a fleet takes
  too long, and `fri_fleet` checks the safety of the refinement alone.
- *Sequencers 2, batches 2.* A mix-up of clients or of jobs needs two of each.
- *`CrashBound` 1.* A crash between pick and submit, and one restart's worth of
  stale state. Deaths by `RejectInput` are not bounded.
- *`CountBound`* saturates the proof count; with `Iterations` = `CountBound` the
  limit test sees every value it distinguishes. In `fri_fleet` two batches are there to
  be proven, so either prover can do its two iterations and exit, or each one of them.
- *`latePicks` is a set*, so two abandoned picks at the same sequencer count as one;
  after the first is served a further abandoned pick can join again.
- *Service limits of 2 ticks / 2 proofs.* Enough that a limit is missed once
  and hit next, and that either clock can overtake the other.
- *`derivations`* counts up to 2: the properties ask whether it was more than one.
  The proofs taken and counted by SNARK processes saturate at `ProofBound`, which is 2 in
  the runs, their `Iterations`, and any number from `Iterations` on in the proofs.
- *Pipeline.* Two batches of one version are the least that can be cut in different ways
  (`{1}`, `{2}`, `{1,2}`), two provers the least that can hold overlapping ranges at the
  same time, and `MaxRange` 2 makes a job of one proof and a merged one. `CrashBound` bounds
  the crashes at any point of a prover; deaths of a job it cannot prove (`ProveFails`) are not bounded,
  and so the `snark_proof.json` an operator submits may be one of a dead prover. `late` and `leases`
  are unbounded sets of the finitely many submissions and jobs. The provers of `pipeline`
  are alike, which makes them a symmetry set; `pipeline_progress`, with liveness, has none.
- *Jobs.* `MCJobs` has one job for every combination of checks that can fail:
  single proofs with full, short, foreign and missing chains, pairs that combine
  and pairs that do not, no proofs at all, an unknown version, a range beyond 32 bits.

### 3.2 Fairness

*Fleet* (`FairSpec` of `FriProving`). A prover's own steps are weakly fair: they are
straight-line code on a runtime with nothing else to do. `GiveUp` is weakly fair because
`reqwest` is built with a timeout. `Restart` is weakly fair: the process is run
under a supervisor (an assumption about the operator, not about the code).
Of the network and the sequencers only this is assumed, strongly fair and only
for a prover that can prove the batch: its leases do not always outlast that
prover's polls, it is not always given to another prover, and calls about it are
not always lost. Late requests, crashes, errors and everything about other
batches carry no fairness: they may happen for ever or never.

*Service* (`FairSpec` of `ProverService`). The clock runs; every attempt ends, one way
or another, since its calls have timeouts and proving terminates. Nothing is
assumed of what the queues hold: FRI attempts may find nothing for ever (only
`FriAttempt(FALSE)` is fair, which is no step until a limit is reached), and
SNARK attempts may fail for ever.

*Standalone SNARK prover* (`FairSpec` of `SnarkProver`). As for the service: its thread goes
on, attempts end, a dead process is started again. Kills may come again and again;
`EverySequencerPolled` excepts a process that keeps dying.

*Pipeline* (`FairSpec` of `ProofPipeline`). Provers go on and are started again; every
provable batch gets its FRI proof, the liveness of `ProofLedger`. For a prover and a job it
can settle, and for nothing else, strongly fair: its polls do not always meet leases, the
queue does not always cut the batches in another way or hand the job to another prover, and
its submissions of the job are not always lost. Of these, the second is about
sequencers that are not in this repository: one that always offered a
batch alone that cannot be wrapped alone would never get it settled.

*Shutdown* (`FairSpec` of `Shutdown`). Proving ends, the 10 s pass, a dropped runtime goes
down. An interrupt that was caught is strongly fair, since each round of polls in
`select!` looks at all branches. The metrics task has no fairness: it may never stop.

## 4. Properties

- `SubmissionsSound`: whatever is sent, arrives late, or is recorded, is a proof
  of the batch it claims, at the sequencer that handed the batch out, under
  that batch's version, of the program the version is bound to. Breaks if
  client, job and binary come apart anywhere between pick and submit.
- `CountsBacked`: the provers together have not counted more proofs than the
  ledgers hold, where duplicates are refused, not even with those that are acknowledged but
  not counted yet (`Credits`). Restarted processes start
  from 0, so the count is a lower bound of what was contributed. (Where a
  sequencer acknowledges duplicates two provers can count one batch, which is
  why the property is conditional.)
- `EverySequencerPolled`, `EverySequencerServed`: the round robins are not captured by a
  sequencer that is down, empty or always busy. A FRI prover that dies again and again polls the
  sequencers up to one whose job it dies of, since a restart begins at the first; those after
  it may be starved, and no document promises otherwise.
- `ImplementsLedger`: batches are proven one at a time, once, for good; only those
  some prover of the fleet can prove; and, under the fairness above, all of those -
  in spite of skipped jobs, abandoned leases, and a batch that kills provers.
  `ImplementsSafeLedger` is all of this but the last, and holds without fairness: also where several
  provers prove one batch and their submissions arrive in any order.
- `DeviceExclusive`, `DerivedOnce`, `WrapSatisfiable`: the three promises made in comments
  of SV (SV:134-150) and SN about the one GPU, the setup derivation, and the
  up-front checks. `WrapSatisfiable` is about jobs whose version is bound to the program the
  wrapper is bound to. The condition is needed: the SNARK side compares a proof with its
  version's commitment, never with the binary the wrapper was built from, so a job of
  another program passes the checks and dies in the wrapper. The instances have such jobs.
- `SubmitsOwnProgram`: a SNARK that is submitted executed the program its job's version
  records, whatever wrapper proved it. No line of the code compares the two: the checks
  tie the job to its version's commitment, the circuit ties the merged proof to the wrapper's
  program, and only together, over merges, caches and replaced binaries, do they give it.
- `ImplementsAttempt`, `ImplementsAttempts`: job and sequencer stay together from the pick to the
  submission, a proof exists only of a job that fits the bound program, and that program does not
  change while the process lives. It would not hold of a service that lost its host cache.
- `BoundForLife`: replacing `app.bin` under a running service does not change what its
  wrapper proves; it would if the host cache were ever lost between jobs.
- `CountsDelivered`: what the service counts for `--iterations` was taken by the sequencer of
  the very phase that counts it. This is what is left of "exactly one SNARK proof": a phase may
  deliver a proof more than it counts (`ExactlyOneSnark` fails), never one less.
- `CountsTaken`: `--iterations` counts acknowledged proofs only, so a standalone SNARK prover
  that exits has delivered at least that many.
- `SnarksGenuine`: whatever a sequencer holds, may still receive, or an operator may find on a
  prover's disk, covers the batches it claims, all of them proven, at the version it names,
  and executed that version's program. Breaks if the range saved before the merge, the client
  and the checks come apart, or if proofs of another program pass.
- `ImplementsSettlement`: only proven batches are settled, in whole jobs, none twice - over
  overlapping ranges, late submissions and repeated ones. That none is settled twice
  is the sequencer's doing; that what it settles was proven is the provers'.
- `SettledUnlessAlone`: every batch that some prover can settle, alone or with its neighbours, is
  settled in the end - although a prover with the wrong binary takes and dies on every
  job - or becomes one that none can, when its neighbours are settled without it. The
  exception is real: without it TLC finds the batch with the short chain left alone,
  which every prover skips from then on (SN:461-473).
- `SnarkPhaseEnds`: `acquire_snark_proof` gives up, however attempts fail. The
  timeout is read only after an attempt, never during one.
- `ProcessEnds`: an interrupt or the end of the work ends the process, even with a metrics task
  that does not stop, or was never told to.
- `SuccessEarned`, `StopBeforeWait`: exit status and stop signal are right on every branch, in
  any race between work, metrics task and interrupt. The FRI prover is excluded from the
  first: it reports success after an error too.

## 5. What disagrees with its documentation

1. `fri_timeout_exits`. The help text of `--request-timeout-secs` (FRI:62) says "the
   prover will exit", the log line at FRI:274 says it is exiting; `run_inner` returns
   `Ok(false)` and the loop polls the next sequencer.
2. `service_one_snark`. "Here we do exactly one SNARK proof" (SV:211): the phase may
   end without any (timeout), or with two taken by the sequencer, when the
   answer to the first submission is lost and the attempt is repeated.
3. `service_limits`. README.md:107 presents the two FRI-phase limits as alternatives;
   both have a clap `default_value`, so the one not given still ends the phase.
4. `shutdown_signal`. `expect("failed to send stop signal")` (`zksync_os_fri_prover/src/main.rs:26`,
   `zksync_os_snark_prover/src/main.rs:160`) does fail: if the metrics port was taken, the receiver
   is gone, and a prover that has done its iterations panics.
5. `snark_prover_gpu`. "The merge's GPU prover sizes its device pool to all free VRAM, so the
   wrapper's device-resident state must not be alive yet" (SN:526), and the resident wrapper is
   for "where the wrapper does not compete for the GPU (the standalone SNARK prover binary)"
   (SN:37-38). In that binary the wrapper is alive from startup on and the combiner merges in
   the same process: `"combiner"` and `"wrapper"` are in `device` together.

## 6. Proofs

| theorem | module |
|---|---|
| `JobCheckImpliesStartupCheck`, `StartedProverHasJobs`, `LevelServesAll` | `ProtocolVersions_proofs` |
| `FleetInvariance`, `TypeCorrect`, `Soundness`, `CountsBackedAlways`, `RefinesLedger` | `FriProving_proofs` |
| `ServiceInvariance`, `ServiceTyped`, `GpuExclusive`, `SetupDerivedOnce`, `OnlySatisfiableWrapped`, `ServiceSubmitsOwn`, `ProgramKeptForLife`, `CountedProofsDelivered`, `ServiceImplementsAttempt` | `ProverService_proofs` |
| `AttemptsFit` | `SnarkAttempt_proofs` |
| `MergeFailsOnlyUnchained` | `SnarkRunInner_proofs` |
| `ProverInvariance`, `ProverTyped`, `CountedProofsTaken`, `ResidentWrapsSatisfiable`, `ResidentSubmitsOwn`, `ProverImplementsAttempt` | `SnarkProver_proofs` |
| `PipelineInvariance`, `PipelineTyped`, `OnlyGenuineSnarks`, `RefinesSettlement`, `PipelineImplementsAttempts` | `ProofPipeline_proofs` |
| `ShutdownInvariance`, `ShutdownTyped`, `NoUnannouncedWait`, `NoFalseSuccess` | `Shutdown_proofs` |

They hold for every number of provers, sequencers, batches and versions, every
assignment of binaries, every set of SNARK jobs and every value of the limits (`--iterations` up to the bound at which counts
saturate, itself any number), under
the ASSUMEs of the modules: the constants are of their types, "none" values are
not members of the sets they extend, there is at least one sequencer, and
continuing a recursion chain is idempotent (`ContinueAssumption`).
`StartedProverHasJobs` also needs the hashes of the table to be distinct:
with a hash listed twice `find` sees only the first entry, and a program bound
to the second passes the startup check but is never given work.

**The fleet.** `TypeOK` is not inductive: the program of a submission is a
commitment, rather than "none", only because `Boot` refuses a build without one, and a
submission is well typed only while its prover has a job. `FleetInv` adds what is
needed. `ProverInv`: a running prover passed `MayStart`; a reply exists only during a
call; a job in a reply, and a job being proven or submitted, is the one that
the sequencer *under the cursor* handed out (`HandedOver`); from proving on it
also passed the checks of `run_inner` (`Vetted`). And every submission in
`lateSubmits` or `ledger` is `Honest`: sound, and made by a program some prover of
the fleet can start with. The proof goes action by action; the key step is
`Return`, the only place the cursor moves, which drops job and reply with it.
`SubmissionsSound` follows, and `ImplementsSafeLedger` (`RefinesLedger`) follows since every recorded
submission was honest, hence `Suitable` for some prover.

For `CountsBacked` the counts are a set, `Credits`: `<<p, n>>` for the n-th proof prover p has
counted, `<<p, 0>>` for one it was acknowledged and has not counted. `BackingInv` adds that
`Credits` and `ledger` are finite, which the fleet need not be. Then no sum is needed: a step adds an
element to `Credits` only with one it adds to `ledger` (`ServeSubmit` of a batch not proven yet), swaps one
(`ReceiveAccepted`), or takes elements away (everything that ends a process).

**The service.** `ServiceInv` says that `phase` and `stage` determine who holds the GPU
(`Holder`), that the attempt rests between SNARK phases (`StageInv`), and that each
stage knows more of its job (`JobInv`): past the pick the job passed the checks,
while combining it has several proofs, past the merge it is known to merge and into what, and past
the wrapper's proofs that the merge carries the wrapper's program. `DeviceExclusive` is a consequence. Between an
acknowledged submission and its being counted a proof is in `taken` (`TakenInv`), which is what `CountsDelivered`
needs. For
`WrapSatisfiable`, a single proof was checked to carry the commitment itself, and a
combined one carries `Continue` of its parts' commitments, which the checks
compared; for `SubmitsOwnProgram` the same fact is read after the circuit
was satisfied. The lemmas about the attempt alone (`AttemptKeepsJob`, `JobFitsWrapper`, `JobPinsProgram`) are in
`SnarkRunInner_proofs` and serve `SnarkProver_proofs` too. `ProgramKeptForLife` needs `BoundInv`: a
program is bound exactly when a setup has been derived, and then either a wrapper is alive
or the cache is there to rebuild it from (`DerivedOnce`), so no second derivation can rebind it.

**Attempts.** `AttemptMoves` of `SnarkRunInner_proofs` sorts every step of an attempt into five
moves: rest, pick, prove, end, bind. Both processes cite it and add what only they know: the service
that a setup is derived only where nothing is bound yet (`BoundInv`, `DerivedOnce`), the standalone prover that
its resident wrapper never binds in an attempt, its `StartUp` binds a fresh process and
`Gone` is a death. `ImplementsAttempts` takes `WorkInv` of the pipeline: what is proved was accepted when
it was picked. `AttemptsFit` is what all three inherit. `MergeFailsOnlyUnchained` says
what the up-front checks leave of the ways to die in a merge.

**The standalone SNARK prover.** `ProverInv` is `JobInv` of the attempt and what the loop adds: where
`run` and `stage` can be together, that the wrapper is there, derived once, while the process
runs, and that an acknowledged proof not yet counted is in `taken` (`CountInv`), without which
`CountsTaken` is not inductive.

**The pipeline.** `SnarksGenuine` is not inductive: nothing in it says what a prover is about to
submit. `PipelineInv` adds `WorkInv`: the job of a prover at work came from the sequencer its
cursor still points at, its batches are proven, it passed the checks, and from `Prove` on
the prover's wrapper fits the merged proof. `ChecksPin` joins the two: for a checked job the
merge carries the version's program, so a prover that could wrap it runs that
program. `RefinesSettlement` follows, since whatever is served is genuine.

**Shutdown.** `ShutdownInv` adds to the checked properties why `main` left its `select!` - for an
interrupt or for work that returned, never for anything else that could end in success -
and that only the SNARK prover goes through the drop of its runtime.

Only model-checked: everything under fairness (`EverySequencerPolled`,
`EverySequencerServed`, `SnarkPhaseEnds`, `SettledUnlessAlone`, `ProcessEnds` and the liveness part of `ImplementsLedger`),
which is beyond the prover. Every other property of a passing run is a theorem.

## 7. Not modelled

- *Proving itself*: it succeeds or fails. The circuits, CRS files and GPU code are
  other repositories'.
- *The rest of the command line client*: `submit-fri` (what it does to a queue, a submission
  nobody waits for, is `ServeLateSubmit`), arguments that do not belong to the file
  submitted, and a file that cannot be created after the pick.
- *Peek calls* and the encoding of SNARK payloads: no prover decides on them.
- *Endpoint parsing* (`sequencer_endpoint.rs`): string handling at startup with its own unit tests.
- *File based client*: not compiled, its `mod` line is commented out.
- *Metrics, logging, proof files*: written, never read.
- *Backpressure* of the sequencers (`docs/setup_linux_vm.md`): theirs, and a reason more why a
  queue may have nothing to offer, which every model allows.
- *Verification by sequencers*: they are assumed to check nothing, which makes the
  provers' promises harder to keep.

## 8. Plan

Done: all components that make decisions - the version table, both provers, the
service, the pipeline they form, and the end of their processes - with their runs; and a
proof of every safety property and every refinement the runs check.

Left, in this order:

1. The progress each liveness property rests on, as far as it can be said without fairness: the steps
   that decrease what is left of a phase of the service, of the end of a process, or of an attempt.
2. A direct composition of the FRI attempt into `ProverService`, where it is its outcome now.
