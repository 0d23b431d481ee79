------------------------------ MODULE Shutdown ------------------------------
(***************************************************************************)
(* How the three prover processes end: the `main` functions of             *)
(* zksync_os_fri_prover, zksync_os_snark_prover and                        *)
(* zksync_os_prover_service.  Each selects over the prover's work and      *)
(* ctrl-c (the service over its metrics task as well), tells the metrics   *)
(* task to stop through a watch channel - or does not -, and waits at most *)
(* 10 s for it.                                                            *)
(*                                                                         *)
(* The work of the FRI prover and of the service is polled by `main`       *)
(* itself, which is blind while a proof is computed; the SNARK prover's    *)
(* runs on a blocking thread, which outlives `main` and which the dropped  *)
(* runtime waits for.                                                      *)
(***************************************************************************)
CONSTANT Binaries   \* which of the three processes are looked at

ASSUME BinariesAssumption == Binaries \subseteq {"fri", "snark", "service"}

VARIABLES
  binary,      \* which process this is
  work,        \* `run`, or run_linking_fri_snark
  metrics,     \* the metrics task, which owns the stop receiver
  stop,        \* TRUE was sent on the watch channel
  handler,     \* ctrl_c() was polled: SIGINT no longer kills
  interrupt,   \* SIGINT was caught
  main,        \* where `main` is
  exit         \* how the process ended

vars == <<binary, work, metrics, stop, handler, interrupt, main, exit>>

TypeOK ==
  /\ binary \in Binaries
  /\ work \in {"busy", "idle", "ok", "err", "panicked", "dropped"}
  /\ metrics \in {"starting", "serving", "over"}
  /\ stop \in BOOLEAN /\ handler \in BOOLEAN /\ interrupt \in BOOLEAN
  /\ main \in {"select", "wait", "drop", "down"}
  /\ exit \in {"none", "success", "failure", "panic", "killed"}

(* Inline work may be polled first, and then holds back ctrl_c(). *)
Inline == binary # "snark"

Init ==
  /\ binary \in Binaries
  /\ work = "busy" /\ metrics = "starting" /\ main = "select" /\ exit = "none"
  /\ stop = FALSE /\ interrupt = FALSE
  /\ handler \in IF Inline THEN BOOLEAN ELSE {FALSE}

Alive == exit = "none"

-----------------------------------------------------------------------------
(* The work: synchronous stretches between awaits. *)

WorkRuns == Alive /\ main # "down" /\ (Inline => main = "select")

(* A pending await; inline, the round goes on to the other branches. *)
WorkYields ==
  /\ WorkRuns /\ work = "busy"
  /\ work' = "idle"
  /\ handler' = (handler \/ Inline)
  /\ UNCHANGED <<binary, metrics, stop, interrupt, main, exit>>

WorkResumes ==
  /\ WorkRuns /\ work = "idle"
  /\ work' = "busy"
  /\ UNCHANGED <<binary, metrics, stop, handler, interrupt, main, exit>>

WorkReturns(outcome) ==
  /\ WorkRuns /\ work = "busy"
  /\ work' = outcome
  /\ UNCHANGED <<binary, metrics, stop, handler, interrupt, main, exit>>

(* Inline, the panic is main's own. *)
WorkPanics ==
  /\ WorkRuns /\ work = "busy"
  /\ work' = "panicked"
  /\ exit' = IF Inline THEN "panic" ELSE exit
  /\ UNCHANGED <<binary, metrics, stop, handler, interrupt, main>>

-----------------------------------------------------------------------------
(* The environment and the metrics task. *)

FirstPoll ==
  /\ Alive /\ main = "select" /\ ~Inline /\ ~handler
  /\ handler' = TRUE
  /\ UNCHANGED <<binary, work, metrics, stop, interrupt, main, exit>>

Interrupt ==
  /\ Alive
  /\ IF handler THEN interrupt' = TRUE /\ UNCHANGED exit
                ELSE exit' = "killed" /\ UNCHANGED interrupt
  /\ UNCHANGED <<binary, work, metrics, stop, handler, main>>

MetricsServe ==
  /\ Alive /\ metrics = "starting"
  /\ metrics' = "serving"
  /\ UNCHANGED <<binary, work, stop, handler, interrupt, main, exit>>

(* The port is taken, or the server fails later. *)
MetricsFail ==
  /\ Alive /\ metrics # "over"
  /\ metrics' = "over"
  /\ UNCHANGED <<binary, work, stop, handler, interrupt, main, exit>>

(* Graceful, that is when open connections permit. *)
MetricsStop ==
  /\ Alive /\ metrics = "serving" /\ stop
  /\ metrics' = "over"
  /\ UNCHANGED <<binary, work, stop, handler, interrupt, main, exit>>

-----------------------------------------------------------------------------
(* The branches of `select!`. *)

(* `main` gets to poll its other branches when inline work has yielded. *)
CanLook == Alive /\ main = "select" /\ (Inline => work = "idle")

StopAndWait ==
  /\ stop' = TRUE
  /\ main' = "wait"
  /\ UNCHANGED exit

(* stop_sender.send(true).expect(..): an error once the receiver is gone. *)
SendOrPanic ==
  IF metrics = "over" THEN exit' = "panic" /\ UNCHANGED <<stop, main>>
                      ELSE StopAndWait

WorkFinished ==
  /\ Alive /\ main = "select"
  /\ \/ binary = "service" /\ work \in {"ok", "err"} /\ StopAndWait
     \/ binary = "fri" /\ work \in {"ok", "err"} /\ SendOrPanic
     \/ binary = "snark" /\ work = "ok" /\ SendOrPanic
     \/ binary = "snark" /\ work \in {"err", "panicked"}
          /\ exit' = "panic" /\ UNCHANGED <<stop, main>>
  /\ UNCHANGED <<binary, work, metrics, handler, interrupt>>

(* Dropping the join handle of the blocking thread leaves it running. *)
Dropped == IF Inline THEN "dropped" ELSE work

Interrupted_Silent ==  \* mutant: the service does not tell its metrics task either
  /\ CanLook /\ handler /\ interrupt
  /\ main' = "wait"
  /\ work' = Dropped
  /\ UNCHANGED <<binary, stop, metrics, handler, interrupt, exit>>

(* Only the service sends the stop signal here. *)
Interrupted ==
  /\ CanLook /\ handler /\ interrupt
  /\ stop' = (binary = "service")
  /\ main' = "wait"
  /\ work' = Dropped
  /\ UNCHANGED <<binary, metrics, handler, interrupt, exit>>

MetricsFinished ==
  /\ CanLook /\ binary = "service" /\ metrics = "over"
  /\ stop' = TRUE
  /\ work' = "dropped"
  /\ exit' = "failure"
  /\ UNCHANGED <<binary, metrics, handler, interrupt, main>>

-----------------------------------------------------------------------------
(* After `select!`. *)

Status_Work == work                \* mutant: the result is passed on as it is
Status_Success == "success"        \* mutant: the service ends like the FRI prover
Status == IF binary = "service" /\ work = "err" THEN "failure" ELSE "success"

Leave ==
  IF binary = "snark" THEN main' = "drop" /\ UNCHANGED exit
                      ELSE exit' = Status /\ UNCHANGED main

MetricsJoined ==
  /\ Alive /\ main = "wait" /\ metrics = "over"
  /\ Leave
  /\ UNCHANGED <<binary, work, metrics, stop, handler, interrupt>>

WaitTimesOut_Never ==  \* mutant: metrics_handle.await without a timeout
  /\ Alive /\ main = "wait" /\ metrics = "over"
  /\ Leave
  /\ UNCHANGED <<binary, work, metrics, stop, handler, interrupt>>

(* 10 s have passed; only the service aborts the task. *)
WaitTimesOut ==
  /\ Alive /\ main = "wait"
  /\ Leave
  /\ metrics' = IF binary = "service" THEN "over" ELSE metrics
  /\ UNCHANGED <<binary, work, stop, handler, interrupt>>

(* Dropping the runtime stops its drivers, then waits for the blocking     *)
(* thread, whose next await fails or panics.                               *)
RuntimeDown ==
  /\ Alive /\ main = "drop"
  /\ main' = "down"
  /\ UNCHANGED <<binary, work, metrics, stop, handler, interrupt, exit>>

WorkCutOff ==
  /\ Alive /\ main = "down" /\ work \in {"busy", "idle"}
  /\ work' = "panicked"
  /\ UNCHANGED <<binary, metrics, stop, handler, interrupt, main, exit>>

RuntimeDropped ==
  /\ Alive /\ main = "down" /\ work \notin {"busy", "idle"}
  /\ exit' = "success"
  /\ UNCHANGED <<binary, work, metrics, stop, handler, interrupt, main>>

-----------------------------------------------------------------------------
WorkStep ==
  \/ WorkYields \/ WorkResumes \/ WorkPanics
  \/ \E outcome \in {"ok", "err"} : WorkReturns(outcome)

MainStep ==
  \/ FirstPoll \/ WorkFinished \/ Interrupted \/ MetricsFinished
  \/ MetricsJoined \/ WaitTimesOut \/ RuntimeDown \/ WorkCutOff \/ RuntimeDropped

MetricsStep == MetricsServe \/ MetricsFail \/ MetricsStop

Next == WorkStep \/ MainStep \/ MetricsStep \/ Interrupt

Spec == Init /\ [][Next]_vars

(* Proving comes to an end, the 10 s pass, the runtime is torn down; and   *)
(* every round of polls looks at all branches, so that a caught interrupt  *)
(* is not passed over for ever while the work yields again and again.      *)
(* Nothing is assumed of the metrics task.                                 *)
FairSpec ==
  /\ Spec
  /\ WF_vars(WorkYields \/ WorkPanics \/ \E outcome \in {"ok", "err"} : WorkReturns(outcome))
  /\ WF_vars(FirstPoll) /\ WF_vars(WorkFinished)
  /\ SF_vars(Interrupted)
  /\ WF_vars(WaitTimesOut)
  /\ WF_vars(RuntimeDown) /\ WF_vars(WorkCutOff) /\ WF_vars(RuntimeDropped)

-----------------------------------------------------------------------------
(* The service never waits for a metrics task that it has not told to      *)
(* stop.  The other two do, on ctrl-c, and always sit out the full 10 s.   *)
StopBeforeWait == binary = "service" /\ main = "wait" => stop

(* A process that reports success was interrupted or has done its work,    *)
(* whatever happens to the metrics task on the way.  Not so the FRI        *)
(* prover, which logs the error of `run` and returns Ok.                   *)
SuccessEarned ==
  binary # "fri" /\ exit = "success" => interrupt \/ work = "ok"

(* The inductive invariant behind SuccessEarned: `main` leaves its select  *)
(* for an interrupt or for work that has returned, never for a metrics     *)
(* task; only the SNARK prover, whose errors panic, goes through the drop  *)
(* of its runtime with the work still running.                             *)
ShutdownInv ==
  /\ TypeOK
  /\ StopBeforeWait
  /\ SuccessEarned
  /\ main # "select" => interrupt \/ work = "ok" \/ (Inline /\ work = "err")
  /\ main \in {"drop", "down"} => binary = "snark"

(* Work that is over and an interrupt that was caught end the process,     *)
(* with a metrics task that does not stop, and with a SNARK proof under    *)
(* way on a thread nobody waits for.                                       *)
ProcessEnds ==
  (interrupt \/ work \in {"ok", "err", "panicked", "dropped"}) ~> ~Alive

(* `expect("failed to send stop signal")`: a prover that has done its      *)
(* iterations can send the signal; it does not panic.                      *)
StopSignalSent == work = "ok" => exit # "panic"
=============================================================================
