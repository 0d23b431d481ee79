--------------------------- MODULE Shutdown_proofs ---------------------------
(***************************************************************************)
(* What the ends of the three processes never show.                        *)
(***************************************************************************)
EXTENDS Shutdown, TLAPS

LEMMA InitShutdown == Init => ShutdownInv
BY DEF Init, ShutdownInv, TypeOK, StopBeforeWait, SuccessEarned, Inline

LEMMA WorkInv ==
  ASSUME ShutdownInv, WorkStep
  PROVE  ShutdownInv'
<1> USE DEF ShutdownInv, TypeOK, StopBeforeWait, SuccessEarned, Inline, WorkRuns, Alive
<1>1. CASE WorkYields
  BY <1>1 DEF WorkYields
<1>2. CASE WorkResumes
  BY <1>2 DEF WorkResumes
<1>3. CASE WorkPanics
  BY <1>3 DEF WorkPanics
<1>4. CASE \E outcome \in {"ok", "err"} : WorkReturns(outcome)
  BY <1>4 DEF WorkReturns
<1> QED BY <1>1, <1>2, <1>3, <1>4 DEF WorkStep

LEMMA MainInv ==
  ASSUME ShutdownInv, MainStep
  PROVE  ShutdownInv'
<1> USE DEF ShutdownInv, TypeOK, StopBeforeWait, SuccessEarned, Inline, Alive
<1>1. CASE FirstPoll
  BY <1>1 DEF FirstPoll
<1>2. CASE WorkFinished
  BY <1>2 DEF WorkFinished, SendOrPanic, StopAndWait
<1>3. CASE Interrupted
  BY <1>3 DEF Interrupted, CanLook, Dropped
<1>4. CASE MetricsFinished
  BY <1>4 DEF MetricsFinished, CanLook
<1>5. CASE MetricsJoined
  <2>1. CASE binary = "snark"
    BY <1>5, <2>1 DEF MetricsJoined, Leave
  <2>2. CASE binary # "snark"
    <3>1. exit' = Status /\ main' = main /\ Status \in {"success", "failure"}
      BY <1>5, <2>2 DEF MetricsJoined, Leave, Status
    <3>2. exit' = "success" /\ binary = "service" => interrupt \/ work = "ok"
      BY <1>5, <2>2, <3>1 DEF MetricsJoined, Status
    <3>3. binary \in {"fri", "snark", "service"}
      BY BinariesAssumption
    <3> QED BY <1>5, <2>2, <3>1, <3>2, <3>3 DEF MetricsJoined
  <2> QED BY <2>1, <2>2
<1>6. CASE WaitTimesOut
  <2>1. CASE binary = "snark"
    BY <1>6, <2>1 DEF WaitTimesOut, Leave
  <2>2. CASE binary # "snark"
    <3>1. exit' = Status /\ main' = main /\ Status \in {"success", "failure"}
      BY <1>6, <2>2 DEF WaitTimesOut, Leave, Status
    <3>2. exit' = "success" /\ binary = "service" => interrupt \/ work = "ok"
      BY <1>6, <2>2, <3>1 DEF WaitTimesOut, Status
    <3>3. binary \in {"fri", "snark", "service"}
      BY BinariesAssumption
    <3> QED BY <1>6, <2>2, <3>1, <3>2, <3>3 DEF WaitTimesOut
  <2> QED BY <2>1, <2>2
<1>7. CASE RuntimeDown
  BY <1>7 DEF RuntimeDown
<1>8. CASE WorkCutOff
  BY <1>8 DEF WorkCutOff
<1>9. CASE RuntimeDropped
  BY <1>9 DEF RuntimeDropped
<1> QED BY <1>1, <1>2, <1>3, <1>4, <1>5, <1>6, <1>7, <1>8, <1>9 DEF MainStep

LEMMA EnvironmentInv ==
  ASSUME ShutdownInv, MetricsStep \/ Interrupt
  PROVE  ShutdownInv'
<1> USE DEF ShutdownInv, TypeOK, StopBeforeWait, SuccessEarned, Inline, Alive
<1>1. CASE MetricsStep
  BY <1>1 DEF MetricsStep, MetricsServe, MetricsFail, MetricsStop
<1>2. CASE Interrupt
  BY <1>2 DEF Interrupt
<1> QED BY <1>1, <1>2

(* ShutdownInv holds in every state of every process. *)
THEOREM ShutdownInvariance == Spec => []ShutdownInv
<1>1. ASSUME ShutdownInv, [Next]_vars
      PROVE  ShutdownInv'
  <2>1. CASE UNCHANGED vars
    BY <1>1, <2>1 DEF vars, ShutdownInv, TypeOK, StopBeforeWait, SuccessEarned, Inline
  <2>2. CASE Next
    BY <1>1, <2>2, WorkInv, MainInv, EnvironmentInv DEF Next
  <2> QED BY <1>1, <2>1, <2>2
<1> QED BY <1>1, InitShutdown, PTL DEF Spec

(* The types of all variables are as declared. *)
THEOREM ShutdownTyped == Spec => []TypeOK
BY ShutdownInvariance, PTL DEF ShutdownInv

(* The service waits only for a metrics task it has told to stop. *)
THEOREM NoUnannouncedWait == Spec => []StopBeforeWait
BY ShutdownInvariance, PTL DEF ShutdownInv

(* SNARK prover and service report success only for an interrupt or for    *)
(* work that is done.                                                      *)
THEOREM NoFalseSuccess == Spec => []SuccessEarned
BY ShutdownInvariance, PTL DEF ShutdownInv
=============================================================================
