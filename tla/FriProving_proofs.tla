-------------------------- MODULE FriProving_proofs --------------------------
(***************************************************************************)
(* The safety of the FRI fleet, for any number of provers, sequencers and  *)
(* batches, any version table and any mix of binaries: FleetInv is         *)
(* inductive, SubmissionsSound follows from it, and the fleet implements   *)
(* the safety of ProofLedger.                                              *)
(***************************************************************************)
EXTENDS FriProving, FiniteSetTheorems, TLAPS

(* The cursor always points at a client, and clients are sequencers. *)
LEMMA ClientsTyped ==
  /\ DOMAIN Clients = 1..Len(Clients)
  /\ 1 \in DOMAIN Clients
  /\ \A c \in DOMAIN Clients : NextClient(c) \in DOMAIN Clients /\ Clients[c] \in Sequencers
BY ClientsAssumption DEF NextClient, Sequencers

(* Startup guarantees a commitment, which a CPU build does not have. *)
LEMMA StartedHasProgram ==
  ASSUME NEW p \in Provers, MayStart(p)
  PROVE  Program[p] \in Commitment
BY ProgramAssumption DEF MayStart

LEMMA CountTyped ==
  ASSUME NEW n \in 0..CountBound
  PROVE  Counted(n) \in 0..CountBound
BY BoundAssumption DEF Counted

(* A vetted job's submission is an honest request to the right sequencer. *)
LEMMA SubmissionHonest ==
  ASSUME TypeOK, NEW p \in Provers, MayStart(p), HandedOver(p), Vetted(p)
  PROVE  SubmissionOf(p) \in Submission /\ Honest(SubmissionOf(p))
<1> DEFINE m == SubmissionOf(p)
<1>1. Client(p) \in Sequencers
  BY ClientsTyped DEF TypeOK, Client
<1>2. Program[p] \in Commitment
  BY StartedHasProgram
<1>3. job[p].batch \in Batches /\ job[p].vk \in VkHash /\ job[p].input \in Inputs
  BY DEF HandedOver, Job
<1>4. m \in Submission
  BY <1>1, <1>2, <1>3 DEF SubmissionOf, Submission
<1>5. Sound(m)
  BY DEF SubmissionOf, Sound, HandedOver, Vetted, Mismatched
<1>6. Honest(m)
  BY <1>5 DEF Honest, SubmissionOf, Vetted
<1> QED BY <1>4, <1>6

LEMMA InitInv == Init => FleetInv
BY ClientsTyped, BoundAssumption
   DEF Init, FleetInv, TypeOK, ProverInv, Reply, Running

(* A prover none of whose variables change keeps its invariant. *)
LEMMA Untouched ==
  ASSUME NEW q \in Provers, ProverInv(q),
         pc'[q] = pc[q], reply'[q] = reply[q], job'[q] = job[q], cursor'[q] = cursor[q]
  PROVE  ProverInv(q)'
BY DEF ProverInv, Calling, HandedOver, Vetted, Mismatched, Client, MayStart

(* Return leaves a running prover without a job and the others alone. *)
LEMMA ReturnInv ==
  ASSUME FleetInv, NEW p \in Provers, NEW g \in BOOLEAN, Return(p, g), pc[p] \in Running
  PROVE  /\ pc' \in [Provers -> Running \cup {"boot", "exited", "dead"}]
         /\ cursor' \in [Provers -> DOMAIN Clients]
         /\ job' \in [Provers -> Job \cup {NoJob}]
         /\ reply' \in [Provers -> Reply]
         /\ proofCount' \in [Provers -> 0..CountBound]
         /\ crashes' \in 0..CrashBound
         /\ \A q \in Provers : ProverInv(q)'
<1>1. TypeOK /\ \A q \in Provers : ProverInv(q)
  BY DEF FleetInv
<1>2. pc' \in [Provers -> Running \cup {"boot", "exited", "dead"}]
  BY <1>1 DEF Return, TypeOK, Running
<1>3. cursor' \in [Provers -> DOMAIN Clients]
  BY <1>1, ClientsTyped DEF Return, TypeOK
<1>4. job' \in [Provers -> Job \cup {NoJob}] /\ reply' \in [Provers -> Reply]
  BY <1>1 DEF Return, TypeOK, Reply
<1>5. proofCount' \in [Provers -> 0..CountBound]
  BY <1>1, CountTyped DEF Return, TypeOK
<1>6. crashes' \in 0..CrashBound
  BY <1>1 DEF Return, TypeOK
<1>7. ASSUME NEW q \in Provers
      PROVE  ProverInv(q)'
  <2>1. CASE q = p
    BY <1>1, <2>1 DEF Return, TypeOK, ProverInv, Running, MayStart
  <2>2. CASE q # p
    BY <1>1, <2>2, Untouched DEF Return, TypeOK
  <2> QED BY <2>1, <2>2
<1> QED BY <1>2, <1>3, <1>4, <1>5, <1>6, <1>7

LEMMA DieInv ==
  ASSUME FleetInv, NEW p \in Provers, Die(p)
  PROVE  /\ pc' \in [Provers -> Running \cup {"boot", "exited", "dead"}]
         /\ cursor' \in [Provers -> DOMAIN Clients]
         /\ job' \in [Provers -> Job \cup {NoJob}]
         /\ reply' \in [Provers -> Reply]
         /\ proofCount' \in [Provers -> 0..CountBound]
         /\ \A q \in Provers : ProverInv(q)'
<1>1. TypeOK /\ \A q \in Provers : ProverInv(q)
  BY DEF FleetInv
<1>2. ASSUME NEW q \in Provers
      PROVE  ProverInv(q)'
  <2>1. CASE q = p
    BY <1>1, <2>1 DEF Die, TypeOK, ProverInv, Running
  <2>2. CASE q # p
    BY <1>1, <2>2, Untouched DEF Die, TypeOK
  <2> QED BY <2>1, <2>2
<1> QED BY <1>1, <1>2 DEF Die, TypeOK, Reply

(* Abandoned requests are well-typed, and the submits among them honest.   *)
LEMMA AbandonInv ==
  ASSUME FleetInv, NEW p \in Provers, pc[p] \in Running, Abandon(p)
  PROVE  /\ latePicks' \subseteq Sequencers
         /\ lateSubmits' \subseteq Submission
         /\ \A m \in lateSubmits' : Honest(m)
<1>1. TypeOK /\ ProverInv(p) /\ \A m \in lateSubmits : Honest(m)
  BY DEF FleetInv
<1>2. latePicks' \subseteq Sequencers
  BY <1>1, ClientsTyped DEF Abandon, TypeOK, Client
<1>3. CASE pc[p] = "submitting"
  <2>1. SubmissionOf(p) \in Submission /\ Honest(SubmissionOf(p))
    BY <1>1, <1>3, SubmissionHonest DEF ProverInv, Running
  <2> QED BY <1>1, <1>2, <2>1 DEF Abandon, TypeOK
<1>4. CASE pc[p] # "submitting"
  BY <1>1, <1>2, <1>4 DEF Abandon, TypeOK
<1> QED BY <1>3, <1>4

(* Recording an honest submission keeps the ledger honest. *)
LEMMA RecordInv ==
  ASSUME FleetInv, NEW m \in Submission, Honest(m), Record(m)
  PROVE  /\ leased' \subseteq Inputs
         /\ ledger' \subseteq Submission
         /\ \A n \in ledger' : Honest(n)
BY DEF FleetInv, TypeOK, Record

(* Steps that change nothing but a prover's own variables. *)
LEMMA QuietStep ==
  ASSUME FleetInv, UNCHANGED <<sequencerVars, lateVars>>,
         pc' \in [Provers -> Running \cup {"boot", "exited", "dead"}],
         cursor' \in [Provers -> DOMAIN Clients],
         job' \in [Provers -> Job \cup {NoJob}],
         reply' \in [Provers -> Reply],
         proofCount' \in [Provers -> 0..CountBound],
         crashes' \in 0..CrashBound,
         \A q \in Provers : ProverInv(q)'
  PROVE  FleetInv'
BY DEF FleetInv, TypeOK, sequencerVars, lateVars

LEMMA ProverStepInv ==
  ASSUME FleetInv, NEW p \in Provers, ProverStep(p)
  PROVE  FleetInv'
<1> USE DEF FleetInv
<1>1. CASE Boot(p)
  <2>1. \A q \in Provers : ProverInv(q)'
    <3> SUFFICES ASSUME NEW q \in Provers PROVE ProverInv(q)'
      OBVIOUS
    <3>1. CASE q = p
      BY <1>1, <3>1 DEF Boot, TypeOK, ProverInv, Running, Calling, MayStart
    <3>2. CASE q # p
      BY <1>1, <3>2, Untouched DEF Boot, TypeOK
    <3> QED BY <3>1, <3>2
  <2>2. /\ pc' \in [Provers -> Running \cup {"boot", "exited", "dead"}]
        /\ cursor' \in [Provers -> DOMAIN Clients]
        /\ proofCount' \in [Provers -> 0..CountBound]
    BY <1>1, ClientsTyped, BoundAssumption DEF Boot, TypeOK, Running
  <2> QED BY <1>1, <2>1, <2>2, QuietStep DEF Boot, TypeOK
<1>2. CASE Poll(p)
  <2>1. \A q \in Provers : ProverInv(q)'
    <3> SUFFICES ASSUME NEW q \in Provers PROVE ProverInv(q)'
      OBVIOUS
    <3>1. CASE q = p
      BY <1>2, <3>1 DEF Poll, TypeOK, ProverInv, Running, Calling, MayStart
    <3>2. CASE q # p
      BY <1>2, <3>2, Untouched DEF Poll, TypeOK
    <3> QED BY <3>1, <3>2
  <2> QED BY <1>2, <2>1, QuietStep DEF Poll, TypeOK, Running
<1>3. CASE ReceiveNothing(p)
  BY <1>3, ReturnInv, QuietStep DEF ReceiveNothing, Running
<1>4. CASE SkipJob(p)
  BY <1>4, ReturnInv, QuietStep DEF SkipJob, Running
<1>5. CASE RejectInput(p)
  BY <1>5, DieInv, QuietStep DEF RejectInput, TypeOK
<1>6. CASE StartProving(p)
  <2>1. \A q \in Provers : ProverInv(q)'
    <3> SUFFICES ASSUME NEW q \in Provers PROVE ProverInv(q)'
      OBVIOUS
    <3>1. CASE q = p
      BY <1>6, <3>1 DEF StartProving, TypeOK, ProverInv, Running, Calling,
         HandedOver, Vetted, Mismatched, Client, MayStart
    <3>2. CASE q # p
      BY <1>6, <3>2, Untouched DEF StartProving, TypeOK
    <3> QED BY <3>1, <3>2
  <2> QED BY <1>6, <2>1, QuietStep DEF StartProving, TypeOK, Running, Reply
<1>7. CASE Prove(p)
  <2>1. \A q \in Provers : ProverInv(q)'
    <3> SUFFICES ASSUME NEW q \in Provers PROVE ProverInv(q)'
      OBVIOUS
    <3>1. CASE q = p
      BY <1>7, <3>1 DEF Prove, TypeOK, ProverInv, Running, Calling,
         HandedOver, Vetted, Mismatched, Client, MayStart
    <3>2. CASE q # p
      BY <1>7, <3>2, Untouched DEF Prove, TypeOK
    <3> QED BY <3>1, <3>2
  <2> QED BY <1>7, <2>1, QuietStep DEF Prove, TypeOK, Running
<1>8. CASE ReceiveAccepted(p)
  BY <1>8, ReturnInv, QuietStep DEF ReceiveAccepted, Running
<1>9. CASE ReceiveRefused(p)
  BY <1>9, ReturnInv, QuietStep DEF ReceiveRefused, Running
<1>10. CASE GiveUp(p)
  <2>1. pc[p] \in Running
    BY <1>10 DEF GiveUp, Calling, Running
  <2> QED BY <1>10, <2>1, ReturnInv, AbandonInv DEF GiveUp, sequencerVars, TypeOK
<1>11. CASE Crash(p)
  <2>1. crashes' \in 0..CrashBound
    BY <1>11, BoundAssumption DEF Crash, TypeOK
  <2> QED BY <1>11, <2>1, DieInv, AbandonInv DEF Crash, sequencerVars, TypeOK
<1>12. CASE Restart(p)
  <2>1. \A q \in Provers : ProverInv(q)'
    <3> SUFFICES ASSUME NEW q \in Provers PROVE ProverInv(q)'
      OBVIOUS
    <3>1. CASE q = p
      BY <1>12, <3>1 DEF Restart, TypeOK, ProverInv, Running, Calling
    <3>2. CASE q # p
      BY <1>12, <3>2, Untouched DEF Restart, TypeOK
    <3> QED BY <3>1, <3>2
  <2> QED BY <1>12, <2>1, QuietStep DEF Restart, TypeOK
<1> QED
  BY <1>1, <1>2, <1>3, <1>4, <1>5, <1>6, <1>7, <1>8, <1>9, <1>10, <1>11, <1>12
     DEF ProverStep

(* Answering a waiting prover p, with or without a job. *)
LEMMA AnswerInv ==
  ASSUME FleetInv, NEW p \in Provers, NEW a \in Reply,
         pc[p] \in {"picking", "submitting"}, Answer(p, a),
         UNCHANGED <<pc, cursor>>,
         \A q \in Provers : q # p => job'[q] = job[q],
         a # "job" => job'[p] = job[p],
         a = "job" => pc[p] = "picking" /\ HandedOver(p)'
  PROVE  /\ reply' \in [Provers -> Reply]
         /\ \A q \in Provers : ProverInv(q)'
<1>1. TypeOK /\ \A q \in Provers : ProverInv(q)
  BY DEF FleetInv
<1>2. ASSUME NEW q \in Provers
      PROVE  ProverInv(q)'
  <2>1. CASE q = p /\ a = "job"
    BY <1>1, <2>1 DEF Answer, TypeOK, ProverInv, Running, Calling, MayStart
  <2>2. CASE q = p /\ a # "job"
    BY <1>1, <2>2 DEF Answer, TypeOK, ProverInv, Running, Calling, HandedOver, Vetted,
       Mismatched, Client, MayStart
  <2>3. CASE q # p
    BY <1>1, <2>3, Untouched DEF Answer, TypeOK
  <2> QED BY <2>1, <2>2, <2>3
<1> QED BY <1>1, <1>2 DEF Answer, TypeOK

LEMMA SequencerStepInv ==
  ASSUME FleetInv, SequencerStep
  PROVE  FleetInv'
<1> USE DEF FleetInv
<1>1. ASSUME NEW p \in Provers, NEW b \in Batches, ServePick(p, b)
      PROVE  FleetInv'
  <2> DEFINE s == Client(p)
             j == [batch |-> b, vk |-> JobVk[s][b], input |-> <<s, b>>]
  <2>1. s \in Sequencers
    BY ClientsTyped DEF Client, TypeOK
  <2>2. j \in Job /\ <<s, b>> \in Inputs
    BY <2>1, JobAssumption DEF Job, Inputs
  <2>3. job' \in [Provers -> Job \cup {NoJob}]
    BY <1>1, <2>2 DEF ServePick, TypeOK
  <2>4. job'[p] = j /\ HandedOver(p)'
    BY <1>1, <2>2 DEF ServePick, TypeOK, HandedOver, Client
  <2>5. reply' \in [Provers -> Reply] /\ \A q \in Provers : ProverInv(q)'
    BY <1>1, <2>4, AnswerInv DEF ServePick, Waiting, Reply, TypeOK
  <2> QED BY <1>1, <2>2, <2>3, <2>5 DEF ServePick, TypeOK, lateVars
<1>2. ASSUME NEW p \in Provers, ServeEmpty(p)
      PROVE  FleetInv'
  BY <1>2, AnswerInv DEF ServeEmpty, Waiting, Reply, TypeOK, sequencerVars, lateVars
<1>3. ASSUME NEW p \in Provers, ServeSubmit(p)
      PROVE  FleetInv'
  <2> DEFINE m == SubmissionOf(p)
  <2>1. /\ pc[p] = "submitting" /\ Record(m)
        /\ UNCHANGED <<pc, cursor, job, proofCount, crashes, lateVars>>
    BY <1>3 DEF ServeSubmit, Waiting
  <2>2. m \in Submission /\ Honest(m)
    BY <2>1, SubmissionHonest DEF ProverInv, Running
  <2>3. reply' \in [Provers -> Reply] /\ \A q \in Provers : ProverInv(q)'
    BY <1>3, <2>1, AnswerInv DEF ServeSubmit, Reply
  <2> QED BY <2>1, <2>2, <2>3, RecordInv DEF TypeOK, lateVars
<1>4. ASSUME NEW p \in Provers, ServeError(p)
      PROVE  FleetInv'
  BY <1>4, AnswerInv DEF ServeError, Waiting, Reply, TypeOK, sequencerVars, lateVars
<1>5. ASSUME UNCHANGED proverVars
      PROVE  \A q \in Provers : ProverInv(q)'
  BY <1>5, Untouched DEF proverVars
<1>6. ASSUME NEW s \in Sequencers, NEW b \in Batches, ServeLatePick(s, b)
      PROVE  FleetInv'
  BY <1>5, <1>6 DEF ServeLatePick, TypeOK, Inputs, proverVars
<1>7. ASSUME NEW s \in Sequencers, NEW b \in Batches, PickByHand(s, b)
      PROVE  FleetInv'
  BY <1>5, <1>7 DEF PickByHand, TypeOK, Inputs, lateVars, proverVars
<1>8. ASSUME NEW s \in Sequencers, NEW b \in Batches, Expire(s, b)
      PROVE  FleetInv'
  BY <1>5, <1>8 DEF Expire, TypeOK, lateVars, proverVars
<1>9. ASSUME NEW m \in lateSubmits, ServeLateSubmit(m)
      PROVE  FleetInv'
  <2>1. m \in Submission /\ Honest(m) /\ Record(m)
    BY <1>9 DEF ServeLateSubmit, TypeOK
  <2> QED BY <1>5, <1>9, <2>1, RecordInv DEF ServeLateSubmit, TypeOK, proverVars
<1> QED BY <1>1, <1>2, <1>3, <1>4, <1>6, <1>7, <1>8, <1>9 DEF SequencerStep

(* FleetInv holds in every state of the fleet. *)
THEOREM FleetInvariance == Spec => []FleetInv
<1>1. FleetInv /\ [Next]_vars => FleetInv'
  <2> SUFFICES ASSUME FleetInv, [Next]_vars PROVE FleetInv'
    OBVIOUS
  <2>1. CASE UNCHANGED vars
    BY <2>1, Untouched, QuietStep
       DEF vars, sequencerVars, lateVars, FleetInv, TypeOK
  <2>2. CASE Next
    BY <2>2, ProverStepInv, SequencerStepInv DEF Next
  <2> QED BY <2>1, <2>2
<1> QED BY <1>1, InitInv, PTL DEF Spec

(* The types of all variables are as declared. *)
THEOREM TypeCorrect == Spec => []TypeOK
BY FleetInvariance, PTL DEF FleetInv

(* No prover sends, and no sequencer ever holds, a proof of another batch, *)
(* for another sequencer, of another version or of another program.        *)
THEOREM Soundness == Spec => []SubmissionsSound
<1>1. FleetInv => SubmissionsSound
  <2> SUFFICES ASSUME FleetInv PROVE SubmissionsSound
    OBVIOUS
  <2>1. ASSUME NEW p \in Provers, pc[p] \in {"proving", "submitting"}
        PROVE  Sound(SubmissionOf(p))
    BY <2>1, SubmissionHonest DEF FleetInv, ProverInv, Running, Honest
  <2> QED BY <2>1 DEF FleetInv, SubmissionsSound, Honest
<1> QED BY <1>1, FleetInvariance, PTL

-----------------------------------------------------------------------------
(* The counts.  Credits and ledger are finite although the fleet need not  *)
(* be: they start empty and gain at most one element in a step.            *)
BackingInv == IsFiniteSet(Credits) /\ IsFiniteSet(ledger) /\ CountsBacked

Credit(p, n) ==
  /\ n \in 0..CountBound
  /\ IF n = 0 THEN p \in Acknowledged ELSE n <= proofCount[p]

LEMMA CreditsAre ==
  ASSUME NEW p \in Provers, NEW n
  PROVE  <<p, n>> \in Credits <=> Credit(p, n)
BY DEF Credits, Credit

LEMMA CreditsAreNext ==
  ASSUME NEW p \in Provers, NEW n
  PROVE  <<p, n>> \in Credits' <=> Credit(p, n)'
BY DEF Credits, Credit

(* A step in which prover p gains no credit, nor anybody else. *)
LEMMA NoNewCredit ==
  ASSUME NEW p \in Provers,
         \A q \in Provers \ {p} :
            pc'[q] = pc[q] /\ reply'[q] = reply[q] /\ proofCount'[q] = proofCount[q],
         p \notin Acknowledged' \/ p \in Acknowledged,
         proofCount[p] \in Nat, proofCount'[p] \in Nat, proofCount'[p] <= proofCount[p]
  PROVE  Credits' \subseteq Credits
<1> SUFFICES ASSUME NEW q \in Provers, NEW n \in 0..CountBound, <<q, n>> \in Credits'
             PROVE  <<q, n>> \in Credits
  BY DEF Credits
<1>1. Credit(q, n)'
  BY CreditsAreNext
<1>2. CASE q = p
  BY <1>1, <1>2, CreditsAre DEF Credit
<1>3. CASE q # p
  BY <1>1, <1>3, CreditsAre DEF Credit, Acknowledged
<1> QED BY <1>2, <1>3
(* What a step may do to credits and ledger: neither grows, the ledger     *)
(* grows and a credit with it, or one credit takes the place of another.   *)
LEMMA LedgerGrows ==
  ASSUME IsFiniteSet(ledger),
         ledger' = ledger \/ \E m : m \notin ledger /\ ledger' = ledger \cup {m}
  PROVE  /\ IsFiniteSet(ledger')
         /\ Cardinality(ledger) \in Nat /\ Cardinality(ledger') \in Nat
         /\ Cardinality(ledger') = IF ledger' = ledger THEN Cardinality(ledger)
                                   ELSE Cardinality(ledger) + 1
<1>1. Cardinality(ledger) \in Nat
  BY FS_CardinalityType
<1>2. CASE ledger' = ledger
  BY <1>1, <1>2
<1>3. ASSUME NEW m, m \notin ledger, ledger' = ledger \cup {m}
      PROVE  /\ IsFiniteSet(ledger') /\ Cardinality(ledger') = Cardinality(ledger) + 1
             /\ ledger' # ledger
  BY <1>3, FS_AddElement
<1> QED BY <1>1, <1>2, <1>3

LEMMA CreditsShrink ==
  ASSUME IsFiniteSet(Credits), Credits' \subseteq Credits
  PROVE  /\ IsFiniteSet(Credits')
         /\ Cardinality(Credits) \in Nat /\ Cardinality(Credits') \in Nat
         /\ Cardinality(Credits') <= Cardinality(Credits)
BY FS_Subset, FS_CardinalityType

LEMMA CreditsGain ==
  ASSUME IsFiniteSet(Credits), NEW c, Credits' \subseteq Credits \cup {c}
  PROVE  /\ IsFiniteSet(Credits')
         /\ Cardinality(Credits) \in Nat /\ Cardinality(Credits') \in Nat
         /\ Cardinality(Credits') <= Cardinality(Credits) + 1
<1> DEFINE S == Credits \cup {c}
<1>1. Cardinality(Credits) \in Nat
  BY FS_CardinalityType
<1>2. IsFiniteSet(S) /\ Cardinality(S) \in Nat /\ Cardinality(S) <= Cardinality(Credits) + 1
  BY <1>1, FS_AddElement
<1>3. IsFiniteSet(Credits') /\ Cardinality(Credits') <= Cardinality(S)
  <2> HIDE DEF S
  <2>1. Credits' \in SUBSET S
    BY DEF S
  <2> QED BY <1>2, <2>1, FS_Subset
<1>4. Cardinality(Credits') \in Nat
  BY <1>3, FS_CardinalityType
<1> HIDE DEF S
<1> QED BY <1>1, <1>2, <1>3, <1>4

LEMMA CreditsSwap ==
  ASSUME IsFiniteSet(Credits), NEW c \in Credits, NEW d,
         Credits' \subseteq (Credits \ {c}) \cup {d}
  PROVE  /\ IsFiniteSet(Credits')
         /\ Cardinality(Credits) \in Nat /\ Cardinality(Credits') \in Nat
         /\ Cardinality(Credits') <= Cardinality(Credits)
<1> DEFINE R == Credits \ {c}
           S == R \cup {d}
<1>1. Cardinality(Credits) \in Nat
  BY FS_CardinalityType
<1>2. IsFiniteSet(R) /\ Cardinality(R) = Cardinality(Credits) - 1 /\ Cardinality(R) \in Nat
  BY FS_RemoveElement, FS_CardinalityType
<1>3. IsFiniteSet(S) /\ Cardinality(S) \in Nat /\ Cardinality(S) <= Cardinality(R) + 1
  <2>1. IsFiniteSet(S) /\ Cardinality(S) = IF d \in R THEN Cardinality(R) ELSE Cardinality(R) + 1
    <3> HIDE DEF R
    <3> QED BY <1>2, FS_AddElement
  <2> HIDE DEF R, S
  <2> QED BY <1>2, <2>1
<1>4. IsFiniteSet(Credits') /\ Cardinality(Credits') <= Cardinality(S)
  <2>1. Credits' \in SUBSET S
    OBVIOUS
  <2> HIDE DEF S
  <2> QED BY <1>3, <2>1, FS_Subset
<1>5. Cardinality(Credits') \in Nat
  BY <1>4, FS_CardinalityType
<1> HIDE DEF R, S
<1> QED BY <1>1, <1>2, <1>3, <1>4, <1>5

ExitsEarned == \A p \in Provers : pc[p] = "exited" => proofCount[p] >= Iterations

(* A step in which nobody gains a credit. *)
LEMMA QuietBacking ==
  ASSUME BackingInv, Credits' \subseteq Credits, ExitsEarned',
         ledger' = ledger \/ \E m : m \notin ledger /\ ledger' = ledger \cup {m}
  PROVE  BackingInv'
<1>1. IsFiniteSet(Credits') /\ IsFiniteSet(ledger')
  BY CreditsShrink, LedgerGrows DEF BackingInv
<1>2. Idempotent = {} => Cardinality(Credits') <= Cardinality(ledger')
  BY CreditsShrink, LedgerGrows DEF BackingInv, CountsBacked
<1> QED BY <1>1, <1>2 DEF BackingInv, CountsBacked, ExitsEarned

(* A prover that exits has counted up to the limit. *)
LEMMA ReturnExits ==
  ASSUME FleetInv, BackingInv, NEW p \in Provers, NEW g \in BOOLEAN, Return(p, g)
  PROVE  /\ ExitsEarned'
         /\ \A q \in Provers \ {p} :
               pc'[q] = pc[q] /\ reply'[q] = reply[q] /\ proofCount'[q] = proofCount[q]
         /\ p \notin Acknowledged'
         /\ proofCount'[p] = IF g THEN Counted(proofCount[p]) ELSE proofCount[p]
<1>1. TypeOK /\ ExitsEarned
  BY DEF FleetInv, BackingInv, CountsBacked, ExitsEarned
<1>2. /\ \A q \in Provers \ {p} :
            pc'[q] = pc[q] /\ reply'[q] = reply[q] /\ proofCount'[q] = proofCount[q]
      /\ p \notin Acknowledged'
      /\ proofCount'[p] = IF g THEN Counted(proofCount[p]) ELSE proofCount[p]
  BY <1>1 DEF Return, TypeOK, Acknowledged
<1>3. pc'[p] = "exited" => proofCount'[p] >= Iterations
  BY <1>1 DEF Return, TypeOK, LimitReached
<1>4. ExitsEarned'
  BY <1>1, <1>2, <1>3 DEF ExitsEarned
<1> QED BY <1>2, <1>4

LEMMA ProverStepBacking ==
  ASSUME FleetInv, BackingInv, NEW p \in Provers, ProverStep(p)
  PROVE  BackingInv'
<1> DEFINE Others == \A q \in Provers \ {p} :
             pc'[q] = pc[q] /\ reply'[q] = reply[q] /\ proofCount'[q] = proofCount[q]
<1>1. TypeOK /\ ExitsEarned /\ proofCount[p] \in 0..CountBound
  BY DEF FleetInv, BackingInv, CountsBacked, ExitsEarned, TypeOK
<1>2. ledger' = ledger
  BY DEF ProverStep, sequencerVars, Boot, Poll, ReceiveNothing, SkipJob, RejectInput,
     StartProving, Prove, ReceiveAccepted, ReceiveRefused, GiveUp, Crash, Restart
<1>3. ASSUME Return(p, FALSE)
      PROVE  BackingInv'
  <2>1. ExitsEarned' /\ Others /\ p \notin Acknowledged' /\ proofCount'[p] = proofCount[p]
    BY <1>3, ReturnExits
  <2>2. Credits' \subseteq Credits
    BY <1>1, <2>1, NoNewCredit, BoundAssumption
  <2> QED BY <1>2, <2>1, <2>2, QuietBacking
<1>4. CASE ReceiveAccepted(p)
  <2> DEFINE k == Counted(proofCount[p])
  <2>1. Return(p, TRUE) /\ p \in Acknowledged
    BY <1>4 DEF ReceiveAccepted, Acknowledged
  <2>2. ExitsEarned' /\ Others /\ p \notin Acknowledged' /\ proofCount'[p] = k
    BY <2>1, ReturnExits
  <2>3. <<p, 0>> \in Credits
    BY <2>1, CreditsAre, BoundAssumption DEF Credit
  <2>4. Credits' \subseteq (Credits \ {<<p, 0>>}) \cup {<<p, k>>}
    <3> SUFFICES ASSUME NEW q \in Provers, NEW n \in 0..CountBound, <<q, n>> \in Credits',
                        <<q, n>> # <<p, k>>
                 PROVE  <<q, n>> \in Credits /\ <<q, n>> # <<p, 0>>
      BY DEF Credits
    <3>1. Credit(q, n)'
      BY CreditsAreNext
    <3>2. CASE q = p
      <4>1. n # 0 /\ n <= k /\ n # k
        BY <2>2, <3>1, <3>2 DEF Credit
      <4>2. n <= proofCount[p]
        BY <1>1, <4>1, BoundAssumption DEF Counted
      <4> QED BY <3>2, <4>1, <4>2, CreditsAre DEF Credit
    <3>3. CASE q # p
      BY <2>2, <3>1, <3>3, CreditsAre DEF Credit, Acknowledged
    <3> QED BY <3>2, <3>3
  <2>5. /\ IsFiniteSet(Credits')
        /\ Cardinality(Credits') \in Nat /\ Cardinality(Credits) \in Nat
        /\ Cardinality(Credits') <= Cardinality(Credits)
    BY <2>3, <2>4, CreditsSwap DEF BackingInv
  <2>6. IsFiniteSet(ledger) /\ Cardinality(ledger) \in Nat
    BY FS_CardinalityType DEF BackingInv
  <2>7. Idempotent = {} => Cardinality(Credits') <= Cardinality(ledger)
    BY <2>5, <2>6 DEF BackingInv, CountsBacked
  <2> QED BY <1>2, <2>2, <2>5, <2>6, <2>7 DEF BackingInv, CountsBacked, ExitsEarned
<1>5. ASSUME Others, p \notin Acknowledged', pc'[p] # "exited" \/ pc'[p] = pc[p],
             proofCount'[p] = proofCount[p] \/ (proofCount'[p] = 0 /\ pc'[p] # "exited")
      PROVE  BackingInv'
  <2>1. Credits' \subseteq Credits
    BY <1>1, <1>5, NoNewCredit, BoundAssumption
  <2>2. ExitsEarned'
    BY <1>1, <1>5 DEF ExitsEarned
  <2> QED BY <1>2, <2>1, <2>2, QuietBacking
<1>6. CASE ReceiveNothing(p) \/ SkipJob(p) \/ ReceiveRefused(p) \/ GiveUp(p)
  BY <1>3, <1>6 DEF ReceiveNothing, SkipJob, ReceiveRefused, GiveUp
<1>7. CASE Boot(p) \/ Poll(p) \/ StartProving(p) \/ Prove(p) \/ Restart(p)
  <2>1. reply[p] # "accepted" \/ StartProving(p)
    BY <1>7 DEF FleetInv, ProverInv, Calling, Boot, Poll, StartProving, Prove, Restart
  <2>2. /\ Others /\ p \notin Acknowledged' /\ pc'[p] # "exited"
        /\ proofCount'[p] = proofCount[p] \/ proofCount'[p] = 0
    BY <1>1, <1>7, <2>1
       DEF TypeOK, Acknowledged, Boot, Poll, StartProving, Prove, Restart
  <2> QED BY <1>5, <2>2
<1>8. CASE RejectInput(p) \/ Crash(p)
  <2>1. Die(p)
    BY <1>8 DEF RejectInput, Crash
  <2>2. /\ Others /\ p \notin Acknowledged' /\ pc'[p] # "exited"
        /\ proofCount'[p] = proofCount[p]
    BY <1>1, <2>1 DEF TypeOK, Acknowledged, Die
  <2> QED BY <1>5, <2>2
<1> QED BY <1>4, <1>6, <1>7, <1>8 DEF ProverStep

LEMMA SequencerStepBacking ==
  ASSUME FleetInv, BackingInv, SequencerStep
  PROVE  BackingInv'
<1>1. TypeOK /\ ExitsEarned
  BY DEF FleetInv, BackingInv, CountsBacked, ExitsEarned
<1>2. UNCHANGED <<pc, proofCount>>
  BY DEF SequencerStep, proverVars, ServePick, ServeEmpty, ServeSubmit, ServeError,
     ServeLatePick, PickByHand, Expire, ServeLateSubmit
<1>3. ExitsEarned'
  BY <1>1, <1>2 DEF ExitsEarned
<1>4. ASSUME Acknowledged' = Acknowledged,
             ledger' = ledger \/ \E m : m \notin ledger /\ ledger' = ledger \cup {m}
      PROVE  BackingInv'
  <2>1. Credits' = Credits
    BY <1>2, <1>4 DEF Credits
  <2> QED BY <1>3, <1>4, <2>1, QuietBacking
<1>5. ASSUME NEW p \in Provers, NEW a \in Reply, a # "accepted",
             Waiting(p, "picking") \/ Waiting(p, "submitting"),
             Answer(p, a), ledger' = ledger
      PROVE  BackingInv'
  <2>1. Acknowledged' = Acknowledged
    BY <1>1, <1>2, <1>5 DEF Acknowledged, Answer, Waiting, TypeOK
  <2> QED BY <1>4, <1>5, <2>1
<1>6. ASSUME NEW m, Record(m)
      PROVE  /\ Proven(m.to, m.batch) => ledger' = ledger
             /\ ~Proven(m.to, m.batch) => m \notin ledger /\ ledger' = ledger \cup {m}
  BY <1>6 DEF Record, Proven
<1>7. ASSUME NEW p \in Provers, ServeSubmit(p)
      PROVE  BackingInv'
  <2> DEFINE m == SubmissionOf(p)
  <2>1. /\ Waiting(p, "submitting") /\ Record(m)
        /\ Answer(p, IF Proven(m.to, m.batch) /\ m.to \notin Idempotent
                     THEN "refused" ELSE "accepted")
    BY <1>7 DEF ServeSubmit
  <2>2. CASE Proven(m.to, m.batch) /\ m.to \notin Idempotent
    BY <1>5, <1>6, <2>1, <2>2 DEF Reply
  <2>3. CASE ~(Proven(m.to, m.batch) /\ m.to \notin Idempotent)
    <3>1. Acknowledged' \subseteq Acknowledged \cup {p}
      BY <1>1, <1>2, <2>1 DEF Acknowledged, Answer, TypeOK
    <3>2. Credits' \subseteq Credits \cup {<<p, 0>>}
      BY <1>2, <3>1 DEF Credits
    <3>3. /\ IsFiniteSet(Credits')
          /\ Cardinality(Credits) \in Nat /\ Cardinality(Credits') \in Nat
          /\ Cardinality(Credits') <= Cardinality(Credits) + 1
      BY <3>2, CreditsGain DEF BackingInv
    <3>4. ledger' = ledger \/ \E n : n \notin ledger /\ ledger' = ledger \cup {n}
      BY <1>6, <2>1
    <3>5. IsFiniteSet(ledger')
      BY <3>4, LedgerGrows DEF BackingInv
    <3>6. Idempotent = {} => Cardinality(Credits') <= Cardinality(ledger')
      <4> SUFFICES ASSUME Idempotent = {} PROVE Cardinality(Credits') <= Cardinality(ledger')
        OBVIOUS
      <4>1. m \notin ledger /\ ledger' = ledger \cup {m}
        BY <1>6, <2>1, <2>3
      <4>2. Cardinality(ledger) \in Nat /\ Cardinality(ledger') = Cardinality(ledger) + 1
        BY <4>1, FS_AddElement, FS_CardinalityType DEF BackingInv
      <4> QED BY <3>3, <4>2 DEF BackingInv, CountsBacked
    <3> QED BY <1>3, <3>3, <3>5, <3>6 DEF BackingInv, CountsBacked, ExitsEarned
  <2> QED BY <2>2, <2>3
<1>8. ASSUME NEW p \in Provers, NEW b \in Batches, ServePick(p, b)
      PROVE  BackingInv'
  BY <1>5, <1>8 DEF ServePick, Reply
<1>9. ASSUME NEW p \in Provers, ServeEmpty(p) \/ ServeError(p)
      PROVE  BackingInv'
  BY <1>5, <1>9 DEF ServeEmpty, ServeError, sequencerVars, Waiting, Reply
<1>10. ASSUME NEW s \in Sequencers, NEW b \in Batches,
              ServeLatePick(s, b) \/ PickByHand(s, b) \/ Expire(s, b)
       PROVE  BackingInv'
  BY <1>4, <1>10 DEF ServeLatePick, PickByHand, Expire, proverVars, Acknowledged
<1>11. ASSUME NEW m \in lateSubmits, ServeLateSubmit(m)
       PROVE  BackingInv'
  <2>1. Record(m) /\ Acknowledged' = Acknowledged
    BY <1>11 DEF ServeLateSubmit, proverVars, Acknowledged
  <2> QED BY <1>4, <1>6, <2>1
<1> QED BY <1>7, <1>8, <1>9, <1>10, <1>11 DEF SequencerStep

(* Where duplicates are refused every counted proof is backed by a ledger  *)
(* entry of its own, and a prover that exits has counted its iterations.   *)
THEOREM CountsBackedAlways == Spec => []CountsBacked
<1>1. Init => BackingInv
  <2> SUFFICES ASSUME Init PROVE BackingInv
    OBVIOUS
  <2>1. Credits = {}
    BY DEF Init, Credits, Acknowledged
  <2>2. ledger = {} /\ ExitsEarned
    BY DEF Init, ExitsEarned
  <2> QED BY <2>1, <2>2, FS_EmptySet DEF BackingInv, CountsBacked, ExitsEarned
<1>2. FleetInv /\ BackingInv /\ [Next]_vars => BackingInv'
  <2> SUFFICES ASSUME FleetInv, BackingInv, [Next]_vars PROVE BackingInv'
    OBVIOUS
  <2>1. CASE UNCHANGED vars
    BY <2>1 DEF vars, BackingInv, CountsBacked, Credits, Acknowledged
  <2>2. CASE Next
    BY <2>2, ProverStepBacking, SequencerStepBacking DEF Next
  <2> QED BY <2>1, <2>2
<1>3. BackingInv => CountsBacked
  BY DEF BackingInv
<1> QED BY <1>1, <1>2, <1>3, FleetInvariance, PTL DEF Spec

-----------------------------------------------------------------------------
(* An honest proof recorded by a sequencer is a step of the ledger: its    *)
(* batch suits some prover, and it was not proven before.                  *)
LEMMA RecordRefines ==
  ASSUME NEW m \in Submission, Honest(m), Up(m.to), Record(m)
  PROVE  [Ledger!Next]_ProvenInputs
<1> DEFINE i == <<m.to, m.batch>>
<1>1. CASE Proven(m.to, m.batch)
  BY <1>1 DEF Record, ProvenInputs
<1>2. CASE ~Proven(m.to, m.batch)
  <2>1. i \in Inputs
    BY DEF Submission, Inputs
  <2>2. PICK p \in Provers : MayStart(p) /\ Program[p] = m.proof.program
    BY DEF Honest
  <2>3. i \in Suitable(p)
    BY <2>1, <2>2 DEF Suitable, Honest, Sound
  <2>4. i \in ProvableInputs
    BY <2>3 DEF ProvableInputs
  <2>5. i \notin ProvenInputs
    BY <1>2 DEF ProvenInputs, Proven, Submission
  <2>6. ProvenInputs' = ProvenInputs \cup {i}
    BY <1>2 DEF Record, ProvenInputs
  <2> QED BY <2>1, <2>4, <2>5, <2>6 DEF Ledger!Next, Ledger!ProveBatch, ProvenInputs, ProvableInputs
<1> QED BY <1>1, <1>2

LEMMA StepRefines ==
  ASSUME FleetInv, [Next]_vars
  PROVE  [Ledger!Next]_ProvenInputs
<1>1. CASE \E p \in Provers : ServeSubmit(p)
  <2>1. PICK p \in Provers : ServeSubmit(p)
    BY <1>1
  <2>2. Up(Client(p)) /\ Record(SubmissionOf(p)) /\ pc[p] = "submitting"
    BY <2>1 DEF ServeSubmit, Waiting
  <2>3. SubmissionOf(p) \in Submission /\ Honest(SubmissionOf(p))
    BY <2>2, SubmissionHonest DEF FleetInv, ProverInv, Running
  <2> QED BY <2>2, <2>3, RecordRefines DEF SubmissionOf
<1>2. CASE \E m \in lateSubmits : ServeLateSubmit(m)
  <2>1. PICK m \in lateSubmits : ServeLateSubmit(m)
    BY <1>2
  <2> QED BY <2>1, RecordRefines DEF ServeLateSubmit, FleetInv, TypeOK
<1>3. CASE UNCHANGED ledger
  BY <1>3 DEF ProvenInputs
<1>4. \/ UNCHANGED ledger
      \/ \E p \in Provers : ServeSubmit(p)
      \/ \E m \in lateSubmits : ServeLateSubmit(m)
  BY DEF Next, ProverStep, SequencerStep, vars, sequencerVars, Boot, Poll, ReceiveNothing,
     SkipJob, RejectInput, StartProving, Prove, ReceiveAccepted, ReceiveRefused, GiveUp,
     Crash, Restart, ServePick, ServeEmpty, ServeError, ServeLatePick, PickByHand,
     Expire
<1> QED BY <1>1, <1>2, <1>3, <1>4

(* The safety part of ImplementsLedger: every step of the fleet is a step  *)
(* of the ledger or leaves it alone.                                       *)
THEOREM RefinesLedger == Spec => ImplementsSafeLedger
<1>1. Init => Ledger!Init
  BY DEF Init, Ledger!Init, ProvenInputs
<1>2. FleetInv /\ [Next]_vars => [Ledger!Next]_ProvenInputs
  BY StepRefines
<1> QED BY <1>1, <1>2, FleetInvariance, PTL DEF Spec, ImplementsSafeLedger, Ledger!SafeSpec, ProvenInputs
=============================================================================
