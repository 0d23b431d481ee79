SPECIFICATION FairSpec
CONSTANTS
  v8 = v8  v9 = v9  unknown = unknown
  full = full  short = short  other = other  level = level
  VkHash = {v8, v9, unknown}
  Commitment = {full, short, other}
  SecurityLevel = {level}
  NoCommitment = NoCommitment
  NoLevel = NoLevel
  MixedLevels = MixedLevels
  Versions <- MCVersions
  Continue <- MCContinue
  Resident = FALSE
  Jobs <- MCJobs
  NoJob = NoJob
  NoProof = NoProof
  ClientCount = 2
  UserSnarkLatency = Unset
  UserFrisPerSnark = Unset
  Unset = Unset
  DefaultSnarkLatency = 2
  DefaultFrisPerSnark = 2
  AcquireTimeout = 2
  Iterations = 2
  ProofBound = 2
INVARIANTS
  TypeOK
  DeviceExclusive
  DerivedOnce
  WrapSatisfiable
  ServiceInv
  SubmitsOwnProgram
PROPERTIES
  ImplementsAttempt
  BoundForLife
  CountsDelivered
  EverySequencerServed
  SnarkPhaseEnds
CHECK_DEADLOCK FALSE
