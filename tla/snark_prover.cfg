SPECIFICATION FairSpec
CONSTANTS
  v8 = v8  v9 = v9  unknown = unknown
  full = full  short = short  other = other  level = level
  VkHash = {v8, v9, unknown}
  Commitment = {full, short, other}
  SecurityLevel = {level}
  NoCommitment = NoCommitment
  NoLevel = NoLevel
  MixedLevels = MixedLevels
  Versions <- MCVersions
  Continue <- MCContinue
  Resident = TRUE
  Jobs <- MCJobs
  NoJob = NoJob
  NoProof = NoProof
  ClientCount = 2
  Iterations = 2
  NoLimit = NoLimit
  ProofBound = 2
INVARIANTS
  TypeOK
  WrapSatisfiable
  CountsTaken
  ProverInv
  SubmitsOwnProgram
PROPERTIES
  ImplementsAttempt
  EverySequencerPolled
CHECK_DEADLOCK FALSE
