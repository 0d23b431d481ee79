SPECIFICATION FairSpec
CONSTANTS
  v1 = v1  v2 = v2  v3 = v3  v9 = v9
  A = A  B = B  level = level
  s1 = s1  s2 = s2
  p1 = p1  p2 = p2  p3 = p3
  VkHash = {v1, v2, v3, v9}
  Commitment = {A, B}
  SecurityLevel = {level}
  NoCommitment = NoCommitment
  NoLevel = NoLevel
  MixedLevels = MixedLevels
  Versions <- MCVersions
  Provers = {p1, p2, p3}
  Clients <- FleetClients
  Batches = {1, 2}
  JobVk <- ProgressJobVk
  Malformed <- ProgressMalformed
  Aware = {}
  Idempotent = {}
  Down = {s1}
  Program <- ProgressProgram
  Iterations = NoLimit
  NoLimit = NoLimit
  CountBound = 1
  CrashBound = 1
  NoJob = NoJob
INVARIANT SubmissionsSound
PROPERTIES
  EverySequencerPolled
  ImplementsLedger
