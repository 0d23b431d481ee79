SPECIFICATION Spec
CONSTANTS
  v1 = v1  v2 = v2
  A = A  short = short  B = B  level = level
  s1 = s1  s2 = s2  p1 = p1  p2 = p2
  VkHash = {v1, v2}
  Commitment = {A, short, B}
  SecurityLevel = {level}
  NoCommitment = NoCommitment
  NoLevel = NoLevel
  MixedLevels = MixedLevels
  Versions <- MCVersions
  Continue <- MCContinue
  Clients <- SafeClients
  LastBatch = 2
  BatchVk <- SafeVk
  FriProvable <- SafeProvable
  ProofOf <- SafeProofs
  MaxRange = 2
  SnarkProvers = {p1, p2}
  Binary <- SafeBinary
  CrashBound = 1
  None = None
INVARIANTS
  TypeOK
  SnarksGenuine
  PipelineInv
PROPERTIES
  ImplementsAttempts
  ImplementsSettlement
SYMMETRY AlikeProvers
CHECK_DEADLOCK FALSE
