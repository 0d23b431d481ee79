SPECIFICATION FairSpec
CONSTANT Binaries = {"fri", "snark", "service"}
INVARIANTS
  TypeOK
  StopBeforeWait
  SuccessEarned
  ShutdownInv
PROPERTIES
  ProcessEnds
CHECK_DEADLOCK FALSE
