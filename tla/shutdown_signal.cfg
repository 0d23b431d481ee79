SPECIFICATION Spec
CONSTANT Binaries = {"fri", "snark", "service"}
INVARIANT StopSignalSent
CHECK_DEADLOCK FALSE
