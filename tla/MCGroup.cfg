SPECIFICATION FairSpec
CONSTANTS
  N = 2
  Angles = {0, 2}
  Lo = 0
  Hi = 1
  Policies = {"Reject", "Clamp", "Warn"}
  Offsets = {1}
  Tolerance = 0
  Window = 2
  MaxCalls = 2
  MaxFaults = 1
INVARIANTS   OkMeansSettled TimeoutIsReal
PROPERTIES CallReturns
CHECK_DEADLOCK FALSE
