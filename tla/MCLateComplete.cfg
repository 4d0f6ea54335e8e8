SPECIFICATION Spec
CONSTANTS
  Angles = {0, 2}
  Deltas = {1}
  Lo = 0
  Hi = 1
  PositionPolicies = {"Warn"}
  SpeedPolicies = {"None"}
  AutoClear = {FALSE}
  Tolerance = 0
  Window = 2
  MaxConsecErrors = 1
  Half = 4
  StartCounts = {0}
  MaxCalls = 2
  MaxFaults = 0
INVARIANTS RefusalIsReal
CHECK_DEADLOCK FALSE
