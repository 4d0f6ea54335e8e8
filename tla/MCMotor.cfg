SPECIFICATION FairSpec
CONSTANTS
  Angles = {0, 3}
  Deltas = {1}
  Lo = 0
  Hi = 1
  PositionPolicies = {"Reject", "Clamp", "Warn"}
  SpeedPolicies = {"Reject"}
  AutoClear = {TRUE, FALSE}
  Tolerance = 0
  Window = 2
  MaxConsecErrors = 1
  Half = 4
  StartCounts = {0, 1}
  MaxCalls = 2
  MaxFaults = 1
INVARIANTS TypeOK OkMeansArrived LimitsKept OriginAligns
PROPERTIES  CallReturns
CHECK_DEADLOCK FALSE
