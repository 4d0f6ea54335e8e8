SPECIFICATION Spec
CONSTANTS
  Tiers = 3
  SoakN = 5
  Latencies = {1, 2}
  MaxCalls = 4
INVARIANTS TypeOK CacheIsMeasured  InvalidMeansUnwell
CHECK_DEADLOCK FALSE
