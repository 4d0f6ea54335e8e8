SPECIFICATION Spec
CONSTANTS
  Motors = {m1, m2}
  Angles = {1}
  Quarter = 2
  Origins = {0, 1}
  Tolerance = 1
  Window = 1
  Default = 2
  Times = {0, 1}
  Durations = {3}
  Delays = {1, 3}
  Uptime = 1
  Word = 64
  Deadline = 3
  Samples = 2
  MaxMoves = 2
  MaxTunings = 1
  MaxClock = 5
  MaxFaults = 1
SYMMETRY Symmetry
INVARIANTS RotatesByAngle
CHECK_DEADLOCK FALSE
