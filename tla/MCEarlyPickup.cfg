SPECIFICATION Spec
CONSTANTS
  Motors = {m1, m2}
  NoMotor = NoMotor
  Full = 1
  Window = 1
  MaxConsecErrors = 0
  Operators = {"AfterCompleted"}
  ForwardRefs = FALSE
  ResetUsed = FALSE
  MaxMoves = 2
  MaxRuns = 2
  MaxAborts = 0
SYMMETRY Symmetry
INVARIANTS NothingSentBeforeRun
