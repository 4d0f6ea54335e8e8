SPECIFICATION Spec
CONSTANTS
  Motors = {m1, m2}
  NoMotor = NoMotor
  Full = 1
  Window = 1
  MaxConsecErrors = 0
  Operators = {"AfterCompleted"}
  ForwardRefs = FALSE
  ResetUsed = FALSE
  MaxMoves = 2
  MaxRuns = 1
  MaxAborts = 1
SYMMETRY Symmetry
PROPERTIES FailedIsFinal
