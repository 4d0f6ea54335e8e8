SPECIFICATION Spec
CONSTANTS
  Motors = {m1, m2}
  NoMotor = NoMotor
  Full = 1
  Window = 1
  MaxConsecErrors = 0
  Operators = {"AfterCompleted", "AtProgress"}
  ForwardRefs = FALSE
  ResetUsed = FALSE
  MaxMoves = 3
  MaxRuns = 1
  MaxAborts = 0
SYMMETRY Symmetry
INVARIANTS TypeOK FifoPerMotor SentAtMostOnce TriggerRespected UnrunPlanStaysPut  OkMeansCompleted
PROPERTIES OutcomeIsFinal ImplementsPlan
