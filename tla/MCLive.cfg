SPECIFICATION FairSpec
CONSTANTS
  Motors = {m1, m2}
  NoMotor = NoMotor
  Full = 1
  Window = 1
  MaxConsecErrors = 0
  Operators = {"AfterCompleted", "AtProgress", "AtTimeAfterStart", "AtTimeBeforeEnd"}
  ForwardRefs = FALSE
  ResetUsed = TRUE
  MaxMoves = 2
  MaxRuns = 1
  MaxAborts = 1
INVARIANTS ResetSparesProcessed
PROPERTIES RunReturns 
