SPECIFICATION FairSpec
CONSTANTS
  NumStages = 2
  GraphStage = 2
  EmbedStage = 2
  MaxRetries = 1
  MaxPipelines = 1
  Workers = {w1, w2}
  MaxFaults = 1
  Patient = FALSE
INVARIANTS
  CompletedWasExecuted StageAfterPredecessors DeletedHasNoRows
PROPERTIES
  EventuallyQuiescent
CHECK_DEADLOCK FALSE
