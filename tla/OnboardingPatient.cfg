SPECIFICATION FairSpec
CONSTANTS
  NumStages = 3
  GraphStage = 2
  EmbedStage = 3
  MaxRetries = 1
  MaxPipelines = 2
  Workers = {w1, w2}
  MaxFaults = 0
  Patient = TRUE
INVARIANTS
  TypeOK VerdictAtRest GivenUpIsNotOnboarding CheckoutAndGraphGone
PROPERTIES
  ImplementsBoard EventuallySettled
CHECK_DEADLOCK FALSE
