SPECIFICATION FairSpec
CONSTANTS
  MaxIterations = 3
  MaxToolsPerTurn = 2
  KeepToolResults = 3
  Capabilities = {"read_code", "execute"}
  MaxCalls = 3
  MaxToggles = 3
INVARIANTS
  TypeOK ContractWithinLimit LatestTurnUsable ContextBounded AtMostOneLateRun
  ExchangeStored DeletedConversationEmpty
PROPERTIES
  AlwaysAnswered
CHECK_DEADLOCK FALSE
