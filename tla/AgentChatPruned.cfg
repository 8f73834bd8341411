SPECIFICATION Spec
CONSTANTS
  MaxIterations = 2
  MaxToolsPerTurn = 2
  KeepToolResults = 3
  Capabilities = {"read_code", "execute"}
  MaxCalls = 3
  MaxToggles = 3
INVARIANT RecentResultsIntact
CHECK_DEADLOCK FALSE
