SPECIFICATION Spec
CONSTANTS
  MaxIterations = 2
  MaxToolsPerTurn = 2
  KeepToolResults = 2
  Capabilities = {"read_code", "execute"}
  MaxCalls = 3
  MaxToggles = 3
INVARIANT ShownIsPersisted
CHECK_DEADLOCK FALSE
