SPECIFICATION FairSpec
CONSTANTS
  Files = {"main.py"}
  NumVersions = 3
  Skipped = {}
  Main = "default"
  ChangeCap = 2
  FullCap = 2
  Syncers = {"poller"}
  Hooks = {}
  MaxPushes = 3
  MaxFaults = 0
  Calm = TRUE
PROPERTY KnowledgeTracksReality
