SPECIFICATION FairSpec
CONSTANTS
  Files = {"main.py", "util.py"}
  NumVersions = 2
  Skipped = {}
  Main = "default"
  ChangeCap = 2
  FullCap = 2
  Syncers = {"poller", "webhook"}
  Hooks = {"webhook"}
  MaxPushes = 2
  MaxFaults = 0
  Calm = FALSE
PROPERTY GraphFollowsClone
