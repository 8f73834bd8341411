SPECIFICATION FairSpec
CONSTANTS
  Files = {"main.py", "util.py"}
  NumVersions = 3
  Skipped = {3}
  Main = "default"
  ChangeCap = 1
  FullCap = 2
  Syncers = {"poller", "webhook"}
  Hooks = {"webhook"}
  MaxPushes = 3
  MaxFaults = 1
  Calm = TRUE
INVARIANTS
  TypeOK ManifestTruthful NothingMissed
PROPERTIES
  EventuallyTracks
