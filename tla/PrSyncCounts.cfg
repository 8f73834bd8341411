SPECIFICATION FairSpec
CONSTANTS
  NumPrs = 3
  PageSize = 1
  MaxPages = 3
  Syncers = {poller}
  MaxChanges = 2
  MaxFailures = 0
PROPERTY CountsEventuallyReal
