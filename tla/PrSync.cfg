SPECIFICATION FairSpec
CONSTANTS
  NumPrs = 3
  PageSize = 1
  MaxPages = 2
  Syncers = {poller, webhook}
  MaxChanges = 1
  MaxFailures = 1
INVARIANTS
  TypeOK CountsReal
PROPERTIES
  OpenEventuallyListed
