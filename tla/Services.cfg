SPECIFICATION Spec
CONSTANTS
  anthropic = anthropic
  ollama = ollama
  bad = bad
  Requests = {t1, t2}
  MaxRestarts = 1
  KeyInsecure = TRUE
  Nothing = nothing
  Emails = {admin, dev}
  Admin = admin
  Sources = {ip}
  MaxPerEmail = 2
  MaxPerSource = 3
  Window = 1
  Horizon = 2
  Files = {x1, x2}
  Owners = {ann, bob}
  Tabs = {tab1, tab2}
  MaxEdits = 2
  MaxLoadFaults = 1
  Hosts = {host}
  Operations = {get, post}
  EntryIds = {e1, e2}
  Manifests <- MC_Manifests
  MaxItems = 4
  MaxWorking = 2
  MaxEpisodic = 2
  MaxSaved = 1
  MaxLearned = 2
  Lessons = {lesson1, lesson2}
  Order <- MC_Order
  EnvKeys = {anthropic}
  Callers = {t1, t2}
  MaxTokens = 2
  Integrations = {github}
  Credentials = {old, empty, wrong}
  Incomplete = empty
  Completed = filled
  Unusable = {wrong}
  MaxClients = 3
  Threads = {t1, t2}
  Branches = {b}
  MaxSwitches = 1
  MaxOrphans = 1
  Workers = {t1, t2}
  Repos = {x1, x2}
  People = {ann, bob}
  MaxCommits = 3
  Names = {n1, n2}
  Limit = 2
  Cards = {card}
  MaxVersions = 1
  Urls = {x1, x2, bad}
  NameOf <- MC_NameOf
  Malformed = {bad}
  Ids = {1, 2}
  MaxList = 2
  Runs = {t1, t2}
INVARIANTS
  TypeOK GuessesBounded CredentialOpens ListedIsReadable CheckSpeaksForTheAgent OffOffersNothing
  BooksBalance ClientTrustworthy OwnerIsCurrent CallsFound RegistrySound ReportTrue
PROPERTIES
  ForgetsOnlyWhenFull CloneInGoodHands
SYMMETRY ServicesSymmetry
CHECK_DEADLOCK FALSE
