SPECIFICATION Spec
CONSTANTS
  Versions = {"v1", "v2"} SeedVersion = "v1" Tools = {"a", "b"} Fits <- FitPairs
  VaultFaults = {"torn"} MaxEdits = 3
  NoManifest = NoManifest TornManifest = TornManifest
  Tasks = {t1} FirstTask = t1 Paths = {p1, p2} Shared = {p1} NameOf <- SameName
  Review = Review Outside = Outside NoFile = NoFile
  WcFaults = {"killed", "network", "status"} Carelessness = {} MaxWork = 2 MaxJobs = 2
  Hubs = {"td", "pm"} Projects = {"p1", "p2"} TDs = {"td"} Strangers = {"td"}
  LockPaths = {"x"} Lockers = {"a"} Strategies = {"local", "remote"}
  MaxOrders = 3 MaxMishaps = 1 NoJob = NoJob NoTable = NoTable NobodyLocks = NobodyLocks
  s1 = s1 s2 = s2 s3 = s3 docker = docker
  Servers = {s1, s2, s3} Home = s1 Local = {s1} Host <- OneEach TD = td Artists = {a1}
  MaxCommits = 4
  Habits = {"deleteOld", "keepOld", "deleteTarget", "keepTarget", "commitOrphan"}
  Faults = {"serverDown", "transferFails", "createFails", "relocateFails", "destroyFails", "crash"}
CHECK_DEADLOCK FALSE
INVARIANTS StoresTypeOK ListedIsThere WorkKept TreeIsGuarded
  HistoryPreserved CommitsSurvive ProjectStaysServed
PROPERTIES FixesHold OnlyWhatWasAsked
