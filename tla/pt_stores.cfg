SPECIFICATION Spec
CONSTANTS a1 = a1 i1 = i1 i2 = i2 aE = aE aR = aR w1 = w1 w2 = w2
  Missing = Missing Torn = Torn NoArchive = NoArchive NoReport = NoReport
  Addons = {a1}
  Packages = {1, 2, 3}
  VersionOf <- Versions
  Blueprints <- Declared
  Installers = {i1, i2}
  InstallFaults = {"halfExtract", "halfRemove", "tornConfig"}
  MaxChanges = 1
  Archives = {aE, aR}
  Windows = {w1}
  Embedded = {aE}
  Foldered = {aE, aR}
  RepoAtStart <- Repos
  MaxImports = 2
  MaxOthers = 1
  Logins = {"td", "manager"} Hosts = {"h"} HostOf <- HostOfProjects
  MaxWork = 3 MaxMoves = 2 ShellHabits = {}
  People = {"ana", "eva", "gus"} NoAccess = {"gus"} Sites = {"studio", "here"}
  Localhost = "here" OpenToAdmin = {"studio", "here"} Admin = Admin
  MaxTries = 4 MaxUpsets = 2 SessionHabits = {} NoPerson = NoPerson Nowhere = Nowhere
  Scenes <- TwoScenes Shots <- Namesakes TaskList <- TwoTasks Discussions <- SomeThreads
  Listed = {"wip"} Known = {"done", "wfa"} MaxLost = 2
  Absent = Absent TornFile = TornFile
  ServerIds = {"s", "t"} Urls = {"u", "v"} Seeds <- TwoSeeds
  SettingsFaults = {"openFails", "torn", "otherHub"} MaxSettings = 3
SYMMETRY Symmetric
INVARIANTS PartsTypeOK WorkspacesAreWhole ImportIsSound NothingOutlivesItsDesk
PROPERTIES RegisterStaysRight
CHECK_DEADLOCK FALSE
