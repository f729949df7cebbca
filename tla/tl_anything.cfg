SPECIFICATION Spec
CONSTANTS
  a1 = a1
  a2 = a2
  w1 = w1
  w2 = w2
  f1 = f1
  f2 = f2
  None = None
  Artists = {a1}
  Users = {a1}
  WCs = {w1}
  Files = {f1}
  WcOf <- OneWc
  SvnUser <- SameName
  Email <- SameName
  FirstCard = f1
  DefaultVcs <- EveryHub
  Faults = {"adminBreak", "commitKilled", "crash", "unlockFails", "passwordLost", "scanError"}
  Habits = {"publishOpen", "publishPart", "updateOpen", "scanOpen", "launchBusy", "release", "releaseAny", "toolkitCommit", "refresh", "closeHub"}
  MaxRev = 1
  MaxInst = 2
INVARIANTS TypeOK OpenSessionGuarded
