SPECIFICATION Spec
CONSTANTS
  a1 = a1
  a2 = a2
  w1 = w1
  w2 = w2
  f1 = f1
  f2 = f2
  None = None
  Artists = {a1, a2}
  Users = {a1, a2}
  WCs = {w1, w2}
  Files = {f1}
  WcOf <- OwnWc
  SvnUser <- SameName
  Email <- SameName
  FirstCard = f1
  DefaultVcs <- EveryHub
  Faults = {"crash", "unlockFails", "passwordLost", "scanError"}
  Habits = {"release", "closeHub"}
  MaxRev = 2
  MaxInst = 2
INVARIANTS SessionHoldsLock DirtyKeepsLock TokensLive OneWriter NoDivergentWork
PROPERTY ReleaseTakesOnlyMine
