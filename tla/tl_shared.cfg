SPECIFICATION StudiosSpec
CONSTANTS
  a1 = a1
  a2 = a2
  w1 = w1
  w2 = w2
  f1 = f1
  f2 = f2
  None = None
  Artists = {a1, a2}
  Users = {a1, a2}
  WCs = {w1}
  Files = {f1, f2}
  WcOf <- SharedWc
  SvnUser <- SameName
  Email <- SameName
  FirstCard = f1
  DefaultVcs <- EveryHub
  Faults = {}
  Habits = {}
  MaxRev = 1
  MaxInst = 2
INVARIANT OneSessionPerFile
PROPERTY CleanCloseReleases
