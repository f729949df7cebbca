SPECIFICATION Spec
CONSTANTS
  Projects = {p1, p2} Tasks = {1, 2} MaxSpawns = 2 MaxTurns = 2
  Habits = {} NoProject = NoProject
  Shows = {p, q} Scripts = {"a", "b"} MaxForges = 2 MaxStrolls = 3 MaxBreaks = 1
  NoShow = NoShow
  Titles = {"s", "t"} MaxGridTurns = 1 MaxMishaps = 1 MaxBoards = 2
  Films = {1, 2} Names = {1, 2, 3} MaxExports = 2 MaxDisturbed = 1
  ExportHabits = {} RacingHubs = FALSE
CHECK_DEADLOCK FALSE
INVARIANTS DesksTypeOK DesksAreSound
PROPERTIES ResultsReachTheirAsker DesksSettle
