SPECIFICATION Spec
CONSTANTS
  Threads = {ta, tb} Items = {i1} MaxComments = 2 MaxActs = 4 MaxRefusals = 1
  NoThread = NoThread NoText = NoText
  FileTasks = {"model", "rig", "other"} AssetOf <- AssetsSmall DirtyAssets = {"ball"}
  Confusable <- NameBegins MaxFileEdits = 3 MaxOpenings = 2 MaxRefused = 1
  NoPath = NoPath NoWindow = NoWindow NoWork = NoWork
  Boards = {"s", "f"} OpenBoards = {"s"} BoardTasks = {"s1", "f1"} HomeOf <- HomesSmall
  Finished = {"f1"} People = {"me", "x"} Me = "me"
  MaxClicks = 2 MaxOutages = 1 MaxColleagues = 1 NoBoard = NoBoard AnyBoard = AnyBoard
CHECK_DEADLOCK FALSE
INVARIANTS TasksTypeOK ShownAsItIs
PROPERTIES NothingTaken TasksAnswer
