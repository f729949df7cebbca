---------------------------- MODULE TaskToolsProofs ---------------------------
(***************************************************************************)
(* What holds of the tools people use on tasks for every value of the      *)
(* constants: the files of tasks and their links, the dialog of            *)
(* responsibles and the cards of the desk, and the comment drawer; alone   *)
(* and side by side.                                                       *)
(***************************************************************************)
EXTENDS MCTaskTools, SequenceTheorems, WellFoundedInduction, TLAPS

(***************************************************************************)
(* Files of tasks.                                                         *)
(***************************************************************************)

\* An asset is spelled as it can be.
Spelled == \A a \in Assets : spelling[a] \in Spellings(a)

\* A worker that copies looked first: what is at its path came since.
Looked == Copying => writer.path # NoPath /\ (writer.path \in disk => writer.path \in came)

FilesInv == TaskFilesTypeOK /\ Spelled /\ Looked

LEMMA FilesStart == FilesTaskInit => FilesInv
BY DEF FilesTaskInit, FilesInv, TaskFilesTypeOK, Spelled, Looked, Copying, Spellings, Assets

\* The expected file of a task is one that there can be.
LEMMA ExpectedIsABlend ==
    ASSUME FilesInv, NEW t \in FileTasks
    PROVE  Expected(t) \in Blends /\ Expected(t).of = t
<1>1. AssetOf[t] \in Assets
    BY DEF Assets
<1>2. spelling[AssetOf[t]] \in Spellings(AssetOf[t]) /\ spelling[AssetOf[t]] \in {"dirty", "clean"}
    BY <1>1 DEF FilesInv, Spelled, TaskFilesTypeOK
<1>3. QED BY <1>2 DEF Expected, Blends

\* A card opens a file that is there.
LEMMA ResolvedIsThere ==
    ASSUME NEW t \in FileTasks
    PROVE  ResolveFile(t) \subseteq disk
BY DEF ResolveFile, ExpectedOrFound, ScanFolder, ScanScope, NewestOf

\* Steps that leave the types of everything but the disk.
LEMMA DiskStepsKeepFiles ==
    ASSUME FilesInv,
           \/ \E t \in FileTasks : SaveWork(t) \/ SpawnFile(t)
           \/ \E f \in disk : RemoveFile(f)
    PROVE  FilesInv'
<1>0. TaskFilesTypeOK /\ Spelled /\ Looked
    BY DEF FilesInv
<1>1. UNCHANGED << spelling, auditRows, window, writer >>
    BY DEF SaveWork, SpawnFile, RemoveFile
<1>2. disk' \subseteq Blends /\ worked' \subseteq disk' /\ link' \in [FileTasks -> Blends \cup {NoPath}]
      /\ (Noted \/ (UNCHANGED came /\ disk' \subseteq disk))
  <2>1. ASSUME NEW t \in FileTasks, SaveWork(t)
        PROVE  disk' \subseteq Blends /\ worked' \subseteq disk' /\ link' = link
    <3>1. PICK f \in ResolveFile(t), v \in 0 .. 1 :
               /\ disk' = disk \cup {[f EXCEPT !.version = v]}
               /\ worked' = worked \cup {[f EXCEPT !.version = v]}
        BY <2>1 DEF SaveWork
    <3>2. f \in Blends
        BY <1>0, <3>1, ResolvedIsThere DEF TaskFilesTypeOK
    <3>3. [f EXCEPT !.version = v] \in Blends
        BY <3>2 DEF Blends
    <3>4. QED BY <1>0, <2>1, <3>1, <3>3 DEF TaskFilesTypeOK, SaveWork
  <2>2. ASSUME NEW t \in FileTasks, SpawnFile(t)
        PROVE  disk' \subseteq Blends /\ worked' \subseteq disk' /\ link' \in [FileTasks -> Blends \cup {NoPath}]
    <3>1. Expected(t) \in Blends
        BY ExpectedIsABlend
    <3>2. QED BY <1>0, <2>2, <3>1 DEF TaskFilesTypeOK, SpawnFile
  <2>3. ASSUME NEW f \in disk, RemoveFile(f)
        PROVE  disk' \subseteq Blends /\ worked' \subseteq disk' /\ link' = link
      BY <1>0, <2>3 DEF TaskFilesTypeOK, RemoveFile
  <2>4. QED BY <1>0, <2>1, <2>2, <2>3 DEF TaskFilesTypeOK, SaveWork, SpawnFile, RemoveFile
<1>3. came' \subseteq Blends /\ Looked'
    BY <1>0, <1>1, <1>2 DEF Noted, Looked, Copying, TaskFilesTypeOK
<1>4. QED BY <1>0, <1>1, <1>2, <1>3 DEF FilesInv, TaskFilesTypeOK, Spelled

\* Rows are read from the links, and an asset that is renamed is spelled clean.
LEMMA AuditsAreTyped ==
    ASSUME FilesInv
    PROVE  /\ [t \in FileTasks |-> Row(t)]
                 \in [FileTasks -> [link : Blends \cup {NoPath}, there : BOOLEAN]]
           /\ [a \in Assets |-> Renamed(a)] \in [Assets -> {"dirty", "clean"}]
           /\ \A a \in Assets : Renamed(a) \in Spellings(a)
<1>1. \A t \in FileTasks : Row(t) \in [link : Blends \cup {NoPath}, there : BOOLEAN]
    BY DEF FilesInv, TaskFilesTypeOK, Row, HasFile
<1>2. \A a \in Assets : Renamed(a) \in Spellings(a) /\ Renamed(a) \in {"dirty", "clean"}
    BY DEF FilesInv, TaskFilesTypeOK, Spelled, Renamed, Spellings
<1>3. QED BY <1>1, <1>2

LEMMA AuditsKeepFiles ==
    ASSUME FilesInv, AuditProduction \/ WriterFinished
    PROVE  FilesInv'
<1>0. TaskFilesTypeOK /\ Spelled /\ Looked
    BY DEF FilesInv
<1>1. UNCHANGED << disk, worked, link, came >> /\ writer' \in {writer, NoWork}
    BY DEF AuditProduction, WriterFinished
<1>2. auditRows' \in {auditRows, [t \in FileTasks |-> Row(t)]}
    BY DEF AuditProduction, WriterFinished
<1>3. spelling' \in {spelling, [a \in Assets |-> Renamed(a)]}
    BY DEF AuditProduction, WriterFinished
<1>4. window' = NoWindow \/ window' = window \/ (window # NoWindow /\ window' = [window EXCEPT !.busy = FALSE])
    BY DEF AuditProduction, WriterFinished, OnFinished
<1>5. window' = NoWindow \/ window' \in [task : FileTasks, path : Blends \cup {NoPath}, busy : BOOLEAN]
    BY <1>0, <1>4 DEF TaskFilesTypeOK
<1>6. spelling' \in [Assets -> {"dirty", "clean"}] /\ Spelled'
  <2>1. CASE spelling' = spelling
      BY <1>0, <2>1 DEF TaskFilesTypeOK, Spelled
  <2>2. CASE spelling' = [a \in Assets |-> Renamed(a)]
      BY <2>2, AuditsAreTyped DEF Spelled
  <2>3. QED BY <1>3, <2>1, <2>2
<1>7. auditRows' = NoWindow \/ auditRows' \in [FileTasks -> [link : Blends \cup {NoPath}, there : BOOLEAN]]
    BY <1>0, <1>2, AuditsAreTyped DEF TaskFilesTypeOK
<1>8. TaskFilesTypeOK'
    BY <1>0, <1>1, <1>5, <1>6, <1>7 DEF TaskFilesTypeOK
<1>9. QED BY <1>0, <1>1, <1>6, <1>8 DEF FilesInv, Looked, Copying

\* The dialog.
LEMMA DialogsKeepFiles ==
    ASSUME FilesInv,
           \/ \E t \in FileTasks : OpenWindow(t)
           \/ ChoosePath \/ CloseWindow
           \/ \E action \in {"link", "create_empty", "unlink"} : Press(action)
    PROVE  FilesInv'
<1>0. TaskFilesTypeOK /\ Spelled /\ Looked
    BY DEF FilesInv
<1>1. UNCHANGED << disk, worked, link, spelling, auditRows, came >>
    BY DEF OpenWindow, ChoosePath, CloseWindow, Press
<1>2. window' = NoWindow \/ window' \in [task : FileTasks, path : Blends \cup {NoPath}, busy : BOOLEAN]
  <2>1. ASSUME NEW t \in FileTasks, OpenWindow(t)
        PROVE  window' \in [task : FileTasks, path : Blends \cup {NoPath}, busy : BOOLEAN]
    <3>1. Suggested(t) \in Blends \cup {NoPath}
        BY <1>0, <2>1, ExpectedIsABlend DEF OpenWindow, Suggested, TaskFilesTypeOK
    <3>2. QED BY <2>1, <3>1 DEF OpenWindow
  <2>2. CASE ChoosePath
      BY <1>0, <2>2 DEF ChoosePath, TaskFilesTypeOK
  <2>3. ASSUME NEW action, Press(action)
        PROVE  window' \in [task : FileTasks, path : Blends \cup {NoPath}, busy : BOOLEAN]
      BY <1>0, <2>3 DEF Press, TaskFilesTypeOK
  <2>4. CASE CloseWindow
      BY <2>4 DEF CloseWindow
  <2>5. QED BY <2>1, <2>2, <2>3, <2>4
<1>3. writer' = NoWork \/
         writer' \in [task : FileTasks, action : {"link", "create_empty", "copy", "unlink"},
                      path : Blends \cup {NoPath}, result : {"none", "done", "failed"}]
  <2>1. ASSUME NEW action \in {"link", "create_empty", "unlink"}, Press(action)
        PROVE  writer' = writer \/
                 writer' \in [task : FileTasks, action : {"link", "create_empty", "copy", "unlink"},
                              path : Blends \cup {NoPath}, result : {"none", "done", "failed"}]
      BY <1>0, <2>1 DEF Press, TaskFilesTypeOK
  <2>2. QED BY <1>0, <2>1 DEF TaskFilesTypeOK, OpenWindow, ChoosePath, CloseWindow
<1>4. TaskFilesTypeOK'
    BY <1>0, <1>1, <1>2, <1>3 DEF TaskFilesTypeOK
<1>5. Looked'
    BY <1>0, <1>1 DEF Looked, Copying, OpenWindow, ChoosePath, CloseWindow, Press
<1>6. QED BY <1>0, <1>1, <1>4, <1>5 DEF FilesInv, Spelled

\* The worker.
LEMMA WritersKeepFiles ==
    ASSUME FilesInv, CreateEmpty \/ CopyMaster \/ WriteLink
    PROVE  FilesInv'
<1>0. TaskFilesTypeOK /\ Spelled /\ Looked
    BY DEF FilesInv
<1>1. UNCHANGED << spelling, auditRows, window >>
    BY DEF CreateEmpty, CopyMaster, WriteLink
<1>2. writer # NoWork /\
         writer \in [task : FileTasks, action : {"link", "create_empty", "copy", "unlink"},
                     path : Blends \cup {NoPath}, result : {"none", "done", "failed"}]
    BY <1>0 DEF CreateEmpty, CopyMaster, Copying, WriteLink, TaskFilesTypeOK
<1>3. writer' \in [task : FileTasks, action : {"link", "create_empty", "copy", "unlink"},
                   path : Blends \cup {NoPath}, result : {"none", "done", "failed"}]
    BY <1>2 DEF CreateEmpty, CopyMaster, WriteLink
<1>4. disk' \subseteq Blends /\ worked' \subseteq disk' /\ came' \subseteq Blends
  <2>1. CASE CopyMaster
    <3>1. writer.path \in Blends
        BY <1>0, <2>1 DEF CopyMaster, Copying, Looked, TaskFilesTypeOK
    <3>2. QED BY <1>0, <2>1, <3>1 DEF CopyMaster, TaskFilesTypeOK
  <2>2. CASE CreateEmpty \/ WriteLink
      BY <1>0, <2>2 DEF CreateEmpty, WriteLink, TaskFilesTypeOK
  <2>3. QED BY <2>1, <2>2
<1>5. link' \in [FileTasks -> Blends \cup {NoPath}]
    BY <1>0, <1>2 DEF CreateEmpty, CopyMaster, WriteLink, Merged, TaskFilesTypeOK
<1>6. TaskFilesTypeOK'
    BY <1>0, <1>1, <1>3, <1>4, <1>5 DEF TaskFilesTypeOK
<1>7. Looked'
    BY <1>2 DEF CreateEmpty, CopyMaster, WriteLink, Copies, Looked, Copying
<1>8. QED BY <1>0, <1>1, <1>6, <1>7 DEF FilesInv, Spelled

LEMMA FilesSteps == FilesInv /\ [TaskFilesNext]_fileVars => FilesInv'
<1> SUFFICES ASSUME FilesInv, [TaskFilesNext]_fileVars PROVE FilesInv'
    OBVIOUS
<1>1. CASE UNCHANGED fileVars
    BY <1>1 DEF fileVars, FilesInv, TaskFilesTypeOK, Spelled, Looked, Copying
<1>2. CASE TaskFilesNext
    BY <1>2, DiskStepsKeepFiles, AuditsKeepFiles, DialogsKeepFiles, WritersKeepFiles DEF TaskFilesNext
<1>3. QED BY <1>1, <1>2

LEMMA FilesHold == TaskFilesSpec => []FilesInv
BY FilesStart, FilesSteps, PTL DEF TaskFilesSpec

\* However often "Create empty .blend" is tried, and wherever: the empty master replaces
\* the work in a file only if the file came to be between the worker's look and its copy.
LEMMA WorkIsNeverEmptied == TaskFilesSpec => NeverEmptied
<1> DEFINE Kept == writer' # writer => worked \ worked' \subseteq came
<1>1. ASSUME FilesInv, [TaskFilesNext]_fileVars
      PROVE  [Kept]_fileVars
  <2>1. CASE CopyMaster
    <3>1. worked \ worked' \subseteq {writer.path} /\ worked \subseteq disk
        BY <1>1, <2>1 DEF CopyMaster, FilesInv, TaskFilesTypeOK
    <3>2. Copying /\ (writer.path \in disk => writer.path \in came)
        BY <1>1, <2>1 DEF CopyMaster, FilesInv, Looked
    <3>3. QED BY <3>1, <3>2
  <2>2. CASE \E f \in disk : RemoveFile(f)
      BY <2>2 DEF RemoveFile
  <2>3. CASE \E t \in FileTasks : SaveWork(t)
      BY <2>3 DEF SaveWork
  <2>4. CASE UNCHANGED worked
      BY <2>4
  <2>5. QED BY <1>1, <2>1, <2>2, <2>3, <2>4
            DEF TaskFilesNext, fileVars, SpawnFile, OpenWindow, AuditProduction, ChoosePath,
                CloseWindow, Press, CreateEmpty, WriteLink, WriterFinished
<1>2. QED BY <1>1, FilesHold, PTL DEF TaskFilesSpec, NeverEmptied

(***************************************************************************)
(* Responsibles and cards.                                                 *)
(***************************************************************************)

\* What a dialog and the assignment that follows from it are about.
DialogShape ==
    \/ dialog = AtRest
    \/ /\ dialog = [at |-> dialog.at, of |-> dialog.of, lists |-> dialog.lists, marks |-> dialog.marks,
                     old |-> dialog.old, row |-> dialog.row]
       /\ dialog.at = "open" /\ dialog.of \in BoardTasks

AssignerShape ==
    \/ assigner = AtRest
    \/ /\ assigner = [at |-> assigner.at, of |-> assigner.of, chosen |-> assigner.chosen,
                      add |-> assigner.add, remove |-> assigner.remove, adds |-> assigner.adds,
                      alone |-> assigner.alone, unchecked |-> assigner.unchecked]
       /\ assigner.at # "rest" /\ assigner.of \in BoardTasks
       /\ assigner.adds \in BOOLEAN /\ assigner.alone \in BOOLEAN

\* Somebody who was added, or is to be, stays.
SomebodyNew ==
    assigner.at = "asked" /\ assigner.adds /\ assigner.alone =>
        \E q : q \notin assigner.remove /\ q \in assigner.add \cup onTask[assigner.of]

BoardInv ==
    /\ DOMAIN onTask = BoardTasks /\ DialogShape /\ AssignerShape /\ SomebodyNew
    /\ \A t \in DOMAIN cards : cards[t] \in {0, 1}

LEMMA BoardStarts == BoardInit => BoardInv
<1> SUFFICES ASSUME BoardInit PROVE BoardInv
    OBVIOUS
<1>1. dialog = AtRest /\ assigner = AtRest /\ AtRest.at = "rest"
    BY DEF BoardInit, AtRest
<1>2. DialogShape /\ AssignerShape /\ SomebodyNew
    BY <1>1 DEF DialogShape, AssignerShape, SomebodyNew
<1>3. DOMAIN onTask = BoardTasks /\ DOMAIN cards = {}
    BY DEF BoardInit
<1>4. QED BY <1>2, <1>3 DEF BoardInv

\* A dialog is opened, or the row behind it is replaced.
LEMMA DialogsKeepTheBoard ==
    ASSUME BoardInv, TasksLoaded \/ \E t \in BoardTasks : EditAssignees(t)
    PROVE  BoardInv'
<1>1. UNCHANGED << onTask, assigner, cards >>
    BY DEF TasksLoaded, EditAssignees, deskVars
<1>2. DialogShape'
  <2>1. CASE TasksLoaded
    <3>1. dialog' = dialog \/ dialog' = Detached(dialog)
        BY <2>1 DEF TasksLoaded
    <3>2. CASE dialog' = dialog
        BY <3>2 DEF BoardInv, DialogShape
    <3>3. CASE dialog # AtRest /\ dialog' = [dialog EXCEPT !.old = TRUE, !.row = rows.who[dialog.of]]
        BY <3>3 DEF BoardInv, DialogShape
    <3>4. QED BY <3>1, <3>2, <3>3 DEF Detached, AtRest
  <2>2. CASE \E t \in BoardTasks : EditAssignees(t)
      BY <2>2 DEF EditAssignees, DialogShape
  <2>3. QED BY <2>1, <2>2
<1>3. QED BY <1>1, <1>2 DEF BoardInv, AssignerShape, SomebodyNew

\* What is applied is begun only while nothing else is.
LEMMA AssignmentsBegin ==
    ASSUME BoardInv, ApplyAssignees
    PROVE  BoardInv'
<1>1. UNCHANGED << onTask, cards >> /\ dialog' = AtRest /\ dialog.of \in BoardTasks
    BY DEF ApplyAssignees, deskVars, BoardInv, DialogShape, AtRest
<1>0. PICK current : current = IF dialog.old THEN dialog.row ELSE rows.who[dialog.of]
    OBVIOUS
<1>2. PICK chosen \in SUBSET dialog.lists :
           assigner' = IF assigner.at # "rest" THEN assigner
                       ELSE [at |-> "asked", of |-> dialog.of, chosen |-> chosen,
                             add |-> chosen \ current, remove |-> current \ chosen,
                             adds |-> chosen \ current # {}, alone |-> TRUE,
                             unchecked |-> dialog.marks \ chosen]
    BY <1>0 DEF ApplyAssignees
<1>3. DialogShape'
    BY <1>1 DEF DialogShape, AtRest
<1>4. AssignerShape' /\ SomebodyNew'
  <2>1. CASE assigner' = assigner
      BY <1>1, <2>1 DEF BoardInv, AssignerShape, SomebodyNew
  <2>2. CASE assigner' # assigner
    <3>1. PICK new : new = [at |-> "asked", of |-> dialog.of, chosen |-> chosen,
                            add |-> chosen \ current, remove |-> current \ chosen,
                            adds |-> chosen \ current # {}, alone |-> TRUE,
                            unchecked |-> dialog.marks \ chosen]
        OBVIOUS
    <3>2. assigner' = new
        BY <1>2, <2>2, <3>1
    <3>3. /\ new.at = "asked" /\ new.of = dialog.of /\ new.add = chosen \ current
          /\ new.remove = current \ chosen /\ (new.adds <=> chosen \ current # {})
          /\ new.adds \in BOOLEAN /\ new.alone \in BOOLEAN
        BY <3>1
    <3>4. AssignerShape'
        BY <1>1, <3>1, <3>2, <3>3 DEF AssignerShape
    <3>5. SomebodyNew'
        BY <3>2, <3>3 DEF SomebodyNew
    <3>6. QED BY <3>4, <3>5
  <2>3. QED BY <2>1, <2>2
<1>5. QED BY <1>1, <1>3, <1>4 DEF BoardInv

\* Additions, then removals, with what fails in between.
LEMMA AssignmentsKeepTheBoard ==
    ASSUME BoardInv, AssignOne \/ ClearOne \/ AssignBreaks \/ AssignEnds \/ AssignmentFinished
    PROVE  BoardInv'
<1>0. DOMAIN onTask = BoardTasks /\ DialogShape /\ AssignerShape /\ SomebodyNew
    BY DEF BoardInv
<1>1. UNCHANGED << dialog, cards >>
    BY DEF AssignOne, ClearOne, AssignBreaks, AssignEnds, AssignmentFinished, deskVars
<1>2. CASE AssignmentFinished
  <2>1. assigner' = AtRest /\ UNCHANGED onTask /\ AtRest.at = "rest"
      BY <1>2 DEF AssignmentFinished, AtRest
  <2>2. QED BY <1>0, <1>1, <2>1 DEF BoardInv, DialogShape, AssignerShape, SomebodyNew
<1>3. CASE AssignBreaks \/ AssignEnds
  <2>1. /\ assigner.at = "asked" /\ UNCHANGED onTask
        /\ \E at \in {"done", "failed"} :
              assigner' = [assigner EXCEPT !.at = at]
              \/ assigner' = [assigner EXCEPT !.at = at, !.chosen = onTask[assigner.of]]
      BY <1>3 DEF AssignBreaks, AssignEnds
  <2>2. AssignerShape' /\ assigner'.at # "asked"
    <3>1. assigner # AtRest
        BY <2>1 DEF AtRest
    <3>2. CASE \E at \in {"done", "failed"} : assigner' = [assigner EXCEPT !.at = at]
        BY <1>0, <3>1, <3>2 DEF AssignerShape
    <3>3. CASE \E at \in {"done", "failed"} :
                  assigner' = [assigner EXCEPT !.at = at, !.chosen = onTask[assigner.of]]
        BY <1>0, <3>1, <3>3 DEF AssignerShape
    <3>4. QED BY <2>1, <3>2, <3>3
  <2>3. QED BY <1>0, <1>1, <2>1, <2>2 DEF BoardInv, DialogShape, SomebodyNew
<1>4. CASE AssignOne \/ ClearOne
  <2>1. assigner.at = "asked" /\ assigner # AtRest
      BY <1>4 DEF AssignOne, ClearOne, AtRest
  <2>2. PICK q : \/ /\ q \in assigner.add /\ onTask' = [onTask EXCEPT ![assigner.of] = @ \union {q}]
                    /\ assigner' = [assigner EXCEPT !.add = @ \ {q}]
                 \/ /\ q \in assigner.remove /\ assigner.add = {}
                    /\ onTask' = [onTask EXCEPT ![assigner.of] = @ \ {q}]
                    /\ assigner' = [assigner EXCEPT !.remove = @ \ {q}]
      BY <1>4 DEF AssignOne, ClearOne
  <2>3. DOMAIN onTask' = BoardTasks /\ assigner.of \in BoardTasks
      BY <1>0, <2>1, <2>2 DEF AssignerShape
  <2>4. AssignerShape' /\ assigner'.of = assigner.of /\ assigner'.adds = assigner.adds
        /\ assigner'.alone = assigner.alone
      BY <1>0, <2>1, <2>2 DEF AssignerShape, AtRest
  <2>5. CASE q \in assigner.add /\ onTask' = [onTask EXCEPT ![assigner.of] = @ \union {q}]
             /\ assigner' = [assigner EXCEPT !.add = @ \ {q}]
    <3>1. /\ assigner'.add = assigner.add \ {q} /\ assigner'.remove = assigner.remove
          /\ onTask'[assigner.of] = onTask[assigner.of] \cup {q}
        BY <1>0, <2>1, <2>3, <2>5 DEF AssignerShape
    <3>2. SomebodyNew'
        BY <1>0, <2>1, <2>4, <3>1 DEF SomebodyNew
    <3>3. QED BY <1>0, <1>1, <2>3, <2>4, <3>2 DEF BoardInv, DialogShape
  <2>6. CASE q \in assigner.remove /\ assigner.add = {}
             /\ onTask' = [onTask EXCEPT ![assigner.of] = @ \ {q}]
             /\ assigner' = [assigner EXCEPT !.remove = @ \ {q}]
    <3>1. /\ assigner'.add = {} /\ assigner'.remove = assigner.remove \ {q}
          /\ onTask'[assigner.of] = onTask[assigner.of] \ {q}
        BY <1>0, <2>1, <2>3, <2>6 DEF AssignerShape
    <3>2. SomebodyNew'
        BY <1>0, <2>1, <2>4, <2>6, <3>1 DEF SomebodyNew
    <3>3. QED BY <1>0, <1>1, <2>3, <2>4, <3>2 DEF BoardInv, DialogShape
  <2>7. QED BY <2>2, <2>5, <2>6
<1>5. QED BY <1>2, <1>3, <1>4

\* A colleague edits a task: an assignment of it is not alone any more.
LEMMA ColleaguesKeepTheBoard ==
    ASSUME BoardInv, NEW t \in BoardTasks, NEW p \in People, ColleagueEdits(t, p)
    PROVE  BoardInv'
<1>0. DOMAIN onTask = BoardTasks /\ DialogShape /\ AssignerShape /\ SomebodyNew
    BY DEF BoardInv
<1>1. UNCHANGED << dialog, cards >> /\ DOMAIN onTask' = BoardTasks
      /\ \A u \in BoardTasks : u # t => onTask'[u] = onTask[u]
    BY <1>0 DEF ColleagueEdits, deskVars
<1>2. CASE assigner = AtRest
  <2>1. assigner' = AtRest
    <3>1. [AtRest EXCEPT !.alone = FALSE] = AtRest
        BY DEF AtRest
    <3>2. QED BY <1>2, <3>1 DEF ColleagueEdits
  <2>2. QED BY <1>0, <1>1, <2>1 DEF BoardInv, DialogShape, AssignerShape, SomebodyNew, AtRest
<1>3. CASE assigner # AtRest
  <2>1. assigner' = IF assigner.of = t THEN [assigner EXCEPT !.alone = FALSE] ELSE assigner
      BY <1>0, <1>3 DEF ColleagueEdits, ShownOf, AssignerShape
  <2>2. CASE assigner.of = t
    <3>1. AssignerShape' /\ ~ assigner'.alone
        BY <1>0, <1>3, <2>1, <2>2 DEF AssignerShape
    <3>2. QED BY <1>0, <1>1, <3>1 DEF BoardInv, DialogShape, SomebodyNew
  <2>3. CASE assigner.of # t
    <3>1. assigner' = assigner /\ onTask'[assigner.of] = onTask[assigner.of]
        BY <1>0, <1>1, <1>3, <2>1, <2>3 DEF AssignerShape
    <3>2. QED BY <1>0, <1>1, <3>1 DEF BoardInv, DialogShape, AssignerShape, SomebodyNew
  <2>4. QED BY <2>2, <2>3
<1>4. QED BY <1>2, <1>3

\* Cards are fetched anew, and get their badges.
LEMMA CardsKeepTheBoard ==
    ASSUME BoardInv, TasksFetched \/ \E t \in BoardTasks : BadgeSet(t)
    PROVE  BoardInv'
<1>1. UNCHANGED << onTask, dialog, assigner >>
    BY DEF TasksFetched, BadgeSet
<1>2. \A t \in DOMAIN cards' : cards'[t] \in {0, 1}
  <2>1. CASE TasksFetched
    <3>1. cards' = CarriedOver(deskWorker.got)
        BY <2>1 DEF TasksFetched
    <3>2. QED BY <3>1 DEF CarriedOver, BoardInv
  <2>2. CASE \E t \in BoardTasks : BadgeSet(t)
      BY <2>2 DEF BadgeSet, BoardInv
  <2>3. QED BY <2>1, <2>2
<1>3. QED BY <1>1, <1>2 DEF BoardInv, DialogShape, AssignerShape, SomebodyNew

\* Everything else leaves them alone.
LEMMA OthersKeepTheBoard ==
    ASSUME BoardInv, UNCHANGED << onTask, assigner, cards >>, dialog' \in {dialog, AtRest}
    PROVE  BoardInv'
<1>1. DialogShape'
    BY DEF BoardInv, DialogShape, AtRest
<1>2. QED BY <1>1 DEF BoardInv, AssignerShape, SomebodyNew

LEMMA BoardSteps == BoardInv /\ [BoardNext]_<<page, boardVars>> => BoardInv'
<1> SUFFICES ASSUME BoardInv, [BoardNext]_<<page, boardVars>> PROVE BoardInv'
    OBVIOUS
<1>1. CASE TasksLoaded \/ \E t \in BoardTasks : EditAssignees(t)
    BY <1>1, DialogsKeepTheBoard
<1>2. CASE AssignOne \/ ClearOne \/ AssignBreaks \/ AssignEnds \/ AssignmentFinished
    BY <1>2, AssignmentsKeepTheBoard
<1>3. CASE ApplyAssignees
    BY <1>3, AssignmentsBegin
<1>4. CASE \E t \in BoardTasks, q \in People : ColleagueEdits(t, q)
    BY <1>4, ColleaguesKeepTheBoard
<1>5. CASE TasksFetched \/ \E t \in BoardTasks : BadgeSet(t)
    BY <1>5, CardsKeepTheBoard
<1>6. CASE UNCHANGED << onTask, assigner, cards >> /\ dialog' \in {dialog, AtRest}
    BY <1>6, OthersKeepTheBoard
<1>7. QED BY <1>1, <1>2, <1>3, <1>4, <1>5, <1>6
          DEF BoardNext, BoardAnswers, ManagerClicks, ArtistClicks, boardVars, deskVars, OpenBoard,
              ProjectChanged, Refresh, CancelAssignees, ProjectsLoaded, BoardRead, CountsLoaded,
              PersonsLoaded, DeskReads, StatusesLoaded, LoadDesk, ChooseProject

LEMMA BoardHolds == BoardSpec => []BoardInv
BY BoardStarts, BoardSteps, PTL DEF BoardSpec

\* What colleagues do is counted.
EditsCounted == colleagues \in Nat

LEMMA ColleaguesAreCounted == BoardSpec => []EditsCounted
<1>1. BoardInit => EditsCounted
    BY DEF BoardInit, EditsCounted
<1>2. ASSUME EditsCounted, [BoardNext]_<<page, boardVars>>
      PROVE  EditsCounted'
  <2>1. CASE \E t \in BoardTasks, q \in People : ColleagueEdits(t, q)
      BY <1>2, <2>1 DEF ColleagueEdits, EditsCounted
  <2>2. CASE UNCHANGED colleagues
      BY <1>2, <2>2 DEF EditsCounted
  <2>3. QED BY <1>2, <2>1, <2>2
            DEF BoardNext, BoardAnswers, ManagerClicks, ArtistClicks, boardVars, boundVars, OpenBoard,
                ProjectChanged, Refresh, CancelAssignees, ApplyAssignees, EditAssignees, ProjectsLoaded,
                BoardRead, TasksLoaded, CountsLoaded, PersonsLoaded, AssignOne, ClearOne, AssignBreaks,
                AssignEnds, AssignmentFinished, DeskReads, TasksFetched, StatusesLoaded, LoadDesk,
                BadgeSet, ChooseProject
<1>3. QED BY <1>1, <1>2, PTL DEF BoardSpec

\* An assignment that gives the task to somebody new never takes its last person away,
\* unless a colleague edits the task meanwhile: additions come before removals.
LEMMA SomebodyAlwaysStays == BoardSpec => SomebodyStays
<1> DEFINE Stays == \A t \in BoardTasks :
                       onTask[t] # {} /\ onTask'[t] = {} /\ UNCHANGED colleagues
                         => ~(assigner.adds /\ assigner.alone)
<1>1. ASSUME BoardInv, EditsCounted, [BoardNext]_<<page, boardVars>>
      PROVE  [Stays]_boardVars
  <2>1. CASE AssignOne
    <3>1. \A t \in BoardTasks : onTask[t] \subseteq onTask'[t]
        BY <1>1, <2>1 DEF AssignOne, BoardInv
    <3>2. QED BY <3>1
  <2>2. CASE ClearOne
    <3> SUFFICES ASSUME NEW t \in BoardTasks, onTask[t] # {}, onTask'[t] = {},
                        assigner.adds, assigner.alone
                 PROVE  FALSE
        OBVIOUS
    <3>1. PICK r \in assigner.remove : onTask' = [onTask EXCEPT ![assigner.of] = @ \ {r}]
        BY <2>2 DEF ClearOne
    <3>2. assigner.at = "asked" /\ assigner.add = {} /\ t = assigner.of
        BY <1>1, <2>2, <3>1 DEF ClearOne, BoardInv
    <3>3. PICK q : q \notin assigner.remove /\ q \in onTask[t]
        BY <1>1, <3>2 DEF BoardInv, SomebodyNew
    <3>4. q \in onTask'[t]
        BY <1>1, <3>1, <3>2, <3>3 DEF BoardInv
    <3>5. QED BY <3>4
  <2>3. CASE \E t \in BoardTasks, q \in People : ColleagueEdits(t, q)
    <3>1. colleagues' = colleagues + 1
        BY <2>3 DEF ColleagueEdits
    <3>2. colleagues' # colleagues
        BY <1>1, <3>1 DEF EditsCounted
    <3>3. QED BY <3>2
  <2>4. CASE UNCHANGED onTask
      BY <2>4
  <2>5. QED BY <1>1, <2>1, <2>2, <2>3, <2>4
            DEF BoardNext, BoardAnswers, ManagerClicks, ArtistClicks, boardVars, OpenBoard,
                ProjectChanged, Refresh, CancelAssignees, ApplyAssignees, EditAssignees, ProjectsLoaded,
                BoardRead, TasksLoaded, CountsLoaded, PersonsLoaded, AssignBreaks, AssignEnds,
                AssignmentFinished, DeskReads, TasksFetched, StatusesLoaded, LoadDesk, BadgeSet,
                ChooseProject
<1>2. QED BY <1>1, BoardHolds, ColleaguesAreCounted, PTL DEF BoardSpec, SomebodyStays

\* A card that is on the desk before and after a refresh keeps the badge of its
\* pending changes.
LEMMA BadgesAlwaysSurvive == BoardSpec => BadgesSurvive
<1> DEFINE Survive == \A t \in DOMAIN cards \intersect DOMAIN cards' : cards'[t] >= cards[t]
<1>1. ASSUME BoardInv, [BoardNext]_<<page, boardVars>>
      PROVE  [Survive]_boardVars
  <2>0. \A t \in DOMAIN cards : cards[t] \in {0, 1}
      BY <1>1 DEF BoardInv
  <2>1. CASE TasksFetched
    <3>1. cards' = CarriedOver(deskWorker.got)
        BY <2>1 DEF TasksFetched
    <3>2. \A t \in DOMAIN cards \intersect DOMAIN cards' : cards'[t] = cards[t]
        BY <3>1 DEF CarriedOver
    <3>3. QED BY <2>0, <3>2
  <2>2. CASE \E t \in BoardTasks : BadgeSet(t)
    <3>1. \A t \in DOMAIN cards : cards'[t] = cards[t] \/ (cards[t] = 0 /\ cards'[t] = 1)
        BY <2>2 DEF BadgeSet
    <3>2. QED BY <2>0, <3>1
  <2>3. CASE UNCHANGED cards
      BY <2>0, <2>3
  <2>4. QED BY <1>1, <2>1, <2>2, <2>3
            DEF BoardNext, BoardAnswers, ManagerClicks, ArtistClicks, boardVars, deskVars, OpenBoard,
                ProjectChanged, Refresh, CancelAssignees, ApplyAssignees, EditAssignees, ProjectsLoaded,
                BoardRead, TasksLoaded, CountsLoaded, PersonsLoaded, AssignOne, ClearOne, AssignBreaks,
                AssignEnds, AssignmentFinished, DeskReads, StatusesLoaded, LoadDesk, ChooseProject,
                ColleagueEdits
<1>2. QED BY <1>1, BoardHolds, PTL DEF BoardSpec, BadgesSurvive

-----------------------------------------------------------------------------
(* The types of the board and the desk.                                    *)

\* Who is on a task, is offered, and is to be added.
PeopleTyped ==
    /\ onTask \in [BoardTasks -> SUBSET People] /\ crew \in {{}, People}
    /\ crewWorker.at \in {"rest", "asked"}
    /\ dialog.at \in {"rest", "open"} /\ assigner.at \in {"rest", "asked", "done", "failed"}
    /\ dialog.at = "open" => dialog.lists \subseteq People
    /\ assigner.at # "rest" => assigner.add \subseteq People /\ assigner.chosen \subseteq People

RowsOfHome(who, p) == \A t \in DOMAIN who : HomeOf[t] = p /\ who[t] \subseteq People

RowsTyped ==
    /\ combo \in [lists : {{}, OpenBoards}, at : Boards \union {NoBoard}, job : {"asked", "done"},
                  waits : Boards \union {NoBoard}]
    /\ {selected, rows.of, boardNext, counted} \subseteq Boards \union {NoBoard}
    /\ rows = [of |-> rows.of, who |-> rows.who] /\ RowsOfHome(rows.who, rows.of)
    /\ boardWorker.at \in {"rest", "asked", "read"} /\ countWorker.at \in {"rest", "asked"}
    /\ boardWorker.at = "read" => RowsOfHome(boardWorker.who, boardWorker.of)

DeskTyped ==
    /\ DOMAIN cards \subseteq BoardTasks /\ deskLoading \in BOOLEAN
    /\ deskWorker.at \in {"rest", "asked", "read"} /\ statusWorker.at \in {"rest", "asked"}
    /\ deskWorker.at = "read" => deskWorker.got \subseteq BoardTasks
    /\ statusWorker.at = "asked" => statusWorker.of \in Boards \union {AnyBoard}
    /\ choice \in Boards \union {AnyBoard} /\ filter \in Boards \union {AnyBoard, NoBoard}
    /\ DOMAIN statusCache \subseteq Boards \union {AnyBoard}

TypesInv == BoardInv /\ page \in {"board", "desk"} /\ PeopleTyped /\ RowsTyped /\ DeskTyped

LEMMA TypesStart == BoardInit => TypesInv
<1> SUFFICES ASSUME BoardInit PROVE TypesInv
    OBVIOUS
<1>1. BoardInv /\ page \in {"board", "desk"}
    BY BoardStarts DEF BoardInit
<1>2. AtRest.at = "rest" /\ DOMAIN NoRows = {}
    BY DEF AtRest, NoRows
<1>3. onTask \in [BoardTasks -> SUBSET People]
    BY DEF BoardInit
<1>4. PeopleTyped
    BY <1>2, <1>3 DEF BoardInit, PeopleTyped
<1>5. RowsTyped
    BY <1>2 DEF BoardInit, RowsTyped, RowsOfHome
<1>6. DeskTyped
    BY <1>2 DEF BoardInit, DeskTyped
<1>7. QED BY <1>1, <1>4, <1>5, <1>6 DEF TypesInv

\* Whoever is put on a task is a person.
LEMMA PeopleSteps ==
    ASSUME TypesInv, [BoardNext]_<<page, boardVars>>
    PROVE  PeopleTyped'
<1>0. PeopleTyped /\ DialogShape /\ AssignerShape /\ AtRest.at = "rest"
    BY DEF TypesInv, BoardInv, AtRest
<1>1. CASE \E t \in BoardTasks, q \in People : ColleagueEdits(t, q)
  <2>1. PICK t \in BoardTasks, q \in People : ColleagueEdits(t, q)
      BY <1>1
  <2>2. onTask' \in [BoardTasks -> SUBSET People]
      BY <1>0, <2>1 DEF ColleagueEdits, PeopleTyped
  <2>3. assigner' = assigner \/ (assigner.at # "rest" /\ assigner' = [assigner EXCEPT !.alone = FALSE])
    <3>1. CASE assigner.at = "rest"
        BY <1>0, <2>1, <3>1 DEF ColleagueEdits, AssignerShape, AtRest
    <3>2. CASE assigner.at # "rest"
        BY <2>1, <3>2 DEF ColleagueEdits
    <3>3. QED BY <3>1, <3>2
  <2>4. UNCHANGED << crew, crewWorker, dialog >>
      BY <2>1 DEF ColleagueEdits, crewVars
  <2>5. /\ assigner'.at \in {"rest", "asked", "done", "failed"}
        /\ assigner'.at # "rest" => assigner'.add \subseteq People /\ assigner'.chosen \subseteq People
      BY <1>0, <2>3 DEF AssignerShape, PeopleTyped
  <2>6. QED BY <1>0, <2>2, <2>4, <2>5 DEF PeopleTyped
<1>2. CASE AssignOne \/ ClearOne \/ AssignBreaks \/ AssignEnds \/ AssignmentFinished
  <2>1. UNCHANGED << crew, crewWorker, dialog >>
      BY <1>2 DEF AssignOne, ClearOne, AssignBreaks, AssignEnds, AssignmentFinished, crewVars
  <2>2. CASE AssignmentFinished
      BY <1>0, <2>1, <2>2 DEF AssignmentFinished, PeopleTyped
  <2>3. CASE ~ AssignmentFinished
    <3>1. assigner.at = "asked" /\ assigner # AtRest /\ assigner.of \in BoardTasks
        BY <1>0, <1>2, <2>3 DEF AssignOne, ClearOne, AssignBreaks, AssignEnds, AtRest, AssignerShape
    <3>2. /\ assigner = [at |-> assigner.at, of |-> assigner.of, chosen |-> assigner.chosen,
                      add |-> assigner.add, remove |-> assigner.remove, adds |-> assigner.adds,
                      alone |-> assigner.alone, unchecked |-> assigner.unchecked]
          /\ assigner.add \subseteq People /\ assigner.chosen \subseteq People
        BY <1>0, <3>1 DEF AssignerShape, PeopleTyped
    <3>3. CASE AssignOne
      <4>1. PICK q \in assigner.add : /\ onTask' = [onTask EXCEPT ![assigner.of] = @ \union {q}]
                                      /\ assigner' = [assigner EXCEPT !.add = @ \ {q}]
          BY <3>3 DEF AssignOne
      <4>2. assigner'.at = "asked" /\ assigner'.add \subseteq People /\ assigner'.chosen \subseteq People
          BY <3>1, <3>2, <4>1
      <4>3. onTask' \in [BoardTasks -> SUBSET People]
          BY <1>0, <3>2, <4>1 DEF PeopleTyped
      <4>4. QED BY <1>0, <2>1, <4>2, <4>3 DEF PeopleTyped
    <3>4. CASE ClearOne
      <4>1. PICK q : /\ onTask' = [onTask EXCEPT ![assigner.of] = @ \ {q}]
                     /\ assigner' = [assigner EXCEPT !.remove = @ \ {q}]
          BY <3>4 DEF ClearOne
      <4>2. assigner'.at = "asked" /\ assigner'.add \subseteq People /\ assigner'.chosen \subseteq People
          BY <3>1, <3>2, <4>1
      <4>3. onTask' \in [BoardTasks -> SUBSET People]
          BY <1>0, <4>1 DEF PeopleTyped
      <4>4. QED BY <1>0, <2>1, <4>2, <4>3 DEF PeopleTyped
    <3>5. CASE AssignBreaks \/ AssignEnds
      <4>1. UNCHANGED onTask
            /\ \/ assigner' = [assigner EXCEPT !.at = "failed"]
               \/ assigner' = [assigner EXCEPT !.at = "done"]
               \/ assigner' = [assigner EXCEPT !.at = "done", !.chosen = onTask[assigner.of]]
          BY <3>5 DEF AssignBreaks, AssignEnds
      <4>2. onTask[assigner.of] \subseteq People
          BY <1>0, <3>1 DEF PeopleTyped
      <4>3. /\ assigner'.at \in {"done", "failed"}
            /\ assigner'.add \subseteq People /\ assigner'.chosen \subseteq People
          BY <3>2, <4>1, <4>2
      <4>4. QED BY <1>0, <2>1, <4>1, <4>3 DEF PeopleTyped
    <3>6. QED BY <1>2, <2>3, <3>3, <3>4, <3>5
  <2>4. QED BY <2>2, <2>3
<1>3. CASE ApplyAssignees
  <2>1. /\ UNCHANGED << onTask, crew, crewWorker >> /\ dialog' = AtRest /\ dialog.lists \subseteq People
      BY <1>0, <1>3 DEF ApplyAssignees, PeopleTyped, crewVars
  <2>2. PICK current : current = IF dialog.old THEN dialog.row ELSE rows.who[dialog.of]
      OBVIOUS
  <2>3. PICK chosen \in SUBSET dialog.lists :
           assigner' = IF assigner.at # "rest" THEN assigner
                       ELSE [at |-> "asked", of |-> dialog.of, chosen |-> chosen,
                             add |-> chosen \ current, remove |-> current \ chosen,
                             adds |-> chosen \ current # {}, alone |-> TRUE,
                             unchecked |-> dialog.marks \ chosen]
      BY <1>3, <2>2 DEF ApplyAssignees
  <2>4. CASE assigner' = assigner
      BY <1>0, <2>1, <2>4 DEF PeopleTyped
  <2>5. CASE assigner' # assigner
    <3>1. assigner'.at = "asked" /\ assigner'.add = chosen \ current /\ assigner'.chosen = chosen
        BY <2>3, <2>5
    <3>2. QED BY <1>0, <2>1, <3>1 DEF PeopleTyped
  <2>6. QED BY <2>4, <2>5
<1>4. CASE TasksLoaded
  <2>1. UNCHANGED << onTask, crew, crewWorker, assigner >>
      BY <1>4 DEF TasksLoaded, crewVars
  <2>2. dialog' = dialog \/ dialog' = Detached(dialog)
      BY <1>4 DEF TasksLoaded
  <2>3. /\ dialog'.at = dialog.at
        /\ dialog.at = "open" => dialog'.lists = dialog.lists
    <3>1. CASE dialog' = dialog
        BY <3>1
    <3>2. CASE dialog # AtRest /\ dialog' = [dialog EXCEPT !.old = TRUE, !.row = rows.who[dialog.of]]
        BY <1>0, <3>2 DEF DialogShape
    <3>3. QED BY <2>2, <3>1, <3>2 DEF Detached, AtRest
  <2>4. QED BY <1>0, <2>1, <2>3 DEF PeopleTyped
<1>5. CASE \E t \in BoardTasks : EditAssignees(t)
  <2>1. UNCHANGED << onTask, crew, crewWorker, assigner >>
      BY <1>5 DEF EditAssignees, crewVars
  <2>2. dialog'.at = "open" /\ dialog'.lists = crew
      BY <1>5 DEF EditAssignees
  <2>3. QED BY <1>0, <2>1, <2>2 DEF PeopleTyped
<1>6. CASE \/ PersonsLoaded \/ ProjectsLoaded
           \/ \E p \in Boards : OpenBoard(p) \/ ProjectChanged(p)
  <2>1. UNCHANGED << onTask, assigner, dialog >>
      BY <1>6 DEF PersonsLoaded, ProjectsLoaded, OpenBoard, ProjectChanged
  <2>2. crew' \in {crew, {}, People} /\ crewWorker' \in {crewWorker, AtRest, [at |-> "asked"]}
      BY <1>6 DEF PersonsLoaded, ProjectsLoaded, OpenBoard, ProjectChanged, SelectProject, LoadPersons,
                  crewVars
  <2>3. QED BY <1>0, <2>1, <2>2 DEF PeopleTyped
<1>7. CASE UNCHANGED << onTask, crew, crewWorker, assigner >> /\ dialog' \in {dialog, AtRest}
    BY <1>0, <1>7 DEF PeopleTyped
<1>8. QED BY <1>1, <1>2, <1>3, <1>4, <1>5, <1>6, <1>7
          DEF BoardNext, BoardAnswers, ManagerClicks, ArtistClicks, boardVars, crewVars, deskVars,
              Refresh, CancelAssignees, BoardRead, CountsLoaded, DeskReads, TasksFetched,
              StatusesLoaded, LoadDesk, BadgeSet, ChooseProject

\* A load begins or waits.
LEMMA LoadsAreTyped ==
    ASSUME RowsTyped, NEW p \in Boards \union {NoBoard}, LoadTasks(p)
    PROVE  /\ boardNext' \in Boards \union {NoBoard} /\ boardWorker'.at \in {"rest", "asked", "read"}
           /\ boardWorker'.at = "read" => RowsOfHome(boardWorker'.who, boardWorker'.of)
<1>1. CASE boardWorker.at = "rest"
  <2>1. boardWorker'.at = "asked" /\ boardNext' = boardNext
      BY <1>1 DEF LoadTasks
  <2>2. QED BY <2>1 DEF RowsTyped
<1>2. CASE boardWorker.at # "rest"
    BY <1>2 DEF LoadTasks, RowsTyped
<1>3. QED BY <1>1, <1>2

\* A production is selected, in the combo or from outside.
LEMMA SelectionsAreTyped ==
    ASSUME TypesInv,
           \/ ProjectsLoaded \/ Refresh
           \/ \E p \in Boards : OpenBoard(p) \/ ProjectChanged(p)
    PROVE  RowsTyped'
<1>0. RowsTyped /\ OpenBoards \subseteq Boards
    BY TaskBoardAssumption DEF TypesInv
<1>1. UNCHANGED << rows, countWorker, counted >>
    BY DEF ProjectsLoaded, Refresh, OpenBoard, ProjectChanged
<1>2. selected' \in Boards \union {NoBoard}
      /\ combo' \in [lists : {{}, OpenBoards}, at : Boards \union {NoBoard}, job : {"asked", "done"},
                     waits : Boards \union {NoBoard}]
      /\ \/ UNCHANGED << boardWorker, boardNext >>
         \/ \E p \in Boards \union {NoBoard} : LoadTasks(p)
  <2>1. CASE Refresh
      BY <1>0, <2>1 DEF Refresh, RowsTyped
  <2>2. CASE \E p \in Boards : OpenBoard(p) \/ ProjectChanged(p)
    <3>1. PICK p \in Boards : OpenBoard(p) \/ ProjectChanged(p)
        BY <2>2
    <3>2. SelectProject(p) /\ (combo' = [combo EXCEPT !.at = p] \/ combo' = [combo EXCEPT !.waits = p])
        BY <3>1 DEF OpenBoard, ProjectChanged
    <3>3. QED BY <1>0, <3>2 DEF SelectProject, RowsTyped
  <2>3. CASE ProjectsLoaded
    <3>1. PICK lists \in {OpenBoards, {}}, first \in OpenBoards :
             LET known == IF combo.waits # NoBoard THEN combo.waits ELSE selected
                 target == IF known = NoBoard /\ lists # {} THEN first ELSE known
             IN /\ combo' = [lists |-> lists, job |-> "done",
                             at |-> IF target \in lists THEN target
                                    ELSE IF lists = {} THEN NoBoard ELSE first,
                             waits |-> IF target = NoBoard THEN combo.waits ELSE NoBoard]
                /\ IF target # selected THEN SelectProject(target)
                   ELSE UNCHANGED <<selected, boardWorker, boardNext, crewVars>>
        BY <2>3 DEF ProjectsLoaded
    <3>2. PICK known : known = IF combo.waits # NoBoard THEN combo.waits ELSE selected
        OBVIOUS
    <3>3. PICK target : target = IF known = NoBoard /\ lists # {} THEN first ELSE known
        OBVIOUS
    <3>4. target \in Boards \union {NoBoard} /\ combo.waits \in Boards \union {NoBoard}
        BY <1>0, <3>2, <3>3 DEF RowsTyped
    <3>5. /\ combo' = [lists |-> lists, job |-> "done",
                       at |-> IF target \in lists THEN target
                              ELSE IF lists = {} THEN NoBoard ELSE first,
                       waits |-> IF target = NoBoard THEN combo.waits ELSE NoBoard]
          /\ IF target # selected THEN SelectProject(target)
             ELSE UNCHANGED <<selected, boardWorker, boardNext, crewVars>>
        BY <3>1, <3>2, <3>3
    <3>6. combo' \in [lists : {{}, OpenBoards}, at : Boards \union {NoBoard}, job : {"asked", "done"},
                      waits : Boards \union {NoBoard}]
        BY <1>0, <3>4, <3>5
    <3>7. QED BY <1>0, <3>4, <3>5, <3>6 DEF SelectProject, RowsTyped
  <2>4. QED BY <2>1, <2>2, <2>3
<1>3. CASE UNCHANGED << boardWorker, boardNext >>
    BY <1>0, <1>1, <1>2, <1>3 DEF RowsTyped
<1>4. CASE \E p \in Boards \union {NoBoard} : LoadTasks(p)
    BY <1>0, <1>1, <1>2, <1>4, LoadsAreTyped DEF RowsTyped
<1>5. QED BY <1>2, <1>3, <1>4

\* Rows are read, shown and answered.
LEMMA RowsSteps ==
    ASSUME TypesInv, [BoardNext]_<<page, boardVars>>
    PROVE  RowsTyped'
<1>0. RowsTyped /\ PeopleTyped /\ AssignerShape
    BY DEF TypesInv, BoardInv
<1>1. CASE \/ ProjectsLoaded \/ Refresh
           \/ \E p \in Boards : OpenBoard(p) \/ ProjectChanged(p)
    BY <1>1, SelectionsAreTyped
<1>2. CASE BoardRead
  <2>1. UNCHANGED << combo, selected, rows, boardNext, countWorker, counted >> /\ boardWorker'.at = "read"
        /\ \/ boardWorker'.who = RowsOf(boardWorker.of)
           \/ boardWorker'.who = NoRows
        /\ boardWorker'.of = boardWorker.of
      BY <1>2 DEF BoardRead
  <2>2. RowsOfHome(RowsOf(boardWorker.of), boardWorker.of) /\ RowsOfHome(NoRows, boardWorker.of)
      BY <1>0 DEF RowsOfHome, RowsOf, NoRows, PeopleTyped
  <2>3. QED BY <1>0, <2>1, <2>2 DEF RowsTyped
<1>3. CASE TasksLoaded
  <2>1. /\ UNCHANGED << combo, selected >> /\ boardNext' = NoBoard
        /\ boardWorker' \in {AtRest, [at |-> "asked", of |-> boardNext]}
      BY <1>3 DEF TasksLoaded, DrainTasks
  <2>2. boardWorker'.at \in {"rest", "asked"}
      BY <2>1 DEF AtRest
  <2>3. CASE UNCHANGED << rows, countWorker, counted >>
      BY <1>0, <2>1, <2>2, <2>3 DEF RowsTyped
  <2>4. CASE boardWorker.of = selected /\ rows' = [of |-> selected, who |-> boardWorker.who]
             /\ counted' = NoBoard /\ LoadCounts(selected)
    <3>1. RowsOfHome(boardWorker.who, selected)
        BY <1>0, <1>3, <2>4 DEF TasksLoaded, RowsTyped
    <3>2. countWorker'.at \in {"rest", "asked"}
        BY <1>0, <2>4 DEF LoadCounts, RowsTyped
    <3>3. rows' = [of |-> rows'.of, who |-> rows'.who] /\ rows'.of = selected /\ rows'.who = boardWorker.who
        BY <2>4
    <3>4. QED BY <1>0, <2>1, <2>2, <2>4, <3>1, <3>2, <3>3 DEF RowsTyped
  <2>5. QED BY <1>3, <2>3, <2>4 DEF TasksLoaded, Wanted
<1>4. CASE CountsLoaded
    BY <1>0, <1>4 DEF CountsLoaded, RowsTyped, AtRest
<1>5. CASE AssignmentFinished
  <2>1. UNCHANGED << combo, selected, boardWorker, boardNext, countWorker, counted >>
      BY <1>5 DEF AssignmentFinished
  <2>2. CASE rows' = rows
      BY <1>0, <2>1, <2>2 DEF RowsTyped
  <2>3. CASE assigner.of \in DOMAIN rows.who /\ rows' = [rows EXCEPT !.who[assigner.of] = assigner.chosen]
    <3>1. assigner.chosen \subseteq People
        BY <1>0, <1>5 DEF AssignmentFinished, PeopleTyped
    <3>2. PICK who : who = [rows.who EXCEPT ![assigner.of] = assigner.chosen]
        OBVIOUS
    <3>3. rows' = [of |-> rows.of, who |-> who]
        BY <1>0, <2>3, <3>2 DEF RowsTyped
    <3>4. RowsOfHome(who, rows.of)
        BY <1>0, <3>1, <3>2 DEF RowsTyped, RowsOfHome
    <3>5. rows' = [of |-> rows'.of, who |-> rows'.who] /\ rows'.of = rows.of /\ rows'.who = who
        BY <3>3
    <3>6. QED BY <1>0, <2>1, <3>4, <3>5 DEF RowsTyped
  <2>4. QED BY <1>5, <2>2, <2>3 DEF AssignmentFinished
<1>6. CASE UNCHANGED rowVars
    BY <1>0, <1>6 DEF rowVars, RowsTyped
<1>7. QED BY <1>1, <1>2, <1>3, <1>4, <1>5, <1>6
          DEF BoardNext, BoardAnswers, ManagerClicks, ArtistClicks, boardVars, CancelAssignees,
              EditAssignees, ApplyAssignees, PersonsLoaded, AssignOne, ClearOne, AssignBreaks,
              AssignEnds, DeskReads, TasksFetched, StatusesLoaded, LoadDesk, BadgeSet, ChooseProject,
              ColleagueEdits

\* A production's statuses are loaded or come from the cache.
LEMMA StatusesAreTyped ==
    ASSUME DeskTyped, NEW p \in Boards \union {AnyBoard}, LoadStatuses(p)
    PROVE  /\ filter' \in Boards \union {AnyBoard, NoBoard} /\ statusWorker'.at \in {"rest", "asked"}
           /\ statusWorker'.at = "asked" => statusWorker'.of \in Boards \union {AnyBoard}
BY DEF DeskTyped, LoadStatuses

LEMMA DeskSteps ==
    ASSUME TypesInv, [BoardNext]_<<page, boardVars>>
    PROVE  DeskTyped'
<1>0. DeskTyped /\ HomeOf \in [BoardTasks -> Boards]
    BY TaskBoardAssumption DEF TypesInv
<1>1. CASE LoadDesk
    BY <1>0, <1>1 DEF LoadDesk, DeskTyped
<1>2. CASE DeskReads
  <2>1. UNCHANGED << cards, deskLoading, choice, filter, statusWorker, statusCache >>
        /\ deskWorker'.at = "read" /\ deskWorker'.got \subseteq MyTasks
      BY <1>2 DEF DeskReads
  <2>2. QED BY <1>0, <2>1 DEF DeskTyped, MyTasks
<1>3. CASE TasksFetched
  <2>1. /\ deskWorker' = AtRest /\ deskLoading' = FALSE /\ cards' = CarriedOver(deskWorker.got)
        /\ LoadStatuses(choice') /\ UNCHANGED statusCache
        /\ choice' = IF choice \in {HomeOf[t] : t \in deskWorker.got} THEN choice ELSE AnyBoard
        /\ deskWorker.at = "read"
      BY <1>3 DEF TasksFetched
  <2>2. deskWorker.got \subseteq BoardTasks /\ DOMAIN cards' = deskWorker.got
      BY <1>0, <2>1 DEF DeskTyped, CarriedOver
  <2>3. choice' \in Boards \union {AnyBoard}
      BY <1>0, <2>1 DEF DeskTyped
  <2>4. QED BY <1>0, <2>1, <2>2, <2>3, StatusesAreTyped DEF DeskTyped, AtRest
<1>4. CASE \E t \in BoardTasks : BadgeSet(t)
    BY <1>0, <1>4 DEF BadgeSet, DeskTyped
<1>5. CASE \E p \in Boards \union {AnyBoard} : ChooseProject(p)
  <2>1. PICK p \in Boards \union {AnyBoard} : ChooseProject(p)
      BY <1>5
  <2>2. choice' = p /\ LoadStatuses(p) /\ UNCHANGED << cards, deskWorker, deskLoading, statusCache >>
      BY <2>1 DEF ChooseProject
  <2>3. QED BY <1>0, <2>2, StatusesAreTyped DEF DeskTyped
<1>6. CASE StatusesLoaded
  <2>1. /\ statusWorker' = AtRest /\ UNCHANGED << cards, deskWorker, deskLoading, choice >>
        /\ DOMAIN statusCache' = DOMAIN statusCache \union {statusWorker.of}
        /\ filter' \in {choice, filter} /\ statusWorker.at = "asked"
      BY <1>6 DEF StatusesLoaded
  <2>2. QED BY <1>0, <2>1 DEF DeskTyped, AtRest
<1>7. CASE UNCHANGED deskVars
    BY <1>0, <1>7 DEF deskVars, DeskTyped
<1>8. QED BY <1>1, <1>2, <1>3, <1>4, <1>5, <1>6, <1>7
          DEF BoardNext, BoardAnswers, ManagerClicks, ArtistClicks, boardVars, ProjectsLoaded, Refresh,
              OpenBoard, ProjectChanged, BoardRead, TasksLoaded, CountsLoaded, CancelAssignees,
              EditAssignees, ApplyAssignees, PersonsLoaded, AssignOne, ClearOne, AssignBreaks,
              AssignEnds, AssignmentFinished, ColleagueEdits

LEMMA TypesSteps == TypesInv /\ [BoardNext]_<<page, boardVars>> => TypesInv'
<1> SUFFICES ASSUME TypesInv, [BoardNext]_<<page, boardVars>> PROVE TypesInv'
    OBVIOUS
<1>1. BoardInv'
    BY BoardSteps DEF TypesInv
<1>2. page' = page
    BY DEF BoardNext
<1>3. QED BY <1>1, <1>2, PeopleSteps, RowsSteps, DeskSteps DEF TypesInv

\* Whoever is on a task is a person, rows are of the production they are shown under, and
\* the desk and its workers keep their shape.
LEMMA BoardIsTyped == BoardSpec => []BoardTypeOK
<1>1. TypesInv => BoardTypeOK
    BY DEF TypesInv, PeopleTyped, RowsTyped, RowsOfHome, DeskTyped, BoardTypeOK
<1>2. QED BY <1>1, TypesStart, TypesSteps, PTL DEF BoardSpec

\* Numbers have a least one.
LEMMA LeastNumber ==
    ASSUME NEW S, S \subseteq Nat, S # {}
    PROVE  \E n \in S : \A m \in S : ~ (m < n)
<1> DEFINE Less == OpToRel(<, Nat)
<1>1. IsWellFoundedOn(Less, Nat)
    BY NatLessThanWellFounded
<1>2. \A m, n \in Nat : m < n => << m, n >> \in Less
    BY DEF OpToRel
<1> HIDE DEF Less
<1>3. \E n \in S : \A m \in S : ~ (<< m, n >> \in Less)
    BY <1>1, WFMin
<1>4. QED BY <1>2, <1>3

(***************************************************************************)
(* Comments.                                                               *)
(***************************************************************************)

\* A text is named by when it was written and for which thread.
Written == [n : Nat, for : Threads]
Comment == [of : Threads, mine : BOOLEAN, ticks : SUBSET Items, text : Written \cup {NoText},
            answered : BOOLEAN]

\* The texts that were posted and answered for.
Mine == {i \in DOMAIN kitsu : kitsu[i].mine}
PostedTexts == {kitsu[i].text : i \in {j \in Mine : kitsu[j].answered}}

KitsuShape ==
    /\ kitsu \in Seq(Comment) /\ Len(kitsu) <= MaxComments
    /\ \A i \in DOMAIN kitsu : ~ kitsu[i].mine => kitsu[i].text = NoText
    /\ \A i \in Mine : /\ kitsu[i].text # NoText /\ kitsu[i].text.n <= acts
                       /\ kitsu[i].text.for = kitsu[i].of
    /\ \A i, j \in Mine : kitsu[i].text = kitsu[j].text /\ i < j => ~ kitsu[i].answered

IsPanel(d) ==
    /\ d = [thread |-> d.thread, as |-> d.as, list |-> d.list, loading |-> d.loading,
            text |-> d.text, sending |-> d.sending, enabled |-> d.enabled]
    /\ IsList(d.list)

IsModel(v) ==
    /\ v = [thread |-> v.thread, list |-> v.list, mark |-> v.mark, pending |-> v.pending,
            revert |-> v.revert]
    /\ v.thread \in Threads \cup {NoThread} /\ IsList(v.list)

\* The panel shows the view model's thread, if any, and what waits is this thread.
PanelShape ==
    /\ IsPanel(drawer) /\ IsModel(vm) /\ drawer.thread \in {NoThread, vm.thread}
    /\ vm.pending # NoThread => fetching.at # "idle" /\ vm.pending = vm.thread
    /\ fetching.at = "read" => IsList(fetching.got)

\* A tick that is under way can be taken back.
TickShape ==
    ticking.at # "idle" =>
        /\ ticking = [at |-> ticking.at, id |-> ticking.id, ticks |-> ticking.ticks]
        /\ ticking.ticks \subseteq Items
        /\ \E old \in SUBSET Items : vm.revert = << ticking.id, old >>

SeenShape ==
    /\ seen \in [Threads -> 0 .. MaxComments] /\ delivered \in [Threads -> 0 .. MaxComments]
    /\ \A t \in Threads : seen[t] <= delivered[t]
    /\ summary.at = "read" => summary.upTo \in 0 .. MaxComments

\* What is in the panel is for its thread and no post of it was answered, unless the
\* answer has come and the panel does not know yet.
DrawerText ==
    drawer.text # NoText =>
        /\ drawer.text \in Written /\ drawer.text.n <= acts
        /\ drawer.thread # NoThread => drawer.text.for = drawer.thread
        /\ posting.at # "landed" => drawer.text \notin PostedTexts

PostingText ==
    posting.at # "idle" =>
        /\ posting = [at |-> posting.at, thread |-> posting.thread, text |-> posting.text]
        /\ posting.text \in Written /\ posting.text.n <= acts
        /\ posting.text.for = posting.thread
        /\ posting.at = "asked" => posting.text \notin PostedTexts

CommentsInv ==
    /\ KitsuShape /\ PanelShape /\ TickShape /\ SeenShape
    /\ DrawerText /\ PostingText /\ acts \in Nat

\* The highest of some numbers.
LEMMA NewestOfNumbers ==
    ASSUME NEW S, S \subseteq 0 .. MaxComments
    PROVE  /\ Newest(S) \in 0 .. MaxComments /\ Newest(S) \in S \cup {0}
           /\ \A m \in S : m <= Newest(S)
<1>1. MaxComments \in Nat
    BY CommentsAssumption
<1>2. CASE S = {}
    BY <1>1, <1>2 DEF Newest
<1>3. CASE S # {}
  <2>1. PICK gaps : gaps = {MaxComments - m : m \in S}
      OBVIOUS
  <2>2. gaps \subseteq Nat /\ gaps # {}
    <3>1. \A m \in 0 .. MaxComments : MaxComments - m \in Nat
        BY <1>1
    <3>2. QED BY <1>3, <2>1, <3>1
  <2>3. PICK g \in gaps : \A h \in gaps : ~ (h < g)
      BY <2>2, LeastNumber
  <2>4. PICK top \in S : g = MaxComments - top
      BY <2>1, <2>3
  <2>5. \A m \in S : top >= m
    <3> SUFFICES ASSUME NEW m \in S PROVE top >= m
        OBVIOUS
    <3>1. ~ (MaxComments - m < MaxComments - top)
        BY <2>1, <2>3, <2>4
    <3>2. m \in 0 .. MaxComments /\ top \in 0 .. MaxComments
        OBVIOUS
    <3>3. QED BY <1>1, <3>1, <3>2
  <2>6. Max(S) \in S /\ \A m \in S : Max(S) >= m
      BY <2>5 DEF Max
  <2>7. Newest(S) = Max(S)
      BY <1>3 DEF Newest
  <2>8. QED BY <1>1, <2>6, <2>7
<1>4. QED BY <1>2, <1>3

\* A newer comment moves the newest.
LEMMA NewestGrows ==
    ASSUME NEW S, NEW d \in 0 .. MaxComments, S \subseteq 1 .. MaxComments
    PROVE  /\ Newest((S \cup {d}) \ {0}) \in 0 .. MaxComments
           /\ d <= Newest((S \cup {d}) \ {0}) /\ Newest(S) <= Newest((S \cup {d}) \ {0})
           /\ Newest(S) \in 0 .. MaxComments
<1>1. PICK T : T = (S \cup {d}) \ {0}
    OBVIOUS
<1>2. MaxComments \in Nat /\ S \subseteq 0 .. MaxComments /\ T \subseteq 0 .. MaxComments
    BY <1>1, CommentsAssumption
<1>3. /\ Newest(S) \in 0 .. MaxComments /\ Newest(S) \in S \cup {0}
      /\ Newest(T) \in 0 .. MaxComments /\ \A m \in T : m <= Newest(T)
    BY <1>2, NewestOfNumbers
<1>4. d <= Newest(T)
    BY <1>1, <1>2, <1>3
<1>5. Newest(S) <= Newest(T)
    BY <1>1, <1>2, <1>3
<1>6. QED BY <1>1, <1>3, <1>4, <1>5

LEMMA CommentsStart == CommentsInit => CommentsInv
<1> SUFFICES ASSUME CommentsInit PROVE CommentsInv
    OBVIOUS
<1>1. kitsu = << >> /\ acts = 0 /\ MaxComments \in Nat
    BY CommentsAssumption DEF CommentsInit
<1>2. kitsu \in Seq(Comment) /\ Len(kitsu) = 0 /\ DOMAIN kitsu = {}
    BY <1>1
<1>3. KitsuShape
    BY <1>1, <1>2 DEF KitsuShape, Mine
<1>4. fetching = Idle /\ posting = Idle /\ ticking = Idle /\ summary = Idle /\ Idle.at = "idle"
    BY DEF CommentsInit, Idle
<1>5. DOMAIN NoComments = {}
    BY DEF NoComments
<1>6. PanelShape
    BY <1>4, <1>5 DEF CommentsInit, PanelShape, IsPanel, IsModel, IsList
<1>7. SeenShape
    BY <1>1, <1>4 DEF CommentsInit, SeenShape
<1>8. TickShape /\ PostingText /\ DrawerText
    BY <1>4 DEF CommentsInit, TickShape, PostingText, DrawerText
<1>9. QED BY <1>1, <1>3, <1>6, <1>7, <1>8 DEF CommentsInv

\* Acts are counted.
LEMMA ActsGrow ==
    ASSUME CommentsInv, [CommentsNext]_threadVars
    PROVE  acts' \in Nat /\ acts <= acts'
<1>1. acts' = acts \/ acts' = acts + 1
    BY DEF CommentsNext, threadVars, Act, OpenComments, OthersComment, CloseComments, FetchReads,
           CommentsLoaded, CommentsDropped, CommentsFailed, Write, SendComment, PostLands,
           CommentPosted, PostFailed, ToggleChecklist, UpdateLands, ChecklistUpdated,
           RefreshCommentCounts, SummaryReads, CommentSummary, OthersTick
<1>2. QED BY <1>1 DEF CommentsInv

-----------------------------------------------------------------------------
(* The comments on the server.                                             *)

LEMMA CommentAt ==
    ASSUME NEW s \in Seq(Comment), NEW i \in DOMAIN s
    PROVE  s[i] \in Comment
<1>1. s \in [1 .. Len(s) -> Comment] /\ DOMAIN s = 1 .. Len(s)
    BY LenProperties
<1>2. QED BY <1>1

\* What holds of the comments holds when texts and threads stay.
LEMMA KitsuStays ==
    ASSUME CommentsInv, acts' \in Nat, acts <= acts',
           kitsu' \in Seq(Comment), Len(kitsu') = Len(kitsu), DOMAIN kitsu' = DOMAIN kitsu,
           \A j \in DOMAIN kitsu : /\ kitsu'[j].of = kitsu[j].of /\ kitsu'[j].mine = kitsu[j].mine
                                   /\ kitsu'[j].text = kitsu[j].text
                                   /\ kitsu'[j].answered = kitsu[j].answered
    PROVE  KitsuShape' /\ PostedTexts' = PostedTexts
<1>1. KitsuShape
    BY DEF CommentsInv
<1>2. Mine' = Mine /\ Mine \subseteq DOMAIN kitsu
    BY DEF Mine
<1>3. PostedTexts' = PostedTexts
    BY <1>2 DEF PostedTexts
<1>4. \A i \in Mine : kitsu'[i].text.n <= acts'
  <2> SUFFICES ASSUME NEW i \in Mine PROVE kitsu'[i].text.n <= acts'
      OBVIOUS
  <2>1. i \in DOMAIN kitsu /\ kitsu[i].text.n <= acts /\ kitsu[i].text # NoText
      BY <1>1, <1>2 DEF KitsuShape
  <2>2. kitsu[i].text \in Written
    <3>1. kitsu[i] \in Comment
        BY <1>1, <2>1, CommentAt DEF KitsuShape
    <3>2. QED BY <2>1, <3>1 DEF Comment
  <2>3. kitsu[i].text.n \in Nat /\ acts \in Nat
      BY <2>2 DEF Written, CommentsInv
  <2>4. QED BY <2>1, <2>3
<1>5. QED BY <1>1, <1>2, <1>3, <1>4 DEF KitsuShape

\* Ticks are written over, and nothing else of a comment.
LEMMA TicksAreWritten ==
    ASSUME CommentsInv, acts' \in Nat, acts <= acts', NEW i, NEW ticks \in SUBSET Items,
           kitsu' = [kitsu EXCEPT ![i].ticks = ticks]
    PROVE  KitsuShape' /\ PostedTexts' = PostedTexts
<1>1. kitsu \in Seq(Comment)
    BY DEF CommentsInv, KitsuShape
<1>2. DOMAIN kitsu = 1 .. Len(kitsu) /\ Len(kitsu) \in Nat /\ kitsu \in [1 .. Len(kitsu) -> Comment]
    BY <1>1, LenProperties
<1>3. CASE i \notin DOMAIN kitsu
  <2>1. kitsu' = kitsu
      BY <1>2, <1>3
  <2>2. QED BY <1>1, <2>1, KitsuStays
<1>4. CASE i \in DOMAIN kitsu
  <2>1. PICK e : e = [kitsu[i] EXCEPT !.ticks = ticks]
      OBVIOUS
  <2>2. kitsu[i] \in Comment
      BY <1>2, <1>4
  <2>3. e \in Comment /\ e.of = kitsu[i].of /\ e.mine = kitsu[i].mine /\ e.text = kitsu[i].text
        /\ e.answered = kitsu[i].answered
      BY <2>1, <2>2 DEF Comment
  <2>4. kitsu' = [kitsu EXCEPT ![i] = e]
      BY <2>1
  <2>5. /\ kitsu' \in Seq(Comment) /\ Len(kitsu') = Len(kitsu)
        /\ \A j \in 1 .. Len(kitsu) : kitsu'[j] = IF j = i THEN e ELSE kitsu[j]
      BY <1>1, <1>2, <1>4, <2>3, <2>4, ExceptSeq
  <2>6. DOMAIN kitsu' = DOMAIN kitsu
      BY <2>4
  <2>7. QED BY <1>2, <2>3, <2>5, <2>6, KitsuStays
<1>5. QED BY <1>3, <1>4

\* Somebody's comment is added; mine, with the text of the post.
LEMMA KitsuGrows ==
    ASSUME CommentsInv, Len(kitsu) < MaxComments, UNCHANGED acts,
           NEW e \in Comment, kitsu' = Append(kitsu, e),
           \/ ~ e.mine /\ e.text = NoText
           \/ /\ e.mine /\ e.text # NoText /\ e.text.n <= acts /\ e.text.for = e.of
              /\ e.text \notin PostedTexts
    PROVE  KitsuShape' /\ PostedTexts' = IF e.mine /\ e.answered THEN PostedTexts \cup {e.text} ELSE PostedTexts
<1>1. KitsuShape /\ MaxComments \in Nat
    BY CommentsAssumption DEF CommentsInv
<1>2. kitsu \in Seq(Comment) /\ Len(kitsu) \in Nat /\ DOMAIN kitsu = 1 .. Len(kitsu)
    BY <1>1, LenProperties DEF KitsuShape
<1>3. PICK top : top = Len(kitsu) + 1
    OBVIOUS
<1>4. /\ kitsu' \in Seq(Comment) /\ Len(kitsu') = top /\ kitsu'[top] = e
      /\ \A i \in DOMAIN kitsu : kitsu'[i] = kitsu[i]
    BY <1>2, <1>3, AppendProperties
<1>5. DOMAIN kitsu' = DOMAIN kitsu \cup {top} /\ top \notin DOMAIN kitsu /\ top <= MaxComments
    BY <1>1, <1>2, <1>3, <1>4, LenProperties
<1>6. Mine' = IF e.mine THEN Mine \cup {top} ELSE Mine
    BY <1>4, <1>5 DEF Mine
<1>7. Mine \subseteq DOMAIN kitsu
    BY DEF Mine
<1>8. PostedTexts' = IF e.mine /\ e.answered THEN PostedTexts \cup {e.text} ELSE PostedTexts
    BY <1>4, <1>6, <1>7 DEF PostedTexts
<1>9. \A i \in DOMAIN kitsu' : ~ kitsu'[i].mine => kitsu'[i].text = NoText
    BY <1>1, <1>4, <1>5 DEF KitsuShape
<1>10. \A i \in Mine' : kitsu'[i].text # NoText /\ kitsu'[i].text.n <= acts' /\ kitsu'[i].text.for = kitsu'[i].of
    BY <1>1, <1>4, <1>6, <1>7 DEF KitsuShape
<1>11. \A i, j \in Mine' : kitsu'[i].text = kitsu'[j].text /\ i < j => ~ kitsu'[i].answered
  <2>1. \A i \in Mine : kitsu[i].answered => kitsu[i].text \in PostedTexts
      BY DEF PostedTexts
  <2>2. \A i \in Mine : i \in Nat /\ i < top
      BY <1>2, <1>3, <1>7
  <2>3. QED BY <1>1, <1>2, <1>3, <1>4, <1>6, <1>7, <2>1, <2>2 DEF KitsuShape
<1>12. QED BY <1>4, <1>5, <1>8, <1>9, <1>10, <1>11 DEF KitsuShape

\* What is posted is of its thread, and was not answered for; nothing else adds to that.
LEMMA KitsuSteps ==
    ASSUME CommentsInv, [CommentsNext]_threadVars
    PROVE  /\ KitsuShape'
           /\ \/ PostedTexts' = PostedTexts
              \/ PostLands /\ posting'.at = "landed" /\ PostedTexts' = PostedTexts \cup {posting.text}
<1>0. kitsu \in Seq(Comment) /\ Len(kitsu) <= MaxComments /\ PostingText
    BY DEF CommentsInv, KitsuShape
<1>1. acts' \in Nat /\ acts <= acts'
    BY ActsGrow
<1>2. CASE UNCHANGED kitsu
    BY <1>0, <1>1, <1>2, KitsuStays
<1>3. CASE \E t \in Threads : OthersComment(t)
  <2>1. PICK t \in Threads : OthersComment(t)
      BY <1>3
  <2>2. PICK e : e = [of |-> t, mine |-> FALSE, ticks |-> {}, text |-> NoText, answered |-> FALSE]
      OBVIOUS
  <2>3. e \in Comment /\ ~ e.mine /\ e.text = NoText
      BY <2>2 DEF Comment
  <2>4. Len(kitsu) < MaxComments /\ UNCHANGED acts /\ kitsu' = Append(kitsu, e)
      BY <2>1, <2>2 DEF OthersComment
  <2>5. QED BY <2>3, <2>4, KitsuGrows
<1>4. CASE PostLands /\ kitsu' # kitsu
  <2>0. PICK answered \in BOOLEAN :
             /\ Posted(answered)
             /\ posting' = [posting EXCEPT !.at = IF answered THEN "landed" ELSE "failed"]
      BY <1>4 DEF PostLands
  <2>1. PICK e : e = [of |-> posting.thread, mine |-> TRUE, ticks |-> {}, text |-> posting.text,
                      answered |-> answered]
      OBVIOUS
  <2>2. /\ posting.at = "asked" /\ Len(kitsu) < MaxComments /\ UNCHANGED acts
        /\ kitsu' = Append(kitsu, e)
      BY <1>4, <2>0, <2>1 DEF PostLands, Posted
  <2>3. /\ posting = [at |-> posting.at, thread |-> posting.thread, text |-> posting.text]
        /\ posting.text \in Written /\ posting.text.n <= acts /\ posting.text.for = posting.thread
        /\ posting.text \notin PostedTexts
      BY <1>0, <2>2 DEF PostingText
  <2>4. posting.thread \in Threads /\ posting.text # NoText
      BY <2>3, CommentsAssumption DEF Written
  <2>5. e \in Comment /\ e.mine /\ e.text = posting.text /\ e.of = posting.thread
        /\ e.answered = answered
      BY <2>1, <2>3, <2>4 DEF Comment
  <2>6. answered => posting'.at = "landed"
      BY <2>0, <2>3
  <2>7. KitsuShape' /\ PostedTexts' = IF answered THEN PostedTexts \cup {posting.text} ELSE PostedTexts
      BY <2>2, <2>3, <2>4, <2>5, KitsuGrows
  <2>8. QED BY <1>4, <2>6, <2>7
<1>5. CASE UpdateLands /\ kitsu' # kitsu
  <2>1. kitsu' = [kitsu EXCEPT ![ticking.id].ticks = ticking.ticks] /\ ticking.at # "idle"
      BY <1>5 DEF UpdateLands
  <2>2. ticking.ticks \in SUBSET Items
      BY <2>1 DEF CommentsInv, TickShape
  <2>3. QED BY <1>1, <2>1, <2>2, TicksAreWritten
<1>6. CASE OthersTick
  <2>1. PICK i \in DOMAIN kitsu, item \in Items : kitsu' = [kitsu EXCEPT ![i].ticks = Flipped(@, item)]
      BY <1>6 DEF OthersTick
  <2>2. kitsu[i].ticks \subseteq Items
      BY <1>0, CommentAt DEF Comment
  <2>3. PICK ticks : ticks = Flipped(kitsu[i].ticks, item)
      OBVIOUS
  <2>4. ticks \in SUBSET Items /\ kitsu' = [kitsu EXCEPT ![i].ticks = ticks]
      BY <2>1, <2>2, <2>3 DEF Flipped
  <2>5. QED BY <1>1, <2>4, TicksAreWritten
<1>7. QED BY <1>2, <1>3, <1>4, <1>5, <1>6
          DEF CommentsNext, threadVars, OpenComments, CloseComments, FetchReads, CommentsLoaded,
              CommentsDropped, CommentsFailed, Write, SendComment, CommentPosted, PostFailed,
              ToggleChecklist, ChecklistUpdated, RefreshCommentCounts, SummaryReads, CommentSummary

-----------------------------------------------------------------------------
(* What was seen.                                                          *)

LEMMA SeenSteps ==
    ASSUME CommentsInv, [CommentsNext]_threadVars
    PROVE  SeenShape'
<1>0. SeenShape /\ MaxComments \in Nat /\ Len(kitsu) \in 0 .. MaxComments
    BY LenProperties, CommentsAssumption DEF CommentsInv, KitsuShape
<1>1. CASE CommentsLoaded
  <2>0. PICK t : t = vm.thread
      OBVIOUS
  <2>1. DOMAIN fetching.got \subseteq 1 .. MaxComments
      BY <1>1 DEF CommentsLoaded, CommentsInv, PanelShape, IsList
  <2>2. PICK newest : newest = Newest((DOMAIN fetching.got \cup {delivered[t]}) \ {0})
      OBVIOUS
  <2>3. /\ delivered' = [delivered EXCEPT ![t] = newest] /\ UNCHANGED summary
        /\ \/ seen' = seen
           \/ seen' = [seen EXCEPT ![t] = Newest(DOMAIN fetching.got)]
    <3>1. delivered' = [delivered EXCEPT ![t] = newest] /\ UNCHANGED summary
        BY <1>1, <2>0, <2>2 DEF CommentsLoaded
    <3>2. \/ seen' = seen
          \/ seen' = [seen EXCEPT ![t] = IF fetching.got = NoComments THEN @
                                         ELSE Newest(DOMAIN fetching.got)]
        BY <1>1, <2>0 DEF CommentsLoaded, StoreSeen
    <3>3. seen = [seen EXCEPT ![t] = seen[t]]
        BY <1>0 DEF SeenShape
    <3>4. QED BY <3>1, <3>2, <3>3
  <2>4. CASE t \in Threads
    <3>1. /\ newest \in 0 .. MaxComments /\ delivered[t] <= newest
          /\ Newest(DOMAIN fetching.got) <= newest /\ Newest(DOMAIN fetching.got) \in 0 .. MaxComments
        BY <1>0, <2>1, <2>2, <2>4, NewestGrows DEF SeenShape
    <3>2. delivered' \in [Threads -> 0 .. MaxComments] /\ seen' \in [Threads -> 0 .. MaxComments]
        BY <1>0, <2>3, <3>1 DEF SeenShape
    <3>3. \A u \in Threads : seen'[u] <= delivered'[u]
      <4>1. seen[t] \in 0 .. MaxComments /\ delivered[t] \in 0 .. MaxComments /\ seen[t] <= delivered[t]
          BY <1>0, <2>4 DEF SeenShape
      <4>2. seen'[t] <= delivered'[t]
          BY <1>0, <2>3, <2>4, <3>1, <4>1 DEF SeenShape
      <4>3. \A u \in Threads \ {t} : seen'[u] = seen[u] /\ delivered'[u] = delivered[u]
          BY <1>0, <2>3 DEF SeenShape
      <4>4. QED BY <1>0, <4>2, <4>3 DEF SeenShape
    <3>4. QED BY <1>0, <2>3, <3>2, <3>3 DEF SeenShape
  <2>5. CASE t \notin Threads
    <3>1. delivered' = delivered /\ seen' = seen
        BY <1>0, <2>3, <2>5 DEF SeenShape
    <3>2. QED BY <1>0, <2>3, <3>1 DEF SeenShape
  <2>6. QED BY <2>4, <2>5
<1>2. CASE CommentSummary
  <2>1. summary.upTo \in 0 .. MaxComments
      BY <1>0, <1>2 DEF CommentSummary, SeenShape
  <2>2. \A t \in Threads : Counted(t) \subseteq 1 .. MaxComments
      BY <1>0, <2>1 DEF Counted, OfThread
  <2>3. \A t \in Threads :
            /\ delivered'[t] = Newest((Counted(t) \cup {delivered[t]}) \ {0})
            /\ seen'[t] = IF seen[t] = 0 THEN Newest(Counted(t)) ELSE seen[t]
      BY <1>2 DEF CommentSummary
  <2>4. \A t \in Threads : /\ delivered'[t] \in 0 .. MaxComments /\ seen'[t] \in 0 .. MaxComments
                           /\ seen'[t] <= delivered'[t]
    <3> SUFFICES ASSUME NEW t \in Threads
                 PROVE  /\ delivered'[t] \in 0 .. MaxComments /\ seen'[t] \in 0 .. MaxComments
                        /\ seen'[t] <= delivered'[t]
        OBVIOUS
    <3>1. /\ seen[t] \in 0 .. MaxComments /\ delivered[t] \in 0 .. MaxComments /\ seen[t] <= delivered[t]
        BY <1>0 DEF SeenShape
    <3>2. PICK newest : newest = delivered'[t]
        OBVIOUS
    <3>3. /\ newest \in 0 .. MaxComments /\ delivered[t] <= newest
          /\ Newest(Counted(t)) <= newest /\ Newest(Counted(t)) \in 0 .. MaxComments
        BY <2>2, <2>3, <3>1, <3>2, NewestGrows
    <3>4. CASE seen[t] = 0
        BY <2>3, <3>2, <3>3, <3>4
    <3>5. CASE seen[t] # 0
      <4>1. seen'[t] = seen[t]
          BY <2>3, <3>5
      <4>2. QED BY <1>0, <3>1, <3>2, <3>3, <4>1
    <3>6. QED BY <3>4, <3>5
  <2>5. /\ DOMAIN seen' = Threads /\ DOMAIN delivered' = Threads /\ seen' = [t \in Threads |-> seen'[t]]
        /\ delivered' = [t \in Threads |-> delivered'[t]] /\ summary' = Idle /\ Idle.at = "idle"
      BY <1>2 DEF CommentSummary, Idle
  <2>6. seen' \in [Threads -> 0 .. MaxComments] /\ delivered' \in [Threads -> 0 .. MaxComments]
      BY <2>4, <2>5
  <2>7. QED BY <2>4, <2>5, <2>6 DEF SeenShape
<1>3. CASE RefreshCommentCounts \/ SummaryReads
    BY <1>0, <1>3 DEF RefreshCommentCounts, SummaryReads, SeenShape
<1>4. CASE UNCHANGED << seen, delivered, summary >>
    BY <1>0, <1>4 DEF SeenShape
<1>5. QED BY <1>1, <1>2, <1>3, <1>4
          DEF CommentsNext, threadVars, OpenComments, CloseComments, FetchReads, CommentsDropped,
              CommentsFailed, Write, SendComment, PostLands, CommentPosted, PostFailed, OthersComment,
              ToggleChecklist, UpdateLands, ChecklistUpdated, OthersTick

-----------------------------------------------------------------------------
(* The panel and the view model.                                           *)

LEMMA ShowingIsPanel ==
    ASSUME NEW d, IsPanel(d), NEW t, NEW list, IsList(list)
    PROVE  /\ IsPanel(Showing(d, t, list)) /\ Showing(d, t, list).thread = d.thread
           /\ Showing(d, t, list).text = d.text
<1>1. CASE d.thread # t
    BY <1>1 DEF Showing
<1>2. CASE d.thread = t
  <2>1. PICK e : e = [d EXCEPT !.as = t, !.list = list, !.loading = FALSE, !.sending = FALSE]
      OBVIOUS
  <2>2. /\ e = [thread |-> d.thread, as |-> t, list |-> list, loading |-> FALSE, text |-> d.text,
                sending |-> FALSE, enabled |-> d.enabled]
      BY <2>1 DEF IsPanel
  <2>3. IsPanel(e) /\ e.thread = d.thread /\ e.text = d.text
      BY <2>2 DEF IsPanel
  <2>4. QED BY <1>2, <2>1, <2>3 DEF Showing
<1>3. QED BY <1>1, <1>2

LEMMA LoadingIsModel ==
    ASSUME IsModel(vm), NEW t \in Threads \cup {NoThread}
    PROVE  /\ IsModel(Loading(vm, t)) /\ Loading(vm, t).thread = t
           /\ Loading(vm, t).list = vm.list /\ Loading(vm, t).revert = vm.revert
           /\ Loading(vm, t).pending = IF fetching.at = "idle" THEN vm.pending ELSE t
<1>1. PICK v : v = Loading(vm, t)
    OBVIOUS
<1>2. v = [thread |-> t, list |-> vm.list, mark |-> TRUE,
           pending |-> IF fetching.at = "idle" THEN vm.pending ELSE t, revert |-> vm.revert]
    BY <1>1 DEF Loading, IsModel
<1>3. QED BY <1>1, <1>2 DEF IsModel

\* A fetch is over: what waited is asked for, of the thread that is there.
LEMMA DrainedKeepsThePanel ==
    ASSUME NEW v, IsModel(v), NEW d, IsPanel(d), d.thread \in {NoThread, v.thread},
           v.pending # NoThread => v.pending = v.thread, Drained(v, d)
    PROVE  /\ PanelShape' /\ drawer'.thread = d.thread /\ drawer'.text = d.text
           /\ vm'.revert = v.revert
<1>1. CASE v.pending = NoThread
  <2>1. vm' = v /\ drawer' = d /\ fetching'.at = "idle"
      BY <1>1 DEF Drained, Idle
  <2>2. QED BY <1>1, <2>1 DEF PanelShape
<1>2. CASE v.pending # NoThread
  <2>1. PICK w : w = [v EXCEPT !.thread = v.pending, !.mark = TRUE, !.pending = NoThread]
      OBVIOUS
  <2>2. w = [thread |-> v.thread, list |-> v.list, mark |-> TRUE, pending |-> NoThread,
             revert |-> v.revert]
      BY <1>2, <2>1 DEF IsModel
  <2>3. PICK e : e = [d EXCEPT !.enabled = TRUE]
      OBVIOUS
  <2>4. e = [thread |-> d.thread, as |-> d.as, list |-> d.list, loading |-> d.loading,
             text |-> d.text, sending |-> d.sending, enabled |-> TRUE]
      BY <2>3 DEF IsPanel
  <2>5. vm' = w /\ drawer' = e /\ fetching'.at = "asked"
      BY <1>2, <2>1, <2>3 DEF Drained
  <2>6. IsModel(w) /\ IsPanel(e)
      BY <2>2, <2>4 DEF IsModel, IsPanel
  <2>7. QED BY <2>2, <2>4, <2>5, <2>6 DEF PanelShape
<1>3. QED BY <1>1, <1>2

\* What of the panel the text depends on.
TextKept == drawer'.thread = drawer.thread /\ drawer'.text = drawer.text

\* The results of a fetch.
LEMMA FetchesKeepThePanel ==
    ASSUME CommentsInv, CommentsLoaded \/ CommentsDropped \/ CommentsFailed
    PROVE  PanelShape' /\ TickShape' /\ TextKept
<1>0. PanelShape /\ TickShape
    BY DEF CommentsInv
<1>1. UNCHANGED ticking
    BY DEF CommentsLoaded, CommentsDropped, CommentsFailed
<1>2. PanelShape' /\ TextKept /\ vm'.revert = vm.revert
  <2>1. CASE CommentsLoaded
    <3>1. PICK v : v = [vm EXCEPT !.list = fetching.got, !.mark = FALSE]
        OBVIOUS
    <3>2. IsList(fetching.got)
        BY <1>0, <2>1 DEF CommentsLoaded, PanelShape
    <3>3. v = [thread |-> vm.thread, list |-> fetching.got, mark |-> FALSE, pending |-> vm.pending,
               revert |-> vm.revert]
        BY <1>0, <3>1 DEF PanelShape, IsModel
    <3>4. IsModel(v) /\ v.thread = vm.thread /\ v.pending = vm.pending /\ v.revert = vm.revert
        BY <1>0, <3>2, <3>3 DEF PanelShape, IsModel
    <3>5. PICK d : d = Showing(drawer, vm.thread, fetching.got)
        OBVIOUS
    <3>6. IsPanel(d) /\ d.thread = drawer.thread /\ d.text = drawer.text
        BY <1>0, <3>2, <3>5, ShowingIsPanel DEF PanelShape
    <3>7. Drained(v, d)
        BY <2>1, <3>1, <3>5 DEF CommentsLoaded
    <3>8. d.thread \in {NoThread, v.thread} /\ (v.pending # NoThread => v.pending = v.thread)
        BY <1>0, <3>4, <3>6 DEF PanelShape
    <3>9. QED BY <3>4, <3>6, <3>7, <3>8, DrainedKeepsThePanel DEF TextKept
  <2>2. CASE CommentsDropped
    <3>1. Drained(vm, drawer)
        BY <2>2 DEF CommentsDropped
    <3>2. QED BY <1>0, <3>1, DrainedKeepsThePanel DEF PanelShape, TextKept
  <2>3. CASE CommentsFailed
    <3>1. PICK d : d = [drawer EXCEPT !.loading = FALSE]
        OBVIOUS
    <3>2. d = [thread |-> drawer.thread, as |-> drawer.as, list |-> drawer.list, loading |-> FALSE,
               text |-> drawer.text, sending |-> drawer.sending, enabled |-> drawer.enabled]
        BY <1>0, <3>1 DEF PanelShape, IsPanel
    <3>3. IsPanel(d) /\ d.thread = drawer.thread /\ d.text = drawer.text
        BY <1>0, <3>2 DEF PanelShape, IsPanel
    <3>4. Drained(vm, d)
        BY <2>3, <3>1 DEF CommentsFailed
    <3>5. d.thread \in {NoThread, vm.thread} /\ (vm.pending # NoThread => vm.pending = vm.thread)
          /\ IsModel(vm)
        BY <1>0, <3>3 DEF PanelShape
    <3>6. QED BY <3>3, <3>4, <3>5, DrainedKeepsThePanel DEF TextKept
  <2>4. QED BY <2>1, <2>2, <2>3
<1>3. QED BY <1>0, <1>1, <1>2 DEF TickShape

\* Another thread is turned to, or the thread is loaded again after a post.
LEMMA LoadsKeepThePanel ==
    ASSUME CommentsInv, CommentPosted \/ \E t \in Threads : OpenComments(t)
    PROVE  PanelShape' /\ TickShape' /\ drawer'.text = NoText
<1>0. PanelShape /\ TickShape
    BY DEF CommentsInv
<1>1. CASE \E t \in Threads : OpenComments(t)
  <2>1. PICK t \in Threads : OpenComments(t)
      BY <1>1
  <2>2. IsPanel(drawer') /\ drawer'.thread = t /\ drawer'.text = NoText
    <3>1. drawer' = [thread |-> t, as |-> drawer.as, list |-> drawer.list, loading |-> TRUE,
                     text |-> NoText, sending |-> drawer.sending, enabled |-> TRUE]
        BY <1>0, <2>1 DEF OpenComments, PanelShape, IsPanel
    <3>2. QED BY <1>0, <3>1 DEF PanelShape, IsPanel
  <2>3. vm' = Loading(vm, t) /\ StartFetch(t) /\ UNCHANGED ticking
      BY <2>1 DEF OpenComments
  <2>4. /\ IsModel(vm') /\ vm'.thread = t /\ vm'.revert = vm.revert
        /\ vm'.pending = IF fetching.at = "idle" THEN vm.pending ELSE t
      BY <1>0, <2>3, LoadingIsModel DEF PanelShape
  <2>5. vm'.pending # NoThread => fetching'.at # "idle" /\ vm'.pending = vm'.thread
      BY <1>0, <2>3, <2>4 DEF PanelShape, StartFetch
  <2>6. fetching'.at = "read" => IsList(fetching'.got)
      BY <1>0, <2>3 DEF PanelShape, StartFetch
  <2>7. QED BY <1>0, <2>2, <2>3, <2>4, <2>5, <2>6 DEF PanelShape, TickShape
<1>2. CASE CommentPosted
  <2>0. PICK t \in Threads \cup {NoThread} : t = vm.thread
      BY <1>0 DEF PanelShape, IsModel
  <2>1. IsPanel(drawer') /\ drawer'.thread = drawer.thread /\ drawer'.text = NoText
    <3>1. drawer' = [thread |-> drawer.thread, as |-> drawer.as, list |-> drawer.list,
                     loading |-> drawer.loading, text |-> NoText, sending |-> FALSE, enabled |-> TRUE]
        BY <1>0, <1>2 DEF CommentPosted, PanelShape, IsPanel
    <3>2. QED BY <1>0, <3>1 DEF PanelShape, IsPanel
  <2>2. vm' = [Loading(vm, t) EXCEPT !.list = NoComments] /\ StartFetch(t) /\ UNCHANGED ticking
      BY <1>2, <2>0 DEF CommentPosted
  <2>3. PICK v : v = Loading(vm, t)
      OBVIOUS
  <2>4. /\ IsModel(v) /\ v.thread = t /\ v.revert = vm.revert
        /\ v.pending = IF fetching.at = "idle" THEN vm.pending ELSE t
      BY <1>0, <2>3, LoadingIsModel DEF PanelShape
  <2>5. vm' = [thread |-> v.thread, list |-> NoComments, mark |-> v.mark, pending |-> v.pending,
               revert |-> v.revert]
      BY <2>2, <2>3, <2>4 DEF IsModel
  <2>6. IsList(NoComments)
      BY DEF NoComments, IsList
  <2>7. IsModel(vm') /\ vm'.thread = t /\ vm'.revert = vm.revert /\ vm'.pending = v.pending
      BY <2>4, <2>5, <2>6 DEF IsModel
  <2>8. vm'.pending # NoThread => fetching'.at # "idle" /\ vm'.pending = vm'.thread
      BY <1>0, <2>0, <2>2, <2>4, <2>7 DEF PanelShape, StartFetch
  <2>9. fetching'.at = "read" => IsList(fetching'.got)
      BY <1>0, <2>2 DEF PanelShape, StartFetch
  <2>10. QED BY <1>0, <2>0, <2>1, <2>2, <2>7, <2>8, <2>9 DEF PanelShape, TickShape
<1>3. QED BY <1>1, <1>2

\* The panel is closed, written in, sent from, and told of a post that failed.
LEMMA FlagsKeepThePanel ==
    ASSUME CommentsInv, CloseComments \/ Write \/ SendComment \/ PostFailed
    PROVE  /\ PanelShape' /\ TickShape'
           /\ ~ Write => drawer'.text = drawer.text
           /\ drawer'.thread \in {NoThread, drawer.thread}
<1>0. PanelShape /\ TickShape
    BY DEF CommentsInv
<1>1. UNCHANGED << vm, fetching, ticking >>
    BY DEF CloseComments, Write, SendComment, PostFailed
<1>2. \E thread \in {NoThread, drawer.thread} :
        \E loading, text, sending :
           /\ drawer' = [thread |-> thread, as |-> drawer.as, list |-> drawer.list, loading |-> loading,
                         text |-> text, sending |-> sending, enabled |-> drawer.enabled]
           /\ ~ Write => text = drawer.text
  <2>1. CASE CloseComments
      BY <1>0, <2>1 DEF CloseComments, PanelShape, IsPanel
  <2>2. CASE Write
      BY <1>0, <2>2 DEF Write, PanelShape, IsPanel
  <2>3. CASE SendComment
      BY <1>0, <2>3 DEF SendComment, Post, PanelShape, IsPanel
  <2>4. CASE PostFailed
      BY <1>0, <2>4 DEF PostFailed, PanelShape, IsPanel
  <2>5. QED BY <2>1, <2>2, <2>3, <2>4
<1>3. PICK thread \in {NoThread, drawer.thread} :
        \E loading, text, sending :
           /\ drawer' = [thread |-> thread, as |-> drawer.as, list |-> drawer.list, loading |-> loading,
                         text |-> text, sending |-> sending, enabled |-> drawer.enabled]
           /\ ~ Write => text = drawer.text
    BY <1>2
<1>4. IsPanel(drawer') /\ drawer'.thread = thread /\ (~ Write => drawer'.text = drawer.text)
    BY <1>0, <1>3 DEF PanelShape, IsPanel
<1>5. QED BY <1>0, <1>1, <1>4 DEF PanelShape, TickShape

\* A thread is read, and ticks are written or refused.
LEMMA ReadsKeepThePanel ==
    ASSUME CommentsInv, FetchReads \/ UpdateLands
    PROVE  PanelShape' /\ TickShape' /\ TextKept
<1>0. PanelShape /\ TickShape /\ KitsuShape
    BY DEF CommentsInv
<1>1. UNCHANGED << vm, drawer >> /\ TextKept
    BY DEF FetchReads, UpdateLands, TextKept
<1>2. CASE FetchReads
  <2>1. UNCHANGED ticking /\ fetching'.at # "idle"
      BY <1>2 DEF FetchReads
  <2>2. fetching'.at = "read" => IsList(fetching'.got)
    <3>1. Len(kitsu) \in Nat /\ MaxComments \in Nat /\ DOMAIN kitsu = 1 .. Len(kitsu)
        BY <1>0, LenProperties, CommentsAssumption DEF KitsuShape
    <3>2. ASSUME NEW t PROVE IsList(Snapshot(t))
      <4>1. DOMAIN Snapshot(t) \subseteq DOMAIN kitsu /\ DOMAIN kitsu \subseteq 1 .. MaxComments
          BY <1>0, <3>1 DEF Snapshot, OfThread, KitsuShape
      <4>2. \A i \in DOMAIN kitsu : kitsu[i].ticks \subseteq Items
          BY <1>0, CommentAt DEF KitsuShape, Comment
      <4>3. \A i \in DOMAIN Snapshot(t) : Snapshot(t)[i] = kitsu[i].ticks
          BY DEF Snapshot, Ticks
      <4>4. QED BY <4>1, <4>2, <4>3 DEF IsList
    <3>3. fetching'.at = "failed" \/ fetching'.got = Snapshot(fetching.thread)
        BY <1>2 DEF FetchReads
    <3>4. QED BY <3>2, <3>3
  <2>3. QED BY <1>0, <1>1, <2>1, <2>2 DEF PanelShape, TickShape
<1>3. CASE UpdateLands
  <2>1. UNCHANGED fetching /\ ticking.at = "asked"
      BY <1>3 DEF UpdateLands
  <2>2. \E at : ticking' = [ticking EXCEPT !.at = at]
      BY <1>3 DEF UpdateLands
  <2>3. PICK at : ticking' = [at |-> at, id |-> ticking.id, ticks |-> ticking.ticks]
      BY <1>0, <2>1, <2>2 DEF TickShape
  <2>4. QED BY <1>0, <1>1, <2>1, <2>3 DEF PanelShape, TickShape
<1>4. QED BY <1>2, <1>3

\* A list with other ticks at one comment.
LEMMA ListsAreTicked ==
    ASSUME NEW list, IsList(list), NEW i, NEW ticks \in SUBSET Items,
           NEW new, new = [list EXCEPT ![i] = ticks]
    PROVE  IsList(new) /\ DOMAIN new = DOMAIN list /\ (i \in DOMAIN list => new[i] = ticks)
<1>1. DOMAIN new = DOMAIN list /\ \A j \in DOMAIN list : new[j] = IF j = i THEN ticks ELSE list[j]
    OBVIOUS
<1>2. QED BY <1>1 DEF IsList

\* A box is ticked.
LEMMA TogglesKeepThePanel ==
    ASSUME CommentsInv, NEW i, NEW item \in Items, ToggleChecklist(i, item)
    PROVE  PanelShape' /\ TickShape' /\ TextKept
<1>0. PanelShape /\ TickShape
    BY DEF CommentsInv
<1>1. PICK ticks : ticks = Flipped(drawer.list[i], item)
    OBVIOUS
<1>2. i \in DOMAIN drawer.list /\ UNCHANGED fetching
    BY DEF ToggleChecklist
<1>3. ticks \in SUBSET Items
    BY <1>0, <1>1, <1>2 DEF PanelShape, IsPanel, IsList, Flipped
<1>4. CASE drawer' = [drawer EXCEPT !.list[i] = ticks] /\ UNCHANGED << vm, ticking >>
  <2>1. PICK list : list = [drawer.list EXCEPT ![i] = ticks]
      OBVIOUS
  <2>2. IsList(list)
      BY <1>0, <1>3, <2>1, ListsAreTicked DEF PanelShape, IsPanel
  <2>3. drawer' = [thread |-> drawer.thread, as |-> drawer.as, list |-> list, loading |-> drawer.loading,
                   text |-> drawer.text, sending |-> drawer.sending, enabled |-> drawer.enabled]
      BY <1>0, <1>4, <2>1 DEF PanelShape, IsPanel
  <2>4. IsPanel(drawer') /\ TextKept
      BY <2>2, <2>3 DEF IsPanel, TextKept
  <2>5. QED BY <1>0, <1>2, <1>4, <2>4 DEF PanelShape, TickShape, TextKept
<1>5. CASE ticking.at = "idle" /\ i \in DOMAIN vm.list /\ ~ (UNCHANGED ticking)
  <2>1. PICK list : list = [vm.list EXCEPT ![i] = IF item \in ticks THEN @ \union {item} ELSE @ \ {item}]
      OBVIOUS
  <2>2. PICK mine : mine = IF item \in ticks THEN vm.list[i] \union {item} ELSE vm.list[i] \ {item}
      OBVIOUS
  <2>3. mine \in SUBSET Items /\ vm.list[i] \in SUBSET Items /\ list = [vm.list EXCEPT ![i] = mine]
      BY <1>0, <1>5, <2>1, <2>2 DEF PanelShape, IsModel, IsList
  <2>4. IsList(list) /\ list[i] = mine
      BY <1>0, <1>5, <2>3, ListsAreTicked DEF PanelShape, IsModel
  <2>5. /\ vm' = [vm EXCEPT !.list = list, !.revert = <<i, vm.list[i]>>]
        /\ drawer' = [Showing(drawer, vm.thread, list) EXCEPT !.enabled = FALSE]
        /\ ticking' = [at |-> "asked", id |-> i, ticks |-> list[i]]
      BY <1>1, <1>5, <2>1 DEF ToggleChecklist
  <2>6. vm' = [thread |-> vm.thread, list |-> list, mark |-> vm.mark, pending |-> vm.pending,
               revert |-> <<i, vm.list[i]>>]
      BY <1>0, <2>5 DEF PanelShape, IsModel
  <2>7. /\ IsModel(vm') /\ vm'.thread = vm.thread /\ vm'.pending = vm.pending
        /\ vm'.revert = <<i, vm.list[i]>>
      BY <1>0, <2>4, <2>6 DEF PanelShape, IsModel
  <2>8. IsPanel(drawer') /\ drawer'.thread = drawer.thread /\ drawer'.text = drawer.text
    <3>1. PICK d : d = Showing(drawer, vm.thread, list)
        OBVIOUS
    <3>2. IsPanel(d) /\ d.thread = drawer.thread /\ d.text = drawer.text
        BY <1>0, <2>4, <3>1, ShowingIsPanel DEF PanelShape
    <3>3. drawer' = [thread |-> d.thread, as |-> d.as, list |-> d.list, loading |-> d.loading,
                     text |-> d.text, sending |-> d.sending, enabled |-> FALSE]
        BY <2>5, <3>1, <3>2 DEF IsPanel
    <3>4. QED BY <3>2, <3>3 DEF IsPanel
  <2>9. PanelShape' /\ TextKept
      BY <1>0, <1>2, <2>7, <2>8 DEF PanelShape, TextKept
  <2>10. ticking' = [at |-> "asked", id |-> i, ticks |-> mine]
      BY <2>4, <2>5
  <2>11. TickShape'
      BY <2>3, <2>7, <2>10 DEF TickShape
  <2>12. QED BY <2>9, <2>11
<1>6. QED BY <1>1, <1>4, <1>5 DEF ToggleChecklist

\* The server's list comes back, or the old one.
LEMMA UpdatesKeepThePanel ==
    ASSUME CommentsInv, ChecklistUpdated
    PROVE  PanelShape' /\ TickShape' /\ TextKept
<1>0. PanelShape /\ TickShape
    BY DEF CommentsInv
<1>1. PICK back : back = IF ticking.at = "landed" THEN ticking.ticks ELSE vm.revert[2]
    OBVIOUS
<1>2. PICK list : list = IF ticking.id \in DOMAIN vm.list THEN [vm.list EXCEPT ![ticking.id] = back]
                         ELSE vm.list
    OBVIOUS
<1>3. ticking.at # "idle" /\ UNCHANGED fetching /\ ticking' = Idle
    BY DEF ChecklistUpdated
<1>4. back \in SUBSET Items
  <2>1. PICK old \in SUBSET Items : vm.revert = << ticking.id, old >>
      BY <1>0, <1>3 DEF TickShape
  <2>2. vm.revert[2] = old
      BY <2>1
  <2>3. ticking.ticks \in SUBSET Items
      BY <1>0, <1>3 DEF TickShape
  <2>4. QED BY <1>1, <2>2, <2>3
<1>5. IsList(list)
  <2>1. PICK new : new = [vm.list EXCEPT ![ticking.id] = back]
      OBVIOUS
  <2>2. IsList(vm.list)
      BY <1>0 DEF PanelShape, IsModel
  <2>3. DOMAIN new = DOMAIN vm.list
        /\ \A j \in DOMAIN vm.list : new[j] = IF j = ticking.id THEN back ELSE vm.list[j]
      BY <2>1
  <2>4. IsList(new)
      BY <1>4, <2>2, <2>3 DEF IsList
  <2>5. QED BY <1>2, <2>1, <2>2, <2>4
<1>6. /\ vm' = [vm EXCEPT !.list = list, !.revert = << >>]
      /\ drawer' = [Showing(drawer, vm.thread, list) EXCEPT !.enabled = TRUE]
    BY <1>1, <1>2 DEF ChecklistUpdated
<1>7. vm' = [thread |-> vm.thread, list |-> list, mark |-> vm.mark, pending |-> vm.pending,
             revert |-> << >>]
    BY <1>0, <1>6 DEF PanelShape, IsModel
<1>8. IsModel(vm') /\ vm'.thread = vm.thread /\ vm'.pending = vm.pending
    BY <1>0, <1>5, <1>7 DEF PanelShape, IsModel
<1>9. IsPanel(drawer') /\ drawer'.thread = drawer.thread /\ drawer'.text = drawer.text
  <2>1. PICK d : d = Showing(drawer, vm.thread, list)
      OBVIOUS
  <2>2. IsPanel(d) /\ d.thread = drawer.thread /\ d.text = drawer.text
      BY <1>0, <1>5, <2>1, ShowingIsPanel DEF PanelShape
  <2>3. drawer' = [thread |-> d.thread, as |-> d.as, list |-> d.list, loading |-> d.loading,
                   text |-> d.text, sending |-> d.sending, enabled |-> TRUE]
      BY <1>6, <2>1, <2>2 DEF IsPanel
  <2>4. QED BY <2>2, <2>3 DEF IsPanel
<1>10. TickShape'
    BY <1>3 DEF TickShape, Idle
<1>11. QED BY <1>0, <1>3, <1>8, <1>9, <1>10 DEF PanelShape, TextKept

\* All steps keep the panel; the text in it is dropped, written, or stays for its thread.
LEMMA PanelSteps ==
    ASSUME CommentsInv, [CommentsNext]_threadVars
    PROVE  /\ PanelShape' /\ TickShape'
           /\ \/ Write
              \/ drawer'.text = NoText
              \/ drawer'.text = drawer.text /\ drawer'.thread \in {NoThread, drawer.thread}
<1>1. CASE CommentsLoaded \/ CommentsDropped \/ CommentsFailed
    BY <1>1, FetchesKeepThePanel DEF TextKept
<1>2. CASE CommentPosted \/ \E t \in Threads : OpenComments(t)
    BY <1>2, LoadsKeepThePanel
<1>3. CASE CloseComments \/ Write \/ SendComment \/ PostFailed
    BY <1>3, FlagsKeepThePanel
<1>4. CASE FetchReads \/ UpdateLands
    BY <1>4, ReadsKeepThePanel DEF TextKept
<1>5. CASE \E i \in 1..MaxComments, item \in Items : ToggleChecklist(i, item)
    BY <1>5, TogglesKeepThePanel DEF TextKept
<1>6. CASE ChecklistUpdated
    BY <1>6, UpdatesKeepThePanel DEF TextKept
<1>7. CASE UNCHANGED << drawer, vm, fetching, ticking >>
    BY <1>7 DEF CommentsInv, PanelShape, TickShape
<1>8. QED BY <1>1, <1>2, <1>3, <1>4, <1>5, <1>6, <1>7
          DEF CommentsNext, threadVars, OthersComment, PostLands, RefreshCommentCounts, SummaryReads,
              CommentSummary, OthersTick

-----------------------------------------------------------------------------
(* The texts.                                                              *)

\* A post begins with the text of the panel, and ends when the panel is told.
LEMMA PostsAreSteps ==
    ASSUME CommentsInv, [CommentsNext]_threadVars
    PROVE  \/ UNCHANGED posting
           \/ /\ SendComment /\ posting.at = "idle" /\ drawer.thread # NoThread /\ drawer.text # NoText
              /\ posting' = [at |-> "asked", thread |-> vm.thread, text |-> drawer.text]
           \/ PostLands
           \/ posting'.at = "idle" /\ posting.at # "landed"
           \/ posting'.at = "idle" /\ drawer'.text = NoText
<1>0. PanelShape
    BY DEF CommentsInv
<1>1. CASE SendComment
    BY <1>1 DEF SendComment, Post
<1>2. CASE CommentPosted
  <2>1. drawer'.text = NoText
      BY <1>2, LoadsKeepThePanel
  <2>2. posting'.at = "idle"
      BY <1>2 DEF CommentPosted, Idle
  <2>3. QED BY <2>1, <2>2
<1>3. CASE PostFailed
    BY <1>3 DEF PostFailed, Idle
<1>4. CASE PostLands \/ UNCHANGED posting
    BY <1>4
<1>5. QED BY <1>1, <1>2, <1>3, <1>4
          DEF CommentsNext, threadVars, OpenComments, CloseComments, FetchReads, CommentsLoaded,
              CommentsDropped, CommentsFailed, Write, ToggleChecklist, UpdateLands, ChecklistUpdated,
              RefreshCommentCounts, SummaryReads, CommentSummary, OthersComment, OthersTick

\* A text that was posted was written before.
LEMMA PostedBefore ==
    ASSUME KitsuShape, NEW text \in PostedTexts
    PROVE  text \in Written /\ text.n <= acts
<1>1. PICK i \in Mine : text = kitsu[i].text
    BY DEF PostedTexts
<1>2. i \in DOMAIN kitsu /\ kitsu[i].text # NoText /\ kitsu[i].text.n <= acts
    BY DEF KitsuShape, Mine
<1>3. kitsu[i] \in Comment
    BY <1>2, CommentAt DEF KitsuShape
<1>4. QED BY <1>1, <1>2, <1>3 DEF Comment

LEMMA DrawerTextSteps ==
    ASSUME CommentsInv, [CommentsNext]_threadVars
    PROVE  DrawerText'
<1>0. /\ KitsuShape /\ PanelShape /\ DrawerText /\ PostingText
      /\ acts \in Nat /\ acts' \in Nat /\ acts <= acts'
    BY ActsGrow DEF CommentsInv
<1>1. CASE Write
  <2>1. drawer.thread \in Threads /\ drawer.thread # NoThread /\ acts' = acts + 1
        /\ UNCHANGED << kitsu, posting >>
      BY <1>0, <1>1 DEF Write, Act, PanelShape, IsModel
  <2>2. drawer' = [drawer EXCEPT !.text = [n |-> acts', for |-> drawer.thread]]
      BY <1>1 DEF Write
  <2>3. PICK text : text = [n |-> acts', for |-> drawer.thread]
      OBVIOUS
  <2>4. text \in Written /\ text.n = acts' /\ text.for = drawer.thread
      BY <1>0, <2>1, <2>3 DEF Written
  <2>5. drawer'.text = text /\ drawer'.thread = drawer.thread
      BY <1>0, <2>2, <2>3 DEF PanelShape, IsPanel
  <2>6. text \notin PostedTexts
    <3> SUFFICES ASSUME text \in PostedTexts PROVE FALSE
        OBVIOUS
    <3>1. text.n <= acts
        BY <1>0, PostedBefore
    <3>2. QED BY <1>0, <2>1, <2>4, <3>1
  <2>7. PostedTexts' = PostedTexts
      BY <2>1 DEF PostedTexts, Mine
  <2>8. QED BY <1>0, <2>4, <2>5, <2>6, <2>7 DEF DrawerText
<1>2. CASE drawer'.text = NoText
    BY <1>2 DEF DrawerText
<1>3. CASE drawer'.text = drawer.text /\ drawer'.thread \in {NoThread, drawer.thread} /\ drawer.text # NoText
  <2>1. /\ drawer'.text \in Written /\ drawer'.text.n <= acts
        /\ drawer'.thread # NoThread => drawer'.text.for = drawer'.thread
      BY <1>0, <1>3 DEF DrawerText
  <2>2. drawer'.text.n \in Nat
      BY <2>1 DEF Written
  <2>3. drawer'.text.n <= acts'
      BY <1>0, <2>1, <2>2
  <2>4. posting'.at # "landed" => drawer'.text \notin PostedTexts'
    <3>1. CASE posting'.at = "landed"
        BY <3>1
    <3>2. CASE posting'.at # "landed"
      <4>1. PostedTexts' = PostedTexts
          BY <3>2, KitsuSteps
      <4>2. posting.at # "landed"
          BY <1>3, <3>2, PostsAreSteps DEF PostLands
      <4>3. QED BY <1>0, <1>3, <4>1, <4>2 DEF DrawerText
    <3>3. QED BY <3>1, <3>2
  <2>5. QED BY <2>1, <2>3, <2>4 DEF DrawerText
<1>4. QED BY <1>1, <1>2, <1>3, PanelSteps

LEMMA PostingTextSteps ==
    ASSUME CommentsInv, [CommentsNext]_threadVars
    PROVE  PostingText'
<1>0. /\ PanelShape /\ DrawerText /\ PostingText
      /\ acts \in Nat /\ acts' \in Nat /\ acts <= acts'
    BY ActsGrow DEF CommentsInv
<1>1. CASE posting'.at = "idle"
    BY <1>1 DEF PostingText
<1>2. CASE SendComment /\ posting.at = "idle" /\ drawer.thread # NoThread /\ drawer.text # NoText
           /\ posting' = [at |-> "asked", thread |-> vm.thread, text |-> drawer.text]
  <2>1. drawer.text \in Written /\ drawer.text.n <= acts /\ drawer.text.for = drawer.thread
        /\ drawer.text \notin PostedTexts /\ drawer.thread = vm.thread
      BY <1>0, <1>2 DEF DrawerText, PanelShape
  <2>2. drawer.text.n \in Nat
      BY <2>1 DEF Written
  <2>3. drawer.text.n <= acts'
      BY <1>0, <2>1, <2>2
  <2>4. PostedTexts' = PostedTexts
      BY <1>2 DEF SendComment, PostedTexts, Mine
  <2>5. QED BY <1>2, <2>1, <2>3, <2>4 DEF PostingText
<1>3. CASE PostLands \/ (UNCHANGED posting /\ posting.at # "idle")
  <2>1. posting.at # "idle"
      BY <1>3 DEF PostLands
  <2>2. /\ posting = [at |-> posting.at, thread |-> posting.thread, text |-> posting.text]
        /\ posting.text \in Written /\ posting.text.n <= acts /\ posting.text.for = posting.thread
        /\ (posting.at = "asked" => posting.text \notin PostedTexts)
      BY <1>0, <2>1 DEF PostingText
  <2>3. posting.text.n \in Nat
      BY <2>2 DEF Written
  <2>4. posting.text.n <= acts'
      BY <1>0, <2>2, <2>3
  <2>5. CASE PostLands
    <3>1. posting' = [posting EXCEPT !.at = "landed"] \/ posting' = [posting EXCEPT !.at = "failed"]
        BY <2>5 DEF PostLands
    <3>2. PICK at \in {"landed", "failed"} :
               posting' = [at |-> at, thread |-> posting.thread, text |-> posting.text]
        BY <2>2, <3>1
    <3>3. QED BY <2>2, <2>4, <3>2 DEF PostingText
  <2>6. CASE UNCHANGED posting /\ posting'.at # "asked"
      BY <2>2, <2>4, <2>6 DEF PostingText
  <2>7. CASE UNCHANGED posting /\ posting'.at = "asked"
    <3>1. PostedTexts' = PostedTexts
        BY <2>7, KitsuSteps
    <3>2. QED BY <2>2, <2>4, <2>7, <3>1 DEF PostingText
  <2>8. QED BY <1>3, <2>5, <2>6, <2>7
<1>4. QED BY <1>1, <1>2, <1>3, PostsAreSteps

LEMMA CommentsSteps == CommentsInv /\ [CommentsNext]_threadVars => CommentsInv'
BY ActsGrow, KitsuSteps, SeenSteps, PanelSteps, DrawerTextSteps, PostingTextSteps DEF CommentsInv

LEMMA CommentsHold == CommentsSpec => []CommentsInv
BY CommentsStart, CommentsSteps, PTL DEF CommentsSpec

\* What is stored as seen was brought to this Hub: a comment of somebody else that was
\* never fetched is flagged when it is counted.
THEOREM SeenIsFetched == CommentsSpec => []SeenWasFetched
<1>1. CommentsInv => SeenWasFetched
    BY DEF CommentsInv, SeenShape, SeenWasFetched
<1>2. QED BY <1>1, CommentsHold, PTL

\* A text is posted on the thread it was written for, and not again once Kitsu has
\* answered for it, whatever posts were refused, whatever answers were lost and whatever
\* thread was turned to meanwhile.
THEOREM PostsAreOnce == CommentsSpec => []PostedOnceWhereWritten
<1>1. ASSUME CommentsInv
      PROVE  PostedOnceWhereWritten
  <2>1. KitsuShape
      BY <1>1 DEF CommentsInv
  <2>2. \A i \in Mine : kitsu[i].text.for = kitsu[i].of /\ kitsu[i].text # NoText
      BY <2>1 DEF KitsuShape
  <2>3. \A i \in Mine, j \in DOMAIN kitsu : kitsu[j].text = kitsu[i].text => j \in Mine
      BY <2>1, <2>2 DEF KitsuShape, Mine
  <2>4. QED BY <2>1, <2>2, <2>3 DEF KitsuShape, Mine, PostedOnceWhereWritten
<1>2. QED BY <1>1, CommentsHold, PTL

\* The server, the drawer, the view model and the workers keep their shape.
LEMMA CommentsAreTyped == CommentsSpec => []CommentsTypeOK
<1>1. ASSUME CommentsInv
      PROVE  CommentsTypeOK
  <2>1. \A i \in DOMAIN kitsu : kitsu[i].of \in Threads /\ kitsu[i].ticks \subseteq Items
      BY <1>1, CommentAt DEF CommentsInv, KitsuShape, Comment
  <2>2. ticking.at # "idle" => vm.revert # << >> /\ vm.revert[1] = ticking.id
    <3> SUFFICES ASSUME ticking.at # "idle" PROVE vm.revert # << >> /\ vm.revert[1] = ticking.id
        OBVIOUS
    <3>1. PICK old \in SUBSET Items : vm.revert = << ticking.id, old >>
        BY <1>1 DEF CommentsInv, TickShape
    <3>2. QED BY <3>1
  <2>3. QED BY <1>1, <2>1, <2>2
            DEF CommentsInv, PanelShape, IsPanel, IsModel, SeenShape, CommentsTypeOK
<1>2. QED BY <1>1, CommentsHold, PTL

(***************************************************************************)
(* Side by side.                                                           *)
(***************************************************************************)

\* A behaviour is about one of the three.
OnePart == part \in {"comments", "files", "board"}

\* A behaviour of the composition is one of each tool.
LEMMA ToolsRun == Spec => CommentsSpec /\ TaskFilesSpec /\ BoardSpec /\ []OnePart
<1>1. Init => CommentsInit /\ FilesTaskInit /\ BoardInit /\ OnePart
    BY DEF Init, OnePart
<1>2. ASSUME [Next]_tools
      PROVE  [CommentsNext]_threadVars /\ [TaskFilesNext]_fileVars /\ [BoardNext]_<<page, boardVars>>
    BY <1>2 DEF Next, tools
<1>3. ASSUME OnePart, [Next]_tools
      PROVE  OnePart'
    BY <1>3 DEF Next, tools, OnePart
<1>4. QED BY <1>1, <1>2, <1>3, PTL DEF Spec, CommentsSpec, TaskFilesSpec, BoardSpec

\* Every part keeps its types.
THEOREM ToolsAreTyped == Spec => []TasksTypeOK
<1>1. CommentsTypeOK /\ TaskFilesTypeOK /\ BoardTypeOK /\ OnePart => TasksTypeOK
    BY DEF TasksTypeOK, OnePart
<1>2. TaskFilesSpec => []TaskFilesTypeOK
  <2>1. FilesInv => TaskFilesTypeOK
      BY DEF FilesInv
  <2>2. QED BY <2>1, FilesHold, PTL
<1>3. QED BY <1>1, <1>2, ToolsRun, CommentsAreTyped, BoardIsTyped, PTL

\* A comment is posted where it was written, and not again once it was answered for;
\* a thread counts as seen up to what was fetched of it.
THEOREM ToolsShowWhatIs == Spec => []ShownAsItIs
<1>1. PostedOnceWhereWritten /\ SeenWasFetched => ShownAsItIs
    BY DEF ShownAsItIs
<1>2. QED BY <1>1, ToolsRun, SeenIsFetched, PostsAreOnce, PTL

\* No answer takes away the last responsible of a task that is handed over, the work in
\* a file that was there when the worker looked, or the badge of a card.
THEOREM ToolsTakeNothing == Spec => NothingTaken
<1>1. SomebodyStays /\ NeverEmptied /\ BadgesSurvive => NothingTaken
    BY DEF NothingTaken
<1>2. QED BY <1>1, ToolsRun, SomebodyAlwaysStays, WorkIsNeverEmptied, BadgesAlwaysSurvive, PTL
=============================================================================
