------------------------------ MODULE TaskFiles ------------------------------
(***************************************************************************)
(* Which .blend file belongs to a task.  The link lives in the task's      *)
(* custom data in Kitsu; NamingPolicy says where the file of an entity is  *)
(* expected; TaskFileResolver finds the file a card opens, the production  *)
(* audit says which tasks have their file, and the link dialog of the      *)
(* batch desk writes the link and makes an empty file.                     *)
(*                                                                         *)
(* A file is named by the task it was made for, by the spelling of the     *)
(* asset's name it was made under (the folder and the stem follow the      *)
(* name) and by its version.  Confusable says which files' names match a   *)
(* task that is not theirs: the resolver compares tokens by prefix.  The   *)
(* end of a worker is handled with its result.                             *)
(***************************************************************************)
EXTENDS Naturals, FiniteSets

CONSTANTS
    FileTasks,     \* the tasks, all of one asset type
    AssetOf,       \* task -> its asset
    DirtyAssets,   \* assets whose Kitsu name is not the sanitized one
    Confusable,    \* pairs <<t, u>>: the name of a file of u also matches t
    MaxFileEdits,      \* bound: what artists and colleagues do
    MaxOpenings,   \* bound: audits and link dialogs
    MaxRefused,    \* bound: writes that Kitsu refuses
    NoPath, NoWindow, NoWork

ASSUME TaskFilesAssumption ==
    /\ Confusable \subseteq FileTasks \X FileTasks
    /\ {MaxFileEdits, MaxOpenings, MaxRefused} \subseteq Nat

VARIABLES
    disk,      \* the files in the production folder
    worked,    \* those of them that hold somebody's work
    link,      \* task -> the path in its custom data
    spelling,  \* asset -> "dirty" or "clean": its name in Kitsu
    auditRows,      \* the audit the desk shows: task -> link and file, or NoWindow
    window,    \* the link dialog
    writer,    \* the "task_file" worker
    came,      \* history: the files that came to be since it looked
    did        \* the counters behind the bounds

fileVars == << disk, worked, link, spelling, auditRows, window, writer, came, did >>

Assets == {AssetOf[t] : t \in FileTasks}
Spellings(a) == IF a \in DirtyAssets THEN {"dirty", "clean"} ELSE {"clean"}

Blends == {f \in [of : FileTasks, under : {"dirty", "clean"}, version : 0 .. 1] :
             f.under \in Spellings(AssetOf[f.of])}

NothingYet == [edits |-> 0, openings |-> 0, refused |-> 0]

Can(what, bound) == did[what] < bound
Count(what) == did' = [did EXCEPT ![what] = @ + 1]

FilesTaskInit ==
    /\ disk = {} /\ worked = {}
    /\ link = [t \in FileTasks |-> NoPath]
    /\ spelling = [a \in Assets |-> IF a \in DirtyAssets THEN "dirty" ELSE "clean"]
    /\ auditRows = NoWindow /\ window = NoWindow /\ writer = NoWork
    /\ came = {} /\ did = NothingYet

Copying == writer # NoWork /\ writer.action = "copy"
Noted == came' = IF Copying THEN came \cup (disk' \ disk) ELSE came

-----------------------------------------------------------------------------
(* Where a task's file is.                                                 *)

\* NamingPolicy: folder and stem follow the entity's present name.
Expected(t) == [of |-> t, under |-> spelling[AssetOf[t]], version |-> 0]

NameFits(f, t) == f.of = t \/ <<t, f.of>> \in Confusable

SameFolder(f, g) == AssetOf[f.of] = AssetOf[g.of] /\ f.under = g.under

\* The highest version wins; among equals the file touched last does.
NewestOf(found) == {f \in found : \A g \in found : g.version <= f.version}

ScanFolder(t) == NewestOf({f \in disk : SameFolder(f, Expected(t)) /\ NameFits(f, t)})
ScanScope(t)  == NewestOf({f \in disk : NameFits(f, t)})

ExpectedOrFound(t) == IF Expected(t) \in disk THEN ScanFolder(t) ELSE ScanScope(t)

\* The files the resolver may return, empty when the task has none.
ResolveFile(t) == IF link[t] \in disk THEN {link[t]} ELSE ExpectedOrFound(t)

\* The audit takes the link literally.
HasFile(t) == link[t] \in disk
HasAllFiles(a) == \A t \in FileTasks : AssetOf[t] = a => HasFile(t)

-----------------------------------------------------------------------------
(* Artists, colleagues and the batch.                                      *)

\* An artist opens what the card resolves to and saves it, or saves the next
\* version beside it.
SaveWork(t) ==
    /\ Can("edits", MaxFileEdits) /\ Count("edits")
    /\ \E f \in ResolveFile(t), v \in 0 .. 1 :
         /\ v >= f.version
         /\ disk' = disk \cup {[f EXCEPT !.version = v]}
         /\ worked' = worked \cup {[f EXCEPT !.version = v]}
    /\ Noted /\ UNCHANGED << link, spelling, auditRows, window, writer >>

\* The batch makes a task's first file; its link may be refused by Kitsu.
SpawnFile(t) ==
    /\ Can("edits", MaxFileEdits) /\ Count("edits")
    /\ Expected(t) \notin disk
    /\ disk' = disk \cup {Expected(t)}
    /\ link' \in {link, [link EXCEPT ![t] = Expected(t)]}
    /\ Noted /\ UNCHANGED << worked, spelling, auditRows, window, writer >>

RemoveFile(f) ==
    /\ Can("edits", MaxFileEdits) /\ Count("edits")
    /\ disk' = disk \ {f} /\ worked' = worked \ {f}
    /\ UNCHANGED << link, spelling, auditRows, window, writer, came >>

-----------------------------------------------------------------------------
(* The production audit.                                                   *)

Row(t) == [link |-> link[t], there |-> HasFile(t)]

\* Names are normalized as a side effect, unless every task of the asset has
\* its file; Kitsu may refuse.
Renamed(a) == IF HasAllFiles(a) THEN spelling[a] ELSE "clean"

AuditProduction ==
    /\ window = NoWindow
    /\ Can("openings", MaxOpenings) /\ Count("openings")
    /\ spelling' \in {spelling, [a \in Assets |-> Renamed(a)]}
    /\ auditRows' = [t \in FileTasks |-> Row(t)]
    /\ UNCHANGED << disk, worked, link, window, writer, came >>

-----------------------------------------------------------------------------
(* The link dialog.                                                        *)

\* It proposes the link that the audit has shown, else the expected path.
Suggested(t) == IF auditRows[t].link # NoPath THEN auditRows[t].link ELSE Expected(t)

OpenWindow(t) ==
    /\ window = NoWindow /\ auditRows # NoWindow
    /\ Can("openings", MaxOpenings) /\ Count("openings")
    /\ window' = [task |-> t, path |-> Suggested(t), busy |-> FALSE]
    /\ UNCHANGED << disk, worked, link, spelling, auditRows, writer, came >>

\* "Browse existing..." takes a file inside the production folder; the field
\* may also be emptied.
ChoosePath ==
    /\ window # NoWindow /\ ~ window.busy
    /\ \E f \in disk \cup {NoPath} : f # window.path
                                     /\ window' = [window EXCEPT !.path = f]
    /\ Can("edits", MaxFileEdits) /\ Count("edits")
    /\ UNCHANGED << disk, worked, link, spelling, auditRows, writer, came >>

\* The dialog is busy from here on, whether the ViewModel starts the worker
\* or finds another one running.
Press(action) ==
    /\ window # NoWindow /\ ~ window.busy
    /\ window' = [window EXCEPT !.busy = TRUE]
    /\ writer' = IF writer = NoWork
                 THEN [task |-> window.task, action |-> action, path |-> window.path,
                       result |-> "none"]
                 ELSE writer
    /\ UNCHANGED << disk, worked, link, spelling, auditRows, came, did >>

\* Cancel and Escape stay open to a busy dialog.
CloseWindow ==
    /\ window # NoWindow
    /\ window' = NoWindow
    /\ UNCHANGED << disk, worked, link, spelling, auditRows, writer, came, did >>

-----------------------------------------------------------------------------
(* TaskFileWorker.                                                         *)

\* The worker looks: an empty file is made only at a path where nothing is.
Copies(path) == path \notin disk

CreateEmpty ==
    /\ writer # NoWork /\ writer.action = "create_empty"
    /\ writer' = IF writer.path = NoPath
                 THEN [writer EXCEPT !.result = "failed", !.action = "link"]
                 ELSE [writer EXCEPT !.action = IF Copies(writer.path) THEN "copy" ELSE "link"]
    /\ came' = {}
    /\ UNCHANGED << disk, worked, link, spelling, auditRows, window, did >>

\* It copies the empty master, which Blender may have to make first: whatever
\* is at the path by then is written over.  Blender may fail, and the copy may
\* break off and leave what it wrote.
CopyMaster ==
    /\ Copying
    /\ \/ /\ disk' = disk \cup {writer.path} /\ worked' = worked \ {writer.path}
          /\ writer' \in {[writer EXCEPT !.action = "link"],
                         [writer EXCEPT !.action = "link", !.result = "failed"]}
       \/ /\ writer' = [writer EXCEPT !.action = "link", !.result = "failed"]
          /\ UNCHANGED << disk, worked >>
    /\ came' = {}
    /\ UNCHANGED << link, spelling, auditRows, window, did >>

\* Kitsu merges what it is sent into the custom data it has.
Merged(t, path) == IF path = NoPath THEN link ELSE [link EXCEPT ![t] = path]

WriteLink ==
    /\ writer # NoWork /\ writer.result = "none" /\ writer.action \in {"link", "unlink"}
    /\ LET path == IF writer.action = "unlink" THEN NoPath ELSE writer.path IN
       \/ /\ writer.action = "link" /\ writer.path = NoPath
          /\ writer' = [writer EXCEPT !.result = "failed"]
          /\ UNCHANGED << link, did >>
       \/ /\ writer.action = "link" => writer.path # NoPath
          /\ link' = Merged(writer.task, path)
          /\ writer' = [writer EXCEPT !.result = "done"]
          /\ UNCHANGED did
       \/ /\ Can("refused", MaxRefused) /\ Count("refused")
          /\ writer' = [writer EXCEPT !.result = "failed"]
          /\ link' \in {link, Merged(writer.task, path)}
    /\ UNCHANGED << disk, worked, spelling, auditRows, window, came >>

\* Whichever dialog is open takes the answer: a success closes it and the
\* desk audits again, a failure frees it.
OnFinished(ok) == IF window = NoWindow \/ ok THEN NoWindow
                  ELSE [window EXCEPT !.busy = FALSE]

WriterFinished ==
    /\ writer # NoWork /\ writer.result # "none"
    /\ window' = OnFinished(writer.result = "done")
    /\ auditRows' = IF window # NoWindow /\ writer.result = "done"
               THEN [t \in FileTasks |-> Row(t)] ELSE auditRows
    /\ spelling' = IF auditRows' = auditRows THEN spelling ELSE [a \in Assets |-> Renamed(a)]
    /\ writer' = NoWork
    /\ UNCHANGED << disk, worked, link, came, did >>

TaskFilesNext ==
    \/ \E t \in FileTasks : SaveWork(t) \/ SpawnFile(t) \/ OpenWindow(t)
    \/ \E f \in disk : RemoveFile(f)
    \/ AuditProduction \/ ChoosePath \/ CloseWindow
    \/ \E action \in {"link", "create_empty", "unlink"} : Press(action)
    \/ CreateEmpty \/ CopyMaster \/ WriteLink \/ WriterFinished

\* A worker ends and the UI thread handles its answer.
TaskFilesFairness == WF_fileVars(CreateEmpty \/ CopyMaster \/ WriteLink \/ WriterFinished)

TaskFilesSpec == FilesTaskInit /\ [][TaskFilesNext]_fileVars /\ TaskFilesFairness

-----------------------------------------------------------------------------
(* Properties.                                                             *)

\* The variables keep their types; only a file that is there holds work.
TaskFilesTypeOK ==
    /\ disk \subseteq Blends /\ worked \subseteq disk /\ came \subseteq Blends
    /\ link \in [FileTasks -> Blends \cup {NoPath}]
    /\ spelling \in [Assets -> {"dirty", "clean"}]
    /\ auditRows = NoWindow \/
         auditRows \in [FileTasks -> [link : Blends \cup {NoPath}, there : BOOLEAN]]
    /\ window = NoWindow \/
         window \in [task : FileTasks, path : Blends \cup {NoPath}, busy : BOOLEAN]
    /\ writer = NoWork \/
         writer \in [task : FileTasks, action : {"link", "create_empty", "copy", "unlink"},
                     path : Blends \cup {NoPath}, result : {"none", "done", "failed"}]

\* However often "Create empty .blend" is tried, after refused links and under
\* whatever path: the empty master replaces the work in a file only if the file
\* came to be while the worker was on its way from its look to its copy.
NeverEmptied ==
    [][writer' # writer => worked \ worked' \subseteq came]_fileVars

\* A dialog that waits for Kitsu is answered or closed by its user.
LinkIsAnswered == (window # NoWindow /\ window.busy) ~> (window = NoWindow \/ ~ window.busy)

\* "Otherwise searches the expected entity folder": a task without a link
\* opens a file of its own asset.  (The code searches the whole asset type.)
FoundInEntityFolder ==
    \A t \in FileTasks : link[t] = NoPath =>
      \A f \in ResolveFile(t) : AssetOf[f.of] = AssetOf[t]

\* "Dirty-name normalization only while nothing is mapped on disk."  (The code
\* normalizes as soon as one task of the asset has no file.)
RenamedWhileUnmapped ==
    [][\A a \in Assets : spelling'[a] # spelling[a] =>
         \A t \in FileTasks : AssetOf[t] = a => ~ HasFile(t)]_fileVars

\* "Task unlinked." is said of a task that has no link any more.
UnlinkedMeansUnlinked ==
    [][(writer # NoWork /\ writer.action = "unlink" /\ writer.result = "none"
        /\ writer' # NoWork /\ writer'.result = "done")
       => link'[writer.task] = NoPath]_fileVars
=============================================================================
