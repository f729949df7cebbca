---------------------------- MODULE ProjectImport ---------------------------
(* Importing .oshproject archives into a studio: the import windows, the one *)
(* plan and the one report that all windows of a project list share, the     *)
(* import worker step by step, the rollback of a failed import, and the      *)
(* studio that goes on using Kitsu and the repositories meanwhile.           *)
EXTENDS Naturals, Sequences

CONSTANTS
    Archives,     \* archives; each stands for the project name it declares
    Windows,      \* import windows
    Embedded,     \* archives with a dump of the repository
    Foldered,     \* archives whose top folder is named otherwise than the studio's
    RepoAtStart,  \* archive -> its repository on the target server
    MaxImports,   \* bound on imports
    MaxOthers,    \* bound on what others do and on unanswered questions
    NoArchive, NoReport

Folders == {"none", "empty", "files"}
Repositories == [there : BOOLEAN, src : Folders, tgt : Folders, dump : {"none", "part", "whole"}]

ASSUME ImportAssumption ==
    /\ Embedded \subseteq Archives /\ Foldered \subseteq Archives
    /\ NoArchive \notin Archives /\ MaxImports \in Nat /\ MaxOthers \in Nat
    /\ RepoAtStart \in [Archives -> Repositories]

VARIABLES
    prod,       \* the productions Kitsu has ever had: [of, by, state, excused]
    repo,       \* archive -> [there, src, tgt, dump]
    plan,       \* _import_plan: the archive inspected last
    report,     \* _import_report
    reading,    \* the inspection worker's archive, or NoArchive
    run,        \* the import worker, pc "idle" when there is none
    undoing,    \* the rollback worker's production, or 0
    windows,    \* window -> what it shows
    imports, others, \* counted against their bounds
    dropped     \* history: archives of which an import removed somebody's files

importVars == <<prod, repo, plan, report, reading, run, undoing, windows,
                imports, others, dropped>>

Closed == [open |-> FALSE, plan |-> FALSE, conflict |-> FALSE, begun |-> FALSE,
           running |-> FALSE, undo |-> FALSE]
NoRun == [pc |-> "idle", of |-> NoArchive, rename |-> FALSE, dry |-> FALSE, id |-> 0,
          excused |-> FALSE, raced |-> FALSE]

ImportInit ==
    /\ prod = << >>
    /\ repo = RepoAtStart
    /\ plan = NoArchive /\ report = NoReport
    /\ reading = NoArchive /\ run = NoRun /\ undoing = 0
    /\ windows = [w \in Windows |-> Closed]
    /\ imports = 0 /\ others = 0
    /\ dropped = {}

Live(a) == {id \in DOMAIN prod : prod[id].of = a /\ prod[id].state # "gone"}

\* A question to Kitsu that fails is taken for "there is no such project".
Unanswered == others < MaxOthers /\ others' = others + 1

\* Signals of the view model reach every window that is open.
Tell(new) == windows' = [w \in Windows |-> IF windows[w].open THEN new[w] ELSE windows[w]]

-----------------------------------------------------------------------------
(* The windows                                                               *)

OpenImportWindow(w) ==
    /\ ~windows[w].open
    /\ windows' = [windows EXCEPT ![w] = [Closed EXCEPT !.open = TRUE]]
    /\ UNCHANGED <<prod, repo, plan, report, reading, run, undoing, imports, others, dropped>>

\* Escape closes a window whatever it is doing.
CloseImportWindow(w) ==
    /\ windows[w].open
    /\ windows' = [windows EXCEPT ![w] = Closed]
    /\ UNCHANGED <<prod, repo, plan, report, reading, run, undoing, imports, others, dropped>>

LoadArchive(w, a) ==
    /\ windows[w].open /\ ~windows[w].begun
    /\ reading = NoArchive
    /\ reading' = a
    /\ UNCHANGED <<prod, repo, plan, report, run, undoing, windows, imports, others, dropped>>

\* The plan, or the conflict, is told to every window that is open.
ArchiveInspected ==
    /\ reading # NoArchive
    /\ \/ /\ Live(reading) # {} /\ UNCHANGED others
          /\ Tell([w \in Windows |-> [windows[w] EXCEPT !.conflict = TRUE]])
          /\ UNCHANGED plan
       \/ /\ \/ Live(reading) = {} /\ UNCHANGED others
             \/ Live(reading) # {} /\ Unanswered
          /\ Tell([w \in Windows |-> [windows[w] EXCEPT !.plan = TRUE]])
          /\ plan' = reading
    /\ reading' = NoArchive
    /\ UNCHANGED <<prod, repo, report, run, undoing, imports, dropped>>

\* Imports the plan loaded last.  While another import runs, the window only
\* believes that its own has begun.
StartImport(w, rename, dry) ==
    /\ windows[w].open /\ windows[w].plan /\ ~windows[w].conflict /\ ~windows[w].running
    /\ windows' = [windows EXCEPT ![w].begun = TRUE, ![w].running = TRUE]
    /\ IF run.pc = "idle"
         THEN /\ imports < MaxImports /\ imports' = imports + 1
              /\ run' = [NoRun EXCEPT !.pc = "check", !.of = plan,
                                      !.rename = rename, !.dry = dry]
         ELSE UNCHANGED <<imports, run>>
    /\ UNCHANGED <<prod, repo, plan, report, reading, undoing, others, dropped>>

\* The report replaces the last one and ends every open window's import.
Reported(ok, id, checkout) ==
    /\ report' = [of |-> run.of, ok |-> ok, id |-> id, dry |-> run.dry, checkout |-> checkout]
    /\ run' = NoRun
    /\ Tell([w \in Windows |-> [windows[w] EXCEPT !.running = FALSE,
                                                   !.undo = @ \/ (~ok /\ id # 0)]])

\* Rolls back the import reported last, whichever window asks.
RollbackImport(w) ==
    /\ windows[w].open /\ windows[w].undo
    /\ report # NoReport /\ undoing = 0
    /\ report.id # 0
    /\ undoing' = report.id
    /\ UNCHANGED <<prod, repo, plan, report, reading, run, windows, imports, others, dropped>>

RollbackFinished ==
    /\ undoing # 0
    /\ \/ prod' = [prod EXCEPT ![undoing].state = "gone"]
       \/ UNCHANGED prod
    /\ undoing' = 0
    /\ UNCHANGED <<repo, plan, report, reading, run, windows, imports, others, dropped>>

-----------------------------------------------------------------------------
(* The import worker                                                         *)

At(pc) == run.pc = pc
To(pc) == run' = [run EXCEPT !.pc = pc] /\ UNCHANGED <<report, windows>>

\* Mutant: the conflict was ruled out when the archive was read.
TrustInspection ==
    /\ At("check") /\ To("verify")
    /\ UNCHANGED <<prod, repo, plan, reading, undoing, imports, others, dropped>>

CheckConflict ==
    /\ At("check")
    /\ \/ Live(run.of) # {} /\ Reported(FALSE, 0, FALSE) /\ UNCHANGED others
       \/ Live(run.of) = {} /\ To("verify") /\ UNCHANGED others
       \/ /\ Live(run.of) # {} /\ Unanswered
          /\ run' = [run EXCEPT !.pc = "verify", !.excused = TRUE]
          /\ UNCHANGED <<report, windows>>
    /\ UNCHANGED <<prod, repo, plan, reading, undoing, imports, dropped>>

\* What the probe makes of the folders: the production's has files, another one
\* can be renamed, or nobody can choose.
FolderState(r) ==
    CASE r.tgt = "files" -> "ok"
      [] r.tgt # "files" /\ r.src # "none" -> "rename_needed"
      [] OTHER -> "unknown"

\* What the probe of the target repository says.
RepoState(a) ==
    CASE a \in Embedded /\ repo[a].src = "none" /\ repo[a].tgt = "none" ->
           IF a \in Foldered THEN "rename_needed" ELSE "ok"
      [] a \notin Embedded /\ ~repo[a].there -> "missing"
      [] OTHER -> FolderState(repo[a])

\* A command that cannot be run on the server answers like one that lists nothing.
Probed(a) == {RepoState(a), "unknown"}

\* Checksums and repository are examined; a dry run ends here.
ProbeRepository ==
    /\ At("verify")
    /\ \/ Reported(FALSE, 0, FALSE)
       \/ \E state \in Probed(run.of) :
            LET refused == state = "missing" \/ (state = "rename_needed" /\ ~run.rename) IN
            CASE refused -> Reported(FALSE, 0, FALSE)
              [] ~refused /\ run.dry -> Reported(TRUE, 0, FALSE)
              [] OTHER -> To("create")
    /\ UNCHANGED <<prod, repo, plan, reading, undoing, imports, others, dropped>>

Production == [of |-> run.of, by |-> imports, state |-> "partial", excused |-> FALSE]

\* A creation that Kitsu refuses, or does not answer, is followed by a look-up of
\* the name: whatever has it is imported into.
CreateProduction ==
    /\ At("create")
    /\ \/ /\ Live(run.of) = {}
          /\ prod' = Append(prod, Production)
          /\ run' = [run EXCEPT !.pc = "fill", !.id = Len(prod')]
          /\ UNCHANGED <<report, windows, others>>
       \/ \E id \in Live(run.of) :
            /\ prod' = [prod EXCEPT ![id].excused = @ \/ run.excused \/ run.raced]
            /\ run' = [run EXCEPT !.pc = "fill", !.id = id]
            /\ UNCHANGED <<report, windows, others>>
       \/ /\ Unanswered /\ Reported(FALSE, 0, FALSE)
          /\ \/ UNCHANGED prod
             \/ Live(run.of) = {} /\ prod' = Append(prod, Production)
    /\ UNCHANGED <<repo, plan, reading, undoing, imports, dropped>>

\* People, studio resources, entities, casting, tasks, comments, files, time, team.
FillProduction ==
    /\ At("fill") /\ To("hub")
    /\ UNCHANGED <<prod, repo, plan, reading, undoing, imports, others, dropped>>

\* Folder, payload, blueprint and scripts on this machine.
RecreateHubProject ==
    /\ At("hub") /\ To(IF run.of \in Embedded THEN "load" ELSE "map")
    /\ UNCHANGED <<prod, repo, plan, reading, undoing, imports, others, dropped>>

\* The production is there, and it will be said to be whole.
Imported(checkout) ==
    /\ prod' = [prod EXCEPT ![run.id].state = IF @ = "gone" THEN "gone" ELSE "whole"]
    /\ Reported(TRUE, run.id, checkout)

\* The dump is below the folder that the archive names.
WithDump(a, dump) ==
    [repo EXCEPT ![a] =
        IF a \in Foldered THEN [@ EXCEPT !.there = TRUE, !.src = "files", !.dump = dump]
                          ELSE [@ EXCEPT !.there = TRUE, !.tgt = "files", !.dump = dump]]

\* A repository of that name counts as created.  The dump loads into folders that
\* are not there yet; a load that fails is logged and the import succeeds.
LoadDump ==
    LET free == IF run.of \in Foldered THEN repo[run.of].src = "none" ELSE repo[run.of].tgt = "none"
    IN /\ At("load")
       /\ \/ free /\ repo' = WithDump(run.of, "whole") /\ To("map") /\ UNCHANGED prod
          \/ free /\ repo' = WithDump(run.of, "part") /\ Imported(TRUE)
          \/ repo' = [repo EXCEPT ![run.of].there = TRUE] /\ Imported(TRUE)
       /\ UNCHANGED <<plan, reading, undoing, imports, others, dropped>>

\* The old folder is renamed if the target folder is not there, or empty, and the
\* renaming was authorised; what cannot be listed or renamed is logged.
MapTopography ==
    LET r == repo[run.of] IN
    /\ At("map")
    /\ \/ /\ run.rename /\ r.src # "none" /\ r.tgt # "files"
          /\ To("list") /\ UNCHANGED prod
       \/ Imported(run.of \notin Embedded)
    /\ UNCHANGED <<repo, plan, reading, undoing, imports, others, dropped>>

\* The target folder is listed once more: an empty one will be removed.
ListTarget ==
    /\ At("list") /\ To(IF repo[run.of].tgt = "empty" THEN "remove" ELSE "move")
    /\ UNCHANGED <<prod, repo, plan, reading, undoing, imports, others, dropped>>

\* Removed as it is now, not as it was listed.
RemoveTarget ==
    /\ At("remove") /\ To("move")
    /\ repo' = [repo EXCEPT ![run.of].tgt = "none"]
    /\ dropped' = IF repo[run.of].tgt = "files" /\ ~run.raced
                    THEN dropped \cup {run.of} ELSE dropped
    /\ UNCHANGED <<prod, plan, reading, undoing, imports, others>>

MoveSource ==
    LET r == repo[run.of] IN
    /\ At("move")
    /\ IF r.tgt = "none" /\ r.src # "none"
         THEN repo' = [repo EXCEPT ![run.of].tgt = r.src, ![run.of].src = "none"]
         ELSE UNCHANGED repo
    /\ Imported(run.of \notin Embedded)
    /\ UNCHANGED <<plan, reading, undoing, imports, others, dropped>>

\* An exception once the production is there: the report offers its rollback.
ImportCrashes ==
    /\ run.pc \in {"fill", "hub", "load", "map", "list", "remove", "move"}
    /\ Reported(FALSE, run.id, FALSE)
    /\ UNCHANGED <<prod, repo, plan, reading, undoing, imports, others, dropped>>

-----------------------------------------------------------------------------
(* The studio                                                                *)

\* Somebody creates a production of that name: an import that has asked already
\* does not know.
StudioCreates(a) ==
    /\ Unanswered /\ Live(a) = {}
    /\ prod' = Append(prod, [of |-> a, by |-> 0, state |-> "whole", excused |-> FALSE])
    /\ run' = IF run.of = a /\ run.pc \in {"verify", "create"}
                THEN [run EXCEPT !.raced = TRUE] ELSE run
    /\ UNCHANGED <<repo, plan, report, reading, undoing, windows, imports, dropped>>

ArtistCommits(a) ==
    /\ Unanswered /\ repo[a].tgt = "empty"
    /\ repo' = [repo EXCEPT ![a].tgt = "files"]
    /\ run' = IF run.of = a /\ At("remove") THEN [run EXCEPT !.raced = TRUE] ELSE run
    /\ UNCHANGED <<prod, plan, report, reading, undoing, windows, imports, dropped>>

ImportNext ==
    \/ \E w \in Windows : OpenImportWindow(w)
    \/ \E w \in Windows : CloseImportWindow(w)
    \/ \E w \in Windows, a \in Archives : LoadArchive(w, a)
    \/ ArchiveInspected
    \/ \E w \in Windows, rename, dry \in BOOLEAN : StartImport(w, rename, dry)
    \/ \E w \in Windows : RollbackImport(w)
    \/ RollbackFinished
    \/ CheckConflict
    \/ ProbeRepository
    \/ CreateProduction
    \/ FillProduction
    \/ RecreateHubProject
    \/ LoadDump
    \/ MapTopography
    \/ ListTarget
    \/ RemoveTarget
    \/ MoveSource
    \/ ImportCrashes
    \/ \E a \in Archives : StudioCreates(a)
    \/ \E a \in Archives : ArtistCommits(a)

ImportSpec == ImportInit /\ [][ImportNext]_importVars

-----------------------------------------------------------------------------
(* Properties                                                                *)

ImportTypeOK ==
    /\ \A id \in DOMAIN prod :
          prod[id] \in [of : Archives, by : 0..MaxImports,
                        state : {"partial", "whole", "gone"}, excused : BOOLEAN]
    /\ repo \in [Archives -> Repositories]
    /\ plan \in Archives \cup {NoArchive} /\ reading \in Archives \cup {NoArchive}
    /\ run.pc \in {"idle", "check", "verify", "create", "fill", "hub", "load", "map",
                   "list", "remove", "move"}
    /\ run.of \in Archives \cup {NoArchive}
    /\ run.pc \in {"fill", "hub", "load", "map", "list", "remove", "move"} => run.id \in DOMAIN prod
    /\ undoing \in DOMAIN prod \cup {0}
    /\ windows \in [Windows -> [open : BOOLEAN, plan : BOOLEAN, conflict : BOOLEAN,
                                begun : BOOLEAN, running : BOOLEAN, undo : BOOLEAN]]
    /\ imports \in 0..MaxImports /\ others \in 0..MaxOthers
    /\ dropped \subseteq Archives

\* An import only works on, and a rollback only deletes, a production that the same
\* import made: except when Kitsu did not answer the question whether the name is
\* taken, or somebody took it after the question.
OthersProductionsKept ==
    /\ run.id # 0 => prod[run.id].by = imports \/ prod[run.id].excused
    /\ undoing # 0 => prod[undoing].by # 0 \/ prod[undoing].excused

\* An import that succeeds without asking for a checkout has the archive's whole dump
\* in the repository, and its files are in one of the two folders.
NoCheckoutMeansLoaded ==
    report # NoReport /\ report.ok /\ ~report.dry /\ ~report.checkout =>
        LET r == repo[report.of] IN r.dump = "whole" /\ "files" \in {r.src, r.tgt}

\* Files in the studio's folder are never removed by a renaming, except those that are
\* committed between the listing of the folder and its removal.
CommittedFilesKept == dropped = {}

\* A rollback deletes what a failed import has left, never a whole production.
RollbackDeletesPartial == undoing # 0 => prod[undoing].state # "whole"
=============================================================================
