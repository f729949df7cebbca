----------------------------- MODULE BlendBatch -----------------------------
(* The batch desk of a production manager: the project that is selected, the *)
(* one table that assets and shots share, audits of the disk that may answer *)
(* after the project was left, batches that forge one .blend file after      *)
(* another, the progress windows that wait for them, and the publication     *)
(* offered at their end.                                                     *)
EXTENDS Naturals, Sequences

CONSTANTS
    Projects,
    Tasks,        \* files a task may have, by their path within a project
    MaxSpawns,    \* bound on batches
    MaxTurns,     \* bound on what else the manager does
    Habits,       \* subset of {"closesEarly"}: closes the window of a running batch
    NoProject

ASSUME BatchAssumption ==
    NoProject \notin Projects /\ Habits \subseteq {"closesEarly"} /\ MaxTurns \in Nat

VARIABLES
    selected,   \* the current project
    audits,     \* kind -> the project being audited, or NoProject
    table,      \* rows: of which project, which kind, tasks without a file
    disk,       \* project -> tasks that have a file
    committed,  \* project -> tasks whose file is in the repository
    spawns,     \* the batches so far
    progress,   \* the window of each: "open", "success", "failure" or "closed"
    handler,    \* whose window listens to spawn_finished, or 0
    scan,       \* the scan of uncommitted files
    offered,    \* files of the publication window, or those being published
    turns

batchVars == <<selected, audits, table, disk, committed, spawns, progress, handler,
               scan, offered, turns>>

Kinds == {"assets", "shots"}
NoScan == [of |-> NoProject, asked |-> FALSE]
NotOffered == [files |-> {}, busy |-> FALSE, in |-> NoProject]

BatchInit ==
    /\ selected = NoProject
    /\ audits = [k \in Kinds |-> NoProject]
    /\ table = [of |-> NoProject, kind |-> "shots", pending |-> {}]
    /\ disk = [p \in Projects |-> {}] /\ committed = [p \in Projects |-> {}]
    /\ spawns = << >> /\ progress = << >> /\ handler = 0
    /\ scan = NoScan /\ offered = NotOffered
    /\ turns = 0

\* Application-modal windows: progress of a batch, publication.
Undisturbed == /\ \A i \in DOMAIN progress : progress[i] = "closed"
               /\ offered.files = {} \/ offered.busy
Turn == turns < MaxTurns /\ turns' = turns + 1
SpawnRuns(i) == spawns[i].pc \notin {"never", "over"}

\* An audit that is under way is not started again, for whatever project it is.
WithAudit(k, p) == IF audits[k] = NoProject THEN [audits EXCEPT ![k] = p] ELSE audits
\* Nor a scan; it only takes note of who asked last.
WithScan(p, interactive) ==
    IF scan.of = NoProject THEN [of |-> p, asked |-> interactive] ELSE scan

-----------------------------------------------------------------------------
(* The desk                                                                  *)

SelectProject(p) ==
    /\ Undisturbed /\ Turn
    /\ selected' = p
    /\ audits' = WithAudit("shots", p)
    /\ scan' = WithScan(p, FALSE)
    /\ UNCHANGED <<table, disk, committed, spawns, progress, handler, offered>>

\* The step of the wizard that shows the table of assets, or of shots.
ChangeStep(k) ==
    /\ Undisturbed /\ Turn
    /\ selected # NoProject
    /\ audits' = WithAudit(k, selected)
    /\ UNCHANGED <<selected, table, disk, committed, spawns, progress, handler, scan, offered>>

\* The dialog of one task: an empty file is made and linked.
CreateEmptyFile(t) ==
    /\ Undisturbed /\ Turn
    /\ t \in table.pending /\ selected # NoProject
    /\ disk' = [disk EXCEPT ![selected] = @ \cup {t}]
    /\ audits' = WithAudit(table.kind, selected)
    /\ scan' = WithScan(selected, FALSE)
    /\ UNCHANGED <<selected, table, committed, spawns, progress, handler, offered>>

Begun(want, pc) ==
    /\ spawns' = Append(spawns, [in |-> selected, want |-> want, todo |-> want, made |-> {},
                                 failed |-> FALSE, pc |-> pc])
    /\ progress' = Append(progress, "open")
    /\ handler' = Len(progress')

\* Mutant: the window does not keep the manager from starting another batch.
BeginModeless(want) ==
    /\ Len(spawns) < MaxSpawns
    /\ selected # NoProject /\ want # {} /\ want \subseteq table.pending
    /\ \E pc \in {"forge", "never"} : Begun(want, pc)
    /\ UNCHANGED <<selected, audits, table, disk, committed, scan, offered, turns>>

\* The rows as they were audited, in the project selected now.  Its window is shown
\* before the credentials are asked for: a refusal leaves it without a batch.
BeginSpawn(want) ==
    /\ Undisturbed
    /\ Len(spawns) < MaxSpawns
    /\ selected # NoProject /\ want # {} /\ want \subseteq table.pending
    /\ \E pc \in {"forge", "never"} : Begun(want, pc)
    /\ UNCHANGED <<selected, audits, table, disk, committed, scan, offered, turns>>

CloseProgress(i) ==
    /\ progress[i] # "closed"
    /\ progress[i] = "open" /\ SpawnRuns(i) => "closesEarly" \in Habits
    /\ progress' = [progress EXCEPT ![i] = "closed"]
    /\ UNCHANGED <<selected, audits, table, disk, committed, spawns, handler, scan, offered, turns>>

-----------------------------------------------------------------------------
(* Audits and scans                                                          *)

Rows(p, k) == [of |-> p, kind |-> k, pending |-> Tasks \ disk[p]]

\* Rows of a project that was left are dropped, and nobody audits the new one.
RenderAudit(k) ==
    /\ audits[k] # NoProject
    /\ table' = IF audits[k] = selected THEN Rows(selected, k) ELSE table
    /\ audits' = [audits EXCEPT ![k] = NoProject]
    /\ UNCHANGED <<selected, disk, committed, spawns, progress, handler, scan, offered, turns>>

AuditFails(k) ==
    /\ audits[k] # NoProject
    /\ audits' = [audits EXCEPT ![k] = NoProject]
    /\ UNCHANGED <<selected, table, disk, committed, spawns, progress, handler, scan, offered, turns>>

ScanFails ==
    /\ scan # NoScan /\ scan' = NoScan
    /\ UNCHANGED <<selected, audits, table, disk, committed, spawns, progress, handler, offered, turns>>

\* Who asked to publish is shown what was found, in whatever project it was.
ScanReported ==
    /\ scan # NoScan /\ scan' = NoScan
    /\ offered' = IF scan.asked /\ ~offered.busy
                    THEN [files |-> disk[scan.of] \ committed[scan.of], busy |-> FALSE, in |-> scan.of] ELSE offered
    /\ UNCHANGED <<selected, audits, table, disk, committed, spawns, progress, handler, turns>>

\* The files that are selected are committed in the project selected now.
Publish(files) ==
    /\ offered.files # {} /\ ~offered.busy
    /\ files \subseteq offered.files
    /\ offered' = IF files = {} THEN NotOffered ELSE [files |-> files, busy |-> TRUE, in |-> selected]
    /\ UNCHANGED <<selected, audits, table, disk, committed, spawns, progress, handler, scan, turns>>

\* Mutant: what was scanned counts as committed, wherever it was looked for.
PublishAnyway ==
    /\ offered.busy
    /\ committed' = [committed EXCEPT ![offered.in] = @ \cup offered.files]
    /\ offered' = NotOffered
    /\ UNCHANGED <<selected, audits, table, disk, spawns, progress, handler, scan, turns>>

\* Files that are not in the project selected when they are published fail.
PublishFinished ==
    /\ offered.busy
    /\ \/ /\ offered.files \subseteq disk[offered.in]
          /\ committed' = [committed EXCEPT ![offered.in] = @ \cup offered.files]
          /\ scan' = WithScan(selected, FALSE)
       \/ UNCHANGED <<committed, scan>>
    /\ offered' = NotOffered
    /\ UNCHANGED <<selected, audits, table, disk, spawns, progress, handler, turns>>

-----------------------------------------------------------------------------
(* A batch                                                                   *)

\* The file of a task is written in the project of the batch, over one that is there.
Forged(i, t, saved, fails) ==
    /\ spawns' = [spawns EXCEPT ![i].todo = @ \ {t},
                                ![i].made = IF saved THEN @ \cup {t} ELSE @,
                                ![i].failed = @ \/ fails]
    /\ disk' = IF saved THEN [disk EXCEPT ![spawns[i].in] = @ \cup {t}] ELSE disk

\* One headless build: it may fail before it has saved, or after, when the file
\* cannot be linked to its task.
ForgeFile(i, t) ==
    /\ spawns[i].pc = "forge" /\ t \in spawns[i].todo
    /\ \E saved, linked \in BOOLEAN : Forged(i, t, saved, ~saved \/ ~linked)
    /\ UNCHANGED <<selected, audits, table, committed, progress, handler, scan, offered, turns>>

Concluded(i, result) ==
    spawns' = [spawns EXCEPT ![i].todo = {}, ![i].made = {}, ![i].failed = FALSE, ![i].pc = result]

\* What was made is committed in one revision; a commit that fails is only logged.
CommitSpawned(i) ==
    /\ spawns[i].pc = "forge" /\ spawns[i].todo = {}
    /\ Concluded(i, IF spawns[i].failed THEN "failure" ELSE "success")
    /\ \/ committed' = [committed EXCEPT ![spawns[i].in] = @ \cup spawns[i].made]
       \/ UNCHANGED committed
    /\ UNCHANGED <<selected, audits, table, disk, progress, handler, scan, offered, turns>>

\* An exception: nothing more is forged, and nothing committed.
SpawnCrashes(i) ==
    /\ spawns[i].pc = "forge"
    /\ Concluded(i, "failure")
    /\ UNCHANGED <<selected, audits, table, disk, committed, progress, handler, scan, offered, turns>>

\* spawn_finished reaches the window that listens, whichever batch has ended.
SpawnFinished(i) ==
    /\ spawns[i].pc \in {"success", "failure"}
    /\ spawns' = [spawns EXCEPT ![i].pc = "over"]
    /\ handler' = 0
    /\ progress' = IF handler # 0 /\ progress[handler] # "closed"
                     THEN [progress EXCEPT ![handler] = spawns[i].pc] ELSE progress
    /\ IF handler # 0 /\ spawns[i].pc = "success"
         THEN audits' = WithAudit(table.kind, selected) /\ scan' = WithScan(selected, TRUE)
         ELSE UNCHANGED <<audits, scan>>
    /\ UNCHANGED <<selected, table, disk, committed, offered, turns>>

SpawnStep(i) ==
    \/ \E t \in Tasks : ForgeFile(i, t)
    \/ CommitSpawned(i)
    \/ SpawnCrashes(i)
    \/ SpawnFinished(i)

BatchNext ==
    \/ \E p \in Projects : SelectProject(p)
    \/ \E k \in Kinds : ChangeStep(k)
    \/ \E t \in Tasks : CreateEmptyFile(t)
    \/ \E want \in SUBSET Tasks : BeginSpawn(want)
    \/ \E i \in DOMAIN progress : CloseProgress(i)
    \/ \E k \in Kinds : RenderAudit(k)
    \/ \E k \in Kinds : AuditFails(k)
    \/ ScanFails
    \/ ScanReported
    \/ \E files \in SUBSET Tasks : Publish(files)
    \/ PublishFinished
    \/ \E i \in DOMAIN spawns : SpawnStep(i)

\* The threads run, and their signals are delivered.
BatchFairness == \A i \in 1..MaxSpawns : WF_batchVars(i \in DOMAIN spawns /\ SpawnStep(i))

BatchSpec == BatchInit /\ [][BatchNext]_batchVars /\ BatchFairness

-----------------------------------------------------------------------------
(* Properties                                                                *)

BatchTypeOK ==
    /\ selected \in Projects \cup {NoProject}
    /\ audits \in [Kinds -> Projects \cup {NoProject}]
    /\ table \in [of : Projects \cup {NoProject}, kind : Kinds, pending : SUBSET Tasks]
    /\ disk \in [Projects -> SUBSET Tasks] /\ committed \in [Projects -> SUBSET Tasks]
    /\ \A p \in Projects : committed[p] \subseteq disk[p]
    /\ \A i \in DOMAIN spawns :
          /\ spawns[i].in \in Projects
          /\ spawns[i].todo \subseteq spawns[i].want /\ spawns[i].want \subseteq Tasks
          /\ spawns[i].made \subseteq disk[spawns[i].in]
          /\ spawns[i].pc \in {"never", "forge", "success", "failure", "over"}
    /\ DOMAIN progress = DOMAIN spawns
    /\ \A i \in DOMAIN progress : progress[i] \in {"open", "success", "failure", "closed"}
    /\ handler \in DOMAIN progress \cup {0}
    /\ offered.files \subseteq Tasks
    /\ turns \in 0..MaxTurns

\* "a finished spawn can never fire twice or cross-fire into another step's callback"
\* (_begin_spawn): the batch that ends is the one whose window is told.
NoCrossFire ==
    [][\A i \in DOMAIN spawns :
          SpawnFinished(i) /\ handler # 0 => handler = i]_batchVars

\* A window that reports success stands for a batch that is over and all of whose
\* files are on the disk.
SuccessIsForged ==
    \A i \in DOMAIN progress :
        progress[i] = "success" => spawns[i].pc = "over" /\ spawns[i].want \subseteq disk[spawns[i].in]

\* Rows are only ever shown for the project that is selected at that moment.
RowsAreCurrent == [][table' # table => table'.of = selected']_batchVars

\* A batch that runs comes to an end, and then its window is not left waiting.
SpawnIsAnswered ==
    \A i \in 1..MaxSpawns :
        (i \in DOMAIN spawns /\ SpawnRuns(i)) ~> (i \in DOMAIN spawns /\ progress[i] # "open")
=============================================================================
