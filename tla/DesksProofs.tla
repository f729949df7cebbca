------------------------------ MODULE DesksProofs -----------------------------
(***************************************************************************)
(* What holds of the desks of the Hub for every value of the constants:    *)
(* the batches of blend files, the first steps of the manager's wizard,    *)
(* the grid of projects with its audits and repairs, and the exports;      *)
(* alone and side by side.                                                 *)
(***************************************************************************)
EXTENDS MCDesks, FiniteSetTheorems, SequenceTheorems, WellFoundedInduction, TLAPS

(***************************************************************************)
(* Batches of blend files, and the windows that wait for them.             *)
(***************************************************************************)

Batches == [in : Projects, want : SUBSET Tasks, todo : SUBSET Tasks, made : SUBSET Tasks,
            failed : BOOLEAN, pc : {"never", "forge", "success", "failure", "over"}]
Reports == {"open", "success", "failure", "closed"}

BatchShape ==
    /\ selected \in Projects \cup {NoProject}
    /\ table \in [of : Projects \cup {NoProject}, kind : Kinds, pending : SUBSET Tasks]
    /\ disk \in [Projects -> SUBSET Tasks]
    /\ spawns \in Seq(Batches) /\ progress \in Seq(Reports) /\ Len(progress) = Len(spawns)

\* What a batch that runs, or has just ended, has put on the disk.
OnDisk(s) == /\ s.pc = "forge" /\ ~s.failed => s.want \ s.todo \subseteq disk[s.in]
             /\ s.pc = "success" => s.want \subseteq disk[s.in]

\* A batch that runs has a window, which waits and is the one that listens.
Waiting(i) == spawns[i].pc \in {"forge", "success", "failure"} => progress[i] = "open" /\ handler = i

\* A window that reports success does so of files that are there.
Truthful(i) == progress[i] = "success" => spawns[i].pc = "over" /\ spawns[i].want \subseteq disk[spawns[i].in]

BatchInv == BatchShape /\ \A i \in DOMAIN spawns : OnDisk(spawns[i]) /\ Waiting(i) /\ Truthful(i)

LEMMA BatchStarts == BatchInit => BatchInv
<1> SUFFICES ASSUME BatchInit PROVE BatchInv
    OBVIOUS
<1>1. spawns = << >> /\ progress = << >> /\ DOMAIN << >> = {} /\ Len(<< >>) = 0
    BY DEF BatchInit
<1>2. BatchShape
    BY <1>1 DEF BatchInit, BatchShape, Kinds
<1>3. QED BY <1>1, <1>2 DEF BatchInv

LEMMA BatchIsTyped ==
    ASSUME BatchShape, NEW i \in DOMAIN spawns
    PROVE  /\ i \in Nat \ {0} /\ i \in DOMAIN progress /\ i <= Len(spawns)
           /\ spawns[i] \in Batches /\ progress[i] \in Reports
BY DEF BatchShape

\* Whoever leaves the batches and their windows alone may add files to the disk.
LEMMA FilesKeepBatches ==
    ASSUME BatchInv, UNCHANGED << spawns, progress, handler >>,
           selected' \in Projects \cup {NoProject},
           table' \in [of : Projects \cup {NoProject}, kind : Kinds, pending : SUBSET Tasks],
           disk' \in [Projects -> SUBSET Tasks], \A p \in Projects : disk[p] \subseteq disk'[p]
    PROVE  BatchInv'
<1>1. BatchShape'
    BY DEF BatchInv, BatchShape
<1>2. ASSUME NEW i \in DOMAIN spawns
      PROVE  OnDisk(spawns[i])' /\ Waiting(i)' /\ Truthful(i)'
  <2>1. spawns[i] \in Batches /\ OnDisk(spawns[i]) /\ Waiting(i) /\ Truthful(i)
      BY <1>2, BatchIsTyped DEF BatchInv
  <2>2. disk[spawns[i].in] \subseteq disk'[spawns[i].in]
      BY <2>1 DEF Batches
  <2>3. QED BY <2>1, <2>2 DEF OnDisk, Waiting, Truthful
<1>3. QED BY <1>1, <1>2 DEF BatchInv

\* The desk, audits, scans and publications.
LEMMA DesksKeepBatches ==
    ASSUME BatchInv,
           \/ \E p \in Projects : SelectProject(p)
           \/ \E k \in Kinds : ChangeStep(k)
           \/ \E t \in Tasks : CreateEmptyFile(t)
           \/ \E k \in Kinds : RenderAudit(k)
           \/ \E k \in Kinds : AuditFails(k)
           \/ ScanFails \/ ScanReported
           \/ \E files \in SUBSET Tasks : Publish(files)
           \/ PublishFinished
    PROVE  BatchInv'
<1>1. BatchShape
    BY DEF BatchInv
<1>2. UNCHANGED << spawns, progress, handler >>
    BY DEF SelectProject, ChangeStep, CreateEmptyFile, RenderAudit, AuditFails, ScanFails,
           ScanReported, Publish, PublishFinished
<1>3. selected' \in Projects \cup {NoProject}
    BY <1>1 DEF SelectProject, ChangeStep, CreateEmptyFile, RenderAudit, AuditFails, ScanFails,
           ScanReported, Publish, PublishFinished, BatchShape
<1>4. table' \in [of : Projects \cup {NoProject}, kind : Kinds, pending : SUBSET Tasks]
  <2>1. ASSUME NEW k \in Kinds, RenderAudit(k)
        PROVE  table' \in [of : Projects \cup {NoProject}, kind : Kinds, pending : SUBSET Tasks]
    <3>1. Rows(selected, k) \in [of : Projects \cup {NoProject}, kind : Kinds, pending : SUBSET Tasks]
        BY <1>1 DEF Rows, BatchShape
    <3>2. table' = Rows(selected, k) \/ table' = table
        BY <2>1 DEF RenderAudit
    <3>3. QED BY <1>1, <3>1, <3>2 DEF BatchShape
  <2>2. CASE UNCHANGED table
      BY <1>1, <2>2 DEF BatchShape
  <2>3. UNCHANGED table \/ \E k \in Kinds : RenderAudit(k)
      BY DEF SelectProject, ChangeStep, CreateEmptyFile, AuditFails, ScanFails, ScanReported, Publish,
             PublishFinished
  <2>4. QED BY <2>1, <2>2, <2>3
<1>5. disk' \in [Projects -> SUBSET Tasks] /\ \A p \in Projects : disk[p] \subseteq disk'[p]
  <2>1. ASSUME NEW t \in Tasks, CreateEmptyFile(t)
        PROVE  disk' \in [Projects -> SUBSET Tasks] /\ \A p \in Projects : disk[p] \subseteq disk'[p]
      BY <1>1, <2>1 DEF CreateEmptyFile, BatchShape
  <2>2. CASE UNCHANGED disk
      BY <1>1, <2>2 DEF BatchShape
  <2>3. UNCHANGED disk \/ \E t \in Tasks : CreateEmptyFile(t)
      BY DEF SelectProject, ChangeStep, RenderAudit, AuditFails, ScanFails, ScanReported, Publish,
             PublishFinished
  <2>4. QED BY <2>1, <2>2, <2>3
<1>6. QED BY <1>2, <1>3, <1>4, <1>5, FilesKeepBatches

\* A batch is begun while every window is closed: none runs.
LEMMA BatchesBegin ==
    ASSUME BatchInv, \E want \in SUBSET Tasks : BeginSpawn(want)
    PROVE  BatchInv'
<1>0. BatchShape
    BY DEF BatchInv
<1>1. PICK want \in SUBSET Tasks : BeginSpawn(want)
    OBVIOUS
<1>2. PICK pc \in {"forge", "never"} : Begun(want, pc)
    BY <1>1 DEF BeginSpawn
<1>3. PICK new : new = [in |-> selected, want |-> want, todo |-> want, made |-> {},
                        failed |-> FALSE, pc |-> pc]
    OBVIOUS
<1>4. new \in Batches /\ OnDisk(new)
    BY <1>0, <1>1, <1>2, <1>3 DEF BeginSpawn, BatchShape, Batches, OnDisk
<1>5. spawns' = Append(spawns, new) /\ progress' = Append(progress, "open") /\ handler' = Len(progress')
    BY <1>2, <1>3 DEF Begun
<1>6. UNCHANGED << selected, table, disk >> /\ \A i \in DOMAIN progress : progress[i] = "closed"
    BY <1>1 DEF BeginSpawn, Undisturbed
<1>7. BatchShape' /\ handler' = Len(spawns) + 1
    BY <1>0, <1>4, <1>5, <1>6 DEF BatchShape, Reports
<1>8. ASSUME NEW i \in DOMAIN spawns'
      PROVE  OnDisk(spawns[i])' /\ Waiting(i)' /\ Truthful(i)'
  <2>1. CASE i = Len(spawns) + 1
    <3>1. spawns'[i] = new /\ progress'[i] = "open" /\ handler' = i
        BY <1>0, <1>5, <1>7, <2>1 DEF BatchShape
    <3>2. QED BY <1>4, <1>6, <3>1 DEF OnDisk, Waiting, Truthful
  <2>2. CASE i # Len(spawns) + 1
    <3>1. i \in DOMAIN spawns /\ spawns'[i] = spawns[i] /\ progress'[i] = progress[i]
        BY <1>0, <1>5, <2>2 DEF BatchShape
    <3>2. OnDisk(spawns[i]) /\ Waiting(i) /\ progress[i] = "closed"
        BY <1>0, <1>6, <3>1, BatchIsTyped DEF BatchInv
    <3>3. QED BY <1>6, <3>1, <3>2 DEF OnDisk, Waiting, Truthful
  <2>3. QED BY <2>1, <2>2
<1>9. QED BY <1>7, <1>8 DEF BatchInv

\* A window that waits for a batch that runs is not closed.
LEMMA WindowsClose ==
    ASSUME BatchInv, "closesEarly" \notin Habits, \E i \in DOMAIN progress : CloseProgress(i)
    PROVE  BatchInv'
<1>0. BatchShape
    BY DEF BatchInv
<1>1. PICK j \in DOMAIN progress : CloseProgress(j)
    OBVIOUS
<1>2. UNCHANGED << selected, table, disk, spawns, handler >>
      /\ progress' = [progress EXCEPT ![j] = "closed"] /\ ~ (progress[j] = "open" /\ SpawnRuns(j))
    BY <1>1 DEF CloseProgress
<1>3. BatchShape'
    BY <1>0, <1>2 DEF BatchShape, Reports
<1>4. ASSUME NEW i \in DOMAIN spawns
      PROVE  OnDisk(spawns[i])' /\ Waiting(i)' /\ Truthful(i)'
  <2>1. i \in DOMAIN progress /\ OnDisk(spawns[i]) /\ Waiting(i) /\ Truthful(i)
      BY <1>0, BatchIsTyped DEF BatchInv
  <2>2. CASE i = j
      BY <1>2, <2>1, <2>2 DEF OnDisk, Waiting, Truthful, SpawnRuns
  <2>3. CASE i # j
      BY <1>2, <2>1, <2>3 DEF OnDisk, Waiting, Truthful
  <2>4. QED BY <2>2, <2>3
<1>5. QED BY <1>2, <1>3, <1>4 DEF BatchInv

\* A step of one batch leaves the others and their windows as they are.
LEMMA OneBatchSteps ==
    ASSUME BatchInv, NEW j \in DOMAIN spawns, NEW s \in Batches,
           spawns' = [spawns EXCEPT ![j] = s], UNCHANGED << selected, table, progress, handler >>,
           spawns[j].pc = "forge", s.in = spawns[j].in, s.pc \in {"forge", "success", "failure"},
           disk' \in [Projects -> SUBSET Tasks], \A p \in Projects : disk[p] \subseteq disk'[p],
           OnDisk(s)'
    PROVE  BatchInv'
<1>0. BatchShape
    BY DEF BatchInv
<1>1. BatchShape'
    BY <1>0 DEF BatchShape
<1>2. ASSUME NEW i \in DOMAIN spawns
      PROVE  OnDisk(spawns[i])' /\ Waiting(i)' /\ Truthful(i)'
  <2>1. spawns[i] \in Batches /\ OnDisk(spawns[i]) /\ Waiting(i) /\ Truthful(i)
      BY <1>0, BatchIsTyped DEF BatchInv
  <2>2. disk[spawns[i].in] \subseteq disk'[spawns[i].in]
      BY <2>1 DEF Batches
  <2>3. CASE i = j
      BY <1>0, <2>1, <2>3 DEF OnDisk, Waiting, Truthful, BatchShape
  <2>4. CASE i # j
    <3>1. spawns'[i] = spawns[i]
        BY <1>0, <2>4 DEF BatchShape
    <3>2. QED BY <2>1, <2>2, <3>1 DEF OnDisk, Waiting, Truthful
  <2>5. QED BY <2>3, <2>4
<1>3. DOMAIN spawns' = DOMAIN spawns
    BY <1>0 DEF BatchShape
<1>4. QED BY <1>1, <1>2, <1>3 DEF BatchInv

\* A file that was saved and linked is on the disk; one that was not makes the
\* batch a failure.
LEMMA FilesAreForged ==
    ASSUME BatchInv, NEW j \in DOMAIN spawns, NEW t \in Tasks, ForgeFile(j, t)
    PROVE  BatchInv'
<1>0. BatchShape /\ spawns[j] \in Batches /\ OnDisk(spawns[j]) /\ spawns[j].pc = "forge"
    BY BatchIsTyped DEF BatchInv, ForgeFile
<1>1. PICK saved \in BOOLEAN, linked \in BOOLEAN : Forged(j, t, saved, ~saved \/ ~linked)
    BY DEF ForgeFile
<1>2. PICK s : s = [spawns[j] EXCEPT !.todo = @ \ {t}, !.made = IF saved THEN @ \cup {t} ELSE @,
                                     !.failed = @ \/ (~saved \/ ~linked)]
    OBVIOUS
<1>3. /\ s \in Batches /\ s.in = spawns[j].in /\ s.pc = "forge" /\ s.want = spawns[j].want
      /\ s.todo = spawns[j].todo \ {t} /\ (~s.failed => ~spawns[j].failed /\ saved)
    BY <1>0, <1>1, <1>2 DEF Batches
<1>4. spawns' = [spawns EXCEPT ![j] = s]
    BY <1>0, <1>1, <1>2 DEF Forged, BatchShape
<1>5. disk' = IF saved THEN [disk EXCEPT ![spawns[j].in] = @ \cup {t}] ELSE disk
    BY <1>1 DEF Forged
<1>6. /\ disk' \in [Projects -> SUBSET Tasks] /\ \A p \in Projects : disk[p] \subseteq disk'[p]
      /\ saved => t \in disk'[spawns[j].in]
  <2>1. spawns[j].in \in Projects /\ disk \in [Projects -> SUBSET Tasks]
      BY <1>0 DEF Batches, BatchShape
  <2>2. CASE saved
      BY <1>5, <2>1, <2>2
  <2>3. CASE ~ saved
      BY <1>5, <2>1, <2>3
  <2>4. QED BY <2>2, <2>3
<1>7. OnDisk(s)'
  <2>1. ASSUME ~s.failed
        PROVE  s.want \ s.todo \subseteq disk'[s.in]
    <3>1. spawns[j].want \ spawns[j].todo \subseteq disk[spawns[j].in] /\ saved
        BY <1>0, <1>3, <2>1 DEF OnDisk
    <3>2. spawns[j].in \in Projects
        BY <1>0 DEF Batches
    <3>3. QED BY <1>3, <1>6, <3>1, <3>2
  <2>2. QED BY <1>3, <2>1 DEF OnDisk
<1>8. UNCHANGED << selected, table, progress, handler >>
    BY DEF ForgeFile
<1>9. QED BY <1>0, <1>3, <1>4, <1>6, <1>7, <1>8, OneBatchSteps

\* A batch is done, or breaks off.
LEMMA BatchesConclude ==
    ASSUME BatchInv, NEW j \in DOMAIN spawns, CommitSpawned(j) \/ SpawnCrashes(j)
    PROVE  BatchInv'
<1>0. BatchShape /\ spawns[j] \in Batches /\ OnDisk(spawns[j]) /\ spawns[j].pc = "forge"
    BY BatchIsTyped DEF BatchInv, CommitSpawned, SpawnCrashes
<1>1. PICK result \in {"success", "failure"} :
           Concluded(j, result) /\ (result = "success" => spawns[j].todo = {} /\ ~spawns[j].failed)
    BY <1>0 DEF CommitSpawned, SpawnCrashes, Batches
<1>2. PICK s : s = [spawns[j] EXCEPT !.todo = {}, !.made = {}, !.failed = FALSE, !.pc = result]
    OBVIOUS
<1>3. s \in Batches /\ s.in = spawns[j].in /\ s.pc = result /\ s.want = spawns[j].want
    BY <1>0, <1>2 DEF Batches
<1>4. spawns' = [spawns EXCEPT ![j] = s]
    BY <1>0, <1>1, <1>2 DEF Concluded, BatchShape
<1>5. UNCHANGED << selected, table, disk, progress, handler >>
    BY DEF CommitSpawned, SpawnCrashes
<1>6. OnDisk(s)'
    BY <1>0, <1>1, <1>3, <1>5 DEF OnDisk
<1>7. disk' \in [Projects -> SUBSET Tasks] /\ \A p \in Projects : disk[p] \subseteq disk'[p]
    BY <1>0, <1>5 DEF BatchShape
<1>8. QED BY <1>0, <1>3, <1>4, <1>5, <1>6, <1>7, OneBatchSteps

\* The window that listens is that of the batch that has ended.
LEMMA TheListenerIsItsOwn ==
    ASSUME BatchInv, NEW j \in DOMAIN spawns, SpawnFinished(j)
    PROVE  handler = j /\ progress[j] = "open"
BY DEF BatchInv, Waiting, SpawnFinished

LEMMA BatchesFinish ==
    ASSUME BatchInv, NEW j \in DOMAIN spawns, SpawnFinished(j)
    PROVE  BatchInv'
<1>0. BatchShape /\ spawns[j] \in Batches /\ OnDisk(spawns[j]) /\ j \in Nat \ {0} /\ j \in DOMAIN progress
    BY BatchIsTyped DEF BatchInv
<1>1. handler = j /\ progress[j] = "open" /\ spawns[j].pc \in {"success", "failure"}
    BY TheListenerIsItsOwn DEF SpawnFinished
<1>2. /\ progress' = [progress EXCEPT ![j] = spawns[j].pc]
      /\ spawns' = [spawns EXCEPT ![j].pc = "over"]
      /\ UNCHANGED << selected, table, disk >>
    BY <1>0, <1>1 DEF SpawnFinished
<1>3. PICK s : s = [spawns[j] EXCEPT !.pc = "over"]
    OBVIOUS
<1>4. s \in Batches /\ s.in = spawns[j].in /\ s.pc = "over" /\ s.want = spawns[j].want
      /\ spawns' = [spawns EXCEPT ![j] = s]
    BY <1>0, <1>2, <1>3 DEF Batches, BatchShape
<1>5. BatchShape'
  <2>1. spawns' \in Seq(Batches) /\ Len(spawns') = Len(spawns)
      BY <1>0, <1>4 DEF BatchShape
  <2>2. progress' \in Seq(Reports) /\ Len(progress') = Len(progress)
    <3>1. spawns[j].pc \in Reports
        BY <1>1 DEF Reports
    <3>2. QED BY <1>0, <1>2, <3>1 DEF BatchShape
  <2>3. QED BY <1>0, <1>2, <2>1, <2>2 DEF BatchShape
<1>6. ASSUME NEW i \in DOMAIN spawns
      PROVE  OnDisk(spawns[i])' /\ Waiting(i)' /\ Truthful(i)'
  <2>1. i \in DOMAIN progress /\ OnDisk(spawns[i]) /\ Waiting(i) /\ Truthful(i)
      BY <1>0, BatchIsTyped DEF BatchInv
  <2>2. CASE i = j
    <3>1. spawns'[i] = s /\ progress'[i] = spawns[j].pc
        BY <1>0, <1>2, <1>4, <2>2 DEF BatchShape
    <3>2. QED BY <1>0, <1>1, <1>2, <1>4, <3>1 DEF OnDisk, Waiting, Truthful
  <2>3. CASE i # j
    <3>1. spawns'[i] = spawns[i] /\ progress'[i] = progress[i]
        BY <1>0, <1>2, <1>4, <2>1, <2>3 DEF BatchShape
    <3>2. spawns[i].pc \notin {"forge", "success", "failure"}
        BY <1>1, <2>1, <2>3 DEF Waiting
    <3>3. QED BY <1>2, <2>1, <3>1, <3>2 DEF OnDisk, Waiting, Truthful
  <2>4. QED BY <2>2, <2>3
<1>7. DOMAIN spawns' = DOMAIN spawns
    BY <1>0, <1>4 DEF BatchShape
<1>8. QED BY <1>5, <1>6, <1>7 DEF BatchInv

LEMMA BatchSteps ==
    ASSUME "closesEarly" \notin Habits, BatchInv, [BatchNext]_batchVars
    PROVE  BatchInv'
<1>1. CASE UNCHANGED batchVars
    BY <1>1 DEF batchVars, BatchInv, BatchShape, OnDisk, Waiting, Truthful
<1>2. CASE \E i \in DOMAIN spawns : SpawnStep(i)
    BY <1>2, FilesAreForged, BatchesConclude, BatchesFinish DEF SpawnStep
<1>3. CASE BatchNext /\ ~ \E i \in DOMAIN spawns : SpawnStep(i)
    BY <1>3, DesksKeepBatches, BatchesBegin, WindowsClose DEF BatchNext
<1>4. QED BY <1>1, <1>2, <1>3

LEMMA BatchHolds ==
    ASSUME "closesEarly" \notin Habits
    PROVE  BatchSpec => []BatchInv
BY BatchStarts, BatchSteps, PTL DEF BatchSpec

\* Nobody closes the window of a running batch: then a window that reports success
\* stands for files that are on the disk.
THEOREM SuccessIsOnDisk ==
    ASSUME "closesEarly" \notin Habits
    PROVE  BatchSpec => []SuccessIsForged
<1>1. BatchInv => SuccessIsForged
    BY BatchIsTyped DEF BatchInv, BatchShape, Truthful, SuccessIsForged
<1>2. QED BY <1>1, BatchHolds, PTL

\* And the batch that ends is the one whose window is told.
LEMMA NothingCrossFires ==
    ASSUME "closesEarly" \notin Habits
    PROVE  BatchSpec => NoCrossFire
<1>1. BatchInv => \A i \in DOMAIN spawns : SpawnFinished(i) /\ handler # 0 => handler = i
    BY TheListenerIsItsOwn
<1>2. QED BY <1>1, BatchHolds, PTL DEF NoCrossFire

\* Rows are only ever shown for the project that is selected at that moment.
LEMMA RowsFollowTheProject == BatchSpec => RowsAreCurrent
<1>1. ASSUME [BatchNext]_batchVars
      PROVE  [table' # table => table'.of = selected']_batchVars
  <2>1. CASE \E k \in Kinds : RenderAudit(k)
      BY <2>1 DEF RenderAudit, Rows
  <2>2. CASE ~ \E k \in Kinds : RenderAudit(k)
      BY <1>1, <2>2 DEF BatchNext, batchVars, SelectProject, ChangeStep, CreateEmptyFile, BeginSpawn,
         CloseProgress, AuditFails, ScanFails, ScanReported, Publish, PublishFinished, SpawnStep,
         ForgeFile, CommitSpawned, SpawnCrashes, SpawnFinished
  <2>3. QED BY <2>1, <2>2
<1>2. QED BY <1>1, PTL DEF BatchSpec, RowsAreCurrent

(***************************************************************************)
(* The types of the batch desk.                                            *)
(***************************************************************************)

Scans == [of : Projects, asked : BOOLEAN] \cup {NoScan}
Offers == [files : SUBSET Tasks, busy : BOOLEAN, in : Projects \cup {NoProject}]

\* What is committed is there; a batch knows only files it was asked for, and those
\* it has made are there; nothing is scanned or forged before a project was selected.
BatchRest ==
    /\ audits \in [Kinds -> Projects \cup {NoProject}]
    /\ committed \in [Projects -> SUBSET Tasks] /\ \A p \in Projects : committed[p] \subseteq disk[p]
    /\ scan \in Scans
    /\ offered \in Offers
    /\ turns \in 0 .. MaxTurns

BatchesKnow(f) ==
    /\ handler \in 0 .. Len(spawns)
    /\ \A i \in DOMAIN spawns : /\ spawns[i].todo \subseteq spawns[i].want
                                /\ spawns[i].made \subseteq f[spawns[i].in]
    /\ spawns # << >> => selected # NoProject

BatchTypes == BatchShape /\ BatchRest /\ BatchesKnow(disk)

\* At the start nothing is there, scanned or offered.
LEMMA BatchTypesStart == BatchInit => BatchTypes
<1> SUFFICES ASSUME BatchInit PROVE BatchTypes
    OBVIOUS
<1>1. BatchShape
    BY BatchStarts DEF BatchInv
<1>2. BatchRest
    BY BatchAssumption DEF BatchInit, BatchRest, Kinds, Scans, Offers, NotOffered
<1>3. spawns = << >> /\ handler = 0 /\ Len(<< >>) = 0 /\ DOMAIN << >> = {}
    BY DEF BatchInit
<1>4. BatchesKnow(disk)
    BY <1>3 DEF BatchesKnow
<1>5. QED BY <1>1, <1>2, <1>4 DEF BatchTypes

\* An audit or a scan that is asked for is of a project.
LEMMA LooksAreTyped ==
    ASSUME BatchRest
    PROVE  /\ \A k \in Kinds, p \in Projects \cup {NoProject} :
                 WithAudit(k, p) \in [Kinds -> Projects \cup {NoProject}]
           /\ \A p \in Projects : WithScan(p, TRUE) \in Scans
           /\ \A p \in Projects \cup {NoProject} : WithScan(p, FALSE) \in Scans
BY BatchAssumption DEF BatchRest, WithAudit, WithScan, NoScan, Scans

\* What the manager does is counted, up to the bound.
LEMMA TurnsAreTyped == BatchRest /\ Turn => turns' \in 0 .. MaxTurns
BY BatchAssumption DEF BatchRest, Turn

\* More files do a batch no harm.
LEMMA MoreFiles ==
    ASSUME BatchTypes, NEW f \in [Projects -> SUBSET Tasks], \A p \in Projects : disk[p] \subseteq f[p]
    PROVE  BatchesKnow(f)
<1>1. ASSUME NEW i \in DOMAIN spawns
      PROVE  spawns[i].made \subseteq f[spawns[i].in]
  <2>1. spawns[i] \in Batches /\ spawns[i].made \subseteq disk[spawns[i].in]
      BY BatchIsTyped DEF BatchTypes, BatchesKnow
  <2>2. QED BY <2>1 DEF Batches
<1>2. QED BY <1>1 DEF BatchTypes, BatchesKnow

\* The desk, audits, scans and publications.
LEMMA ManagersKeepTheTypes ==
    ASSUME BatchTypes,
           \/ \E p \in Projects : SelectProject(p)
           \/ \E k \in Kinds : ChangeStep(k)
           \/ \E t \in Tasks : CreateEmptyFile(t)
           \/ \E k \in Kinds : RenderAudit(k)
           \/ \E k \in Kinds : AuditFails(k)
           \/ ScanFails \/ ScanReported
           \/ \E files \in SUBSET Tasks : Publish(files)
           \/ PublishFinished
    PROVE  BatchTypes'
<1>1. BatchShape /\ BatchRest /\ BatchesKnow(disk)
    BY DEF BatchTypes
<1>2. UNCHANGED << spawns, progress, handler >>
    BY DEF SelectProject, ChangeStep, CreateEmptyFile, RenderAudit, AuditFails, ScanFails,
           ScanReported, Publish, PublishFinished
<1>3. CASE \E p \in Projects : SelectProject(p)
  <2>1. PICK p \in Projects : SelectProject(p)
      BY <1>3
  <2>2. selected' = p /\ UNCHANGED << table, disk, committed, offered >> /\ turns' \in 0 .. MaxTurns
        /\ audits' = WithAudit("shots", p) /\ scan' = WithScan(p, FALSE)
      BY <1>1, <2>1, TurnsAreTyped DEF SelectProject
  <2>3. BatchShape'
      BY <1>1, <1>2, <2>2 DEF BatchShape
  <2>4. BatchRest'
      BY <1>1, <2>2, LooksAreTyped DEF BatchRest, Kinds
  <2>5. BatchesKnow(disk)'
      BY <1>1, <1>2, <2>2, BatchAssumption DEF BatchesKnow
  <2>6. QED BY <2>3, <2>4, <2>5 DEF BatchTypes
<1>4. CASE \E k \in Kinds : ChangeStep(k)
  <2>1. PICK k \in Kinds : ChangeStep(k)
      BY <1>4
  <2>2. UNCHANGED << selected, table, disk, committed, offered, scan >> /\ turns' \in 0 .. MaxTurns
        /\ audits' = WithAudit(k, selected)
      BY <1>1, <2>1, TurnsAreTyped DEF ChangeStep
  <2>3. BatchShape' /\ selected \in Projects \cup {NoProject}
      BY <1>1, <1>2, <2>2 DEF BatchShape
  <2>4. BatchRest'
      BY <1>1, <2>2, <2>3, LooksAreTyped DEF BatchRest
  <2>5. BatchesKnow(disk)'
      BY <1>1, <1>2, <2>2 DEF BatchesKnow
  <2>6. QED BY <2>3, <2>4, <2>5 DEF BatchTypes
<1>5. CASE \E t \in Tasks : CreateEmptyFile(t)
  <2>1. PICK t \in Tasks : CreateEmptyFile(t)
      BY <1>5
  <2>2. UNCHANGED << selected, table, committed, offered >> /\ turns' \in 0 .. MaxTurns
        /\ audits' = WithAudit(table.kind, selected) /\ scan' = WithScan(selected, FALSE)
        /\ disk' = [disk EXCEPT ![selected] = @ \cup {t}] /\ selected # NoProject
      BY <1>1, <2>1, TurnsAreTyped DEF CreateEmptyFile
  <2>3. disk' \in [Projects -> SUBSET Tasks] /\ \A p \in Projects : disk[p] \subseteq disk'[p]
      BY <1>1, <2>2 DEF BatchShape
  <2>4. BatchShape' /\ selected \in Projects /\ table.kind \in Kinds
      BY <1>1, <1>2, <2>2, <2>3 DEF BatchShape
  <2>5. audits' \in [Kinds -> Projects \cup {NoProject}]
        /\ scan' \in Scans
      BY <1>1, <2>2, <2>4, LooksAreTyped
  <2>6. BatchRest'
      BY <1>1, <2>2, <2>3, <2>5 DEF BatchRest
  <2>7. BatchesKnow(disk)'
      BY <1>2, <2>2, <2>3, MoreFiles DEF BatchesKnow
  <2>8. QED BY <2>4, <2>6, <2>7 DEF BatchTypes
<1>6. CASE \E k \in Kinds : RenderAudit(k)
  <2>1. PICK k \in Kinds : RenderAudit(k)
      BY <1>6
  <2>2. UNCHANGED << selected, disk, committed, offered, scan, turns >>
        /\ table' \in {Rows(selected, k), table} /\ audits' = [audits EXCEPT ![k] = NoProject]
      BY <2>1 DEF RenderAudit
  <2>3. BatchShape'
      BY <1>1, <1>2, <2>2 DEF BatchShape, Rows
  <2>4. BatchRest'
      BY <1>1, <2>2 DEF BatchRest
  <2>5. BatchesKnow(disk)'
      BY <1>1, <1>2, <2>2 DEF BatchesKnow
  <2>6. QED BY <2>3, <2>4, <2>5 DEF BatchTypes
<1>7. CASE (\E k \in Kinds : AuditFails(k)) \/ ScanFails
  <2>1. UNCHANGED << selected, table, disk, committed, offered, turns >>
      BY <1>7 DEF AuditFails, ScanFails
  <2>2. BatchShape'
      BY <1>1, <1>2, <2>1 DEF BatchShape
  <2>3. audits' \in [Kinds -> Projects \cup {NoProject}] /\ scan' \in {scan, NoScan}
      BY <1>1, <1>7 DEF BatchRest, AuditFails, ScanFails
  <2>4. BatchRest'
      BY <1>1, <2>1, <2>3 DEF BatchRest, Scans
  <2>5. BatchesKnow(disk)'
      BY <1>1, <1>2, <2>1 DEF BatchesKnow
  <2>6. QED BY <2>2, <2>4, <2>5 DEF BatchTypes
<1>8. CASE ScanReported \/ \E files \in SUBSET Tasks : Publish(files)
  <2>1. UNCHANGED << selected, table, disk, committed, audits, turns >>
      BY <1>8 DEF ScanReported, Publish
  <2>2. BatchShape'
      BY <1>1, <1>2, <2>1 DEF BatchShape
  <2>3. scan' \in {scan, NoScan}
      BY <1>8 DEF ScanReported, Publish
  <2>4. offered' \in Offers
    <3>1. CASE ScanReported
      <4>1. scan.of \in Projects
          BY <1>1, <3>1 DEF ScanReported, BatchRest, Scans
      <4>2. disk[scan.of] \ committed[scan.of] \in SUBSET Tasks
          BY <1>1, <4>1 DEF BatchShape
      <4>3. QED BY <1>1, <3>1, <4>1, <4>2 DEF ScanReported, BatchRest, Offers
    <3>2. CASE \E files \in SUBSET Tasks : Publish(files)
        BY <1>1, <3>2 DEF Publish, BatchRest, BatchShape, Offers, NotOffered
    <3>3. QED BY <1>8, <3>1, <3>2
  <2>5. BatchRest'
      BY <1>1, <2>1, <2>3, <2>4 DEF BatchRest, Scans
  <2>6. BatchesKnow(disk)'
      BY <1>1, <1>2, <2>1 DEF BatchesKnow
  <2>7. QED BY <2>2, <2>5, <2>6 DEF BatchTypes
<1>9. CASE PublishFinished
  <2>1. UNCHANGED << selected, table, disk, audits, turns >> /\ offered' = NotOffered
      BY <1>9 DEF PublishFinished
  <2>2. BatchShape' /\ selected \in Projects \cup {NoProject}
      BY <1>1, <1>2, <2>1 DEF BatchShape
  <2>3. committed' \in [Projects -> SUBSET Tasks] /\ \A p \in Projects : committed'[p] \subseteq disk[p]
    <3>1. CASE /\ offered.files \subseteq disk[offered.in]
               /\ committed' = [committed EXCEPT ![offered.in] = @ \cup offered.files]
        BY <1>1, <3>1 DEF BatchRest, BatchShape, Offers
    <3>2. CASE UNCHANGED committed
        BY <1>1, <3>2 DEF BatchRest
    <3>3. QED BY <1>9, <3>1, <3>2 DEF PublishFinished
  <2>4. scan' \in Scans
    <3>1. scan' = scan \/ scan' = WithScan(selected, FALSE)
        BY <1>9 DEF PublishFinished
    <3>2. QED BY <1>1, <2>2, <3>1, LooksAreTyped DEF BatchRest
  <2>5. BatchRest'
      BY <1>1, <2>1, <2>3, <2>4 DEF BatchRest, Offers, NotOffered
  <2>6. BatchesKnow(disk)'
      BY <1>1, <1>2, <2>1 DEF BatchesKnow
  <2>7. QED BY <2>2, <2>5, <2>6 DEF BatchTypes
<1>10. QED BY <1>3, <1>4, <1>5, <1>6, <1>7, <1>8, <1>9

\* A batch begins with what was asked for and nothing made.
LEMMA BegunAreTyped ==
    ASSUME BatchTypes, \E want \in SUBSET Tasks : BeginSpawn(want)
    PROVE  BatchTypes'
<1>0. BatchShape /\ BatchRest /\ BatchesKnow(disk)
    BY DEF BatchTypes
<1>1. PICK want \in SUBSET Tasks, pc \in {"forge", "never"} : BeginSpawn(want) /\ Begun(want, pc)
    BY DEF BeginSpawn
<1>2. PICK new : new = [in |-> selected, want |-> want, todo |-> want, made |-> {},
                        failed |-> FALSE, pc |-> pc]
    OBVIOUS
<1>3. /\ new \in Batches /\ new.todo = new.want /\ new.made = {} /\ selected # NoProject
    BY <1>0, <1>1, <1>2 DEF BeginSpawn, BatchShape, Batches
<1>4. spawns' = Append(spawns, new) /\ progress' = Append(progress, "open") /\ handler' = Len(progress')
    BY <1>1, <1>2 DEF Begun
<1>5. UNCHANGED << selected, audits, table, disk, committed, scan, offered, turns >>
    BY <1>1 DEF BeginSpawn
<1>6. /\ BatchShape' /\ Len(spawns') = Len(spawns) + 1 /\ handler' = Len(spawns')
      /\ DOMAIN spawns' = 1 .. Len(spawns) + 1 /\ DOMAIN spawns = 1 .. Len(spawns)
      /\ spawns'[Len(spawns) + 1] = new /\ \A i \in DOMAIN spawns : spawns'[i] = spawns[i]
    BY <1>0, <1>3, <1>4, <1>5 DEF BatchShape, Reports
<1>7. BatchRest'
    BY <1>0, <1>5 DEF BatchRest
<1>8. BatchesKnow(disk)'
  <2>1. ASSUME NEW i \in DOMAIN spawns'
        PROVE  spawns'[i].todo \subseteq spawns'[i].want /\ spawns'[i].made \subseteq disk'[spawns'[i].in]
    <3>1. CASE i \in DOMAIN spawns
        BY <1>0, <1>5, <1>6, <3>1 DEF BatchesKnow
    <3>2. CASE i = Len(spawns) + 1
        BY <1>3, <1>6, <3>2
    <3>3. QED BY <1>0, <1>6, <2>1, <3>1, <3>2 DEF BatchShape
  <2>2. handler' \in 0 .. Len(spawns')
      BY <1>0, <1>6 DEF BatchShape
  <2>3. QED BY <1>3, <1>5, <2>1, <2>2 DEF BatchesKnow
<1>9. QED BY <1>6, <1>7, <1>8 DEF BatchTypes

\* A window is closed.
LEMMA WindowsStayTyped ==
    ASSUME BatchTypes, \E i \in DOMAIN progress : CloseProgress(i)
    PROVE  BatchTypes'
<1>0. BatchShape /\ BatchRest /\ BatchesKnow(disk)
    BY DEF BatchTypes
<1>1. PICK j \in DOMAIN progress : progress' = [progress EXCEPT ![j] = "closed"]
    BY DEF CloseProgress
<1>2. UNCHANGED << selected, audits, table, disk, committed, spawns, handler, scan, offered, turns >>
    BY DEF CloseProgress
<1>3. BatchShape'
    BY <1>0, <1>1, <1>2 DEF BatchShape, Reports
<1>4. QED BY <1>0, <1>2, <1>3 DEF BatchTypes, BatchRest, BatchesKnow

\* A step of one batch.
LEMMA StepsAreTyped ==
    ASSUME BatchTypes, NEW j \in DOMAIN spawns, SpawnStep(j)
    PROVE  BatchTypes'
<1>0. /\ BatchShape /\ BatchRest /\ BatchesKnow(disk) /\ spawns[j] \in Batches
      /\ spawns[j].todo \subseteq spawns[j].want /\ spawns[j].made \subseteq disk[spawns[j].in]
      /\ spawns[j].in \in Projects /\ j \in Nat \ {0} /\ j <= Len(spawns)
    BY BatchIsTyped DEF BatchTypes, BatchesKnow, Batches
<1>1. ASSUME NEW s \in Batches, spawns' = [spawns EXCEPT ![j] = s], s.todo \subseteq s.want,
             s.made \subseteq disk'[s.in], UNCHANGED << selected, table >>,
             progress' \in Seq(Reports), Len(progress') = Len(progress), handler' \in {0, handler},
             disk' \in [Projects -> SUBSET Tasks], \A p \in Projects : disk[p] \subseteq disk'[p], BatchRest'
      PROVE  BatchTypes'
  <2>1. /\ BatchShape' /\ DOMAIN spawns' = DOMAIN spawns /\ Len(spawns') = Len(spawns) /\ Len(spawns) \in Nat
        /\ spawns'[j] = s /\ \A i \in DOMAIN spawns : i # j => spawns'[i] = spawns[i]
      BY <1>0, <1>1 DEF BatchShape
  <2>2. BatchesKnow(disk')
      BY <1>1, MoreFiles
  <2>3. spawns # << >> /\ selected # NoProject
      BY <1>0 DEF BatchesKnow
  <2>4. BatchesKnow(disk)'
    <3>1. \A i \in DOMAIN spawns : spawns'[i].todo \subseteq spawns'[i].want /\ spawns'[i].made \subseteq disk'[spawns'[i].in]
        BY <1>1, <2>1, <2>2 DEF BatchesKnow
    <3>2. handler' \in 0 .. Len(spawns')
        BY <1>0, <1>1, <2>1 DEF BatchesKnow
    <3>3. QED BY <1>1, <2>1, <2>3, <3>1, <3>2 DEF BatchesKnow
  <2>5. QED BY <1>1, <2>1, <2>4 DEF BatchTypes
<1>2. CASE \E t \in Tasks : ForgeFile(j, t)
  <2>1. PICK t \in Tasks, saved \in BOOLEAN, linked \in BOOLEAN :
             ForgeFile(j, t) /\ Forged(j, t, saved, ~saved \/ ~linked)
      BY <1>2 DEF ForgeFile
  <2>2. PICK s : s = [spawns[j] EXCEPT !.todo = @ \ {t}, !.made = IF saved THEN @ \cup {t} ELSE @,
                                       !.failed = @ \/ (~saved \/ ~linked)]
      OBVIOUS
  <2>3. /\ s \in Batches /\ s.in = spawns[j].in /\ s.todo \subseteq s.want
        /\ s.made = IF saved THEN spawns[j].made \cup {t} ELSE spawns[j].made
      BY <1>0, <2>1, <2>2 DEF Batches
  <2>4. spawns' = [spawns EXCEPT ![j] = s]
      BY <1>0, <2>1, <2>2 DEF Forged, BatchShape
  <2>5. disk' = IF saved THEN [disk EXCEPT ![spawns[j].in] = @ \cup {t}] ELSE disk
      BY <2>1 DEF Forged
  <2>6. /\ disk' \in [Projects -> SUBSET Tasks] /\ \A p \in Projects : disk[p] \subseteq disk'[p]
        /\ saved => t \in disk'[spawns[j].in]
    <3>1. disk \in [Projects -> SUBSET Tasks]
        BY <1>0 DEF BatchShape
    <3>2. CASE saved
        BY <1>0, <2>5, <3>1, <3>2
    <3>3. CASE ~ saved
        BY <2>5, <3>1, <3>3
    <3>4. QED BY <3>2, <3>3
  <2>7. UNCHANGED << selected, audits, table, committed, progress, handler, scan, offered, turns >>
      BY <2>1 DEF ForgeFile
  <2>8. BatchRest'
      BY <1>0, <2>6, <2>7 DEF BatchRest
  <2>9. s.made \subseteq disk'[s.in] /\ progress' \in Seq(Reports)
      BY <1>0, <2>3, <2>6, <2>7 DEF BatchShape
  <2>10. QED BY <1>1, <2>3, <2>4, <2>6, <2>7, <2>8, <2>9
<1>3. CASE CommitSpawned(j) \/ SpawnCrashes(j)
  <2>1. PICK result \in {"success", "failure"} : Concluded(j, result)
      BY <1>3 DEF CommitSpawned, SpawnCrashes
  <2>2. PICK s : s = [spawns[j] EXCEPT !.todo = {}, !.made = {}, !.failed = FALSE, !.pc = result]
      OBVIOUS
  <2>3. s \in Batches /\ s.todo = {} /\ s.made = {}
      BY <1>0, <2>2 DEF Batches
  <2>4. spawns' = [spawns EXCEPT ![j] = s]
      BY <1>0, <2>1, <2>2 DEF Concluded, BatchShape
  <2>5. UNCHANGED << selected, audits, table, disk, progress, handler, scan, offered, turns >>
      BY <1>3 DEF CommitSpawned, SpawnCrashes
  <2>6. committed' \in [Projects -> SUBSET Tasks] /\ \A p \in Projects : committed'[p] \subseteq disk[p]
    <3>1. \/ committed' = [committed EXCEPT ![spawns[j].in] = @ \cup spawns[j].made]
          \/ UNCHANGED committed
        BY <1>3 DEF CommitSpawned, SpawnCrashes
    <3>2. spawns[j].made \in SUBSET Tasks
        BY <1>0 DEF Batches
    <3>3. QED BY <1>0, <3>1, <3>2 DEF BatchRest
  <2>7. BatchRest'
      BY <1>0, <2>5, <2>6 DEF BatchRest
  <2>8. progress' \in Seq(Reports) /\ disk' \in [Projects -> SUBSET Tasks]
      BY <1>0, <2>5 DEF BatchShape
  <2>9. QED BY <1>1, <2>3, <2>4, <2>5, <2>7, <2>8
<1>4. CASE SpawnFinished(j)
  <2>1. PICK s : s = [spawns[j] EXCEPT !.pc = "over"]
      OBVIOUS
  <2>2. s \in Batches /\ s.in = spawns[j].in /\ s.todo = spawns[j].todo /\ s.want = spawns[j].want
        /\ s.made = spawns[j].made
      BY <1>0, <2>1 DEF Batches
  <2>3. spawns' = [spawns EXCEPT ![j] = s]
      BY <1>0, <1>4, <2>1 DEF SpawnFinished, BatchShape
  <2>4. handler' = 0 /\ UNCHANGED << selected, table, disk, committed, offered, turns >>
      BY <1>4 DEF SpawnFinished
  <2>5. progress' \in Seq(Reports) /\ Len(progress') = Len(progress)
    <3>1. spawns[j].pc \in Reports
        BY <1>4 DEF SpawnFinished, Reports
    <3>2. progress' = progress \/ progress' = [progress EXCEPT ![handler] = spawns[j].pc]
        BY <1>4 DEF SpawnFinished
    <3>3. QED BY <1>0, <3>1, <3>2 DEF BatchShape
  <2>6. /\ audits' \in [Kinds -> Projects \cup {NoProject}]
        /\ scan' \in Scans
    <3>1. selected \in Projects /\ table.kind \in Kinds
        BY <1>0 DEF BatchesKnow, BatchShape
    <3>2. \/ audits' = WithAudit(table.kind, selected) /\ scan' = WithScan(selected, TRUE)
          \/ UNCHANGED << audits, scan >>
        BY <1>4 DEF SpawnFinished
    <3>3. QED BY <1>0, <3>1, <3>2, LooksAreTyped DEF BatchRest
  <2>7. BatchRest'
      BY <1>0, <2>4, <2>6 DEF BatchRest
  <2>8. disk' \in [Projects -> SUBSET Tasks]
      BY <1>0, <2>4 DEF BatchShape
  <2>9. QED BY <1>0, <1>1, <2>2, <2>3, <2>4, <2>5, <2>7, <2>8
<1>5. QED BY <1>2, <1>3, <1>4 DEF SpawnStep

\* Whatever the manager closes: the types of the batches, and nothing is committed that
\* is not on the disk.
LEMMA BatchIsWellTyped == BatchSpec => []BatchTypeOK
<1>1. BatchTypes /\ [BatchNext]_batchVars => BatchTypes'
  <2> SUFFICES ASSUME BatchTypes, [BatchNext]_batchVars PROVE BatchTypes'
      OBVIOUS
  <2>1. CASE UNCHANGED batchVars
      BY <2>1 DEF batchVars, BatchTypes, BatchShape, BatchRest, BatchesKnow
  <2>2. CASE \E i \in DOMAIN spawns : SpawnStep(i)
      BY <2>2, StepsAreTyped
  <2>3. CASE BatchNext /\ ~ \E i \in DOMAIN spawns : SpawnStep(i)
      BY <2>3, ManagersKeepTheTypes, BegunAreTyped, WindowsStayTyped DEF BatchNext
  <2>4. QED BY <2>1, <2>2, <2>3
<1>2. BatchTypes => BatchTypeOK
  <2> SUFFICES ASSUME BatchTypes PROVE BatchTypeOK
      OBVIOUS
  <2>1. BatchShape /\ BatchRest /\ BatchesKnow(disk)
      BY DEF BatchTypes
  <2>2. ASSUME NEW i \in DOMAIN spawns
        PROVE  /\ spawns[i].in \in Projects /\ spawns[i].want \subseteq Tasks
               /\ spawns[i].todo \subseteq spawns[i].want /\ spawns[i].made \subseteq disk[spawns[i].in]
               /\ spawns[i].pc \in {"never", "forge", "success", "failure", "over"}
               /\ progress[i] \in {"open", "success", "failure", "closed"}
      BY <2>1, BatchIsTyped DEF Batches, BatchesKnow, Reports
  <2>3. DOMAIN progress = DOMAIN spawns /\ handler \in DOMAIN progress \cup {0}
      BY <2>1 DEF BatchShape, BatchesKnow
  <2>4. QED BY <2>1, <2>2, <2>3 DEF BatchShape, BatchRest, Offers, BatchTypeOK
<1>3. QED BY <1>1, <1>2, BatchTypesStart, PTL DEF BatchSpec

(***************************************************************************)
(* The gate, the list of sequences and the master of the edit.             *)
(***************************************************************************)

Forges == [kind : {"none", "boards", "master"}, in : Shows \cup {NoShow}, todo : SUBSET Scripts,
           shown : SUBSET Scripts, outcome : {"idle", "forging", "success", "failure"}]

\* What is listed as existing is not listed as missing, in the list and in the
\* batch that was asked for from it.
ListedOnce ==
    /\ sheet.pending \cap sheet.present = {}
    /\ forge.todo \cap forge.shown = {}

StoryInv == StoryTypeOK /\ forge \in Forges /\ GateHolds /\ MasterIsForged /\ ListedOnce

LEMMA StoryStarts == StoryInit => StoryInv
<1> SUFFICES ASSUME StoryInit PROVE StoryInv
    OBVIOUS
<1>1. StoryTypeOK /\ forge \in Forges
    BY StoryAssumption DEF StoryInit, StoryTypeOK, Forges, NoForge, Lists
<1>2. GateHolds /\ MasterIsForged /\ ListedOnce
    BY DEF StoryInit, GateHolds, MasterIsForged, ListedOnce, NoForge
<1>3. QED BY <1>1, <1>2 DEF StoryInv

\* A look-up is begun for the project it is given, and keeps its type.
LEMMA LookupsAreTyped ==
    ASSUME StoryTypeOK, NEW l \in Lists, NEW p \in Shows \cup {NoShow}
    PROVE  WithLookup(l, p) \in [Lists -> Shows \cup {NoShow}]
BY DEF StoryTypeOK, WithLookup

\* Whatever leaves the workspaces and the batch alone, and shows a page that the
\* gate lets through, keeps the desk whole.
LEMMA PagesKeepTheDesk ==
    ASSUME StoryInv,
           chosen' \in Shows \cup {NoShow}, installing' \in Shows \cup {NoShow},
           view' \in {"blank", "gate", "boards", "edit", "entities"},
           view' \in {"boards", "edit", "entities"} => chosen' \in installed' \cup {NoShow},
           installed \subseteq installed', installed' \subseteq Shows,
           lookups' \in [Lists -> Shows \cup {NoShow}],
           mode' \in [does : {"SPAWN", "ASSIGN"}, of : Shows \cup {NoShow}],
           UNCHANGED << sheet, boards, known, master, forge, notice >>
    PROVE  StoryInv'
<1>1. StoryTypeOK' /\ (forge \in Forges)'
    BY DEF StoryInv, StoryTypeOK
<1>2. GateHolds' /\ MasterIsForged' /\ ListedOnce'
    BY DEF StoryInv, GateHolds, MasterIsForged, ListedOnce
<1>3. QED BY <1>1, <1>2 DEF StoryInv

\* The manager moves about, and installs.
LEMMA ManagersKeepTheDesk ==
    ASSUME StoryInv,
           \/ \E p \in Shows : ChooseShow(p)
           \/ NothingOpen
           \/ \E step \in {"boards", "edit", "entities"} : GoToStep(step)
           \/ Install
    PROVE  StoryInv'
<1>0. StoryTypeOK /\ GateHolds
    BY DEF StoryInv
<1>1. CASE \E p \in Shows : ChooseShow(p)
  <2>1. PICK p \in Shows : ChooseShow(p)
      BY <1>1
  <2>2. lookups' \in [Lists -> Shows \cup {NoShow}]
      BY <1>0, <2>1, LookupsAreTyped DEF ChooseShow, Lists, StoryTypeOK
  <2>3. QED BY <1>0, <2>1, <2>2, PagesKeepTheDesk DEF ChooseShow, PageOf, StoryTypeOK
<1>2. CASE NothingOpen
    BY <1>0, <1>2, PagesKeepTheDesk DEF NothingOpen, StoryTypeOK
<1>3. CASE \E step \in {"boards", "edit", "entities"} : GoToStep(step)
  <2>1. PICK step \in {"boards", "edit", "entities"} : GoToStep(step)
      BY <1>3
  <2>2. lookups' \in [Lists -> Shows \cup {NoShow}]
      BY <1>0, <2>1, LookupsAreTyped DEF GoToStep, ToStep, Lists, StoryTypeOK
  <2>3. QED BY <1>0, <2>1, <2>2, PagesKeepTheDesk DEF GoToStep, ToStep, PageOf, StoryTypeOK
<1>4. CASE Install
    BY <1>0, <1>4, PagesKeepTheDesk DEF Install, GateHolds, StoryTypeOK
<1>5. QED BY <1>1, <1>2, <1>3, <1>4

\* Look-ups come back or fail, an installation ends.
LEMMA AnswersKeepTheDesk ==
    ASSUME StoryInv, EditAudited \/ InstallFinished \/ \E l \in Lists : LookupFails(l)
    PROVE  StoryInv'
<1>0. StoryTypeOK /\ GateHolds
    BY DEF StoryInv
<1>1. CASE EditAudited
  <2>1. lookups' \in [Lists -> Shows \cup {NoShow}] /\ lookups["edit"] \in Shows \cup {NoShow}
      BY <1>0, <1>1 DEF EditAudited, StoryTypeOK, Lists
  <2>2. mode' \in [does : {"SPAWN", "ASSIGN"}, of : Shows \cup {NoShow}]
      BY <1>0, <1>1, <2>1 DEF EditAudited, EditButton, StoryTypeOK
  <2>3. view' \in {view, "gate"} /\ UNCHANGED << chosen, installed, installing >>
      BY <1>1 DEF EditAudited
  <2>4. UNCHANGED << sheet, boards, known, master, forge, notice >>
      BY <1>1 DEF EditAudited
  <2>5. QED BY <1>0, <2>1, <2>2, <2>3, <2>4, PagesKeepTheDesk DEF GateHolds, StoryTypeOK
<1>2. CASE InstallFinished
  <2>1. lookups' \in [Lists -> Shows \cup {NoShow}]
      BY <1>0, <1>2, LookupsAreTyped DEF InstallFinished, Lists, StoryTypeOK
  <2>2. QED BY <1>0, <1>2, <2>1, PagesKeepTheDesk DEF InstallFinished, GateHolds, StoryTypeOK
<1>3. CASE \E l \in Lists : LookupFails(l)
  <2>1. lookups' \in [Lists -> Shows \cup {NoShow}]
      BY <1>0, <1>3 DEF LookupFails, StoryTypeOK
  <2>2. QED BY <1>0, <1>3, <2>1, PagesKeepTheDesk DEF LookupFails, GateHolds, StoryTypeOK
<1>4. QED BY <1>1, <1>2, <1>3

\* The list is read anew, or a name is typed into it.
LEMMA ListsStaySound ==
    ASSUME StoryInv, SequencesRead \/ \E n \in Scripts : AddSequence(n)
    PROVE  StoryInv'
<1>0. StoryTypeOK /\ ListedOnce
    BY DEF StoryInv
<1>1. CASE SequencesRead
  <2>1. lookups["sequences"] \in Shows
      BY <1>0, <1>1 DEF SequencesRead, StoryTypeOK, Lists
  <2>2. known[lookups["sequences"]] \subseteq Scripts
      BY <1>0, <2>1 DEF StoryTypeOK
  <2>3. sheet' \in [of : Shows \cup {NoShow}, pending : SUBSET Scripts, present : SUBSET Scripts]
      BY <1>0, <1>1, <2>1, <2>2 DEF SequencesRead, StoryTypeOK
  <2>4. sheet'.pending \cap sheet'.present = {}
      BY <1>0, <1>1 DEF SequencesRead, ListedOnce
  <2>5. lookups' \in [Lists -> Shows \cup {NoShow}]
      BY <1>0, <1>1 DEF SequencesRead, StoryTypeOK
  <2>6. UNCHANGED << chosen, installed, installing, view, mode, boards, known, master, forge, notice >>
      BY <1>1 DEF SequencesRead
  <2>7. QED BY <2>3, <2>4, <2>5, <2>6
            DEF StoryInv, StoryTypeOK, ListedOnce, GateHolds, MasterIsForged
<1>2. CASE \E n \in Scripts : AddSequence(n)
  <2>1. PICK n \in Scripts : AddSequence(n)
      BY <1>2
  <2>2. /\ sheet' \in [of : Shows \cup {NoShow}, pending : SUBSET Scripts, present : SUBSET Scripts]
        /\ sheet'.pending = sheet.pending \cup {n} /\ sheet'.present = sheet.present
      BY <1>0, <2>1 DEF AddSequence, StoryTypeOK
  <2>3. sheet'.pending \cap sheet'.present = {}
      BY <1>0, <2>1, <2>2 DEF AddSequence, ListedOnce
  <2>4. UNCHANGED << chosen, installed, installing, view, mode, boards, known, master, forge,
                     notice, lookups >>
      BY <2>1 DEF AddSequence
  <2>5. QED BY <2>2, <2>3, <2>4 DEF StoryInv, StoryTypeOK, ListedOnce, GateHolds, MasterIsForged
<1>3. QED BY <1>1, <1>2

\* A batch is asked for: nothing that the list shows as existing is in it.
LEMMA BatchesStartSound ==
    ASSUME StoryInv, SpawnStoryboards \/ SpawnMaster
    PROVE  StoryInv'
<1>0. StoryTypeOK /\ ListedOnce /\ forge \in Forges
    BY DEF StoryInv
<1>1. UNCHANGED << chosen, installed, installing, view, sheet, lookups, mode, boards, known, master >>
    BY DEF SpawnStoryboards, SpawnMaster
<1>2. chosen \in installed /\ chosen \in Shows
    BY <1>0 DEF SpawnStoryboards, SpawnMaster, StoryTypeOK
<1>3. Listed \subseteq Scripts /\ Listed \cap sheet.pending = {} /\ sheet.pending \subseteq Scripts
    BY <1>0 DEF Listed, StoryTypeOK, ListedOnce
<1>4. notice' \in {"closed", "open", "success", "failure"}
    BY DEF SpawnStoryboards, SpawnMaster, Start
<1>5. PICK kind \in {"boards", "master"}, todo \in SUBSET Scripts :
           Start(kind, todo) /\ todo \cap Listed = {}
    BY <1>3 DEF SpawnStoryboards, SpawnMaster
<1>6. CASE UNCHANGED forge
  <2>1. StoryTypeOK' /\ (forge \in Forges)'
      BY <1>0, <1>1, <1>4, <1>6 DEF StoryTypeOK
  <2>2. QED BY <1>1, <1>6, <2>1 DEF StoryInv, GateHolds, MasterIsForged, ListedOnce
<1>7. CASE forge' = [kind |-> kind, in |-> chosen, todo |-> todo, shown |-> Listed,
                     outcome |-> "forging"]
  <2>1. forge' \in Forges
      BY <1>2, <1>3, <1>7 DEF Forges
  <2>2. StoryTypeOK'
      BY <1>0, <1>1, <1>4, <2>1 DEF StoryTypeOK, Forges
  <2>3. GateHolds' /\ MasterIsForged' /\ ListedOnce'
      BY <1>0, <1>1, <1>2, <1>5, <1>7 DEF StoryInv, GateHolds, MasterIsForged, ListedOnce
  <2>4. QED BY <2>1, <2>2, <2>3 DEF StoryInv
<1>8. QED BY <1>5, <1>6, <1>7 DEF Start

\* A batch at work writes into the project it was begun for.
LEMMA ForgingIsInstalled ==
    ASSUME StoryInv, forge.outcome = "forging"
    PROVE  forge.in \in installed /\ forge.in \in Shows
BY DEF StoryInv, GateHolds, NoForge, StoryTypeOK

LEMMA ForgesKeepTheDesk ==
    ASSUME StoryInv,
           (\E n \in Scripts : ForgeStoryboard(n)) \/ StoryboardsDone \/ ForgeMaster \/ ForgeCrashes
    PROVE  StoryInv'
<1>0. StoryTypeOK /\ ListedOnce /\ forge \in Forges /\ GateHolds
    BY DEF StoryInv
<1>1. forge.in \in installed /\ forge.in \in Shows
    BY ForgingIsInstalled DEF ForgeStoryboard, StoryboardsDone, ForgeMaster, ForgeCrashes
<1>2. UNCHANGED << chosen, installed, installing, view, sheet, lookups, mode, notice >>
    BY DEF ForgeStoryboard, StoryboardsDone, ForgeMaster, ForgeCrashes
<1>3. /\ forge' \in Forges /\ forge'.in = forge.in /\ forge'.shown = forge.shown
      /\ forge'.todo \subseteq forge.todo /\ forge'.kind = forge.kind
    BY <1>0 DEF ForgeStoryboard, StoryboardsDone, ForgeMaster, ForgeCrashes, Forges
<1>4. boards' \in [Shows -> [Scripts -> {"none", "empty", "drawn"}]]
  <2>1. ASSUME NEW n \in Scripts
        PROVE  Saved(forge.in, n) \in [Shows -> [Scripts -> {"none", "empty", "drawn"}]]
    <3>1. [boards[forge.in] EXCEPT ![n] = "empty"] \in [Scripts -> {"none", "empty", "drawn"}]
        BY <1>0, <1>1 DEF StoryTypeOK
    <3>2. QED BY <1>0, <1>1, <3>1 DEF Saved, StoryTypeOK
  <2>2. QED BY <1>0, <2>1 DEF ForgeStoryboard, StoryboardsDone, ForgeMaster, ForgeCrashes, StoryTypeOK
<1>5. known' \in [Shows -> SUBSET Scripts]
  <2>1. ASSUME NEW n \in Scripts
        PROVE  Registered(forge.in, n) \in [Shows -> SUBSET Scripts]
      BY <1>0, <1>1 DEF Registered, StoryTypeOK
  <2>2. QED BY <1>0, <2>1 DEF ForgeStoryboard, StoryboardsDone, ForgeMaster, ForgeCrashes, StoryTypeOK
<1>6. master' \in [Shows -> {"none", "empty", "cut"}]
    BY <1>0, <1>1 DEF ForgeStoryboard, StoryboardsDone, ForgeMaster, ForgeCrashes, StoryTypeOK
<1>7. StoryTypeOK'
    BY <1>0, <1>2, <1>3, <1>4, <1>5, <1>6 DEF StoryTypeOK, Forges
<1>8. GateHolds' /\ ListedOnce'
    BY <1>0, <1>1, <1>2, <1>3 DEF GateHolds, ListedOnce
<1>9. MasterIsForged'
  <2>1. CASE ForgeMaster
      BY <1>0, <1>1, <2>1 DEF ForgeMaster, MasterIsForged, StoryTypeOK, Forges
  <2>2. CASE ~ ForgeMaster
      BY <1>0, <1>3, <2>2 DEF ForgeStoryboard, StoryboardsDone, ForgeCrashes, MasterIsForged, Forges
  <2>3. QED BY <2>1, <2>2
<1>10. QED BY <1>3, <1>7, <1>8, <1>9 DEF StoryInv

\* A batch has ended and its window is told.
LEMMA EndsKeepTheDesk ==
    ASSUME StoryInv, ForgeFinished
    PROVE  StoryInv'
<1>0. StoryTypeOK /\ ListedOnce /\ forge \in Forges /\ GateHolds
    BY DEF StoryInv
<1>1. UNCHANGED << chosen, installed, installing, sheet, mode, boards, known, master >>
      /\ forge' = NoForge
    BY DEF ForgeFinished
<1>2. /\ notice' \in {"closed", "open", "success", "failure"}
      /\ view' = view \/ \E step \in {"edit", "entities"} : view' = PageOf(step, chosen)
    BY <1>0 DEF ForgeFinished, StoryTypeOK
<1>3. lookups' \in [Lists -> Shows \cup {NoShow}]
  <2>1. lookups \in [Lists -> Shows \cup {NoShow}] /\ chosen \in Shows \cup {NoShow} /\ "edit" \in Lists
      BY <1>0 DEF StoryTypeOK, Lists
  <2>2. WithLookup("edit", chosen) \in [Lists -> Shows \cup {NoShow}]
      BY <1>0, <2>1, LookupsAreTyped
  <2>3. \E edit \in {WithLookup("edit", chosen), lookups} :
           lookups' \in {edit, [edit EXCEPT !["sequences"] = chosen], lookups}
      BY DEF ForgeFinished
  <2>4. QED BY <2>1, <2>2, <2>3
<1>4. forge' \in Forges /\ forge'.todo = {}
    BY <1>1 DEF Forges, NoForge
<1>5. StoryTypeOK'
    BY <1>0, <1>1, <1>2, <1>3, <1>4 DEF StoryTypeOK, Forges, PageOf
<1>6. GateHolds' /\ MasterIsForged' /\ ListedOnce'
    BY <1>0, <1>1, <1>2, <1>4 DEF GateHolds, MasterIsForged, ListedOnce, PageOf, NoForge
<1>7. QED BY <1>4, <1>5, <1>6 DEF StoryInv

\* The window is closed; artists draw, the editor cuts.
LEMMA StudiosKeepTheDesk ==
    ASSUME StoryInv,
           \/ CloseNotice
           \/ \E p \in Shows, n \in Scripts : Draw(p, n)
           \/ \E p \in Shows : Cut(p)
    PROVE  StoryInv'
<1>0. StoryTypeOK /\ ListedOnce /\ forge \in Forges /\ GateHolds /\ MasterIsForged
    BY DEF StoryInv
<1>1. UNCHANGED << chosen, installed, installing, view, sheet, lookups, mode, known, forge >>
    BY DEF CloseNotice, Draw, Cut
<1>2. boards' \in [Shows -> [Scripts -> {"none", "empty", "drawn"}]]
  <2>1. ASSUME NEW p \in Shows, NEW n \in Scripts, Draw(p, n)
        PROVE  boards' \in [Shows -> [Scripts -> {"none", "empty", "drawn"}]]
    <3>1. [boards[p] EXCEPT ![n] = "drawn"] \in [Scripts -> {"none", "empty", "drawn"}]
        BY <1>0 DEF StoryTypeOK
    <3>2. QED BY <1>0, <2>1, <3>1 DEF Draw, StoryTypeOK
  <2>2. QED BY <1>0, <2>1 DEF CloseNotice, Cut, StoryTypeOK
<1>3. master' \in [Shows -> {"none", "empty", "cut"}]
    BY <1>0 DEF CloseNotice, Draw, Cut, StoryTypeOK
<1>4. notice' \in {"closed", "open", "success", "failure"}
    BY <1>0 DEF CloseNotice, Draw, Cut, StoryTypeOK
<1>5. MasterIsForged'
  <2>1. \A p \in Shows : master[p] # "none" => master'[p] # "none"
      BY <1>0 DEF CloseNotice, Draw, Cut, StoryTypeOK
  <2>2. forge.kind = "master" /\ forge.outcome = "success" => forge.in \in Shows
      BY <1>0 DEF GateHolds, NoForge, StoryTypeOK
  <2>3. QED BY <1>0, <1>1, <2>1, <2>2 DEF MasterIsForged
<1>6. StoryTypeOK'
    BY <1>0, <1>1, <1>2, <1>3, <1>4 DEF StoryTypeOK
<1>7. QED BY <1>0, <1>1, <1>5, <1>6 DEF StoryInv, GateHolds, ListedOnce

LEMMA StorySteps == StoryInv /\ [StoryNext]_storyVars => StoryInv'
<1> SUFFICES ASSUME StoryInv, [StoryNext]_storyVars PROVE StoryInv'
    OBVIOUS
<1>1. CASE UNCHANGED storyVars
    BY <1>1 DEF storyVars, StoryInv, StoryTypeOK, GateHolds, MasterIsForged, ListedOnce
<1>2. CASE StoryNext
    BY <1>2, ManagersKeepTheDesk, AnswersKeepTheDesk, ListsStaySound, BatchesStartSound,
       ForgesKeepTheDesk, EndsKeepTheDesk, StudiosKeepTheDesk DEF StoryNext, ForgeWork
<1>3. QED BY <1>1, <1>2

LEMMA StoryHolds == StorySpec => []StoryInv
BY StoryStarts, StorySteps, PTL DEF StorySpec

\* No step is on the screen of a project without a workspace and nothing is forged in
\* one; a window that reports a master has one on the disk.
THEOREM NothingBeforeTheGate == StorySpec => [](GateHolds /\ MasterIsForged)
<1>1. StoryInv => GateHolds /\ MasterIsForged
    BY DEF StoryInv
<1>2. QED BY <1>1, StoryHolds, PTL

\* The list and the button change to what was read of the project that is chosen.
LEMMA TheDeskIsCurrent == StorySpec => DeskIsCurrent
<1> DEFINE Current == /\ sheet'.of # sheet.of \/ sheet'.present # sheet.present => sheet'.of = chosen
                      /\ mode' # mode => mode'.of = chosen
<1>1. ASSUME StoryInv, [StoryNext]_storyVars
      PROVE  [Current]_storyVars
  <2>1. CASE SequencesRead
      BY <2>1 DEF SequencesRead
  <2>2. CASE \E n \in Scripts : AddSequence(n)
    <3>1. sheet \in [of : Shows \cup {NoShow}, pending : SUBSET Scripts, present : SUBSET Scripts]
        BY <1>1 DEF StoryInv, StoryTypeOK
    <3>2. sheet'.of = sheet.of /\ sheet'.present = sheet.present /\ mode' = mode
        BY <2>2, <3>1 DEF AddSequence
    <3>3. QED BY <3>2
  <2>3. CASE EditAudited
      BY <2>3 DEF EditAudited, EditButton
  <2>4. CASE UNCHANGED << sheet, mode >>
      BY <2>4
  <2>5. UNCHANGED << sheet, mode >> \/ SequencesRead \/ (\E n \in Scripts : AddSequence(n)) \/ EditAudited
      BY <1>1 DEF StoryNext, storyVars, ChooseShow, NothingOpen, GoToStep, Install, SpawnStoryboards,
                  SpawnMaster, CloseNotice, LookupFails, InstallFinished, ForgeWork, ForgeStoryboard,
                  StoryboardsDone, ForgeMaster, ForgeCrashes, ForgeFinished, Draw, Cut
  <2>6. QED BY <2>1, <2>2, <2>3, <2>4, <2>5
<1>2. QED BY <1>1, StoryHolds, PTL DEF StorySpec, DeskIsCurrent

\* A storyboard that the list showed as existing is never forged over.
LEMMA ListedBoardsAreKept == StorySpec => ListedBoardsKept
<1>1. ASSUME StoryInv
      PROVE  \A n \in Scripts : ForgeStoryboard(n) => n \notin forge.shown
    BY <1>1 DEF StoryInv, ListedOnce, ForgeStoryboard
<1>2. QED BY <1>1, StoryHolds, PTL DEF ListedBoardsKept

(***************************************************************************)
(* The grid of projects, its audits and the repair list.                   *)
(***************************************************************************)

AuditShape ==
    /\ audit = [on |-> audit.on, token |-> audit.token, by |-> audit.by, todo |-> audit.todo,
                found |-> audit.found]
    /\ audit.on \in BOOLEAN /\ audit.token \in Nat
    /\ audit.found = << >> \/ \E r : audit.found = << r >>
    /\ queued = << >> \/ \E q : queued = << q >> /\ q.token \in Nat
    /\ board \in Nat \ {0} /\ render \in Nat

\* Requests come in the order of the renders, the waiting one last.
InOrder ==
    /\ audit.on => audit.token <= render
    /\ audit.found # << >> => audit.on
    /\ queued # << >> => audit.on /\ audit.token < queued[1].token /\ queued[1].token <= render

\* A card has no verdict before the audit of its render has given it one.
Awaits(t) == t \in DOMAIN cards => cards[t].shows = "checking"
VerdictsOnce ==
    /\ audit.on /\ audit.token = render =>
          /\ \A t \in audit.todo : Awaits(t)
          /\ audit.found # << >> => Awaits(audit.found[1].title) /\ audit.found[1].title \notin audit.todo
    /\ queued # << >> /\ queued[1].token = render => \A t \in DOMAIN cards : Awaits(t)

GridInv ==
    /\ AuditShape /\ StaleResultsDropped /\ RepairListIsShown
    /\ board = 1 => InOrder /\ VerdictsOnce

LEMMA GridStarts ==
    ASSUME NEW shown \in BOOLEAN, GridFrom(shown)
    PROVE  GridInv
<1>1. cards = << >> /\ DOMAIN << >> = {} /\ damaged = {} /\ audit = NoAudit /\ queued = << >>
      /\ board = 1 /\ render = 0
    BY DEF GridFrom
<1>2. AuditShape /\ InOrder /\ VerdictsOnce
    BY <1>1 DEF AuditShape, InOrder, VerdictsOnce, NoAudit
<1>3. StaleResultsDropped
    BY <1>1 DEF StaleResultsDropped
<1>4. RepairListIsShown
    BY <1>1 DEF RepairListIsShown
<1>5. QED BY <1>2, <1>3, <1>4 DEF GridInv

\* What leaves the cards and the audit alone keeps the grid.
LEMMA OthersKeepTheGrid ==
    ASSUME GridInv, UNCHANGED << boardVars, auditVars >>
    PROVE  GridInv'
BY DEF GridInv, AuditShape, StaleResultsDropped, RepairListIsShown, InOrder, VerdictsOnce, Awaits,
       boardVars, auditVars

\* A new dashboard has a grid without cards.
LEMMA NewDashboards ==
    ASSUME GridInv, SwitchProfile
    PROVE  GridInv'
<1>1. cards' = << >> /\ DOMAIN << >> = {} /\ damaged' = {} /\ render' = 0 /\ board' = board + 1
      /\ UNCHANGED << audit, queued >>
    BY DEF SwitchProfile, auditVars
<1>2. AuditShape' /\ board' # 1
    BY <1>1 DEF GridInv, AuditShape
<1>3. StaleResultsDropped' /\ RepairListIsShown'
    BY <1>1, <1>2 DEF StaleResultsDropped, RepairListIsShown
<1>4. QED BY <1>2, <1>3 DEF GridInv

\* A render draws its cards anew, and its request is the newest.
LEMMA RendersKeepTheGrid ==
    ASSUME GridInv, RenderProjects
    PROVE  GridInv'
<1>0. AuditShape /\ (board = 1 => InOrder)
    BY DEF GridInv
<1>1. /\ render' = render + 1 /\ damaged' = {} /\ board' = board
      /\ cards' = [t \in fetch.list |-> [shows |-> "checking", asked |-> board, token |-> 0]]
    BY DEF RenderProjects
<1>2. DOMAIN cards' = fetch.list /\ \A t \in DOMAIN cards' : cards'[t].shows = "checking" /\ cards'[t].token = 0
    BY <1>1
<1>3. \A t : Awaits(t)'
    BY <1>2 DEF Awaits
<1>4. StaleResultsDropped'
    BY <1>2 DEF StaleResultsDropped
<1>5. RepairListIsShown'
    BY <1>1, <1>2 DEF RepairListIsShown, Damage
<1>6. CASE audit.on
  <2>1. PICK q : q = [token |-> render + 1, by |-> board, todo |-> fetch.list]
      OBVIOUS
  <2>2. queued' = << q >> /\ UNCHANGED audit /\ q.token = render + 1
      BY <1>1, <1>6, <2>1 DEF RenderProjects, AuditProjects
  <2>3. AuditShape'
      BY <1>0, <1>1, <2>2 DEF AuditShape
  <2>4. ASSUME board = 1
        PROVE  InOrder' /\ VerdictsOnce'
    <3>1. audit.token <= render
        BY <1>0, <1>6, <2>4 DEF InOrder
    <3>2. InOrder'
        BY <1>0, <1>1, <1>6, <2>2, <3>1 DEF InOrder, AuditShape
    <3>3. audit'.token # render'
        BY <1>0, <1>1, <2>2, <3>1 DEF AuditShape
    <3>4. VerdictsOnce'
        BY <1>3, <3>3 DEF VerdictsOnce
    <3>5. QED BY <3>2, <3>4
  <2>5. QED BY <1>1, <1>4, <1>5, <2>3, <2>4 DEF GridInv
<1>7. CASE ~ audit.on
  <2>1. /\ audit' = [on |-> TRUE, token |-> render + 1, by |-> board, todo |-> fetch.list, found |-> << >>]
        /\ UNCHANGED queued
      BY <1>1, <1>7 DEF RenderProjects, AuditProjects
  <2>2. AuditShape'
      BY <1>0, <1>1, <2>1 DEF AuditShape
  <2>3. ASSUME board = 1
        PROVE  InOrder' /\ VerdictsOnce'
    <3>1. queued' = << >>
        BY <1>0, <1>7, <2>1, <2>3 DEF InOrder
    <3>2. InOrder'
        BY <1>0, <1>1, <2>1, <3>1 DEF InOrder, AuditShape
    <3>3. VerdictsOnce'
        BY <1>3, <2>1, <3>1 DEF VerdictsOnce
    <3>4. QED BY <3>2, <3>3
  <2>4. QED BY <1>1, <1>4, <1>5, <2>2, <2>3 DEF GridInv
<1>8. QED BY <1>6, <1>7

\* The audit takes one project after another.
LEMMA AuditsKeepTheGrid ==
    ASSUME GridInv, NEW t \in Titles, AuditProject(t)
    PROVE  GridInv'
<1>0. AuditShape /\ (board = 1 => InOrder /\ VerdictsOnce) /\ StaleResultsDropped /\ RepairListIsShown
    BY DEF GridInv
<1>1. UNCHANGED << board, render, cards, damaged, queued >> /\ audit.on /\ t \in audit.todo
      /\ audit.found = << >>
    BY DEF AuditProject, boardVars
<1>2. PICK found : /\ audit' = [audit EXCEPT !.todo = @ \ {t}, !.found = found]
                   /\ found = << >> \/ \E r : found = << r >> /\ r.title = t
  <2>1. CASE audit' = [audit EXCEPT !.todo = @ \ {t}]
    <3>1. audit' = [audit EXCEPT !.todo = @ \ {t}, !.found = << >>]
        BY <1>0, <1>1, <2>1 DEF AuditShape
    <3>2. QED BY <3>1
  <2>2. CASE ~ (audit' = [audit EXCEPT !.todo = @ \ {t}])
    <3>1. PICK r : r = [title |-> t, there |-> t \in kitsu, nas |-> OnShare(t)]
        OBVIOUS
    <3>2. audit' = [audit EXCEPT !.todo = @ \ {t}, !.found = << r >>] /\ r.title = t
        BY <2>2, <3>1 DEF AuditProject
    <3>3. QED BY <3>2
  <2>3. QED BY <2>1, <2>2
<1>3. /\ audit'.on = audit.on /\ audit'.token = audit.token /\ audit'.todo = audit.todo \ {t}
      /\ audit'.found = found
      /\ audit' = [on |-> audit'.on, token |-> audit'.token, by |-> audit'.by, todo |-> audit'.todo,
                   found |-> audit'.found]
    BY <1>0, <1>2 DEF AuditShape
<1>4. AuditShape'
    BY <1>0, <1>1, <1>2, <1>3 DEF AuditShape
<1>5. StaleResultsDropped' /\ RepairListIsShown'
    BY <1>0, <1>1 DEF StaleResultsDropped, RepairListIsShown
<1>6. ASSUME board = 1
      PROVE  InOrder' /\ VerdictsOnce'
  <2>1. InOrder'
      BY <1>0, <1>1, <1>3, <1>6 DEF InOrder
  <2>2. found # << >> => found[1].title = t
      BY <1>2
  <2>3. VerdictsOnce'
      BY <1>0, <1>1, <1>3, <1>6, <2>2 DEF VerdictsOnce, Awaits
  <2>4. QED BY <2>1, <2>3
<1>7. QED BY <1>1, <1>4, <1>5, <1>6 DEF GridInv

\* A verdict reaches the card that waits for it.
LEMMA VerdictsKeepTheGrid ==
    ASSUME GridInv, ProjectAudited
    PROVE  GridInv'
<1>0. AuditShape /\ (board = 1 => InOrder /\ VerdictsOnce) /\ StaleResultsDropped /\ RepairListIsShown
    BY DEF GridInv
<1>1. /\ UNCHANGED << board, render, queued >> /\ audit.found # << >>
      /\ audit' = [audit EXCEPT !.found = << >>]
    BY DEF ProjectAudited
<1>2. /\ audit'.on = audit.on /\ audit'.token = audit.token /\ audit'.todo = audit.todo
      /\ audit'.found = << >>
      /\ audit' = [on |-> audit'.on, token |-> audit'.token, by |-> audit'.by, todo |-> audit'.todo,
                   found |-> audit'.found]
    BY <1>0, <1>1 DEF AuditShape
<1>3. AuditShape' /\ (board = 1 => InOrder')
    BY <1>0, <1>1, <1>2 DEF AuditShape, InOrder
<1>4. CASE UNCHANGED << cards, damaged >>
  <2>1. StaleResultsDropped' /\ RepairListIsShown'
      BY <1>0, <1>1, <1>4 DEF StaleResultsDropped, RepairListIsShown
  <2>2. board = 1 => VerdictsOnce'
      BY <1>0, <1>1, <1>2, <1>4 DEF VerdictsOnce, Awaits
  <2>3. QED BY <1>1, <1>3, <2>1, <2>2 DEF GridInv
<1>5. CASE ~ UNCHANGED << cards, damaged >>
  <2>1. PICK t, status : t = audit.found[1].title /\ t \in DOMAIN cards /\ audit.token = render
                         /\ Shown(t, status)
      BY <1>5 DEF ProjectAudited
  <2>2. PICK c : c = [shows |-> status, asked |-> audit.by, token |-> audit.token]
      OBVIOUS
  <2>3. c.shows = status /\ c.token = render /\ cards' = [cards EXCEPT ![t] = c]
      BY <2>1, <2>2 DEF Shown
  <2>4. /\ DOMAIN cards' = DOMAIN cards /\ cards'[t] = c
        /\ \A u \in DOMAIN cards : u # t => cards'[u] = cards[u]
      BY <2>1, <2>3
  <2>5. /\ damaged' = IF status \in Damage THEN damaged \cup {[title |-> t, code |-> status]} ELSE damaged
      BY <2>1 DEF Shown
  <2>6. StaleResultsDropped'
      BY <1>0, <1>1, <2>3, <2>4 DEF StaleResultsDropped
  <2>7. \A d \in damaged' : d.title \in DOMAIN cards'
      BY <1>0, <2>1, <2>4, <2>5 DEF RepairListIsShown
  <2>8. \A u \in DOMAIN cards' : cards'[u].shows \in Damage =>
            [title |-> u, code |-> cards'[u].shows] \in damaged'
    <3> SUFFICES ASSUME NEW u \in DOMAIN cards', cards'[u].shows \in Damage
                 PROVE  [title |-> u, code |-> cards'[u].shows] \in damaged'
        OBVIOUS
    <3>1. CASE u = t
        BY <2>3, <2>4, <2>5, <3>1
    <3>2. CASE u # t
        BY <1>0, <2>4, <2>5, <3>2 DEF RepairListIsShown
    <3>3. QED BY <3>1, <3>2
  <2>9. ASSUME board = 1
        PROVE  \A d \in damaged' : \E u \in DOMAIN cards' :
                  cards'[u].shows \in Damage /\ d = [title |-> u, code |-> cards'[u].shows]
    <3>1. audit.on /\ cards[t].shows = "checking"
        BY <1>0, <1>1, <2>1, <2>9 DEF InOrder, VerdictsOnce, Awaits
    <3>2. cards[t].shows \notin Damage
        BY <3>1 DEF Damage
    <3> SUFFICES ASSUME NEW d \in damaged'
                 PROVE  \E u \in DOMAIN cards' :
                           cards'[u].shows \in Damage /\ d = [title |-> u, code |-> cards'[u].shows]
        OBVIOUS
    <3>3. CASE d \in damaged
      <4>1. PICK u \in DOMAIN cards :
                 cards[u].shows \in Damage /\ d = [title |-> u, code |-> cards[u].shows]
          BY <1>0, <2>9, <3>3 DEF RepairListIsShown
      <4>2. u # t
          BY <3>2, <4>1
      <4>3. QED BY <2>4, <4>1, <4>2
    <3>4. CASE d \notin damaged
      <4>1. status \in Damage /\ d = [title |-> t, code |-> status]
          BY <2>5, <3>4
      <4>2. QED BY <2>1, <2>3, <2>4, <4>1
    <3>5. QED BY <3>3, <3>4
  <2>10. RepairListIsShown'
      BY <1>1, <2>7, <2>8, <2>9 DEF RepairListIsShown
  <2>11. ASSUME board = 1
         PROVE  VerdictsOnce'
    <3>1. t \notin audit.todo /\ \A u \in audit.todo : Awaits(u)
        BY <1>0, <1>1, <2>1, <2>11 DEF InOrder, VerdictsOnce
    <3>2. \A u \in audit.todo : Awaits(u)'
        BY <2>4, <3>1 DEF Awaits
    <3>3. ~ (queued' # << >> /\ queued'[1].token = render')
        BY <1>0, <1>1, <2>1, <2>11 DEF InOrder, AuditShape
    <3>4. QED BY <1>2, <3>2, <3>3 DEF VerdictsOnce
  <2>12. QED BY <1>1, <1>3, <2>6, <2>10, <2>11 DEF GridInv
<1>6. QED BY <1>4, <1>5

\* The request that waited is taken up.
LEMMA NextAuditsKeepTheGrid ==
    ASSUME GridInv, AuditFinished
    PROVE  GridInv'
<1>0. AuditShape /\ (board = 1 => InOrder /\ VerdictsOnce) /\ StaleResultsDropped /\ RepairListIsShown
    BY DEF GridInv
<1>1. UNCHANGED << board, render, cards, damaged >> /\ queued' = << >>
    BY DEF AuditFinished, boardVars
<1>2. StaleResultsDropped' /\ RepairListIsShown'
    BY <1>0, <1>1 DEF StaleResultsDropped, RepairListIsShown
<1>3. CASE queued = << >>
  <2>1. audit' = NoAudit
      BY <1>3 DEF AuditFinished
  <2>2. AuditShape' /\ InOrder' /\ VerdictsOnce'
      BY <1>0, <1>1, <2>1 DEF AuditShape, InOrder, VerdictsOnce, NoAudit
  <2>3. QED BY <1>2, <2>2 DEF GridInv
<1>4. CASE queued # << >>
  <2>1. PICK q : queued = << q >> /\ q.token \in Nat
      BY <1>0, <1>4 DEF AuditShape
  <2>2. queued[1] = q
      BY <2>1
  <2>3. audit' = [on |-> TRUE, token |-> q.token, by |-> q.by, todo |-> q.todo, found |-> << >>]
      BY <1>4, <2>2 DEF AuditFinished
  <2>4. AuditShape'
      BY <1>0, <1>1, <2>1, <2>3 DEF AuditShape
  <2>5. ASSUME board = 1
        PROVE  InOrder' /\ VerdictsOnce'
    <3>1. InOrder'
        BY <1>0, <1>1, <1>4, <2>2, <2>3, <2>5 DEF InOrder
    <3>2. q.token = render => \A t \in DOMAIN cards : Awaits(t)
        BY <1>0, <1>4, <2>2, <2>5 DEF VerdictsOnce
    <3>3. VerdictsOnce'
        BY <1>1, <2>3, <3>2 DEF VerdictsOnce, Awaits
    <3>4. QED BY <3>1, <3>3
  <2>6. QED BY <1>1, <1>2, <2>4, <2>5 DEF GridInv
<1>5. QED BY <1>3, <1>4

LEMMA GridSteps == GridInv /\ [GridNext]_gridVars => GridInv'
<1> SUFFICES ASSUME GridInv, [GridNext]_gridVars PROVE GridInv'
    OBVIOUS
<1>1. CASE RenderProjects
    BY <1>1, RendersKeepTheGrid
<1>2. CASE \E t \in Titles : AuditProject(t)
    BY <1>2, AuditsKeepTheGrid
<1>3. CASE ProjectAudited \/ AuditFinished
    BY <1>3, VerdictsKeepTheGrid, NextAuditsKeepTheGrid
<1>4. CASE SwitchProfile
    BY <1>4, NewDashboards
<1>5. CASE UNCHANGED << boardVars, auditVars >>
    BY <1>5, OthersKeepTheGrid
<1>6. QED BY <1>1, <1>2, <1>3, <1>4, <1>5
          DEF GridNext, gridVars, GridWork, ListProjects, Refresh, OpenRepairs, ExecuteRepair,
              CloseRepair, RunRepair, RepairFinished, RepairedElsewhere, ProductionCloses,
              ShareComesAndGoes, boardVars, auditVars

\* What a card shows was asked for by the render that drew it; the repair list offers
\* what the grid shows or has shown, and exactly the damage that it shows on the first
\* dashboard.
THEOREM TheGridIsCurrent ==
    ASSUME NEW shown \in BOOLEAN
    PROVE  GridFrom(shown) /\ [][GridNext]_gridVars => [](StaleResultsDropped /\ RepairListIsShown)
<1>1. GridInv => StaleResultsDropped /\ RepairListIsShown
    BY DEF GridInv
<1>2. QED BY <1>1, GridStarts, GridSteps, PTL

(***************************************************************************)
(* The types of the grid, and whose repair a dialog hears of.              *)
(***************************************************************************)

Dialogs == [title : Titles, code : Damage, listens : BOOLEAN]
Repairs == [pc : {"asked", "done", "failed"}, title : Titles, code : Damage]
Found == [title : Titles, there : BOOLEAN, nas : Conditions]
CardStates == Damage \cup {"checking", "ready", "outdated", "cloudOnly"}

WorldTyped == kitsu \subseteq Titles /\ nas \in [Titles -> Conditions] /\ mounted \in BOOLEAN

BoardTyped ==
    /\ DOMAIN cards \subseteq Titles
    /\ \A t \in DOMAIN cards : cards[t].shows \in CardStates
    /\ damaged \subseteq [title : Titles, code : Damage]

FetchTyped == fetch \in [pc : {"idle", "asked", "listed"}, list : SUBSET Titles, pending : BOOLEAN]

WorkTyped ==
    /\ audit.on => audit = [on |-> TRUE, token |-> audit.token, by |-> audit.by,
                            todo |-> audit.todo, found |-> audit.found]
    /\ audit.todo \subseteq Titles
    /\ audit.found = << >> \/ \E r \in Found : audit.found = << r >>
    /\ queued = << >> \/ \E q : queued = << q >> /\ q.todo \subseteq Titles
    /\ queued # << >> \/ audit.found # << >> => audit.on

\* Only the dialog in front may listen, and if a repair is under way it is its own.
RepairTyped ==
    /\ dialogs \in Seq(Dialogs) /\ Len(dialogs) <= 2
    /\ \A i \in DOMAIN dialogs : dialogs[i].listens =>
          /\ i = Len(dialogs)
          /\ repair.pc # "idle" => dialogs[i].title = repair.title /\ dialogs[i].code = repair.code
    /\ repair = NoRepair \/ repair \in Repairs

\* A repair that is asked for, runs or has ended is of a damaged project.
LEMMA NoRepairIsIdle == NoRepair.pc = "idle"
BY DEF NoRepair

LEMMA RepairsAre ==
    ASSUME RepairTyped, repair.pc # "idle"
    PROVE  /\ repair \in Repairs /\ repair.title \in Titles /\ repair.code \in Damage
           /\ repair.pc \in {"asked", "done", "failed"}
<1>1. repair \in Repairs
    BY NoRepairIsIdle DEF RepairTyped
<1>2. QED BY <1>1 DEF Repairs

GridTypes == WorldTyped /\ BoardTyped /\ FetchTyped /\ WorkTyped /\ RepairTyped

\* However the grid starts.
LEMMA GridTypesStart ==
    ASSUME NEW shown \in BOOLEAN, GridFrom(shown)
    PROVE  GridTypes
<1>1. WorldTyped /\ FetchTyped
    BY DEF GridFrom, WorldTyped, FetchTyped, NoFetch, Conditions
<1>2. cards = << >> /\ DOMAIN << >> = {} /\ damaged = {}
    BY DEF GridFrom
<1>3. BoardTyped
    BY <1>2 DEF BoardTyped
<1>4. WorkTyped
    BY DEF GridFrom, WorkTyped, NoAudit
<1>5. dialogs = << >> /\ repair = NoRepair /\ Len(<< >>) = 0 /\ DOMAIN << >> = {} /\ << >> \in Seq(Dialogs)
    BY DEF GridFrom
<1>6. RepairTyped
    BY <1>5 DEF RepairTyped
<1>7. QED BY <1>1, <1>3, <1>4, <1>6 DEF GridTypes

\* What a look at the share and a card can show.
LEMMA ShareIsTyped ==
    ASSUME WorldTyped
    PROVE  /\ \A t \in Titles : OnShare(t) \in Conditions
           /\ \A there, nasWas, now : nasWas \in Conditions => Status(there, nasWas, now) \in CardStates
BY DEF WorldTyped, OnShare, Conditions, Status, CardStates, Damage

\* What happens to the studio and the share.
LEMMA WorldsAreTyped ==
    ASSUME GridTypes, [GridNext]_gridVars
    PROVE  WorldTyped'
<1>1. WorldTyped /\ RepairTyped
    BY DEF GridTypes
<1>2. CASE RunRepair
  <2>1. repair.title \in Titles
    <3>1. repair.pc = "asked"
        BY <1>2 DEF RunRepair
    <3>2. QED BY <1>1, <3>1, RepairsAre
  <2>2. QED BY <1>1, <1>2, <2>1 DEF RunRepair, FixGhost, Rebuild, WorldTyped, Conditions, Whole
<1>3. CASE \E t \in Titles : RepairedElsewhere(t)
    BY <1>1, <1>3 DEF RepairedElsewhere, WorldTyped, Conditions
<1>4. CASE \E t \in Titles : ProductionCloses(t)
    BY <1>1, <1>4 DEF ProductionCloses, WorldTyped
<1>5. CASE ShareComesAndGoes
    BY <1>1, <1>5 DEF ShareComesAndGoes, WorldTyped
<1>6. CASE UNCHANGED worldVars
    BY <1>1, <1>6 DEF worldVars, WorldTyped
<1>7. QED BY <1>2, <1>3, <1>4, <1>5, <1>6
          DEF GridNext, GridWork, gridVars, worldVars, ListProjects, RenderProjects, AuditProject, ProjectAudited,
              AuditFinished, Refresh, SwitchProfile, OpenRepairs, ExecuteRepair, CloseRepair,
              RepairFinished

\* The cards, the list of damaged projects, and the worker that fetches them.
LEMMA BoardsAreTyped ==
    ASSUME GridTypes, [GridNext]_gridVars
    PROVE  BoardTyped' /\ FetchTyped'
<1>1. WorldTyped /\ BoardTyped /\ FetchTyped /\ WorkTyped
    BY DEF GridTypes
<1>2. Asked(fetch) \in [pc : {"idle", "asked", "listed"}, list : SUBSET Titles, pending : BOOLEAN]
    BY <1>1 DEF FetchTyped, Asked, NoFetch
<1>3. [NoFetch EXCEPT !.pc = "asked"] \in [pc : {"idle", "asked", "listed"}, list : SUBSET Titles, pending : BOOLEAN]
      /\ NoFetch \in [pc : {"idle", "asked", "listed"}, list : SUBSET Titles, pending : BOOLEAN]
    BY DEF NoFetch
<1>4. CASE Refresh
    BY <1>1, <1>2, <1>4 DEF Refresh, boardVars, BoardTyped, FetchTyped
<1>5. CASE SwitchProfile
  <2>1. cards' = << >> /\ DOMAIN << >> = {} /\ damaged' = {} /\ fetch' = [NoFetch EXCEPT !.pc = "asked"]
      BY <1>5 DEF SwitchProfile
  <2>2. QED BY <1>3, <2>1 DEF BoardTyped, FetchTyped
<1>6. CASE ListProjects
    BY <1>1, <1>6 DEF ListProjects, boardVars, BoardTyped, FetchTyped, WorldTyped
<1>7. CASE RenderProjects
  <2>1. cards' = [t \in fetch.list |-> [shows |-> "checking", asked |-> board, token |-> 0]] /\ damaged' = {}
      BY <1>7 DEF RenderProjects
  <2>2. fetch.list \subseteq Titles
      BY <1>1 DEF FetchTyped
  <2>3. BoardTyped'
      BY <2>1, <2>2 DEF BoardTyped, CardStates
  <2>4. FetchTyped'
      BY <1>3, <1>7 DEF RenderProjects, FetchTyped
  <2>5. QED BY <2>3, <2>4
<1>8. CASE ProjectAudited
  <2>1. FetchTyped'
      BY <1>1, <1>8 DEF ProjectAudited, FetchTyped
  <2>2. CASE UNCHANGED << cards, damaged >>
      BY <1>1, <2>1, <2>2 DEF BoardTyped
  <2>3. CASE ~ UNCHANGED << cards, damaged >>
    <3>1. PICK r \in Found : audit.found = << r >>
        BY <1>1, <1>8 DEF WorkTyped, ProjectAudited
    <3>2. audit.found[1] = r
        BY <3>1
    <3> DEFINE status == Status(r.there, r.nas, OnShare(r.title))
               c == [shows |-> status, asked |-> audit.by, token |-> audit.token]
    <3>3. /\ r.title \in DOMAIN cards /\ Shown(r.title, status)
        BY <1>8, <2>3, <3>2 DEF ProjectAudited
    <3>4. status \in CardStates
        BY <1>1, ShareIsTyped DEF Found
    <3>5. /\ cards' = [cards EXCEPT ![r.title] = c] /\ c.shows = status
          /\ damaged' = IF status \in Damage THEN damaged \cup {[title |-> r.title, code |-> status]} ELSE damaged
        BY <3>3 DEF Shown
    <3> HIDE DEF c, status
    <3>6. r.title \in Titles
        BY DEF Found
    <3>7. BoardTyped'
        BY <1>1, <3>3, <3>4, <3>5, <3>6 DEF BoardTyped
    <3>8. QED BY <2>1, <3>7
  <2>4. QED BY <2>2, <2>3
<1>9. CASE RepairFinished
    BY <1>1, <1>2, <1>9 DEF RepairFinished, boardVars, BoardTyped, FetchTyped
<1>10. CASE UNCHANGED << boardVars, fetch >>
    BY <1>1, <1>10 DEF boardVars, BoardTyped, FetchTyped
<1>11. QED BY <1>4, <1>5, <1>6, <1>7, <1>8, <1>9, <1>10
           DEF GridNext, GridWork, gridVars, boardVars, AuditProject, AuditFinished, OpenRepairs, ExecuteRepair,
               CloseRepair, RunRepair, RepairedElsewhere, ProductionCloses, ShareComesAndGoes

\* The audit worker, and the request that waits for it.
LEMMA WorkIsTyped ==
    ASSUME GridTypes, [GridNext]_gridVars
    PROVE  WorkTyped'
<1>1. WorldTyped /\ FetchTyped /\ WorkTyped
    BY DEF GridTypes
<1>2. CASE RenderProjects
  <2>1. fetch.list \subseteq Titles
      BY <1>1 DEF FetchTyped
  <2>2. PICK q : q = [token |-> render', by |-> board, todo |-> fetch.list]
      OBVIOUS
  <2>3. CASE audit.on
    <3>1. queued' = << q >> /\ UNCHANGED audit /\ q.todo \subseteq Titles
        BY <1>2, <2>1, <2>2, <2>3 DEF RenderProjects, AuditProjects
    <3>2. QED BY <1>1, <2>3, <3>1 DEF WorkTyped
  <2>4. CASE ~ audit.on
    <3>1. audit' = [on |-> TRUE, token |-> q.token, by |-> q.by, todo |-> q.todo, found |-> << >>]
          /\ q.todo \subseteq Titles /\ UNCHANGED queued
        BY <1>2, <2>1, <2>2, <2>4 DEF RenderProjects, AuditProjects
    <3>2. QED BY <1>1, <3>1 DEF WorkTyped
  <2>5. QED BY <2>3, <2>4
<1>3. CASE \E t \in Titles : AuditProject(t)
  <2>1. PICK t \in Titles : AuditProject(t)
      BY <1>3
  <2>2. PICK r : r = [title |-> t, there |-> t \in kitsu, nas |-> OnShare(t)]
      OBVIOUS
  <2>3. r \in Found
      BY <1>1, <2>2, ShareIsTyped DEF Found
  <2>4. audit.on /\ audit.found = << >> /\ UNCHANGED queued
      BY <2>1 DEF AuditProject
  <2>5. \/ audit' = [audit EXCEPT !.todo = @ \ {t}, !.found = << r >>]
        \/ audit' = [audit EXCEPT !.todo = @ \ {t}]
      BY <2>1, <2>2 DEF AuditProject
  <2>6. /\ audit'.on /\ audit'.todo = audit.todo \ {t} /\ audit'.found \in {<< >>, << r >>}
        /\ audit' = [on |-> TRUE, token |-> audit'.token, by |-> audit'.by,
                     todo |-> audit'.todo, found |-> audit'.found]
      BY <1>1, <2>4, <2>5 DEF WorkTyped
  <2>7. QED BY <1>1, <2>3, <2>4, <2>6 DEF WorkTyped
<1>4. CASE ProjectAudited
  <2>1. audit' = [audit EXCEPT !.found = << >>] /\ UNCHANGED queued /\ audit.on
      BY <1>1, <1>4 DEF ProjectAudited, WorkTyped
  <2>2. /\ audit'.on /\ audit'.todo = audit.todo /\ audit'.found = << >>
        /\ audit' = [on |-> TRUE, token |-> audit'.token, by |-> audit'.by,
                     todo |-> audit'.todo, found |-> audit'.found]
      BY <1>1, <2>1 DEF WorkTyped
  <2>3. QED BY <1>1, <2>1, <2>2 DEF WorkTyped
<1>5. CASE AuditFinished
  <2>1. CASE queued = << >>
      BY <1>5, <2>1 DEF AuditFinished, NoAudit, WorkTyped
  <2>2. CASE queued # << >>
    <3>1. PICK q : queued = << q >> /\ q.todo \subseteq Titles
        BY <1>1, <2>2 DEF WorkTyped
    <3>2. queued[1] = q
        BY <3>1
    <3>3. /\ audit' = [on |-> TRUE, token |-> q.token, by |-> q.by, todo |-> q.todo, found |-> << >>]
          /\ queued' = << >>
        BY <1>5, <2>2, <3>2 DEF AuditFinished
    <3>4. QED BY <3>1, <3>3 DEF WorkTyped
  <2>3. QED BY <2>1, <2>2
<1>6. CASE UNCHANGED auditVars
    BY <1>1, <1>6 DEF auditVars, WorkTyped
<1>7. QED BY <1>2, <1>3, <1>4, <1>5, <1>6
          DEF GridNext, GridWork, gridVars, auditVars, ListProjects, Refresh, SwitchProfile, OpenRepairs,
              ExecuteRepair, CloseRepair, RunRepair, RepairFinished, RepairedElsewhere,
              ProductionCloses, ShareComesAndGoes

\* The repair that ends is of the dialog that listens: it is the one in front.
LEMMA TheListener ==
    ASSUME RepairTyped, NEW i \in DOMAIN dialogs, dialogs[i].listens
    PROVE  /\ i = Len(dialogs) /\ Foremost = dialogs[i]
           /\ RemoveAt(dialogs, i) = SubSeq(dialogs, 1, i - 1)
<1>1. dialogs \in Seq(Dialogs) /\ i = Len(dialogs) /\ i \in Nat
    BY DEF RepairTyped
<1>2. Foremost = dialogs[i]
    BY <1>1 DEF Foremost, Last
<1> DEFINE a == SubSeq(dialogs, 1, i - 1)
           b == SubSeq(dialogs, i + 1, Len(dialogs))
<1>3. b = << >>
  <2>1. Len(dialogs) \in Int /\ i + 1 \in Int /\ Len(dialogs) < i + 1
      BY <1>1
  <2>2. QED BY <2>1, SubSeqEmpty
<1>4. a \in Seq(Dialogs)
  <2>1. \A k \in 1 .. i - 1 : dialogs[k] \in Dialogs
      BY <1>1
  <2>2. QED BY <1>1, <2>1, SubSeqProperties
<1>5. RemoveAt(dialogs, i) = a \o b
    BY DEF RemoveAt
<1>6. a \o << >> = a
    BY <1>4, ConcatEmptySeq
<1>7. QED BY <1>1, <1>2, <1>3, <1>5, <1>6

\* The dialogs behind the one in front listen for nothing.
LEMMA BehindTheFront ==
    ASSUME RepairTyped, dialogs # << >>
    PROVE  /\ SubSeq(dialogs, 1, Len(dialogs) - 1) \in Seq(Dialogs)
           /\ Len(SubSeq(dialogs, 1, Len(dialogs) - 1)) = Len(dialogs) - 1
           /\ \A k \in DOMAIN SubSeq(dialogs, 1, Len(dialogs) - 1) :
                 ~ SubSeq(dialogs, 1, Len(dialogs) - 1)[k].listens
<1> DEFINE n == Len(dialogs)
           s == SubSeq(dialogs, 1, n - 1)
<1>1. dialogs \in Seq(Dialogs) /\ n \in Nat \ {0} /\ DOMAIN dialogs = 1 .. n
    BY DEF RepairTyped
<1>2. \A k \in 1 .. n - 1 : dialogs[k] \in Dialogs
    BY <1>1
<1>3. /\ s \in Seq(Dialogs) /\ Len(s) = IF 1 <= n - 1 THEN n - 1 - 1 + 1 ELSE 0
      /\ \A k \in 1 .. n - 1 - 1 + 1 : s[k] = dialogs[1 + k - 1]
    BY <1>1, <1>2, SubSeqProperties
<1> HIDE DEF s, n
<1>4. Len(s) = n - 1 /\ \A k \in 1 .. n - 1 : s[k] = dialogs[k]
    BY <1>1, <1>3
<1>5. \A k \in DOMAIN dialogs : k # n => ~ dialogs[k].listens
    BY DEF RepairTyped, n
<1>6. DOMAIN s = 1 .. n - 1
    BY <1>3, <1>4
<1>7. QED BY <1>1, <1>3, <1>4, <1>5, <1>6 DEF s, n

\* Dialogs open, are closed and told; a repair runs and ends.
LEMMA RepairsAreTyped ==
    ASSUME GridTypes, [GridNext]_gridVars
    PROVE  RepairTyped'
<1>1. RepairTyped /\ BoardTyped
    BY DEF GridTypes
<1>2. dialogs \in Seq(Dialogs) /\ Len(dialogs) \in Nat /\ DOMAIN dialogs = 1 .. Len(dialogs)
    BY <1>1 DEF RepairTyped
<1>3. CASE \E d, e \in damaged : OpenRepairs(d, e)
  <2>1. PICK d \in damaged, e \in damaged : OpenRepairs(d, e)
      BY <1>3
  <2> DEFINE Dialog(x) == [title |-> x.title, code |-> x.code, listens |-> FALSE]
  <2>2. Dialog(d) \in Dialogs /\ Dialog(e) \in Dialogs /\ ~ Dialog(d).listens /\ ~ Dialog(e).listens
      BY <1>1 DEF BoardTyped, Dialogs
  <2>3. dialogs' = (IF d = e THEN << Dialog(d) >> ELSE << Dialog(d), Dialog(e) >>) /\ UNCHANGED repair
      BY <2>1 DEF OpenRepairs
  <2> HIDE DEF Dialog
  <2>4. dialogs' \in Seq(Dialogs) /\ Len(dialogs') <= 2 /\ \A i \in DOMAIN dialogs' : ~ dialogs'[i].listens
      BY <2>2, <2>3
  <2>5. QED BY <1>1, <2>3, <2>4 DEF RepairTyped
<1>4. CASE ExecuteRepair
  <2> DEFINE n == Len(dialogs)
  <2>1. dialogs # << >> /\ n \in DOMAIN dialogs /\ Foremost = dialogs[n] /\ Foremost \in Dialogs
        /\ ~Foremost.listens
      BY <1>1, <1>2, <1>4 DEF ExecuteRepair, Foremost, Last
  <2>0. repair = NoRepair
      BY <1>1, <1>4 DEF ExecuteRepair, RepairTyped, Repairs
  <2>2. dialogs' = [dialogs EXCEPT ![n].listens = TRUE]
      BY <1>4 DEF ExecuteRepair, Listening
  <2>3. /\ dialogs' \in Seq(Dialogs) /\ Len(dialogs') = n /\ DOMAIN dialogs' = DOMAIN dialogs
        /\ \A i \in DOMAIN dialogs : i # n => dialogs'[i] = dialogs[i]
        /\ dialogs'[n].title = Foremost.title /\ dialogs'[n].code = Foremost.code
    <3>1. PICK d : d = [dialogs[n] EXCEPT !.listens = TRUE]
        OBVIOUS
    <3>2. d \in Dialogs /\ d.title = Foremost.title /\ d.code = Foremost.code
        BY <2>1, <3>1 DEF Dialogs
    <3>3. dialogs' = [dialogs EXCEPT ![n] = d]
        BY <2>1, <2>2, <3>1
    <3>4. QED BY <1>2, <2>1, <3>2, <3>3
  <2>4. \A i \in DOMAIN dialogs : dialogs'[i].listens => i = n
      BY <1>1, <2>3 DEF RepairTyped
  <2>5. \/ repair' = [pc |-> "asked", title |-> Foremost.title, code |-> Foremost.code]
        \/ repair' = NoRepair
      BY <1>4, <2>0 DEF ExecuteRepair
  <2> HIDE DEF n
  <2>6. \A i \in DOMAIN dialogs' : dialogs'[i].listens =>
            i = Len(dialogs') /\ (repair'.pc # "idle" => /\ dialogs'[i].title = repair'.title
                                                         /\ dialogs'[i].code = repair'.code)
    <3>1. repair'.pc # "idle" => repair'.title = Foremost.title /\ repair'.code = Foremost.code
      <4>1. CASE repair' = [pc |-> "asked", title |-> Foremost.title, code |-> Foremost.code]
          BY <4>1
      <4>2. CASE repair' = NoRepair
          BY <4>2, NoRepairIsIdle
      <4>3. QED BY <2>5, <4>1, <4>2
    <3>2. QED BY <2>3, <2>4, <3>1
  <2>7. repair' = NoRepair \/ repair' \in Repairs
      BY <2>1, <2>5 DEF Dialogs, Repairs
  <2>8. Len(dialogs') <= 2
      BY <1>1, <2>3 DEF RepairTyped, n
  <2>9. QED BY <2>3, <2>6, <2>7, <2>8 DEF RepairTyped
<1>5. CASE CloseRepair
  <2>1. dialogs # << >> /\ dialogs' = SubSeq(dialogs, 1, Len(dialogs) - 1) /\ UNCHANGED repair
      BY <1>5 DEF CloseRepair
  <2>2. /\ dialogs' \in Seq(Dialogs) /\ Len(dialogs') = Len(dialogs) - 1
        /\ \A k \in DOMAIN dialogs' : ~ dialogs'[k].listens
      BY <1>1, <2>1, BehindTheFront
  <2>3. QED BY <1>1, <1>2, <2>1, <2>2 DEF RepairTyped
<1>6. CASE RunRepair
  <2>1. repair.pc = "asked" /\ UNCHANGED dialogs
      BY <1>6 DEF RunRepair
  <2>2. \E pc \in {"done", "failed"} : repair' = [repair EXCEPT !.pc = pc]
      BY <1>6 DEF RunRepair, FixGhost, Rebuild
  <2>3. /\ repair' \in Repairs
        /\ repair'.title = repair.title /\ repair'.code = repair.code /\ repair.pc # "idle"
      BY <1>1, <2>1, <2>2, RepairsAre DEF Repairs
  <2>4. QED BY <1>1, <2>1, <2>3 DEF RepairTyped
<1>7. CASE RepairFinished
  <2>1. repair' = NoRepair /\ NoRepair.pc = "idle"
      BY <1>7 DEF RepairFinished, NoRepair
  <2>2. CASE \E i \in DOMAIN dialogs : dialogs[i].listens /\ dialogs' = RemoveAt(dialogs, i)
    <3>1. PICK i \in DOMAIN dialogs : dialogs[i].listens /\ dialogs' = RemoveAt(dialogs, i)
        BY <2>2
    <3>2. dialogs' = SubSeq(dialogs, 1, Len(dialogs) - 1) /\ dialogs # << >>
        BY <1>1, <3>1, TheListener
    <3>3. /\ dialogs' \in Seq(Dialogs) /\ Len(dialogs') = Len(dialogs) - 1
          /\ \A k \in DOMAIN dialogs' : ~ dialogs'[k].listens
        BY <1>1, <3>2, BehindTheFront
    <3>4. QED BY <1>1, <1>2, <2>1, <3>3 DEF RepairTyped
  <2>3. CASE dialogs' = [i \in DOMAIN dialogs |-> [dialogs[i] EXCEPT !.listens = FALSE]]
    <3>0. \A d \in Dialogs : [d EXCEPT !.listens = FALSE] \in Dialogs /\ ~ [d EXCEPT !.listens = FALSE].listens
        BY DEF Dialogs
    <3>a. PICK n \in Nat : n = Len(dialogs) /\ DOMAIN dialogs = 1 .. n
        BY <1>2
    <3>b. \A k \in 1 .. n : dialogs[k] \in Dialogs
        BY <1>2, <3>a
    <3>c. PICK s : s = dialogs'
        OBVIOUS
    <3>d. s = [k \in 1 .. n |-> [dialogs[k] EXCEPT !.listens = FALSE]]
        BY <2>3, <3>a, <3>c
    <3>e. s \in [1 .. n -> Dialogs] /\ \A k \in 1 .. n : ~ s[k].listens
        BY <3>0, <3>b, <3>d
    <3>f. s \in Seq(Dialogs) /\ Len(s) = n /\ DOMAIN s = 1 .. n
        BY <3>e, LenProperties
    <3>1. /\ dialogs' \in Seq(Dialogs) /\ Len(dialogs') = Len(dialogs)
          /\ \A k \in DOMAIN dialogs' : ~ dialogs'[k].listens
        BY <3>a, <3>c, <3>e, <3>f
    <3>2. QED BY <1>1, <2>1, <3>1 DEF RepairTyped
  <2>4. QED BY <1>7, <2>2, <2>3 DEF RepairFinished
<1>8. CASE UNCHANGED repairVars
    BY <1>1, <1>8 DEF repairVars, RepairTyped
<1>9. QED BY <1>3, <1>4, <1>5, <1>6, <1>7, <1>8
          DEF GridNext, GridWork, gridVars, repairVars, ListProjects, RenderProjects, AuditProject, ProjectAudited,
              AuditFinished, Refresh, SwitchProfile, RepairedElsewhere, ProductionCloses,
              ShareComesAndGoes

\* The types of the grid, with whose repair it is, as it is proved by induction.
LEMMA GridIsTyped ==
    ASSUME NEW shown \in BOOLEAN
    PROVE  GridFrom(shown) /\ [][GridNext]_gridVars => []GridTypes
<1>1. GridTypes /\ [GridNext]_gridVars => GridTypes'
    BY WorldsAreTyped, BoardsAreTyped, WorkIsTyped, RepairsAreTyped DEF GridTypes
<1>2. QED BY <1>1, GridTypesStart, PTL

\* It implies the types of the grid.
LEMMA GridTypesSuffice == GridTypes => GridTypeOK
<1> SUFFICES ASSUME GridTypes PROVE GridTypeOK
    OBVIOUS
<1> DEFINE heard == {i \in DOMAIN dialogs : dialogs[i].listens}
<1>1. Cardinality(heard) <= 1
  <2>1. heard \subseteq {Len(dialogs)}
      BY DEF GridTypes, RepairTyped
  <2>2. IsFiniteSet({Len(dialogs)}) /\ Cardinality({Len(dialogs)}) = 1
      BY FS_Singleton
  <2>3. Cardinality(heard) <= Cardinality({Len(dialogs)})
      BY <2>1, <2>2, FS_Subset
  <2>4. QED BY <2>2, <2>3
<1>2. /\ Len(dialogs) <= 2 /\ repair.pc \in {"idle", "asked", "done", "failed"}
      /\ repair.pc # "idle" => repair.title \in Titles /\ repair.code \in Damage
    BY RepairsAre DEF GridTypes, RepairTyped
<1>3. /\ audit.todo \subseteq Titles /\ Len(audit.found) <= 1 /\ Len(queued) <= 1
      /\ queued # << >> => audit.on
      /\ audit.found # << >> => audit.on
  <2>1. WorkTyped
      BY DEF GridTypes
  <2>2. Len(audit.found) <= 1
    <3>1. ASSUME NEW r, audit.found = << r >> PROVE Len(audit.found) <= 1
      <4>1. Len(<< r >>) = 1
          OBVIOUS
      <4>2. QED BY <3>1, <4>1
    <3>2. ASSUME audit.found = << >> PROVE Len(audit.found) <= 1
      <4>1. Len(<< >>) = 0
          OBVIOUS
      <4>2. QED BY <3>2, <4>1
    <3>3. QED BY <2>1, <3>1, <3>2 DEF WorkTyped
  <2>3. Len(queued) <= 1
    <3>1. ASSUME NEW r, queued = << r >> PROVE Len(queued) <= 1
      <4>1. Len(<< r >>) = 1
          OBVIOUS
      <4>2. QED BY <3>1, <4>1
    <3>2. ASSUME queued = << >> PROVE Len(queued) <= 1
      <4>1. Len(<< >>) = 0
          OBVIOUS
      <4>2. QED BY <3>2, <4>1
    <3>3. QED BY <2>1, <3>1, <3>2 DEF WorkTyped
  <2>4. QED BY <2>1, <2>2, <2>3 DEF WorkTyped
<1>4. QED BY <1>1, <1>2, <1>3 DEF GridTypes, WorldTyped, BoardTyped, FetchTyped, CardStates, GridTypeOK

\* A dialog of the batch that reports success is the one whose repair has ended.
LEMMA RepairsReportToTheirDialog ==
    ASSUME NEW shown \in BOOLEAN
    PROVE  GridFrom(shown) /\ [][GridNext]_gridVars => RepairReportsToItsDialog
<1>1. ASSUME GridTypes, RepairFinished, Len(dialogs') < Len(dialogs)
      PROVE  Foremost.title = repair.title /\ Foremost.code = repair.code
  <2>1. RepairTyped
      BY <1>1 DEF GridTypes
  <2>2. ~ (dialogs' = [i \in DOMAIN dialogs |-> [dialogs[i] EXCEPT !.listens = FALSE]])
    <3>1. dialogs \in Seq(Dialogs)
        BY <2>1 DEF RepairTyped
    <3>2. ASSUME dialogs' = [i \in DOMAIN dialogs |-> [dialogs[i] EXCEPT !.listens = FALSE]]
          PROVE  Len(dialogs') = Len(dialogs) /\ Len(dialogs) \in Nat
        BY <3>1, <3>2
    <3>3. QED BY <1>1, <3>2
  <2>3. PICK i \in DOMAIN dialogs : dialogs[i].listens
      BY <1>1, <2>2 DEF RepairFinished
  <2>4. repair.pc # "idle"
      BY <1>1 DEF RepairFinished
  <2>5. Foremost = dialogs[i]
      BY <2>1, <2>3, TheListener
  <2>6. QED BY <2>1, <2>3, <2>4, <2>5 DEF RepairTyped
<1>2. QED BY <1>1, GridIsTyped, PTL DEF RepairReportsToItsDialog

\* Numbers have a least one.
LEMMA LeastNumber ==
    ASSUME NEW S, S \subseteq Nat, S # {}
    PROVE  \E n \in S : \A m \in S : ~ (m < n)
<1> DEFINE Less == OpToRel(<, Nat)
<1>1. IsWellFoundedOn(Less, Nat)
    BY NatLessThanWellFounded
<1>2. \A m, n \in Nat : m < n => << m, n >> \in Less
    BY DEF OpToRel
<1> HIDE DEF Less
<1>3. \E n \in S : \A m \in S : ~ (<< m, n >> \in Less)
    BY <1>1, WFMin
<1>4. QED BY <1>2, <1>3

(***************************************************************************)
(* Exports: the check before them, their window and their bundles.         *)
(***************************************************************************)

ExportSteps == {"idle", "name", "gather", "pack", "decide", "report"}
Exports == [of : Films \cup {NoFilm}, dump : BOOLEAN, pc : ExportSteps, cancelled : BOOLEAN,
            name : Names \cup {0}, has : SUBSET Parts, listed : SUBSET Parts, ok : BOOLEAN,
            checked : BOOLEAN, put : BOOLEAN]
Bundles == [of : Films \cup {NoFilm}, has : SUBSET Parts, listed : SUBSET Parts, by : {0, 1}]
WindowStates == {"none", "setup", "running", "cancelling", "success", "failure"}
Windows == [of : Films \cup {NoFilm}, dump : BOOLEAN, state : WindowStates]

ExportShape ==
    /\ window \in Windows
    /\ {pendingOf, precheck, question, prepublish} \subseteq Films \cup {NoFilm}
    /\ export \in Exports
    /\ bundles \in [Names -> Bundles]

\* One thing at a time, and what the check is about is what waits to be exported.
OneAtATime ==
    /\ precheck # NoFilm => question = NoFilm /\ prepublish = NoFilm /\ pendingOf = precheck
    /\ question # NoFilm => prepublish = NoFilm /\ pendingOf = question
    /\ prepublish # NoFilm => pendingOf = prepublish
    /\ export.pc # "idle" => precheck = NoFilm /\ question = NoFilm /\ prepublish = NoFilm

\* A window that is not busy has nothing behind it; behind one that is, whatever
\* goes on is for the project it was opened for.
WindowOwns ==
    /\ window.state \notin {"running", "cancelling"} => Quiet
    /\ window.state # "none" => window.of \in Films
    /\ ~ (precheck = NoFilm /\ question = NoFilm /\ prepublish = NoFilm) => pendingOf = window.of
    /\ export.pc # "idle" => export.of = window.of

\* The manifest lists what was added, and the metadata come before the files.
PackedInOrder ==
    /\ "kitsu" \in export.has => "kitsu" \in export.listed
    /\ "files" \in export.has => {"kitsu", "files"} \subseteq export.listed

\* A name was found for what is being packed, what is there has been put there, and
\* the verdict comes last.
NamedBefore ==
    /\ export.ok => export.pc = "report"
    /\ export.pc \in {"gather", "pack", "decide"} => export.name \in Names
    /\ export.pc = "decide" \/ (export.pc = "report" /\ export.ok) =>
          /\ export.name \in Names /\ bundles[export.name] # None
          /\ bundles[export.name].of = export.of

BundleInv == ExportShape /\ PackedInOrder /\ NamedBefore /\ BundlesAreWhole

LEMMA ExportStarts == ExportInit => BundleInv /\ OneAtATime /\ WindowOwns /\ DumpIsChecked
<1> SUFFICES ASSUME ExportInit PROVE BundleInv /\ OneAtATime /\ WindowOwns /\ DumpIsChecked
    OBVIOUS
<1>1. None \in Bundles /\ NoWindow \in Windows /\ NoExport \in Exports
    BY DEF None, NoWindow, NoExport, Bundles, Windows, Exports, WindowStates, ExportSteps
<1>2. ExportShape
    BY <1>1 DEF ExportInit, ExportShape
<1>3. PackedInOrder /\ NamedBefore /\ BundlesAreWhole
    BY DEF ExportInit, PackedInOrder, NamedBefore, BundlesAreWhole, NoExport, None
<1>4. OneAtATime /\ WindowOwns /\ DumpIsChecked
    BY DEF ExportInit, OneAtATime, WindowOwns, Quiet, DumpIsChecked, NoExport, NoWindow
<1>5. QED BY <1>2, <1>3, <1>4 DEF BundleInv

\* What becomes of the thread when an export is asked for.
Begins(f, dump) ==
    \/ export.pc # "idle" /\ export' = export
    \/ /\ export.pc = "idle" /\ export' \in Exports /\ export'.pc = "name" /\ export'.of = f
       /\ export'.has = {} /\ export'.ok = FALSE /\ export'.put = FALSE
       /\ export'.checked = (~dump \/ okayed' = f)

LEMMA ExportsBegin ==
    ASSUME NEW f \in Films \cup {NoFilm}, NEW dump \in BOOLEAN, ExportProject(f, dump)
    PROVE  Begins(f, dump)
BY DEF ExportProject, Begins, NoExport, Exports, ExportSteps

\* What becomes of a bundle that has been put under its name.
LEMMA BundlesCommit ==
    ASSUME BundleInv, CommitBundle
    PROVE  /\ bundles' \in [Names -> Bundles] /\ export.name \in Names
           /\ \A n \in Names : n # export.name => bundles'[n] = bundles[n]
           /\ bundles'[export.name].of = export.of
           /\ {"kitsu", "files"} \subseteq bundles'[export.name].listed
           /\ bundles'[export.name] # None
<1>1. ExportShape /\ PackedInOrder /\ NamedBefore
    BY DEF BundleInv
<1>2. PICK b : b = [of |-> export.of, has |-> export.has, listed |-> export.listed, by |-> 0]
    OBVIOUS
<1>3. b \in Bundles /\ b.of = export.of /\ {"kitsu", "files"} \subseteq b.listed
    BY <1>1, <1>2 DEF ExportShape, Exports, Bundles, PackedInOrder, CommitBundle
<1>4. bundles' = [bundles EXCEPT ![export.name] = b] /\ export.name \in Names
    BY <1>1, <1>2 DEF CommitBundle, NamedBefore
<1>5. b # None
    BY <1>3 DEF None
<1>6. QED BY <1>1, <1>3, <1>4, <1>5 DEF ExportShape

\* Steps of the thread that add to what is packed.
Packs == WriteMetadata \/ WriteMedia \/ WriteFiles \/ WriteDump

LEMMA PackingIsTyped ==
    ASSUME ExportShape, PackedInOrder, Packs
    PROVE  /\ export' \in Exports /\ export'.pc = "pack" /\ export.pc = "pack" /\ PackedInOrder'
           /\ export'.of = export.of /\ export'.name = export.name /\ export'.checked = export.checked
           /\ export'.put = export.put /\ export'.ok = export.ok
<1>1. PICK p \in Parts, listed \in BOOLEAN :
           /\ export' = [export EXCEPT !.has = @ \cup {p}, !.listed = IF listed THEN @ \cup {p} ELSE @]
           /\ (~listed => p = "media") /\ (p = "files" => "kitsu" \in export.has)
  <2>1. CASE WriteMetadata
      BY <2>1 DEF WriteMetadata, AddPart, Parts
  <2>2. CASE WriteMedia /\ AddPart("media")
      BY <2>2 DEF AddPart, Parts
  <2>3. CASE WriteMedia /\ ~ AddPart("media")
    <3>1. export' = [export EXCEPT !.has = @ \cup {"media"}]
        BY <2>3 DEF WriteMedia
    <3>2. [export EXCEPT !.has = @ \cup {"media"}]
             = [export EXCEPT !.has = @ \cup {"media"}, !.listed = @]
        BY DEF ExportShape, Exports
    <3>3. QED BY <3>1, <3>2 DEF Parts
  <2>4. CASE WriteFiles
      BY <2>4 DEF WriteFiles, AddPart, Parts
  <2>5. CASE WriteDump
      BY <2>5 DEF WriteDump, AddPart, Parts
  <2>6. QED BY <2>1, <2>2, <2>3, <2>4, <2>5 DEF Packs
<1>2. export.pc = "pack" /\ export \in Exports
    BY DEF Packs, WriteMetadata, WriteMedia, WriteFiles, WriteDump, ExportShape
<1>3. /\ export' \in Exports /\ export'.has = export.has \cup {p}
      /\ export'.listed = IF listed THEN export.listed \cup {p} ELSE export.listed
      /\ export'.pc = "pack" /\ export'.of = export.of /\ export'.name = export.name
      /\ export'.checked = export.checked /\ export'.put = export.put /\ export'.ok = export.ok
    BY <1>1, <1>2 DEF Exports
<1>4. PackedInOrder'
    BY <1>1, <1>3 DEF PackedInOrder
<1>5. QED BY <1>2, <1>3, <1>4

\* A name is free: then the first one is.
LEMMA UniquePathIsFree ==
    ASSUME Names \subseteq Nat, \E n \in Names : bundles[n] = None
    PROVE  UniquePath \in Names /\ bundles[UniquePath] = None
<1>1. PICK free : free = {n \in Names : bundles[n] = None}
    OBVIOUS
<1>2. PICK n \in free : \A m \in free : ~ (m < n)
    BY <1>1, LeastNumber
<1>3. n \in Names /\ bundles[n] = None /\ \A m \in Names : m < n => bundles[m] # None
    BY <1>1, <1>2
<1>4. QED BY <1>3 DEF UniquePath

\* The window and the check leave the bundles alone; at most an export begins.
LEMMA RequestsBegin ==
    ASSUME ExportShape, RequestExport \/ Prechecked \/ ExportAnyway \/ PublishedBefore
    PROVE  /\ UNCHANGED bundles
           /\ export' = export \/ \E f \in Films \cup {NoFilm}, dump \in BOOLEAN : Begins(f, dump)
<1>1. window.of \in Films \cup {NoFilm} /\ pendingOf \in Films \cup {NoFilm}
    BY DEF ExportShape, Windows
<1>2. StartPending => export' = export \/ \E f \in Films \cup {NoFilm}, dump \in BOOLEAN : Begins(f, dump)
    BY <1>1, ExportsBegin DEF StartPending
<1>3. RequestExport => export' = export \/ \E f \in Films \cup {NoFilm}, dump \in BOOLEAN : Begins(f, dump)
    BY <1>1, ExportsBegin DEF RequestExport
<1>4. QED BY <1>2, <1>3 DEF RequestExport, Prechecked, ExportAnyway, PublishedBefore

LEMMA WindowsAreTyped ==
    ASSUME ExportShape,
           \/ \E f \in Films : OpenExport(f)
           \/ RequestExport \/ Prechecked \/ ExportAnyway \/ PublishThenExport \/ PublishedBefore
           \/ CancelExport \/ CloseExport
           \/ \E f \in Films : FileSaved(f)
    PROVE  /\ window' \in Windows
           /\ {pendingOf', precheck', question', prepublish'} \subseteq Films \cup {NoFilm}
<1>1. window' \in Windows
  <2>1. CASE \E f \in Films : OpenExport(f)
      BY <2>1 DEF OpenExport, Windows, WindowStates
  <2>2. CASE RequestExport \/ CancelExport
      BY <2>2 DEF RequestExport, CancelExport, ExportShape, Windows, WindowStates
  <2>3. CASE CloseExport
      BY <2>3 DEF CloseExport, NoWindow, Windows, WindowStates
  <2>4. CASE UNCHANGED window
      BY <2>4 DEF ExportShape
  <2>5. QED BY <2>1, <2>2, <2>3, <2>4
            DEF Prechecked, ExportAnyway, PublishThenExport, PublishedBefore, FileSaved
<1>2. window.of \in Films \cup {NoFilm}
    BY DEF ExportShape, Windows
<1>3. {pendingOf', precheck', question', prepublish'}
         \subseteq {pendingOf, precheck, question, prepublish, window.of, NoFilm}
    BY DEF OpenExport, RequestExport, Prechecked, ExportAnyway, PublishThenExport, PublishedBefore,
           CancelExport, CloseExport, FileSaved, StartPending
<1>4. QED BY <1>1, <1>2, <1>3 DEF ExportShape

\* Nothing of the window and of the check disturbs a bundle.
LEMMA WindowsKeepBundles ==
    ASSUME BundleInv,
           \/ \E f \in Films : OpenExport(f)
           \/ RequestExport \/ Prechecked \/ ExportAnyway \/ PublishThenExport \/ PublishedBefore
           \/ CancelExport \/ CloseExport
           \/ \E f \in Films : FileSaved(f)
    PROVE  BundleInv'
<1>0. ExportShape /\ PackedInOrder /\ NamedBefore /\ BundlesAreWhole
    BY DEF BundleInv
<1>1. UNCHANGED bundles
    BY <1>0, RequestsBegin DEF OpenExport, PublishThenExport, CancelExport, CloseExport, FileSaved
<1>2. \/ export' = export
      \/ \E f \in Films \cup {NoFilm}, dump \in BOOLEAN : Begins(f, dump)
      \/ CancelExport
    BY <1>0, RequestsBegin DEF OpenExport, PublishThenExport, CloseExport, FileSaved
<1>3. export' \in Exports /\ PackedInOrder' /\ NamedBefore'
  <2>1. CASE export' = export
      BY <1>0, <1>1, <2>1 DEF ExportShape, PackedInOrder, NamedBefore
  <2>2. CASE \E f \in Films \cup {NoFilm}, dump \in BOOLEAN : Begins(f, dump)
      BY <1>0, <1>1, <2>2 DEF Begins, ExportShape, PackedInOrder, NamedBefore
  <2>3. CASE CancelExport
    <3>1. /\ export' \in Exports /\ export'.pc = export.pc /\ export'.has = export.has
          /\ export'.listed = export.listed /\ export'.name = export.name /\ export'.of = export.of
          /\ export'.ok = export.ok
        BY <1>0, <2>3 DEF CancelExport, ExportShape, Exports
    <3>2. QED BY <1>0, <1>1, <3>1 DEF PackedInOrder, NamedBefore
  <2>4. QED BY <1>2, <2>1, <2>2, <2>3
<1>4. ExportShape'
    BY <1>0, <1>1, <1>3, WindowsAreTyped DEF ExportShape
<1>5. BundlesAreWhole'
    BY <1>0, <1>1 DEF BundlesAreWhole
<1>6. QED BY <1>3, <1>4, <1>5 DEF BundleInv

\* A name is taken that is free, and the parts are gathered and packed.
LEMMA ThreadsKeepBundles ==
    ASSUME BundleInv, NameBundle \/ Gather \/ Packs
    PROVE  BundleInv'
<1>0. ExportShape /\ PackedInOrder /\ NamedBefore /\ BundlesAreWhole
    BY DEF BundleInv
<1>1. UNCHANGED << window, pendingOf, precheck, question, prepublish, bundles >>
    BY DEF NameBundle, Gather, Packs, WriteMetadata, WriteMedia, WriteFiles, WriteDump, OnlyThread
<1>2. export' \in Exports /\ PackedInOrder' /\ NamedBefore'
  <2>1. CASE NameBundle /\ export'.pc = "gather"
    <3>0. /\ export.pc = "name" /\ \E n \in Names : bundles[n] = None
          /\ export' = [export EXCEPT !.pc = "gather", !.cancelled = FALSE, !.name = UniquePath]
        BY <1>0, <2>1 DEF NameBundle, ExportShape, Exports
    <3>1. UniquePath \in Names
        BY <3>0, UniquePathIsFree, ExportAssumption
    <3>2. /\ export' \in Exports /\ export'.pc = "gather" /\ export'.has = export.has
          /\ export'.listed = export.listed /\ export'.name = UniquePath /\ export'.ok = export.ok
          /\ export.pc = "name"
        BY <1>0, <3>0, <3>1 DEF ExportShape, Exports, ExportSteps
    <3>3. PackedInOrder'
        BY <1>0, <3>2 DEF PackedInOrder
    <3>4. NamedBefore'
        BY <1>0, <3>1, <3>2 DEF NamedBefore
    <3>5. QED BY <3>2, <3>3, <3>4
  <2>2. CASE NameBundle /\ export'.pc # "gather"
    <3>1. /\ export.pc = "name"
          /\ export' = [export EXCEPT !.pc = "report", !.cancelled = FALSE]
        BY <1>0, <2>2 DEF NameBundle, ExportShape, Exports
    <3>2. /\ export' \in Exports /\ export'.pc = "report" /\ export'.has = export.has
          /\ export'.listed = export.listed /\ export'.ok = export.ok
        BY <1>0, <3>1 DEF ExportShape, Exports, ExportSteps
    <3>3. QED BY <1>0, <3>1, <3>2 DEF PackedInOrder, NamedBefore
  <2>3. CASE Gather
    <3>1. export.pc = "gather" /\ \E pc \in {"pack", "report"} : export' = [export EXCEPT !.pc = pc]
        BY <2>3 DEF Gather, Step
    <3>2. /\ export' \in Exports /\ export'.pc \in {"pack", "report"} /\ export'.has = export.has
          /\ export'.listed = export.listed /\ export'.name = export.name /\ export'.ok = export.ok
        BY <1>0, <3>1 DEF ExportShape, Exports, ExportSteps
    <3>3. QED BY <1>0, <3>1, <3>2 DEF PackedInOrder, NamedBefore
  <2>4. CASE Packs
      BY <1>0, <2>4, PackingIsTyped DEF NamedBefore
  <2>5. QED BY <2>1, <2>2, <2>3, <2>4
<1>3. ExportShape' /\ BundlesAreWhole'
    BY <1>0, <1>1, <1>2 DEF ExportShape, BundlesAreWhole
<1>4. QED BY <1>2, <1>3 DEF BundleInv

\* The bundle is moved to its name, kept or removed, and reported.
LEMMA CommitsKeepBundles ==
    ASSUME BundleInv, CommitBundle \/ Decide \/ ExportCrashes \/ ExportFinished
    PROVE  BundleInv'
<1>0. ExportShape /\ PackedInOrder /\ NamedBefore /\ BundlesAreWhole
    BY DEF BundleInv
<1>1. window' \in Windows /\ UNCHANGED << pendingOf, precheck, question, prepublish >>
  <2>1. CASE ExportFinished
      BY <1>0, <2>1 DEF ExportFinished, ExportShape, Windows, WindowStates
  <2>2. CASE ~ ExportFinished
      BY <1>0, <2>2 DEF CommitBundle, Decide, ExportCrashes, OnlyThread, ExportShape
  <2>3. QED BY <2>1, <2>2
<1>2. CASE CommitBundle
  <2>1. /\ export' \in Exports /\ export'.pc = "decide" /\ export'.has = export.has
        /\ export'.ok = export.ok /\ export.pc = "pack"
        /\ export'.listed = export.listed /\ export'.name = export.name /\ export'.of = export.of
      BY <1>0, <1>2 DEF CommitBundle, ExportShape, Exports, ExportSteps
  <2>2. PackedInOrder' /\ NamedBefore' /\ BundlesAreWhole'
      BY <1>0, <1>2, <2>1, BundlesCommit DEF PackedInOrder, NamedBefore, BundlesAreWhole
  <2>3. ExportShape'
      BY <1>0, <1>1, <1>2, <2>1, BundlesCommit DEF ExportShape
  <2>4. QED BY <2>2, <2>3 DEF BundleInv
<1>3. CASE Decide \/ ExportCrashes
  <2>1. /\ export' \in Exports /\ export'.pc = "report" /\ export'.has = export.has
        /\ export'.listed = export.listed /\ export'.name = export.name /\ export'.of = export.of
      BY <1>0, <1>3 DEF Decide, ExportCrashes, ExportShape, Exports, ExportSteps
  <2>2. bundles' = bundles \/ (~export'.ok /\ bundles' = [bundles EXCEPT ![export.name] = None])
      BY <1>0, <1>3 DEF Decide, ExportCrashes, ExportShape, Exports
  <2>3. export'.ok => export.pc = "decide"
      BY <1>0, <1>3 DEF Decide, ExportCrashes, ExportShape, Exports
  <2>4. bundles' \in [Names -> Bundles] /\ BundlesAreWhole'
    <3>1. None \in Bundles
        BY DEF None, Bundles
    <3>2. \A n \in Names : bundles'[n] \in {bundles[n], None}
        BY <1>0, <2>2 DEF ExportShape
    <3>3. QED BY <1>0, <2>2, <3>1, <3>2 DEF ExportShape, BundlesAreWhole
  <2>5. PackedInOrder' /\ NamedBefore'
      BY <1>0, <2>1, <2>2, <2>3 DEF PackedInOrder, NamedBefore
  <2>6. QED BY <1>0, <1>1, <2>1, <2>4, <2>5 DEF BundleInv, ExportShape
<1>4. CASE ExportFinished
  <2>1. export' = NoExport /\ UNCHANGED bundles
      BY <1>4 DEF ExportFinished
  <2>2. export' \in Exports
      BY <2>1 DEF NoExport, Exports, ExportSteps
  <2>3. PackedInOrder' /\ NamedBefore' /\ BundlesAreWhole'
      BY <1>0, <2>1 DEF PackedInOrder, NamedBefore, BundlesAreWhole, NoExport
  <2>4. QED BY <1>0, <1>1, <2>1, <2>2, <2>3 DEF BundleInv, ExportShape
<1>5. QED BY <1>2, <1>3, <1>4

\* Another Hub takes names that are free only.
LEMMA OthersKeepBundles ==
    ASSUME BundleInv, \E f \in Films, n \in Names : OtherHubExports(f, n)
    PROVE  BundleInv'
<1>0. ExportShape /\ PackedInOrder /\ NamedBefore /\ BundlesAreWhole
    BY DEF BundleInv
<1>1. PICK f \in Films, n \in Names : OtherHubExports(f, n)
    OBVIOUS
<1>2. PICK b : b = [of |-> f, has |-> {"kitsu", "files"}, listed |-> {"kitsu", "files"}, by |-> 1]
    OBVIOUS
<1>3. b \in Bundles /\ {"kitsu", "files"} \subseteq b.listed
    BY <1>2 DEF Bundles, Parts
<1>4. /\ bundles' = [bundles EXCEPT ![n] = b] /\ bundles[n] = None
      /\ UNCHANGED << window, pendingOf, precheck, question, prepublish, export >>
    BY <1>1, <1>2 DEF OtherHubExports
<1>5. bundles' \in [Names -> Bundles]
    BY <1>0, <1>3, <1>4 DEF ExportShape
<1>6. \A m \in Names : bundles'[m] = IF m = n THEN b ELSE bundles[m]
    BY <1>0, <1>4 DEF ExportShape
<1>7. ExportShape' /\ PackedInOrder' /\ BundlesAreWhole'
    BY <1>0, <1>3, <1>4, <1>5, <1>6 DEF ExportShape, PackedInOrder, BundlesAreWhole
<1>8. NamedBefore'
    BY <1>0, <1>4, <1>6 DEF NamedBefore
<1>9. QED BY <1>7, <1>8 DEF BundleInv

LEMMA BundleSteps == BundleInv /\ [ExportNext]_exportVars => BundleInv'
<1> SUFFICES ASSUME BundleInv, [ExportNext]_exportVars PROVE BundleInv'
    OBVIOUS
<1>1. CASE UNCHANGED exportVars
    BY <1>1 DEF exportVars, BundleInv, ExportShape, PackedInOrder, NamedBefore, BundlesAreWhole
<1>2. CASE ExportThread
    BY <1>2, ThreadsKeepBundles, CommitsKeepBundles DEF ExportThread, Packs
<1>3. CASE ExportNext /\ ~ ExportThread
    BY <1>3, WindowsKeepBundles, OthersKeepBundles DEF ExportNext
<1>4. QED BY <1>1, <1>2, <1>3

LEMMA BundlesHold == ExportSpec => []BundleInv
<1>1. ExportInit => BundleInv
    BY ExportStarts
<1>2. QED BY <1>1, BundleSteps, PTL DEF ExportSpec

\* A bundle under its final name has all that its manifest must list, however the
\* export, its cancellation and other Hubs are timed.
THEOREM NoBundleIsPartial == ExportSpec => []BundlesAreWhole
<1>1. BundleInv => BundlesAreWhole
    BY DEF BundleInv
<1>2. QED BY <1>1, BundlesHold, PTL

\* The check, the window and the thread, while nobody leaves a busy window.
CheckInv == ExportShape /\ OneAtATime /\ WindowOwns /\ DumpIsChecked

\* An export begins: for the project that waits, and which was checked.
LEMMA PendingBegins ==
    ASSUME CheckInv, StartPending, pendingOf # NoFilm => okayed' = pendingOf,
           UNCHANGED window, ~Quiet, pendingOf # NoFilm => pendingOf = window.of,
           export.pc = "idle", precheck' = NoFilm, question' = NoFilm, prepublish' = NoFilm
    PROVE  OneAtATime' /\ WindowOwns' /\ DumpIsChecked'
<1>1. window.state \in {"running", "cancelling"} /\ window.of \in Films
    BY DEF CheckInv, WindowOwns
<1>2. pendingOf' = NoFilm
    BY DEF StartPending
<1>3. export' = export \/ (Begins(pendingOf, TRUE) /\ pendingOf # NoFilm)
    BY ExportsBegin DEF StartPending, CheckInv, ExportShape
<1>4. CASE export' = export
    BY <1>1, <1>2, <1>4 DEF OneAtATime, WindowOwns, Quiet, DumpIsChecked
<1>5. CASE Begins(pendingOf, TRUE) /\ pendingOf # NoFilm
    BY <1>1, <1>2, <1>5 DEF OneAtATime, WindowOwns, Quiet, DumpIsChecked, Begins
<1>6. QED BY <1>3, <1>4, <1>5

\* The window is opened and asks.
LEMMA AskingKeepsTheCheck ==
    ASSUME CheckInv, RequestExport \/ \E f \in Films : OpenExport(f)
    PROVE  OneAtATime' /\ WindowOwns' /\ DumpIsChecked'
<1>0. ExportShape /\ OneAtATime /\ WindowOwns /\ DumpIsChecked
    BY DEF CheckInv
<1>1. CASE RequestExport
  <2>1. window.state = "setup" /\ Quiet /\ window.of \in Films /\ window \in Windows
      BY <1>0, <1>1 DEF RequestExport, WindowOwns, ExportShape
  <2>2. window'.state = "running" /\ window'.of = window.of /\ UNCHANGED << question, prepublish >>
      BY <1>1, <2>1 DEF RequestExport, Windows
  <2>3. CASE window.dump
    <3>1. pendingOf' = window.of /\ precheck' = window.of /\ UNCHANGED export
        BY <1>1, <2>1, <2>3 DEF RequestExport, Quiet
    <3>2. QED BY <1>0, <2>1, <2>2, <3>1 DEF OneAtATime, WindowOwns, Quiet, DumpIsChecked
  <2>4. CASE ~ window.dump
    <3>1. ExportProject(window.of, FALSE) /\ UNCHANGED << pendingOf, precheck >>
        BY <1>1, <2>4 DEF RequestExport
    <3>2. Begins(window.of, FALSE)
        BY <2>1, <3>1, ExportsBegin
    <3>3. QED BY <1>0, <2>1, <2>2, <3>1, <3>2
              DEF OneAtATime, WindowOwns, Quiet, DumpIsChecked, Begins
  <2>5. QED BY <2>3, <2>4
<1>2. CASE \E f \in Films : OpenExport(f)
  <2>1. PICK f \in Films : OpenExport(f)
      BY <1>2
  <2>2. window.state = "none" /\ Quiet
      BY <1>0, <2>1 DEF OpenExport, WindowOwns, NoWindow
  <2>3. window'.state = "setup" /\ window'.of = f
        /\ UNCHANGED << pendingOf, precheck, question, prepublish, export >>
      BY <2>1 DEF OpenExport
  <2>4. QED BY <1>0, <2>2, <2>3 DEF OneAtATime, WindowOwns, Quiet, DumpIsChecked
<1>3. QED BY <1>1, <1>2

\* The scan, the question and the publication hand over to one another.
LEMMA ChecksKeepTheCheck ==
    ASSUME CheckInv, Prechecked \/ ExportAnyway \/ PublishThenExport \/ PublishedBefore
    PROVE  OneAtATime' /\ WindowOwns' /\ DumpIsChecked'
<1>0. ExportShape /\ OneAtATime /\ WindowOwns /\ DumpIsChecked
    BY DEF CheckInv
<1>1. UNCHANGED window /\ ~Quiet /\ export.pc = "idle" /\ pendingOf = window.of /\ window.of \in Films
      /\ pendingOf # NoFilm
    BY <1>0, ExportAssumption DEF Prechecked, ExportAnyway, PublishThenExport, PublishedBefore, Quiet,
       OneAtATime, WindowOwns
<1>2. window.state \in {"running", "cancelling"}
    BY <1>0, <1>1 DEF WindowOwns
<1>3. CASE Prechecked
  <2>1. precheck = pendingOf /\ question = NoFilm /\ prepublish = NoFilm
      BY <1>0, <1>3 DEF Prechecked, OneAtATime
  <2>2. precheck' = NoFilm /\ prepublish' = NoFilm
      BY <1>3, <2>1 DEF Prechecked
  <2>3. CASE question' = pendingOf /\ UNCHANGED << pendingOf, export >>
      BY <1>0, <1>1, <1>2, <2>2, <2>3 DEF OneAtATime, WindowOwns, Quiet, DumpIsChecked
  <2>4. CASE okayed' = precheck /\ StartPending /\ UNCHANGED question
      BY <1>1, <2>1, <2>2, <2>4, PendingBegins
  <2>5. QED BY <1>1, <1>3, <2>3, <2>4 DEF Prechecked
<1>4. CASE ExportAnyway
  <2>1. question = pendingOf /\ precheck = NoFilm /\ prepublish = NoFilm
      BY <1>0, <1>4 DEF ExportAnyway, OneAtATime
  <2>2. /\ okayed' = pendingOf /\ StartPending
        /\ precheck' = NoFilm /\ question' = NoFilm /\ prepublish' = NoFilm
      BY <1>4, <2>1 DEF ExportAnyway
  <2>3. QED BY <1>1, <2>2, PendingBegins
<1>5. CASE PublishThenExport
  <2>1. precheck = NoFilm /\ prepublish = NoFilm
      BY <1>0, <1>5 DEF PublishThenExport, OneAtATime
  <2>2. /\ question' = NoFilm /\ precheck' = NoFilm /\ prepublish' \in {pendingOf, NoFilm}
        /\ UNCHANGED << pendingOf, export >>
      BY <1>5, <2>1 DEF PublishThenExport
  <2>3. QED BY <1>0, <1>1, <1>2, <2>2 DEF OneAtATime, WindowOwns, Quiet, DumpIsChecked
<1>6. CASE PublishedBefore
  <2>1. prepublish = pendingOf /\ precheck = NoFilm /\ question = NoFilm
      BY <1>0, <1>6 DEF PublishedBefore, OneAtATime
  <2>2. precheck' = NoFilm /\ question' = NoFilm /\ prepublish' = NoFilm
      BY <1>6, <2>1 DEF PublishedBefore
  <2>3. CASE okayed' = prepublish /\ StartPending
      BY <1>1, <2>1, <2>2, <2>3, PendingBegins
  <2>4. CASE UNCHANGED << pendingOf, export >>
      BY <1>0, <1>1, <1>2, <2>2, <2>4 DEF OneAtATime, WindowOwns, Quiet, DumpIsChecked
  <2>5. QED BY <1>6, <2>3, <2>4 DEF PublishedBefore
<1>7. QED BY <1>3, <1>4, <1>5, <1>6

\* A busy window is cancelled, and closed when nothing is behind it.
LEMMA ClosingKeepsTheCheck ==
    ASSUME CheckInv, "escapes" \notin ExportHabits, CancelExport \/ CloseExport
    PROVE  OneAtATime' /\ WindowOwns' /\ DumpIsChecked'
<1>0. ExportShape /\ OneAtATime /\ WindowOwns /\ DumpIsChecked
    BY DEF CheckInv
<1>1. UNCHANGED << pendingOf, precheck, question, prepublish >>
    BY DEF CancelExport, CloseExport
<1>2. CASE CancelExport
  <2>1. window.state = "running" /\ window'.state = "cancelling" /\ window'.of = window.of
      BY <1>0, <1>2 DEF CancelExport, ExportShape, Windows
  <2>2. export'.pc = export.pc /\ export'.of = export.of /\ export'.checked = export.checked
      BY <1>0, <1>2 DEF CancelExport, ExportShape, Exports
  <2>3. QED BY <1>0, <1>1, <2>1, <2>2 DEF OneAtATime, WindowOwns, Quiet, DumpIsChecked
<1>3. CASE CloseExport
  <2>1. Quiet
      BY <1>0, <1>3 DEF CloseExport, WindowOwns
  <2>2. window' = NoWindow /\ UNCHANGED export
      BY <1>3 DEF CloseExport
  <2>3. QED BY <1>0, <1>1, <2>1, <2>2 DEF OneAtATime, WindowOwns, Quiet, DumpIsChecked, NoWindow
<1>4. QED BY <1>2, <1>3

\* The thread works for the window, and reports to it.
LEMMA ThreadKeepsTheCheck ==
    ASSUME CheckInv, PackedInOrder, ExportThread
    PROVE  OneAtATime' /\ WindowOwns' /\ DumpIsChecked'
<1>0. ExportShape /\ OneAtATime /\ WindowOwns /\ DumpIsChecked
    BY DEF CheckInv
<1>1. export.pc # "idle" /\ UNCHANGED << pendingOf, precheck, question, prepublish >>
    BY DEF ExportThread, NameBundle, Gather, Step, WriteMetadata, WriteMedia, WriteFiles, WriteDump,
           CommitBundle, Decide, ExportCrashes, ExportFinished, OnlyThread
<1>2. window.state \in {"running", "cancelling"} /\ precheck = NoFilm /\ question = NoFilm
      /\ prepublish = NoFilm
    BY <1>0, <1>1 DEF WindowOwns, OneAtATime, Quiet
<1>3. CASE ExportFinished
  <2>1. window'.state \in {"success", "failure"} /\ window'.of = window.of
      BY <1>0, <1>2, <1>3 DEF ExportFinished, NoWindow, ExportShape, Windows
  <2>2. export'.pc = "idle"
      BY <1>3 DEF ExportFinished, NoExport
  <2>3. window'.of \in Films
      BY <1>0, <1>2, <2>1 DEF WindowOwns
  <2>4. QED BY <1>1, <1>2, <2>1, <2>2, <2>3 DEF OneAtATime, WindowOwns, Quiet, DumpIsChecked
<1>4. CASE ~ ExportFinished
  <2>1. UNCHANGED window
      BY <1>4 DEF ExportThread, NameBundle, Gather, WriteMetadata, WriteMedia, WriteFiles, WriteDump,
         CommitBundle, Decide, ExportCrashes, OnlyThread
  <2>2. export'.of = export.of /\ export'.checked = export.checked
    <3>1. CASE Packs
        BY <1>0, <3>1, PackingIsTyped
    <3>2. CASE Gather
        BY <1>0, <3>2 DEF Gather, Step, ExportShape, Exports
    <3>3. CASE NameBundle \/ CommitBundle \/ Decide \/ ExportCrashes
        BY <1>0, <3>3 DEF NameBundle, CommitBundle, Decide, ExportCrashes, ExportShape, Exports
    <3>4. QED BY <1>4, <3>1, <3>2, <3>3 DEF ExportThread, Packs
  <2>3. QED BY <1>0, <1>1, <1>2, <2>1, <2>2 DEF OneAtATime, WindowOwns, Quiet, DumpIsChecked
<1>5. QED BY <1>3, <1>4

LEMMA CheckSteps ==
    ASSUME "escapes" \notin ExportHabits, BundleInv, CheckInv, [ExportNext]_exportVars
    PROVE  CheckInv'
<1>0. ExportShape /\ OneAtATime /\ WindowOwns /\ DumpIsChecked /\ PackedInOrder
    BY DEF CheckInv, BundleInv
<1>1. ExportShape'
    BY BundleSteps DEF BundleInv
<1>2. CASE UNCHANGED << window, pendingOf, precheck, question, prepublish, export >>
    BY <1>0, <1>1, <1>2 DEF CheckInv, OneAtATime, WindowOwns, Quiet, DumpIsChecked
<1>3. CASE ExportThread
    BY <1>0, <1>1, <1>3, ThreadKeepsTheCheck DEF CheckInv
<1>4. CASE RequestExport \/ \E f \in Films : OpenExport(f)
    BY <1>1, <1>4, AskingKeepsTheCheck DEF CheckInv
<1>5. CASE Prechecked \/ ExportAnyway \/ PublishThenExport \/ PublishedBefore
    BY <1>1, <1>5, ChecksKeepTheCheck DEF CheckInv
<1>6. CASE CancelExport \/ CloseExport
    BY <1>1, <1>6, ClosingKeepsTheCheck DEF CheckInv
<1>7. CASE (\E f \in Films : FileSaved(f)) \/ \E f \in Films, n \in Names : OtherHubExports(f, n)
    BY <1>2, <1>7 DEF FileSaved, OtherHubExports
<1>8. QED BY <1>2, <1>3, <1>4, <1>5, <1>6, <1>7 DEF ExportNext, exportVars

LEMMA ChecksHold ==
    ASSUME "escapes" \notin ExportHabits
    PROVE  ExportSpec => [](BundleInv /\ CheckInv)
<1>1. ExportInit => BundleInv /\ CheckInv
    BY ExportStarts DEF BundleInv, CheckInv
<1>2. BundleInv /\ CheckInv /\ [ExportNext]_exportVars => (BundleInv /\ CheckInv)'
    BY BundleSteps, CheckSteps
<1>3. QED BY <1>1, <1>2, PTL DEF ExportSpec

\* While nobody leaves a busy window, an export with a dump runs for a project whose
\* own scan, publication or waiver came before it.
THEOREM DumpsAreChecked ==
    ASSUME "escapes" \notin ExportHabits
    PROVE  ExportSpec => []DumpIsChecked
<1>1. CheckInv => DumpIsChecked
    BY DEF CheckInv
<1>2. QED BY <1>1, ChecksHold, PTL

\* And a window that reports success was opened for the project whose bundle is there.
LEMMA SuccessIsOnesOwn ==
    ASSUME "escapes" \notin ExportHabits
    PROVE  ExportSpec => SuccessIsOwn
<1> DEFINE Own == window'.state = "success" /\ window.state # "success" =>
                     export.of = window.of /\ bundles[export.name].of = window.of
<1>1. ASSUME BundleInv, CheckInv, [ExportNext]_exportVars
      PROVE  [Own]_exportVars
  <2>1. CASE ExportFinished
    <3>1. window \in Windows /\ export.pc = "report"
        BY <1>1, <2>1 DEF CheckInv, ExportShape, ExportFinished
    <3>2. export.of = window.of
        BY <1>1, <3>1 DEF CheckInv, WindowOwns
    <3>3. window'.state = "success" /\ window.state # "success" => export.ok
        BY <2>1, <3>1 DEF ExportFinished, Windows
    <3>4. QED BY <1>1, <3>1, <3>2, <3>3 DEF BundleInv, NamedBefore
  <2>2. CASE ~ ExportFinished
    <3>1. window'.state # "success" \/ window' = window
      <4>1. CASE \E f \in Films : OpenExport(f)
          BY <4>1 DEF OpenExport
      <4>2. CASE RequestExport \/ CancelExport
          BY <1>1, <4>2 DEF RequestExport, CancelExport, CheckInv, ExportShape, Windows
      <4>3. CASE CloseExport
          BY <4>3 DEF CloseExport, NoWindow
      <4>4. CASE UNCHANGED window
          BY <4>4
      <4>5. QED BY <1>1, <2>2, <4>1, <4>2, <4>3, <4>4
                DEF ExportNext, exportVars, Prechecked, ExportAnyway, PublishThenExport,
                    PublishedBefore, FileSaved, OtherHubExports, ExportThread, NameBundle, Gather,
                    WriteMetadata, WriteMedia, WriteFiles, WriteDump, CommitBundle, Decide,
                    ExportCrashes, OnlyThread
    <3>2. QED BY <3>1
  <2>3. QED BY <2>1, <2>2
<1>2. QED BY <1>1, ChecksHold, PTL DEF ExportSpec, SuccessIsOwn

(***************************************************************************)
(* Names: an export that packs for a name has it for itself, as long as no *)
(* other Hub takes names meanwhile.                                        *)
(***************************************************************************)

NameIsFree ==
    /\ export.pc \in {"gather", "pack"} => bundles[export.name] = None
    /\ export.pc = "decide" => export.put

LEMMA NameSteps ==
    ASSUME ~RacingHubs, BundleInv, NameIsFree, [ExportNext]_exportVars
    PROVE  NameIsFree'
<1>0. ExportShape /\ PackedInOrder /\ NamedBefore
    BY DEF BundleInv
<1>1. CASE UNCHANGED << export, bundles >>
    BY <1>1 DEF NameIsFree
<1>2. CASE RequestExport \/ Prechecked \/ ExportAnyway \/ PublishedBefore
    BY <1>0, <1>2, RequestsBegin DEF NameIsFree, Begins
<1>3. CASE CancelExport
  <2>1. export'.pc = export.pc /\ export'.name = export.name /\ export'.put = export.put
        /\ UNCHANGED bundles
      BY <1>0, <1>3 DEF CancelExport, ExportShape, Exports
  <2>2. QED BY <2>1 DEF NameIsFree
<1>4. CASE NameBundle
  <2>1. UNCHANGED bundles
      BY <1>4 DEF NameBundle
  <2>2. \/ export'.pc = "report"
        \/ /\ export'.pc = "gather" /\ export'.name = UniquePath
           /\ \E n \in Names : bundles[n] = None
      BY <1>0, <1>4 DEF NameBundle, ExportShape, Exports
  <2>3. CASE export'.pc = "report"
      BY <2>3 DEF NameIsFree
  <2>4. CASE export'.pc = "gather" /\ export'.name = UniquePath /\ \E n \in Names : bundles[n] = None
      BY <2>1, <2>4, UniquePathIsFree, ExportAssumption DEF NameIsFree
  <2>5. QED BY <2>2, <2>3, <2>4
<1>5. CASE Gather
  <2>1. export.pc = "gather" /\ \E pc \in {"pack", "report"} : export' = [export EXCEPT !.pc = pc]
      BY <1>5 DEF Gather, Step
  <2>2. export'.pc \in {"pack", "report"} /\ export'.name = export.name /\ UNCHANGED bundles
      BY <1>0, <1>5, <2>1 DEF Gather, ExportShape, Exports
  <2>3. QED BY <2>1, <2>2 DEF NameIsFree
<1>6. CASE Packs
  <2>1. UNCHANGED bundles
      BY <1>6 DEF Packs, WriteMetadata, WriteMedia, WriteFiles, WriteDump
  <2>2. QED BY <1>0, <1>6, <2>1, PackingIsTyped DEF NameIsFree
<1>7. CASE CommitBundle \/ Decide \/ ExportCrashes \/ ExportFinished
  <2>1. export'.pc \in {"decide", "report", "idle"} /\ (export'.pc = "decide" => export'.put)
    <3>1. CASE CommitBundle
        BY <1>0, <3>1 DEF CommitBundle, ExportShape, Exports
    <3>2. CASE Decide \/ ExportCrashes
        BY <1>0, <3>2 DEF Decide, ExportCrashes, ExportShape, Exports
    <3>3. CASE ExportFinished
        BY <3>3 DEF ExportFinished, NoExport
    <3>4. QED BY <1>7, <3>1, <3>2, <3>3
  <2>2. QED BY <2>1 DEF NameIsFree
<1>8. CASE \E f \in Films, n \in Names : OtherHubExports(f, n)
    BY <1>8 DEF OtherHubExports, NameIsFree
<1>9. QED BY <1>1, <1>2, <1>3, <1>4, <1>5, <1>6, <1>7, <1>8
          DEF ExportNext, ExportThread, Packs, exportVars, OpenExport, PublishThenExport, CloseExport,
              FileSaved

\* While no other Hub takes a name that one packs for, no export removes or replaces a
\* bundle that it has not put there itself.
LEMMA BundlesAreKept ==
    ASSUME ~RacingHubs
    PROVE  ExportSpec => BundlesKept
<1> DEFINE Kept == \A n \in Names :
                      bundles[n] # None /\ bundles'[n] # bundles[n] => export.put /\ export.name = n
<1>1. ExportInit => BundleInv /\ NameIsFree
    BY ExportStarts DEF ExportInit, NameIsFree, NoExport
<1>2. BundleInv /\ NameIsFree /\ [ExportNext]_exportVars => (BundleInv /\ NameIsFree)'
    BY BundleSteps, NameSteps
<1>3. ASSUME BundleInv, NameIsFree, [ExportNext]_exportVars
      PROVE  [Kept]_exportVars
  <2>0. ExportShape /\ NamedBefore
      BY <1>3 DEF BundleInv
  <2>1. CASE UNCHANGED bundles
      BY <2>1
  <2>2. CASE CommitBundle
    <3>1. bundles[export.name] = None
        BY <1>3, <2>2 DEF NameIsFree, CommitBundle
    <3>2. QED BY <1>3, <2>2, <3>1, BundlesCommit
  <2>3. CASE Decide \/ ExportCrashes
    <3>1. \A n \in Names : n # export.name => bundles'[n] = bundles[n]
        BY <2>0, <2>3 DEF Decide, ExportCrashes, ExportShape
    <3>2. export.pc \in {"gather", "pack", "decide"}
        BY <2>3 DEF Decide, ExportCrashes
    <3>3. bundles[export.name] = None \/ export.put
        BY <1>3, <3>2 DEF NameIsFree
    <3>4. bundles[export.name] = None => bundles'[export.name] = None
        BY <2>0, <2>3, <3>2 DEF Decide, ExportCrashes, ExportShape, NamedBefore
    <3>5. QED BY <3>1, <3>3, <3>4
  <2>4. CASE \E f \in Films, n \in Names : OtherHubExports(f, n)
      BY <2>0, <2>4 DEF OtherHubExports, ExportShape
  <2>5. QED BY <1>3, <2>0, <2>1, <2>2, <2>3, <2>4, RequestsBegin
            DEF ExportNext, exportVars, OpenExport, PublishThenExport, CancelExport, CloseExport,
                FileSaved, ExportThread, NameBundle, Gather, WriteMetadata, WriteMedia, WriteFiles,
                WriteDump, ExportFinished
<1>4. QED BY <1>1, <1>2, <1>3, PTL DEF ExportSpec, BundlesKept

(***************************************************************************)
(* The types of the exports.                                               *)
(***************************************************************************)

\* A question is about what waits to be exported.
Asking ==
    /\ unsaved \subseteq Films /\ okayed \in Films \cup {NoFilm}
    /\ question # NoFilm => question = pendingOf

\* A manifest lists nothing that is not there.
ListedIsPacked ==
    /\ export.listed \subseteq export.has
    /\ \A n \in Names : bundles[n].listed \subseteq bundles[n].has

\* The window and the check.
LEMMA AskingStays ==
    ASSUME ExportShape, Asking, [ExportNext]_exportVars
    PROVE  Asking'
<1>1. {pendingOf, precheck, question, prepublish} \subseteq Films \cup {NoFilm}
    BY DEF ExportShape
<1>2. CASE RequestExport
    BY <1>2 DEF RequestExport, Asking
<1>3. CASE Prechecked
    BY <1>1, <1>3 DEF Prechecked, StartPending, Asking
<1>4. CASE ExportAnyway \/ PublishThenExport \/ PublishedBefore
    BY <1>1, <1>4 DEF ExportAnyway, PublishThenExport, PublishedBefore, Asking
<1>5. CASE \E f \in Films : FileSaved(f)
    BY <1>5 DEF FileSaved, Asking
<1>6. CASE UNCHANGED << unsaved, okayed, question, pendingOf >>
    BY <1>6 DEF Asking
<1>7. QED BY <1>2, <1>3, <1>4, <1>5, <1>6
          DEF ExportNext, exportVars, OpenExport, CancelExport, CloseExport, OtherHubExports,
              ExportThread, NameBundle, Gather, WriteMetadata, WriteMedia, WriteFiles, WriteDump,
              CommitBundle, Decide, ExportCrashes, ExportFinished, OnlyThread

\* The thread and other Hubs.
LEMMA ListedStaysPacked ==
    ASSUME ExportShape, ListedIsPacked, [ExportNext]_exportVars
    PROVE  ListedIsPacked'
<1>1. export \in Exports /\ bundles \in [Names -> Bundles]
    BY DEF ExportShape
<1>2. CASE Packs
  <2>1. \/ \E p \in Parts : AddPart(p)
        \/ export' = [export EXCEPT !.has = @ \cup {"media"}]
      BY <1>2 DEF Packs, WriteMetadata, WriteMedia, WriteFiles, WriteDump, Parts
  <2>2. export'.listed \subseteq export'.has
      BY <1>1, <2>1 DEF AddPart, Exports, ListedIsPacked
  <2>3. UNCHANGED bundles
      BY <1>2 DEF Packs, WriteMetadata, WriteMedia, WriteFiles, WriteDump
  <2>4. QED BY <2>2, <2>3 DEF ListedIsPacked
<1>3. CASE CommitBundle
  <2>1. export'.listed = export.listed /\ export'.has = export.has
      BY <1>1, <1>3 DEF CommitBundle, Exports
  <2>2. PICK b : /\ b = [of |-> export.of, has |-> export.has, listed |-> export.listed, by |-> 0]
                 /\ bundles' = [bundles EXCEPT ![export.name] = b]
      BY <1>3 DEF CommitBundle
  <2>3. \A n \in Names : bundles'[n] \in {b, bundles[n]}
      BY <1>1, <2>2
  <2>4. b.listed \subseteq b.has
      BY <2>2 DEF ListedIsPacked
  <2>5. QED BY <2>1, <2>3, <2>4 DEF ListedIsPacked
<1>4. CASE Decide \/ ExportCrashes
  <2>1. export'.listed = export.listed /\ export'.has = export.has
      BY <1>1, <1>4 DEF Decide, ExportCrashes, Exports
  <2>2. \A n \in Names : bundles'[n] \in {bundles[n], None}
      BY <1>1, <1>4 DEF Decide, ExportCrashes
  <2>3. QED BY <2>1, <2>2 DEF ListedIsPacked, None
<1>5. CASE \E f \in Films, n \in Names : OtherHubExports(f, n)
  <2>1. PICK f \in Films, n \in Names : OtherHubExports(f, n)
      BY <1>5
  <2>2. PICK b : /\ b = [of |-> f, has |-> {"kitsu", "files"}, listed |-> {"kitsu", "files"}, by |-> 1]
                 /\ bundles' = [bundles EXCEPT ![n] = b]
      BY <2>1 DEF OtherHubExports
  <2>3. \A m \in Names : bundles'[m] \in {b, bundles[m]}
      BY <1>1, <2>2
  <2>4. b.listed = b.has /\ UNCHANGED export
      BY <2>1, <2>2 DEF OtherHubExports
  <2>5. QED BY <2>3, <2>4 DEF ListedIsPacked
<1>6. CASE UNCHANGED bundles /\ export'.listed = export.listed /\ export'.has = export.has
    BY <1>6 DEF ListedIsPacked
<1>7. CASE UNCHANGED bundles /\ export'.listed = {}
    BY <1>7 DEF ListedIsPacked
<1>8. CASE NameBundle \/ Gather \/ ExportFinished
  <2>1. CASE NameBundle
      BY <1>1, <1>6, <2>1 DEF NameBundle, Exports
  <2>2. CASE Gather
    <3>1. UNCHANGED bundles /\ \E pc \in {"pack", "report"} : export' = [export EXCEPT !.pc = pc]
        BY <2>2 DEF Gather, Step
    <3>2. QED BY <1>1, <1>6, <3>1 DEF Exports
  <2>3. CASE ExportFinished
      BY <1>7, <2>3 DEF ExportFinished, NoExport
  <2>4. QED BY <1>8, <2>1, <2>2, <2>3
<1>9. CASE RequestExport \/ Prechecked \/ ExportAnyway \/ PublishedBefore
  <2>1. UNCHANGED bundles /\ (export' = export \/ \E f, dump : ExportProject(f, dump))
      BY <1>9 DEF RequestExport, Prechecked, ExportAnyway, PublishedBefore, StartPending
  <2>2. export' = export \/ export'.listed = {}
      BY <2>1 DEF ExportProject, NoExport
  <2>3. QED BY <1>6, <1>7, <2>1, <2>2
<1>10. CASE CancelExport
    BY <1>1, <1>6, <1>10 DEF CancelExport, Exports
<1>11. QED BY <1>2, <1>3, <1>4, <1>5, <1>6, <1>8, <1>9, <1>10
           DEF ExportNext, exportVars, OpenExport, PublishThenExport, CloseExport, FileSaved,
               ExportThread, Packs

\* However the windows are closed and whoever takes names.
LEMMA ExportIsWellTyped == ExportSpec => []ExportTypeOK
<1>1. ExportInit => Asking /\ ListedIsPacked
    BY DEF ExportInit, Asking, ListedIsPacked, NoExport, None
<1>2. BundleInv /\ Asking /\ ListedIsPacked /\ [ExportNext]_exportVars => (Asking /\ ListedIsPacked)'
    BY AskingStays, ListedStaysPacked DEF BundleInv
<1>3. BundleInv /\ Asking /\ ListedIsPacked => ExportTypeOK
    BY DEF BundleInv, ExportShape, Asking, ListedIsPacked, Windows, WindowStates, Exports, ExportTypeOK
<1>4. QED BY <1>1, <1>2, <1>3, BundlesHold, PTL DEF ExportSpec

(***************************************************************************)
(* Side by side.                                                           *)
(***************************************************************************)

\* A behaviour of the composition is one of each desk.
LEMMA DesksRun ==
    Spec => /\ BatchSpec /\ StorySpec /\ ExportSpec
            /\ (GridFrom(TRUE) \/ GridFrom(FALSE)) /\ [][GridNext]_gridVars
<1>1. Init => BatchInit /\ StoryInit /\ ExportInit /\ (GridFrom(TRUE) \/ GridFrom(FALSE))
  <2>1. part = "grid" => (part = "grid") = TRUE
      OBVIOUS
  <2>2. part # "grid" => (part = "grid") = FALSE
      OBVIOUS
  <2>3. QED BY <2>1, <2>2 DEF Init
<1>2. ASSUME [Next]_desks
      PROVE  [BatchNext]_batchVars /\ [StoryNext]_storyVars /\ [GridNext]_gridVars /\ [ExportNext]_exportVars
    BY <1>2 DEF Next, desks
<1>3. QED BY <1>1, <1>2, PTL DEF Spec, BatchSpec, StorySpec, ExportSpec

\* A spawned file is the forge's, nothing is forged where no workspace is, a reported
\* master exists, a card and the repair list are those of the last look, and a bundle
\* under its name is whole and holds a dump that was checked: as long as nobody closes
\* the window of a running batch, nor leaves a busy export window.
THEOREM DesksStaySound ==
    ASSUME "closesEarly" \notin Habits, "escapes" \notin ExportHabits
    PROVE  Spec => []DesksAreSound
<1>1. SuccessIsForged /\ GateHolds /\ MasterIsForged /\ StaleResultsDropped /\ RepairListIsShown
      /\ DumpIsChecked /\ BundlesAreWhole => DesksAreSound
    BY DEF DesksAreSound
<1>2. GridFrom(TRUE) /\ [][GridNext]_gridVars => [](StaleResultsDropped /\ RepairListIsShown)
    BY TheGridIsCurrent
<1>3. GridFrom(FALSE) /\ [][GridNext]_gridVars => [](StaleResultsDropped /\ RepairListIsShown)
    BY TheGridIsCurrent
<1>4. QED BY <1>1, <1>2, <1>3, DesksRun, SuccessIsOnDisk, NothingBeforeTheGate, DumpsAreChecked,
             NoBundleIsPartial, PTL

\* The types of the desks, whatever is closed early and whoever takes names.
THEOREM DesksAreTyped == Spec => []DesksTypeOK
<1> DEFINE Part == part \in {"batch", "story", "grid", "export"}
           Typed == BatchTypeOK /\ StoryTypeOK /\ GridTypeOK /\ ExportTypeOK
<1>1. Init => Part
    BY DEF Init
<1>2. Part /\ [Next]_desks => Part'
    BY DEF Next, desks
<1>3. Part /\ Typed => DesksTypeOK
    BY DEF DesksTypeOK
<1>4. StoryInv => StoryTypeOK
    BY DEF StoryInv
<1>5. GridFrom(TRUE) /\ [][GridNext]_gridVars => []GridTypes
    BY GridIsTyped
<1>6. GridFrom(FALSE) /\ [][GridNext]_gridVars => []GridTypes
    BY GridIsTyped
<1>7. GridTypes => GridTypeOK
    BY GridTypesSuffice
<1>8. QED BY <1>1, <1>2, <1>3, <1>4, <1>5, <1>6, <1>7, DesksRun, BatchIsWellTyped, StoryHolds,
             ExportIsWellTyped, PTL DEF Spec

\* The batch that ends tells its own window, rows and lists are those of the project
\* that is selected, no storyboard that is listed is forged over, a repair that
\* succeeds closes its own dialog, an export that reports success does so to the window
\* of its project, and none takes the name of a bundle that is there.
THEOREM ResultsReachTheirDesk ==
    ASSUME "closesEarly" \notin Habits, "escapes" \notin ExportHabits, ~RacingHubs
    PROVE  Spec => ResultsReachTheirAsker
<1>1. GridFrom(TRUE) /\ [][GridNext]_gridVars => RepairReportsToItsDialog
    BY RepairsReportToTheirDialog
<1>2. GridFrom(FALSE) /\ [][GridNext]_gridVars => RepairReportsToItsDialog
    BY RepairsReportToTheirDialog
<1>3. QED BY <1>1, <1>2, DesksRun, NothingCrossFires, RowsFollowTheProject, TheDeskIsCurrent,
             ListedBoardsAreKept, SuccessIsOnesOwn, BundlesAreKept, PTL DEF ResultsReachTheirAsker
=============================================================================
