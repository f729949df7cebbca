---------------------------- MODULE WorkingFiles ----------------------------
(***************************************************************************)
(* The files of one working copy that nobody locks (textures, caches, new  *)
(* files) while colleagues publish: scans, updates, publications and       *)
(* conflict resolutions of one Hub, each on its own worker, the publish    *)
(* windows with the lists they were opened with, and the review window of  *)
(* an update.  A file's contents are the number of the save that made      *)
(* them.  Colleagues edit and add; nobody in this model deletes a file.    *)
(* Locks and badges of the task files are the module TaskLock's.           *)
(* What svn does with a path was observed with svn 1.14 and is external.   *)
(***************************************************************************)
EXTENDS Naturals, Sequences, SequencesExt, FiniteSets

CONSTANTS Tasks,      \* cards of this project; each may have a publish window
          FirstTask,  \* the first card of the project
          Paths,      \* files of the working copy
          Shared,     \* paths that are on the server from the start
          NameOf,     \* last segment of each path
          Review,     \* the review window of an update
          Outside,    \* a destination out of the working copy
          NoFile,     \* nothing there
          WcFaults,   \* subset of {"killed", "network", "status"}
          Carelessness, \* subset of {"exportOver"}: what artists do
          MaxWork,    \* bound: saves and publications of new contents
          MaxJobs     \* bound: workers the artist has running at once

ASSUME WorkingFilesAssumption ==
    /\ FirstTask \in Tasks
    /\ Shared \subseteq Paths
    /\ DOMAIN NameOf = Paths
    /\ Review \notin Tasks
    /\ Outside \notin Paths
    /\ NoFile \notin Nat
    /\ MaxWork \in Nat /\ MaxJobs \in Nat

VARIABLES server,      \* server: contents of each path
          node,      \* working copy: what svn and the disk hold of each path
          stuck,     \* the working copy is locked by a command that was killed
          lastSave,  \* number of the last save
          owed,      \* saves of this artist that are on no server yet
          aside,     \* contents under .openstudio_aside
          hidden,    \* vcs_local_ignores.json: names hidden from the scan
          scanner, updater, publisher, resolver, exporter,  \* workers by key
          stack,     \* modal windows, the reachable one last
          lists,     \* the changes each publish window was opened with
          busy,      \* _busy of each publish window
          review     \* issues left in the review window

wcVars == <<server, node, stuck, lastSave, owed, aside, hidden>>
jobVars == <<scanner, updater, publisher, resolver, exporter>>
windowVars == <<stack, lists, busy, review>>
workVars == <<wcVars, jobVars, windowVars>>

Contents == Nat \cup {NoFile}
Schedules == {"none", "normal", "added", "deleted", "replaced"}
Codes == {" ", "?", "A", "D", "R", "M", "!", "~", "C"}

\* base: pristine contents; disk: the file or, if folder, a folder in its place.
Node == [sched : Schedules, base : Contents, disk : Contents,
         folder : BOOLEAN, conflict : {"none", "text", "tree"}]

Resting == [st |-> "idle"]
ScanJob == {Resting} \cup
    [st : {"run"}, task : Tasks] \cup [st : {"out"}, task : Tasks, list : [Paths -> Codes]]
UpdateJob == {Resting} \cup
    [st : {"pull", "status", "out"}, ok : BOOLEAN, issues : SUBSET (Paths \X Codes)]
PublishJob == {Resting} \cup
    [st : {"add", "commit", "out"}, task : Tasks, chosen : SUBSET Paths,
     fresh : SUBSET Paths, ok : BOOLEAN]
Resolutions == {"mine-full", "theirs-full", "working"}
ResolveJob == {Resting} \cup
    [st : {"run", "out"}, task : Tasks, path : Paths, how : Resolutions, ok : BOOLEAN]
ExportJob == {Resting} \cup [st : {"run", "out"}, to : Paths \cup {Outside}]

FilesTypeOK ==
    /\ server \in [Paths -> Contents]
    /\ node \in [Paths -> Node]
    /\ stuck \in BOOLEAN
    /\ lastSave \in 0..MaxWork
    /\ owed \subseteq 1..lastSave
    /\ aside \subseteq Nat
    /\ hidden \subseteq {NameOf[p] : p \in Paths}
    /\ scanner \in ScanJob /\ updater \in UpdateJob /\ publisher \in PublishJob
    /\ resolver \in ResolveJob /\ exporter \in ExportJob
    /\ stack \in Seq(Tasks \cup {Review}) /\ IsInjective(stack)
    /\ lists \in [Tasks -> [Paths -> Codes]]
    /\ busy \in [Tasks -> BOOLEAN]
    /\ review \subseteq Paths \X Codes

NoList == [p \in Paths |-> " "]
Checkout(p) ==
    IF p \in Shared
    THEN [sched |-> "normal", base |-> 0, disk |-> 0, folder |-> FALSE, conflict |-> "none"]
    ELSE [sched |-> "none", base |-> NoFile, disk |-> NoFile, folder |-> FALSE,
          conflict |-> "none"]

FilesInit ==
    /\ server = [p \in Paths |-> IF p \in Shared THEN 0 ELSE NoFile]
    /\ node = [p \in Paths |-> Checkout(p)]
    /\ stuck = FALSE
    /\ lastSave = 0
    /\ owed = {} /\ aside = {} /\ hidden = {}
    /\ scanner = Resting /\ updater = Resting /\ publisher = Resting
    /\ resolver = Resting /\ exporter = Resting
    /\ stack = <<>>
    /\ lists = [t \in Tasks |-> NoList]
    /\ busy = [t \in Tasks |-> FALSE]
    /\ review = {}

-----------------------------------------------------------------------------
(* What svn says and does about one path (external).                       *)

Present(n) == n.disk # NoFile
Edited(n) == n.sched = "normal" /\ Present(n) /\ ~n.folder /\ n.disk # n.base
Behind(p) == server[p] # node[p].base

\* The letter the item of a path gets before conflicts are looked at.
ItemCode(n) ==
    CASE n.sched = "none" /\ Present(n) -> "?"
      [] n.sched = "added" -> "A"
      [] n.sched = "deleted" -> "D"
      [] n.sched = "replaced" -> "R"
      [] n.sched = "normal" /\ ~Present(n) -> "!"
      [] n.sched = "normal" /\ n.folder -> "~"
      [] Edited(n) -> "M"
      [] OTHER -> " "

\* status_code: a conflict hides what else svn says of the path.
StatusCode(n) == IF n.conflict # "none" THEN "C" ELSE ItemCode(n)

Collide(n, p, s) == [n EXCEPT !.sched = s, !.base = server[p], !.conflict = "tree"]
Receive(n, p) == [n EXCEPT !.sched = "normal", !.base = server[p], !.disk = server[p]]

\* svn update of one path: a file in conflict is skipped, a missing one restored.
Updated(p) ==
    LET n == node[p] IN
    CASE n.conflict # "none" -> n
      [] n.sched = "normal" /\ ~n.folder /\ ~Edited(n) -> Receive(n, p)
      [] ~Behind(p) -> n
      [] n.sched = "normal" /\ n.folder -> Collide(n, p, "normal")
      [] n.sched = "normal" /\ n.disk = server[p] -> Receive(n, p)
      [] n.sched = "normal" -> [n EXCEPT !.base = server[p], !.conflict = "text"]
      [] n.sched = "none" /\ ~Present(n) -> Receive(n, p)
      [] n.sched = "added" -> Collide(n, p, "replaced")
      [] n.sched = "replaced" -> Collide(n, p, "replaced")
      [] OTHER -> Collide(n, p, "deleted")

\* svn add --force: a known path is left alone.
CanAdd(n) == n.conflict = "none" /\ (n.sched # "none" \/ Present(n))
Added(n) ==
    CASE n.sched = "none" -> [n EXCEPT !.sched = "added"]
      [] n.sched = "deleted" /\ Present(n) -> [n EXCEPT !.sched = "replaced"]
      [] OTHER -> n

\* svn commit of the paths S: all of them or none.
Changed(n) == n.sched \in {"added", "deleted", "replaced"} \/ Edited(n)
CanCommit(p) ==
    LET n == node[p] IN
    /\ n.conflict = "none"
    /\ n.sched # "none"
    /\ ~n.folder
    /\ Changed(n) => ~Behind(p)
Sent(p) == IF node[p].sched = "deleted" THEN NoFile ELSE node[p].disk
Committed(n) ==
    CASE ~Changed(n) -> n
      [] n.sched = "deleted" -> [n EXCEPT !.sched = "none", !.base = NoFile]
      [] OTHER -> [n EXCEPT !.sched = "normal", !.base = n.disk]
ServerAfter(S) ==
    [p \in Paths |-> IF p \in S /\ Changed(node[p]) THEN Sent(p) ELSE server[p]]

-----------------------------------------------------------------------------
(* The working copy under the svn commands of the Hub.                     *)

\* SVNAdapter.commit: the paths the command names.
Targets(S) == S

Writers == (IF updater.st = "pull" THEN 1 ELSE 0)
         + (IF publisher.st \in {"add", "commit"} THEN 1 ELSE 0)
         + (IF resolver.st = "run" THEN 1 ELSE 0)

\* SvnCommandRunner.run fails: the working copy is locked by a killed command
\* or by one that is running (E155004), or the server cannot be reached.
Refusable == stuck \/ Writers > 1
Unreachable == "network" \in WcFaults
\* Bound on what the artist starts; what a slot starts is not bounded.
Jobs == Cardinality({k \in 1..5 :
            <<scanner, updater, publisher, resolver, exporter>>[k] # Resting})
Spare == Jobs < MaxJobs

MayKill == "killed" \in WcFaults /\ ~stuck

Problems == {p \in Paths : StatusCode(node[p]) \in {"C", "~"}}
Issues == {<<p, StatusCode(node[p])>> : p \in Problems}

\* The scan: changed paths; junk and locally hidden untracked files left out.
ScanList ==
    [p \in Paths |-> IF StatusCode(node[p]) = "?" /\ NameOf[p] \in hidden
                     THEN " " ELSE StatusCode(node[p])]
Listed(L) == {p \in Paths : L[p] # " "}

Open(w) == w \in Range(stack)
Top(w) == stack # <<>> /\ Last(stack) = w
Without(w) == RemoveFirst(stack, w)

-----------------------------------------------------------------------------
(* People: the artist saves, a folder takes a file's place, colleagues     *)
(* publish, somebody repairs a locked working copy by hand.                *)

SaveContents(p) ==
    /\ lastSave < MaxWork
    /\ ~node[p].folder
    /\ lastSave' = lastSave + 1
    /\ node' = [node EXCEPT ![p].disk = lastSave']
    /\ owed' = (owed \ {node[p].disk}) \cup {lastSave'}
    /\ UNCHANGED <<server, stuck, aside, hidden, jobVars, windowVars>>

\* The artist replaces a published file by a folder that holds new work.
PutFolder(p) ==
    /\ lastSave < MaxWork
    /\ StatusCode(node[p]) = " " /\ node[p].sched = "normal"
    /\ lastSave' = lastSave + 1
    /\ node' = [node EXCEPT ![p].disk = lastSave', ![p].folder = TRUE]
    /\ owed' = owed \cup {lastSave'}
    /\ UNCHANGED <<server, stuck, aside, hidden, jobVars, windowVars>>

ColleaguePublishes(p) ==
    /\ lastSave < MaxWork
    /\ lastSave' = lastSave + 1
    /\ server' = [server EXCEPT ![p] = lastSave']
    /\ UNCHANGED <<node, stuck, owed, aside, hidden, jobVars, windowVars>>

CleanedByHand ==
    /\ stuck
    /\ stuck' = FALSE
    /\ UNCHANGED <<server, node, lastSave, owed, aside, hidden, jobVars, windowVars>>

-----------------------------------------------------------------------------
(* Scan: check_vcs_changes and the publish window it opens.                *)

\* check_vcs_changes: nothing happens when a scan is running.
ScanStarted(t) ==
    scanner' = IF scanner.st = "idle" THEN [st |-> "run", task |-> t] ELSE scanner

CheckVcsChanges(t) ==
    /\ Spare
    /\ stack = <<>>
    /\ scanner.st = "idle"
    /\ ScanStarted(t)
    /\ UNCHANGED <<wcVars, updater, publisher, resolver, exporter, windowVars>>

Scan ==
    /\ scanner.st = "run"
    /\ \/ scanner' = [st |-> "out", task |-> scanner.task, list |-> ScanList]
       \/ "status" \in WcFaults /\ scanner' = Resting
    /\ UNCHANGED <<wcVars, updater, publisher, resolver, exporter, windowVars>>

\* A window of this task that is open keeps the list it was opened with.
OnVcsChangesReady ==
    /\ scanner.st = "out"
    /\ scanner' = Resting
    /\ IF Listed(scanner.list) = {} \/ Open(scanner.task)
       THEN UNCHANGED <<stack, lists, busy>>
       ELSE /\ stack' = Append(stack, scanner.task)
            /\ lists' = [lists EXCEPT ![scanner.task] = scanner.list]
            /\ busy' = [busy EXCEPT ![scanner.task] = FALSE]
    /\ UNCHANGED <<wcVars, updater, publisher, resolver, exporter, review>>

-----------------------------------------------------------------------------
(* Update: UpdateVcsWorker and the review window.                          *)

Pulling == [st |-> "pull", ok |-> FALSE, issues |-> {}]

UpdateVcs ==
    /\ Spare
    /\ stack = <<>>
    /\ updater.st = "idle"
    /\ updater' = Pulling
    /\ UNCHANGED <<wcVars, scanner, publisher, resolver, exporter, windowVars>>

\* full_pull, and the status it asks for: conflicts make it fail.
PullDone ==
    /\ ~stuck
    /\ node' = [p \in Paths |-> Updated(p)]
    /\ updater' = [updater EXCEPT !.st = "status",
                       !.ok = \A p \in Paths : StatusCode(node'[p]) \notin {"C", "~"}]
    /\ UNCHANGED stuck

PullKilled ==
    /\ MayKill
    /\ \E S \in SUBSET Paths :
           node' = [p \in Paths |-> IF p \in S THEN Updated(p) ELSE node[p]]
    /\ stuck' = TRUE
    /\ updater' = [updater EXCEPT !.st = "status"]

PullRefused ==
    /\ Refusable \/ Unreachable
    /\ updater' = [updater EXCEPT !.st = "status"]
    /\ UNCHANGED <<node, stuck>>

Pull ==
    /\ updater.st = "pull"
    /\ PullDone \/ PullKilled \/ PullRefused
    /\ UNCHANGED <<server, lastSave, owed, aside, hidden, scanner, publisher, resolver,
                   exporter, windowVars>>

\* collect_update_issues runs after a failed update too.
CollectUpdateIssues ==
    /\ updater.st = "status"
    /\ updater' = [st |-> "out", ok |-> updater.ok /\ Issues = {}, issues |-> Issues]
    /\ UNCHANGED <<wcVars, scanner, publisher, resolver, exporter, windowVars>>

OnVcsUpdateFinished ==
    /\ updater.st = "out"
    /\ updater' = Resting
    /\ IF updater.ok THEN ScanStarted(FirstTask) ELSE UNCHANGED scanner
    /\ IF updater.issues = {} THEN UNCHANGED <<stack, review>>
       ELSE /\ stack' = Append(stack, Review)
            /\ review' = updater.issues
    /\ UNCHANGED <<wcVars, publisher, resolver, exporter, lists, busy>>

\* A bug: the obstructing path is removed instead of moved.
KeptAsideNothing(x) == aside

\* shutil.move into .openstudio_aside/<stamp>.
KeptAside(x) == aside \cup {x}

\* Only offered for issues that are not conflicts.
MovePathAside(p) ==
    /\ Top(Review)
    /\ <<p, "~">> \in review
    /\ Present(node[p])
    /\ aside' = KeptAside(node[p].disk)
    /\ node' = [node EXCEPT ![p].disk = NoFile, ![p].folder = FALSE]
    /\ review' = review \ {<<p, "~">>}
    /\ UNCHANGED <<server, stuck, lastSave, owed, hidden, jobVars, stack, lists, busy>>

\* The pattern kept is the last segment of the path; the issue stays listed.
AddLocalIgnore(p) ==
    /\ Top(Review)
    /\ <<p, "~">> \in review
    /\ hidden' = hidden \cup {NameOf[p]}
    /\ UNCHANGED <<server, node, stuck, lastSave, owed, aside, jobVars, windowVars>>

RetryUpdate ==
    /\ Spare
    /\ Top(Review)
    /\ updater.st = "idle"
    /\ updater' = Pulling
    /\ stack' = Without(Review)
    /\ review' = {}
    /\ UNCHANGED <<wcVars, scanner, publisher, resolver, exporter, lists, busy>>

CloseReview ==
    /\ Top(Review)
    /\ stack' = Without(Review)
    /\ review' = {}
    /\ UNCHANGED <<wcVars, jobVars, lists, busy>>

-----------------------------------------------------------------------------
(* Publish window: VcsPublishDialog and PublishVcsChangesWorker.           *)

Ticked(t) == {S \in SUBSET Listed(lists[t]) :
                  S # {} /\ \A p \in S : lists[t][p] # "C"}

PublishVcsChanges(t) ==
    /\ Spare
    /\ Top(t)
    /\ ~busy[t]
    /\ publisher.st = "idle"
    /\ \E S \in Ticked(t) :
           LET new == {p \in S : lists[t][p] = "?"} IN
           publisher' = [st |-> IF new = {} THEN "commit" ELSE "add", task |-> t,
                         chosen |-> S, fresh |-> new, ok |-> FALSE]
    /\ busy' = [busy EXCEPT ![t] = TRUE]
    /\ UNCHANGED <<wcVars, scanner, updater, resolver, exporter, stack, lists, review>>

AddDone ==
    /\ ~stuck
    /\ \A p \in publisher.fresh : CanAdd(node[p])
    /\ node' = [p \in Paths |-> IF p \in publisher.fresh THEN Added(node[p]) ELSE node[p]]
    /\ publisher' = [publisher EXCEPT !.st = "commit"]

\* svn stops at a path in conflict: some of the others may be added already.
AddStopped ==
    /\ ~stuck
    /\ \E p \in publisher.fresh : ~CanAdd(node[p])
    /\ \E S \in SUBSET {p \in publisher.fresh : CanAdd(node[p])} :
           node' = [p \in Paths |-> IF p \in S THEN Added(node[p]) ELSE node[p]]
    /\ publisher' = [publisher EXCEPT !.st = "out"]

AddRefused ==
    /\ Refusable
    /\ publisher' = [publisher EXCEPT !.st = "out"]
    /\ UNCHANGED node

Add ==
    /\ publisher.st = "add"
    /\ AddDone \/ AddStopped \/ AddRefused
    /\ UNCHANGED <<server, stuck, lastSave, owed, aside, hidden, scanner, updater, resolver,
                   exporter, windowVars>>

CommitDone ==
    LET S == Targets(publisher.chosen) IN
    /\ ~stuck
    /\ \A p \in S : CanCommit(p)
    /\ server' = ServerAfter(S)
    /\ node' = [p \in Paths |-> IF p \in S THEN Committed(node[p]) ELSE node[p]]
    /\ owed' = owed \ {server'[p] : p \in S}
    /\ publisher' = [publisher EXCEPT !.st = "out", !.ok = TRUE]
    /\ UNCHANGED stuck

\* Killed after the timeout: the server has it or not, the working copy does not know.
CommitKilled ==
    /\ MayKill
    /\ \/ UNCHANGED <<server, owed>>
       \/ /\ \A p \in Targets(publisher.chosen) : CanCommit(p)
          /\ server' = ServerAfter(Targets(publisher.chosen))
          /\ owed' = owed \ {server'[p] : p \in Targets(publisher.chosen)}
    /\ stuck' = TRUE
    /\ publisher' = [publisher EXCEPT !.st = "out"]
    /\ UNCHANGED node

CommitRefused ==
    /\ \/ Refusable \/ Unreachable
       \/ \E p \in Targets(publisher.chosen) : ~CanCommit(p)
    /\ publisher' = [publisher EXCEPT !.st = "out"]
    /\ UNCHANGED <<server, node, owed, stuck>>

Commit ==
    /\ publisher.st = "commit"
    /\ CommitDone \/ CommitKilled \/ CommitRefused
    /\ UNCHANGED <<lastSave, aside, hidden, scanner, updater, resolver, exporter,
                   windowVars>>

\* The window of the task, whichever window asked, takes the answer: it is
\* usable again, and a success closes it.
Settled(t, ok) ==
    /\ busy' = [busy EXCEPT ![t] = FALSE]
    /\ stack' = IF ok THEN Without(t) ELSE stack

OnVcsPublishFinished ==
    /\ publisher.st = "out"
    /\ publisher' = Resting
    /\ Settled(publisher.task, publisher.ok)
    /\ UNCHANGED <<wcVars, scanner, updater, resolver, exporter, lists, review>>

\* Postpone, or Escape while it is busy.
ClosePublish(t) ==
    /\ Top(t)
    /\ stack' = Without(t)
    /\ busy' = [busy EXCEPT ![t] = FALSE]
    /\ UNCHANGED <<wcVars, jobVars, lists, review>>

-----------------------------------------------------------------------------
(* Conflicts: ResolveVcsConflictWorker.                                    *)

ResolveVcsConflict(t, p, how) ==
    /\ Spare
    /\ Top(t)
    /\ ~busy[t]
    /\ resolver.st = "idle"
    /\ lists[t][p] = "C"
    /\ resolver' = [st |-> "run", task |-> t, path |-> p, how |-> how, ok |-> FALSE]
    /\ busy' = [busy EXCEPT ![t] = TRUE]
    /\ UNCHANGED <<wcVars, scanner, updater, publisher, exporter, stack, lists, review>>

\* --accept of svn resolve.
Accept(how) == how

Accepted(how, n) ==
    IF how = "theirs-full" /\ n.conflict = "text"
    THEN [n EXCEPT !.conflict = "none", !.disk = n.base]
    ELSE [n EXCEPT !.conflict = "none"]

\* A tree conflict can only be marked as resolved.
CanResolve(how, n) ==
    IF n.conflict = "tree" THEN how = "working" ELSE n.sched # "none"

\* Work the artist gives up by taking the other side is no longer owed.
ResolveDone(how, p) ==
    /\ ~stuck
    /\ CanResolve(how, node[p])
    /\ node' = [node EXCEPT ![p] = Accepted(how, node[p])]
    /\ owed' = IF resolver.how = "theirs-full" /\ node[p].conflict = "text"
               THEN owed \ {node[p].disk} ELSE owed
    /\ resolver' = [resolver EXCEPT !.st = "out", !.ok = TRUE]

ResolveRefused(how, p) ==
    /\ Refusable \/ ~CanResolve(how, node[p])
    /\ resolver' = [resolver EXCEPT !.st = "out"]
    /\ UNCHANGED <<node, owed>>

Resolve ==
    /\ resolver.st = "run"
    /\ LET how == Accept(resolver.how) IN
       ResolveDone(how, resolver.path) \/ ResolveRefused(how, resolver.path)
    /\ UNCHANGED <<server, stuck, lastSave, aside, hidden, scanner, updater, publisher,
                   exporter, windowVars>>

\* The window of the task first, then a new scan if none is running.
OnVcsConflictResolved ==
    /\ resolver.st = "out"
    /\ resolver' = Resting
    /\ Settled(resolver.task, resolver.ok)
    /\ IF resolver.ok THEN ScanStarted(resolver.task) ELSE UNCHANGED scanner
    /\ UNCHANGED <<wcVars, updater, publisher, exporter, lists, review>>

-----------------------------------------------------------------------------
(* Export of an old revision: the destination is opened before svn runs    *)
(* and removed when svn fails.                                             *)

ExportTargets == IF "exportOver" \in Carelessness THEN Paths \cup {Outside} ELSE {Outside}

ExportVcsRevision(to) ==
    /\ Spare
    /\ stack = <<>>
    /\ exporter.st = "idle"
    /\ exporter' = [st |-> "run", to |-> to]
    /\ UNCHANGED <<wcVars, scanner, updater, publisher, resolver, windowVars>>

Overwritten(x) ==
    IF exporter.to \in Paths THEN [node EXCEPT ![exporter.to].disk = x] ELSE node

ExportRevision ==
    /\ exporter.st = "run"
    /\ \/ node' = Overwritten(0)
       \/ Unreachable /\ node' = Overwritten(NoFile)
    /\ exporter' = [exporter EXCEPT !.st = "out"]
    /\ UNCHANGED <<server, stuck, lastSave, owed, aside, hidden, scanner, updater, publisher,
                   resolver, windowVars>>

OnVcsExportFinished ==
    /\ exporter.st = "out"
    /\ exporter' = Resting
    /\ UNCHANGED <<wcVars, scanner, updater, publisher, resolver, windowVars>>

-----------------------------------------------------------------------------

FilesThreads ==
    \/ Scan \/ Pull \/ CollectUpdateIssues \/ Add \/ Commit \/ Resolve \/ ExportRevision

FilesSlots ==
    \/ OnVcsChangesReady \/ OnVcsUpdateFinished \/ OnVcsPublishFinished
    \/ OnVcsConflictResolved \/ OnVcsExportFinished

FilesNext ==
    \/ \E p \in Paths : \/ SaveContents(p) \/ PutFolder(p) \/ ColleaguePublishes(p)
                        \/ MovePathAside(p) \/ AddLocalIgnore(p)
    \/ CleanedByHand
    \/ \E t \in Tasks : \/ CheckVcsChanges(t) \/ PublishVcsChanges(t) \/ ClosePublish(t)
                        \/ \E p \in Paths, how \in Resolutions : ResolveVcsConflict(t, p, how)
    \/ UpdateVcs \/ RetryUpdate \/ CloseReview
    \/ \E to \in ExportTargets : ExportVcsRevision(to)
    \/ FilesThreads \/ FilesSlots

\* svn ends or is killed after its timeout, threads run, the event loop turns.
FilesFairness ==
    /\ WF_workVars(Scan \/ OnVcsChangesReady)
    /\ WF_workVars(Pull \/ CollectUpdateIssues \/ OnVcsUpdateFinished)
    /\ WF_workVars(Add \/ Commit \/ OnVcsPublishFinished)
    /\ WF_workVars(Resolve \/ OnVcsConflictResolved)
    /\ WF_workVars(ExportRevision \/ OnVcsExportFinished)

FilesSpec == FilesInit /\ [][FilesNext]_workVars /\ FilesFairness

-----------------------------------------------------------------------------
(* Properties.                                                             *)

\* Work that is on no server and that the artist did not give up is still in
\* the working copy or under .openstudio_aside, whatever updates, collisions,
\* failed or killed publications and clean-ups came between.
WorkKept == owed \subseteq {node[p].disk : p \in Paths} \cup aside

\* A publication changes nothing on the server but what was ticked, whatever
\* the working copy became after the window was opened.
OnlyTheChosen ==
    [][Commit => \A p \in Paths \ publisher.chosen : server'[p] = server[p]]_workVars

\* What a publication puts on the server under a path is the file the artist
\* has there ("Resolve a conflict, keeping the working copy").
PublishedIsOnDisk ==
    [][Commit => \A p \in Paths : server'[p] # server[p] => server'[p] = node[p].disk]_workVars

\* A publish window that works is given back or closed.
PublishIsAnswered == \A t \in Tasks : busy[t] ~> ~busy[t]

\* A working copy that a killed command left locked is usable again some day
\* without help from outside the Hub.
WorkingCopyRecovers == [](stuck => <>(~stuck))
=============================================================================
