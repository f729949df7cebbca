# A TLA+ development of OpenStudioHub

OpenStudioHub is a desktop application for animation studios.  One Hub runs on
each artist's and each Technical Director's (TD's) machine and steers four
things it does not own: Kitsu (production tracking), Subversion servers and the
svn client, a workspace folder (a local disk or a share of the NAS) and Blender.
There is no server of its own: what the Hubs know of each other they learn from
Kitsu, from a repository or from a shared folder, and nearly all of what a Hub
knows of its own unfinished work is in its memory.

This directory holds the models of the parts where that matters, the TLC
configurations that check them, and proofs for TLAPS.

    tlc -workers 2 -config pc_hubs.cfg MCProjectCreation     (in this directory)
    tlapm ProjectCreationProofs.tla

Paths below are relative to `src/src/`, the Python package; `docs/` and
`openstudiohub.py` are in `src/`.

## 1. Inventory

A Hub has one **UI thread** (Qt's event loop: view models and dialogs) and
**worker threads** (QThreads, one per key of a `WorkerManager`).  A worker does
its I/O off the UI thread and emits a signal; the slot runs later, on the UI
thread, when the event loop gets to it.  Services (`application/services`) are
called from both.  Python's memory model plays no part: what can go wrong is the
*order* of slots, of workers and of Hubs, what a step had done when it failed,
and what a service has changed since it was last asked.

| Component | Keeps | Operations | Talks to | What makes it correct |
|---|---|---|---|---|
| Task lock and publish cycle (`interfaces/qt/viewmodels/artist_viewmodel.py`, `workers/artist_workers.py`, `application/services/task_file_sync_service.py`) | per card: lock owner, pending changes; `_awaiting_lock_release`, `_launching_card`; one worker per key | launch, scan, publish, update, resolve, refresh badges, release | svn adapter, worker manager, shell, DCC | an open DCC has its lock; unpublished work keeps it; a session that leaves a clean workspace gives it back; nobody else's lock is taken |
| Subversion client and working copies (`infrastructure/vcs/svn_adapter.py`, `svn_client.py`, `svn_runner.py`, `views/vcs_publish_dialog.py`) | a cancel flag; the working copy and the server keep the rest | status, lock, unlock, update with collisions set aside, add and commit of a selection, resolve, ignore, export, relocate | svn | no work is lost by an update, a resolution or a restore; a publication takes what was ticked |
| Project creation saga (`project_creation_service.py`, `creation_saga.py`, `workspace_orchestrator.py`, the dialog and its view model) | `CreationContext`: steps done, Kitsu id, whether VCS was asked for | preflights, six steps, retry, rollback | Kitsu, NAS, VCS server | success is complete; failure offers deletion of what exists; deletion is complete and takes nothing else |
| VCS migration (`vcs_migration_service.py`, `migration_pipelines.py`, `project_list_widget.py`) | the phase of one migration, a cancel event | inspect, create, dump and load, verify, relocate, record, the questions | two VCS servers, a working copy, the blueprint | history survives, whatever is cancelled, retried or deleted |
| Repository administration (`repository_admin.py`, `vcs_router.py`, `ssh_runner.py`, `vcs_locks_dialog.py`) | nothing; servers do | create, destroy, probe, policy, passphrase, break locks, start, stop, redeploy | ssh, docker, svnadmin | a repository that can be checked out has its access rules and hook; only what was confirmed is removed |
| Worker life cycle and shell (`worker_manager.py`, `qt_worker.py`, `openstudiohub.py`, `vcs_credential_gate.py`) | worker per key, keep-alive registry, count of open DCCs | start, finish, switch profile, log out, close | every view model | what is started as critical ends before its dashboard, its log-in and its Hub do |
| Workspace installation (`installation_service.py`, `launch_service.py`) | the copied configuration, installed add-ons | install, reset, verify, launch | vault, NAS, svn | an installation reported done is the blueprint's |
| Project grid, audit and repair (`project_list_viewmodel.py`, `project_audit_viewmodel.py`, `project_repair_service.py`) | cards, damaged projects, one audit worker with one waiting request | refresh, audit, repair | Kitsu, NAS | a card shows what its own dashboard asked, and in the end what is the case |
| Kitsu production access (`kitsu_manager.py`, `production_service.py`) | a host and tokens, process-wide | project, task, comment calls | Zou (Kitsu's API) | a call that fails leaves nothing behind unnoticed |
| Project import (`kitsu_import_service.py`, `project_import_viewmodel.py`) | the plan and the report of the last import, shared by all windows | inspect, create, load, check out, roll back | Kitsu, NAS, VCS | nobody else's data are touched; what is imported hangs together as in the archive |
| Project export (`kitsu_export_service.py`, `oshproject_format.py`, the dialog) | what is pending, the part being packed | scan, publish first, pack, cancel | Kitsu, VCS, a folder | a bundle is whole, and its dump has what the desk said it has |
| Configuration and VCS server registry (`config_factory.py`, `seed_engine.py`, `initial_setup_service.py`, `hub_project_config_dialog.py`) | one JSON file of the machine | load, migrate, save, seed, register, bind | disk, VCS servers | the register stays consistent; a project is bound to a server that was probed |
| Sessions, credentials and roles (`auth_service.py`, `session_repository.py`, `infrastructure_workers.py`, `credential_vault.py`) | the signed-in account, the session file, the environment | log in, log out, seed, sync | Kitsu, keyring | the desk and its work belong to one account at one Kitsu |
| Notification centre (`notification_service.py`, `vcs_audit.py`, `notifications_viewmodel.py`, `top_bar.py`) | per account: list, read marks, archive, fingerprints of seen events; one audit log per machine | log, poll, mark read, dismiss, switch profile | audit log, state files, log-in | what was dismissed stays away, what is new is shown, accounts do not mix |
| Comments and what was read (`task_comments_viewmodel.py`, `task_comments_panel.py`, `comment_read_store.py`) | the open thread, the text being written, badges, last seen comment of a task | open, post, tick, count | Kitsu | a comment goes to the task it was written for, and not again once it was answered for; unread is what was not fetched |
| Task files and naming (`task_file_resolver.py`, `task_file_service.py`, `domain/production/naming.py`) | the link in the task's data | resolve, audit, link, create | Kitsu, workspace | one task, one file; a file that is seen to have work is not overwritten by an empty one |
| Batch creation of blend files (`blender_spawners.py`, `blend_builder_viewmodel.py`, `blend_builder_widget.py`) | the project and the step shown, tables, the running batch | gate, list, audit, spawn, cancel, publish after | Blender, Kitsu, workspace | results reach the project and window they were asked from; success means every file |
| Software vault (`domain/vault`, `vault_service.py`, `provisioning_workers.py`, `settings_tabs/software_components`) | archives and a manifest; the page's copy of it | add, download, fetch, audit, fix | NAS, web | what is listed is there |
| Task board and artist desk (`task_board_viewmodel.py`, `artist_viewmodel.py`) | the selected production, lists, badges, requests that wait | select, load, assign, filter | Kitsu | what is shown is of the selection; a task keeps somebody responsible |
| Sparse checkouts of vendors (`sparse_manager.py`, `jailing.py`) | - | which paths to check out | svn | a vendor sees its tasks and no more |
| Watchtower, legacy software page, Git LFS adapter, widgets, Blender add-on | section 6 | | | |

`PROJECT.json` lists the same components with their status, and every hazard
found in the code at the line where it bites, with the properties that cover it.

**How they interact.**  (1) *Calls on the UI thread that block*: `launch` asks
svn, waits, asks again; nothing else of that Hub moves meanwhile, but its worker
threads, DCCs and every other Hub do.  (2) *Signals*: a worker's answer is applied
an arbitrary time after it was true.  (3) *Shared state*: the server, the
workspace folder and Kitsu are changed by Hubs that never talk.  (4) *The shell*
counts the open DCCs of all view models and refuses to close.

**Where it is hard.**  Queued slots that read state written since; a scan that
began before what it should see; a lock token that outlives its lock; a saga
whose record is lost with its process; rollbacks that delete by name; a
transfer that reads a repository which goes on growing; answers that are lost
after the server acted; one client, one report, one signal or one handler shared by
all windows; lists that were read before the user ticked them.

## 2. Modules

One module per component; a run's module composes those whose questions it asks.

    MCTaskLock         EXTENDS  TaskLock EXTENDS SvnWorkspace
                                (TaskLockProofs)
    MCStudios          EXTENDS  MCTaskLock
    MCProjectCreation  EXTENDS  ProjectCreation         (ProjectCreationProofs)
    MCNotifications    EXTENDS  Notifications, an implementation of INSTANCE Inbox
                                (NotificationsProofs)
    MCVcsMigration     EXTENDS  VcsMigration            (VcsMigrationProofs)
    MCParts            EXTENDS  Installation, ProjectImport, ImportData, HubShell,
                                KitsuSession, StudioSettings; two of them EXTEND Lists
                                (PartsProofs)
    MCDesks            EXTENDS  BlendBatch, StoryDesk, ProjectGrid, ExportDesk
                                (DesksProofs)
    MCTaskTools        EXTENDS  TaskComments, TaskFiles, TaskBoard
                                (TaskToolsProofs)
    MCServers          EXTENDS  SoftwareVault, WorkingFiles, ServerRoom, VcsMigration
                                (StoresProofs)

The last four put components side by side whose states do not touch.  Their
variable `part`, chosen by `Init` and never changed, says which component a
behaviour is about; the others stay at their initial state, so that the state
spaces add up instead of multiplying.  A property of such a run is a conjunction
of named statements of the modules; each is documented where it is defined.

Conventions.  Constants named `...Faults` are what the environment may do, and
`...Habits` (or `Carelessness`) what people do that the Hub does not prevent: a
habit that is absent disables an action or narrows its guard, one that is present
is the code as it is.  The runs choose them so that each property is checked with
everything on that does not break it by itself; section 4 says which ones do.
Constants `Max...` bound what people and the environment may do.  One of them also
stands in the guard of a program's step: `LaunchDelegate` counts a session only below
`MaxInst`, since the shell's counter has no bound of its own; people who launch while
workers run (`launchBusy`) reach that bound, in `tl_anything` only.  Variables called history are read by properties only.

### SvnWorkspace - one repository and its working copies

External: what svn does, restricted to what the adapter asks of it.  Per task
file: the server's lock (`slock`, an account *and* a working copy) and last
revision (`head`); per working copy the token it stores, its base revision and
`svn status`.  The operators are one per command, in the order the adapter runs
them: the important ones are `LockInfo` (*`svn info` on a path asks the working
copy, not the server*), `SvnUnlock` (skipped without a token; with `--force` it
removes whatever lock there is) and `SvnUpdate` (drops dead tokens).  Only task
files, which carry svn:needs-lock and cannot be merged, are modelled.

### TaskLock - the artist's cycle

| State | In the code |
|---|---|
| `worker[a][k]` | the worker in slot *k* of Hub *a*: idle, running, or with a result whose slot has not run |
| `ui[a]` | where `launch()` stands: its two svn calls are points where the world moves |
| `cardOwner`, `cardMine`, `pending` | what the card of a task shows |
| `awaiting`, `launching` | `_awaiting_lock_release`, `_launching_card` |
| `ended` | queued reports of DCC workers that have been replaced in their slot |
| `instances` | the shell's `blender_instances` |

`LaunchProbe`, `LaunchLock`, `LaunchRefused`, `LaunchAbandoned` and
`LaunchDelegate` are the branches of `launch()`; `DccSave`, `DccCommit`,
`DccClose` the artist in Blender; `Scan`, `Publish`, `Update`, `Resolve`,
`ReadLocks` the threads; `On...` the slots; `CheckChanges`, `PublishStart`,
`UpdateStart`, `ResolveStart`, `RefreshLocks`, `ReleaseTaskLock` the buttons;
`AdminBreak` the TD's lock manager; `CloseHub` the shell; `Crash` the machine.

`Faults` are a crash, a lock broken on the server, an unlock that fails, a scan that
fails, a password that is gone, a commit whose client is killed; `Habits` publishing
with the DCC open or a part of the changes, pressing Release, launching while
workers run, and so on.

*Abstractions.*  A thread ends a moment before its slot runs; the model lets a
new worker start in that moment for `launch` only, whose report does not name its
card (that is what one finding needs).  Paths other than task files, thumbnails,
history dialogs and the preparation of Blender's environment are left out.  So is
`break_task_lock` (`artist_viewmodel.py:796`), by which a TD takes a colleague's lock
from a card: it is the forced unlock of `releaseAny` with the owner's lock meant, and
breaks `SessionHoldsLock` and what follows from it as that does.

MCStudios has the run of two such studios, which differ in who has a card for which
file (`cards`): an initial state chooses one, and people launch, scan and update only
what they have a card for.

### ProjectCreation - the saga, for several Hubs

The name a project is given fixes three things: a Kitsu project (`kitsu`), a
repository (`repo`) and a folder below each workspace root (`folder`).  Several
Hubs create a project of **one** name.  `ctx[h]` is the Hub's `CreationContext`
(VCS asked for, Kitsu id, completed steps), `at[h]` where its dialog is; `by`
marks the creation that made a thing and `razed` remembers from whom another
Hub's rollback has taken something - both are history, the code has neither, and
no guard reads them except `Exists` (a folder without maker is no folder).

Each step of `_run` is an action with its failures.  Steps that leave something
behind when they fail say so: half a tree, an emptied manifest, a repository that
was made but not set up (`repoPartial`), a commit the server took
(`commitLost`), a Kitsu project whose creation was never answered (`kitsuLost`).
`Retry` resumes the recorded context; `Back` and `Crash` lose it; `Rollback` is
three actions because another Hub can move between them.

*Abstractions.*  One name.  `NewId` gives the next Kitsu id or repository uuid as
one nothing refers to any more, so that finitely many suffice.  A checkout over
content that somebody has committed always conflicts with the fresh scaffold.

### VcsMigration - one project, several servers

`repo[s]` is the project's repository on each server (uuid and the revisions in
it), `wc` the server every working copy points at, `bound` the blueprint's
binding, `m` the running migration with its phase, `cancel` the service's event.
`Begin` to `Record` are the statements of `migrate_project`; `LoadRevision` is
one revision arriving at `svnadmin load`, so that cancelling, failing and
committing fall between revisions.  `AnswerOld` and `AnswerTarget` are the two
questions of the project list.  `Commit` goes on from every working copy during
all of it: the migration relocates only the TD's.

*Abstractions.*  A uuid is "none", "new" (just created) or "project".  One TD
migrates.  Deleting a repository is atomic.

### Inbox and Notifications - the notification centre of one Hub

`Inbox` is the abstract specification: one event, to one account, goes through the
stages new, unread, read, gone (dismissed), or is barred for being older than the
account's first look, or is pushed out of the list by newer ones.  `Follows` says
which stage may follow which, `Advance` that a step concerns one account.

`Notifications` is the code: `log` with `legible`, how much of its end the file
still holds after a rotation; `who`, `opening` and `profile`, the account and the
dashboard, which change at different moments (`LogIn` is a worker's, `ShowDashboard`
the UI thread's); `user` and `mem`, what the service holds in memory and for whom
(`Loaded` is `_ensure_loaded()`); `file`, the state file per account.  `Poll` is
`refresh_from_audit` with its first look (`Baseline`), its filter (`Fresh`) and its
truncated insertions (`WithBatch`, `OldestFirst`); it runs from the timer and the bell (`Refresh`)
and when a dashboard opens (`OpenDashboard`, `SwitchProfile`).  `MarkRead`,
`MarkAllRead`, `Dismiss` and `DismissAll` are the panel, `Restart` the process.

`Save` writes the whole state: but the fingerprints are a Python set, and
`list(seen)[-500:]` drops whichever it drops (`Kept`).  `shown`, `gone` and `since`
are history, which only the properties read; `LifeOf` maps the state to the stages
of `Inbox`, `Lives` all of it.

*Abstractions.*  An event is its position in the log, so that fingerprints never
collide (they contain a time stamp in microseconds).  The account "default" of the
login screen is polled too, and its list is never shown: it is not kept.  Every
save succeeds.

### WorkingFiles - a working copy without locks

What TaskLock leaves out: textures, caches and new files, which everybody may
change.  A file's contents are the number of the save that made them, `owed` are
the artist's saves that are on no server.  `server`, `node` (what svn and the disk
hold of each path), `aside` (`.openstudio_aside`) and `hidden` (local ignores) are
the data; `scanner`, `updater`, `publisher`, `resolver`, `exporter` the workers and
`stack` the modal windows.  `Pull` is the update with its retries: `Collide` finds
what is in the way, `MovePathAside` and `RetryUpdate` are the loop of
`task_file_sync_service`.  `Add` and `Commit` are two commands of a publication,
and a client may be killed in either (`...Killed`): the working copy stays locked
(`stuck`) until somebody cleans up by hand.  What svn 1.14 does with conflicts and
tree conflicts was observed and is external.

### ServerRoom - administering repositories

Every operation (create, destroy, policy, list locks, break, probe) is its list of
`Commands`, run one at a time by `Command`, each of which may fail or, over SSH,
run and lose its answer.  `store[p]` says how much of a repository there is, down to
access rules, hook and tree; `jobs[h][k]` the operation under each worker key of
each Hub; `table` a lock dialog with the list it was opened with; `serving` and
`passphrase` the container and the vaults.  `Answered` is the slot.  The strategy
(local container or SSH) is chosen by `Init`.  The Hubs know nothing of each other: one
may delete, clean up or redeploy what the other is making, whose commands go on and
are run on whatever the first makes next under the name.  `overtaken` is history: the
repositories that were removed between two commands of a Hub that makes them.

### SoftwareVault - archives and their manifest

`shelf`, `strays`, `zips` and `manifest` are the share; `page` the settings page
with its own copy of the manifest; `fetch` the thread that loads the manifest,
downloads and writes it back; `report` what an audit found.  `ApplyFixes`,
`RegisterOrphans` and `MoveMisplaced` apply it long after.

### Installation - one workspace against blueprint and vault

`conf` is the local copy of the configuration, written last; `built` and `ext` what
was extracted.  `Stage`s of an installer are the calls of `install_project` in their
order; `WorkspaceNeedsUpdate`, `VerifyInstallation` and `AddonsNeedUpdate` are the
three tests the code has.  Two installers may work in one workspace.  Blender is looked
for (`InstallBlender`), and if its folder is not there unpacked in place: the folder is
there from `StartExtracting`, Blender from `FinishExtracting`, and between them another
installer passes it by.  `Available` is the archive an add-on is installed from: the one
the manifest names, or one of the same version when that has gone.

### ProjectImport and ImportData - an archive becomes a production

ProjectImport has the windows (`windows`), the one `plan` and `report` that they
share, the import worker (`run`, one action per stage), the rollback, and a studio
that goes on.  ImportData follows the records of one archive: `Created` looks an
item up by name or makes it, any single call may fail, and the maps from old ids
to new ones carry the rest.  `SortComments` is `_sort_comments`: `ByDate` its `sorted`,
`Visit` its inner function, with a table for the recursion and the list so far for `seen`.
`AddTeam` looks up who is importing once more, and the look-up may fail.

### HubShell - dashboards, workers and the way out

`works` is every worker ever started with its dashboard and account, `slots` what
the `WorkerManager` of this dashboard holds.  Workers whose key is in `Aside` (a
comment, a checklist, responsibles, a task's file, a new person) change data and are
started without `critical=True`; all others that change data are `Critical`.  `Gate` is the credentials gate, whose
prompt runs an event loop (`ask`).  `ChangeProfile`, `LogOut` and `CloseHub` have
the code's guards (critical workers, the count `instances`).  A worker that was
replaced in its slot lives on in the keep-alive registry (`Follow`, `ReleaseSlot`).

### KitsuSession - who the Hub is at Kitsu

One client serves the process: `client` is its host and token.  `Login` to
`OnLoginSuccess` are the statements of `AuthService.login`; `BeginSeeding` to
`EndSeeding` those of the worker that seeds test accounts at localhost and restores
the host; `SyncIdentity` the identity page; `CloseEvent` and `HubDies` the two ends.
`inMemory` is a choice about the client library: whether the Hub finds its tokens
where it looks for them.

### StudioSettings - the file, the register and the binding

`memory` is changed first, then written (`Persist`): the write may fail before or
after truncating.  `wizard` is the initial setup with its seeds; `dialog` the
configuration of a project with the last probe, `home` where its repository is.
`Kept` of module Lists is Python's list comprehension with a condition.

### BlendBatch and StoryDesk - the batch desk

BlendBatch: the selected project, the two audits, the table they share, batches
(`spawns`) file by file, their windows (`progress`), and `handler`, the window that
listens to the one signal.  StoryDesk: the steps before - the gate of a workspace
that is not installed, the list of sequences (`sheet`), the storyboard batch and the
edit's master.

### ProjectGrid - cards, audits and repairs

`board` counts dashboards, `cards` are the cards with the token they were asked
under, `damaged` the list for repair.  The audit worker (`audit`, with one waiting
request) outlives the dashboard; a repair dialog may close before its repair ends.

### ExportDesk - a bundle

The window, the scan before an embedded dump (`precheck`), the publication it may
ask for, and the thread: the bundle is packed beside its name (`AddPart`), moved
there (`CommitBundle`), and removed when cancelled.  `okayed` is history.

### TaskComments, TaskFiles, TaskBoard - what people do with tasks

TaskComments: the drawer (panel and view model are two things with two ideas of the
open thread), three workers, the summary, the store of what was seen.  Kitsu takes a
comment and answers, refuses it, or takes it and the answer is lost (`PostLands`);
`answered` is history.  TaskFiles:
the four ways the code finds the file of a task (`Expected`, `ScanFolder`,
`ResolveFile`, `AuditProduction`), the link dialog and its worker, which looks whether
there is a file (`CreateEmpty`), may run Blender, copies the empty master over whatever
is there by then (`CopyMaster`) and writes the link (`WriteLink`); `came` is history.  TaskBoard: the
manager's board and the artist's desk, the requests that wait for a running load
(`boardNext`), the dialog of responsibles.

## 3. Runs

Twelve runs; every `pass` run finishes, every `violation` run is a disagreement
between the code and what its documentation says.

| Run | Question | Instance |
|---|---|---|
| `tl_discipline` | Does an open DCC always have its lock (`SessionHoldsLock`), does unpublished work keep it (`DirtyKeepsLock`), are stored tokens honoured (`TokensLive`), is one copy writable (`OneWriter`), does work never diverge (`NoDivergentWork`), does Release take only one's own (`ReleaseTakesOnlyMine`)? | 2 artists, 2 machines, 1 file, 2 revisions; crashes, failing unlocks and scans, lost passwords, releases by hand, Hubs closed |
| `tl_shared` | On one shared working copy: never two sessions on a file (`OneSessionPerFile`), and is the lock of an unchanged file given back when nothing in the workspace is unpublished (`CleanCloseReleases`)? | two studios: 2 artists and 1 file, 1 artist and 2 files; 1 working copy, nothing fails, Hubs stay open |
| `tl_anything` | Types, and is an open DCC always counted (`OpenSessionGuarded`), under every fault and habit at once? | 1 artist |
| `pc_hubs` | `SuccessIsComplete`, `OneWinner`, `FailureOwnsUp`, `DeletedMeansGone` | 2 Hubs with roots of their own, the name taken or not, six kinds of failure |
| `nt_inbox` | Does the notification centre implement `Inbox` (`Lifecycle`): what is dismissed stays dismissed, what is older than the first look stays barred, whatever is cut off, restarted or polled in between? Does nothing that was pushed out return before the fingerprints overflow (`NothingReturnsEarly`)? | 1 account and the login screen, 5 events, rotation after any of them |
| `pt_stores` | See the table below: installation, import, shell, sessions, settings | 2 installers, 2 archives, 3 workers, 3 accounts at 2 Kitsus, 2 VCS servers |
| `pd_desks` | The batch desk, the project grid, exports | 2 projects each, 2 batches, 2 dashboards, 2 exports |
| `pe_tasks` | Comments, task files, board | 2 threads, 3 tasks, 2 productions, answers that are lost |
| `pf_servers` | Vault, working copy, repository administration, migration | 2 versions, 2 paths, 2 administrators, 3 servers |
| `tl_v_stale_scan` | finding 1 | 1 artist |
| `pc_v_rollback` | finding 2 | 2 Hubs |
| `vm_v_back` | finding 3 | 2 servers |

What the properties of the four composed runs are made of:

| Property | Parts | In |
|---|---|---|
| `WorkspacesAreWhole` | an installation that was reported done is the blueprint's; a workspace taken for installed has every file, but for those of a Blender that is being unpacked (`SuccessIsCurrent`, `VerifiedIsWhole`) | Installation |
| `ImportIsSound` | other productions are left alone, "no checkout" is said of a loaded repository only, committed files stay (`OthersProductionsKept`, `NoCheckoutMeansLoaded`, `CommittedFilesKept`); every record hangs on what it hung on (`ImportIsFaithful`) | ProjectImport, ImportData |
| `NothingOutlivesItsDesk` | no worker that was started as critical survives its dashboard or log-in, whatever was begun aside, no session the Hub, and no key has two workers (`WorkStaysOnBoard`, `SessionsOutlived`, `OneWorkerPerKey`); the desk is one account's in memory, file and environment, work goes on where it began, seeding stays local and gives the host back (`DeskIsOwn`, `WorkIsOwn`, `SeedsLocally`, `HostComesBack`) | HubShell, KitsuSession |
| `RegisterStaysRight` | one default, no two servers of one id, paths of this machine (`SettingsSound`); a binding changes only to a server a probe of *it* vouched for (`BindingFollowsProbe`) | StudioSettings |
| `DesksAreSound` | success means every file was made, nothing is forged where no workspace is, the master is only reported when it is there, answers of an old render do not paint new cards, the repair list is what is shown, an embedded dump was checked, bundles are whole | BlendBatch, StoryDesk, ProjectGrid, ExportDesk |
| `ResultsReachTheirAsker` | a result goes to the window, project, dialog and dashboard that asked; listed storyboards and finished bundles are left alone | the same four |
| `DesksSettle` | a batch and a forging are answered, the grid shows the truth in the end, an export window is answered (liveness) | the same four |
| `ShownAsItIs` | a comment is posted where it was written, and not again once Kitsu has answered for it (`PostedOnceWhereWritten`); a thread counts as seen up to what was fetched (`SeenWasFetched`) | TaskComments |
| `NothingTaken` | a task keeps somebody responsible through a failing change, no work in a file goes that was there when the link dialog's worker looked (`NeverEmptied`), a late answer takes no badge (action properties) | TaskBoard, TaskFiles |
| `TasksAnswer` | the drawer, the link dialog and the board come to rest on what was asked last (liveness) | all three |
| `ListedIsThere`, `FixesHold` | what a manifest lists has its archive, and an archive under its final name is whole; fixes that nothing has overtaken leave nothing to fix | SoftwareVault |
| `WorkKept` | the last save of the artist is on the server, in the working copy or set aside | WorkingFiles |
| `TreeIsGuarded` | a repository that can be checked out has its access rules and hook, unless it was removed between two commands of a Hub that was making it | ServerRoom |
| `HistoryPreserved`, `CommitsSurvive`, `ProjectStaysServed` | a migration that succeeded kept all revisions; a commit that was accepted survives; the Hub's working copy points at a server that has the project (`WorkingCopyServed`), and a cancelled migration moves nothing (`CancelledNeverMoves`) | VcsMigration |
| `OnlyWhatWasAsked` | a publication commits what was ticked (`OnlyTheChosen`); an administrator's step removes the lock and the row that were confirmed (`OnlyWhatWasConfirmed`): action properties | WorkingFiles, ServerRoom |

**Bounds and why they are enough.**  Two actors: every hazard listed is between
two of them (two Hubs, an artist and a worker, two windows, two projects), and the
proofs of section 5 cover any number where they reach.

* `MaxRev` (revisions of a file) is 2 where divergence matters: one to be behind, one
  to conflict; 1 where only locks matter.  `MaxInst` (sessions registered at once) is
  2, the number that lets a report of one session be taken for another.  `tl_shared`
  needs two artists for one file and two files for one artist, each with its own
  cards; both at once for both artists are 13 million states and nothing new, because
  what an artist's own second file does to the scan a colleague's does, too.
* `pc_hubs`: five `Ids` are always enough.  A new Kitsu id is needed only when
  `kitsu.id` is `None`, and then two contexts and two manifests are all that can
  refer to one, so making a project or a repository never waits for an id.
* `nt_inbox` scales the sizes of the centre down to the smallest that
  `SizesAssumption` admits: window 2, list 1, archive 2 * (2 - 1) + 1 = 3,
  fingerprints 2 * 2 - 1 = 3.  The code's are 200, 100, 500 (498 would do) and 500
  (399 would do).  Both inequalities are sharp: with one entry fewer in archive or
  state file TLC finds, with the same 5 events, a dismissed notification that
  returns.  One account is enough because every step but `LogIn` concerns the
  account in front, whose state is read from its file whenever the service has held
  another's; the login screen is that other account.
* `pt_stores`: three packages of one add-on, two of one version (`Versions`), so that
  "newer", "same version" and "gone" all occur; one change of blueprint or vault
  while two installations run.  Two imports, one window: the second import finds the
  report of the first.  Three workers and two moves: one replaced, one critical, one
  to wait for.  Four tries of the session (log-in, seeding, sync, work) are the
  shortest history in which each of the four meets every other; two upsets let a
  log-out fail after a failed log-in.  Three writes of the settings: a seed, an edit
  and what undoes it.
* `pd_desks`: two batches, so that the second finds the first's window; two dashboards
  and one turn of the user on the grid; two exports and three names, so that a name
  is taken while the thread packs for it; two sequences, so that one can fail.
* `pe_tasks`: two threads to switch between, one checklist item, three tasks of which
  two share an asset and two begin alike; `page` fixes one of the two roles.
* `pf_servers`: one of two paths is on the server from the start, both have the same
  last segment; three orders of two administrators and one mishap; `MaxCommits` 4:
  the first revision, one while a migration runs, one on the new server, one from
  an orphaned working copy.

Deadlock is checked in the TaskLock and ProjectCreation runs.  It is switched off
where bounds or people may end a behaviour: in `nt_inbox` and in the four
composed runs, where "everything waits" is caught by the liveness properties
instead.

**Fairness.**  Weak fairness only, and only of what the program does by itself:
worker threads (every call has a time-out or fails) and the slots of their signals
(the event loop delivers what is queued).  `TaskLock!Fairness` adds the branches of
`launch` (a handler that has begun ends).  `pd_desks` assumes it of spawn steps,
forging and installing threads, the grid's workers and the export thread;
`pe_tasks` of fetches, posts, the link worker, and the loads of the board and the
desk.  No fairness of anything a person does - closing a DCC, pressing a button,
answering a question -, none of the studio's mishaps, no strong fairness.

## 4. Findings

1. **A scan that began too early releases the lock of unpublished work**
   (`tl_v_stale_scan`).  `check_vcs_changes` does nothing while a scan runs
   (`interfaces/qt/viewmodels/artist_viewmodel.py:640`), but the end of a session
   arms the release all the same; the empty answer of the old scan then unlocks a
   file the artist has saved since.  docs/features/vcs-client.md:139-142 says the lock
   stays.
2. **"Delete created data" deletes what was not created** (`pc_v_rollback`).  The
   rollback goes by the context's id and name
   (`application/services/project_creation_service.py:163`), also when the Kitsu
   project was found and reused, and destroys the repository of that name even if
   the VCS step never ran.
3. **Migrating back loses the revisions made in between** (`vm_v_back`).  The old
   repository, kept as an orphan that a working copy still commits to, has the same
   uuid and may have the same number of revisions: the migration takes it for an
   earlier transfer (`application/services/vcs_migration_service.py:459`).

### Other disagreements met while modelling

Reproducible in the models, by adding the fault or habit named to a run or by
checking the statement named (kept in its module); not runs of their own.

*Task lock*

* *A lock broken on the server* (`adminBreak`): "already locked by me" is read from the
  working copy (`task_file_sync_service.py:655`), although the docstring at :637
  says locking is fail-closed; `SessionHoldsLock` is broken.
* *Two launches of one task* (`launchBusy`): `launch` overwrites `_launching_card`
  before the queued report of the session that has just ended is delivered
  (`artist_viewmodel.py:531`), and the lock of the new session is released.  A
  launch while a worker runs registers a session that the worker manager refuses:
  a phantom that keeps the Hub from closing.
* *Publishing from another card* (`publishPart`): a commit of a selection releases
  the lock of the card it was started from, even when that file stays dirty.
* *A session that changed nothing keeps its lock* when anything else in the workspace is
  unpublished, the artist's own other file or, on a shared copy, a colleague's: the scan
  looks at the whole workspace, a list that is not empty drops the release
  (`artist_viewmodel.py:653-670`), and only a publication started from that card or a
  release by hand gives the lock back.  The comment at :534-536 says that the scan
  releases it "if the session produced no changes".  `CleanCloseReleases` with the
  file's own state in the place of the workspace's is violated in `tl_shared`.
* *A scan that fails* (`scanError`) leaves the release armed: the next scan of that
  card, for whatever reason, performs it; closing the Hub during the scan forgets
  it instead, and the lock stays.
* *A Hub without VCS by default* (`DefaultVcs`) opens a task of a versioned project
  without a lock (`artist_viewmodel.py:482` asks `is_vcs_enabled()` of no project).
* *Release on a shared working copy* (`releaseAny`) uses `--force` and removes the
  lock under a colleague's open DCC.  An svn account that differs from the Kitsu
  e-mail makes the card say that one's own lock is somebody else's (:421).

*Project creation and migration*

* *Kitsu's answer lost* (`kitsuLost`): the error dialog says that no project data
  exists.  *A file in use on the NAS* (`nasBusy`): `rmtree(..., ignore_errors=True)`
  and `True`.  *Two Hubs on one share* (`SharedRoot`): both pass the look-up of the
  folder and write into one tree.
* *The blueprint is not written* after the relocation (`blueprintFails`, or a crash
  there): the error is only printed, and the retry reports "already points at" and
  asks whether to delete the "old" repository.  *Two servers on one host*
  (`OneMachine`): a migration between them moves nothing and offers to delete the
  only repository.
* A cancellation before `_reset` (`vcs_migration_service.py:89`) is lost, one after
  the transfer is ignored; commits made after the dump began are lost when the old
  repository is deleted; artists' working copies are never relocated.

*Notification centre*

* *A TD under another profile misses failures for good*: a poll marks every event as
  seen before it asks whether the profile of the moment may see it
  (`notification_service.py:139-140`); docs/features/vcs-client.md:194 promises TDs
  the failures of administration.  A poll between log-in and dashboard (`SlowLogin`,
  `Tds`) uses the profile of the session before.
* A batch larger than the list loses its newest events, and its oldest stands on
  top.  When the fingerprints overflow, what was pushed out may be announced
  again after a restart (`NothingReturnsEarly` says when).

*Working copies*

* `PublishedIsOnDisk`: "mark as resolved" on a file the artist has deleted deletes
  the colleague's (`svn_adapter.py:369`).  `WorkingCopyRecovers`: a killed svn leaves the
  working copy locked, and nothing calls the clean-up.  `WorkKept` with
  `exportOver`: an exported revision may be written over the working file, which
  docs/features/vcs-client.md:153-154 excludes.
* "Keep mine" and "Take theirs" fail on tree conflicts; *Ignore* keeps only the last
  segment of a path; a publication started from a busy window that is left with
  Escape is answered in a later window; one commit of a part empties the badge.
* The runner's cancel flag (`svn_runner.py:220`) is cleared by the next `run()`.

*Server room*

* `AdministrationIsAudited`: breaking a lock, changing a policy and cleaning up are
  not written to the audit log (docs/features/vcs-client.md:169).  `AbsentIsGone`: a
  probe that fails counts as "not there" (`repository_admin.py:512`).  `RefusalIsTrue`:
  the dialog says that the removal of a lock could not be started when it was.
* *Two Hubs, one repository*: when one Hub deletes (or cleans up, or redeploys the
  container) and makes a repository anew while another is making it, the other's last
  commands are run on the new one: its tree is there before its access rules and its
  hook, and stays without them if the second creation fails (`overtaken`).
* A half-made repository "already exists" for the next creation, which succeeds
  without access rules; `delete_project` reports "Project destroyed." whatever failed;
  a break by path takes the lock of whoever holds it now.

*Vault, installation, settings*

* `FetchedToolsFit`: what a fetch judged for one version is added to the version that
  the page shows when the answer arrives.  The page's
  Save overwrites what a fetch registered; a torn manifest loads as an empty one; a
  truncated download gets its final name; two downloads share one `.tmp`.
* A blueprint that changed in its add-ons only is not noticed at launch
  (`launch_service.py:203-210`); a torn copy of the configuration passes the
  verification (`installation_service.py:105`); an unknown dependency asks for updates
  for ever.  A half-extracted Blender counts as cached (:334), one that another
  installer is extracting at this moment too: the second one says "Local workspace
  installed and verified successfully." over it.
* `FileIsWhole`: the settings are truncated and written in place
  (`config_factory.py:97`), a torn file reads as a first start, a failed save leaves the
  memory changed, and another Hub's writes are overwritten.

*Import and export*

* `RollbackDeletesPartial`: rollback and checkout use the report of whichever import
  was last; a look-up that fails counts as "no conflict", and the import adopts the
  production it finds (`kitsu_import_service.py:251`), which the rollback then deletes;
  nothing reads the flag `cancel()` sets; a dump that fails to load is a success
  with a checkout to come.
* When the look-up of the current user fails while the team is added
  (`kitsu_import_service.py:1227`), the importing user gets the role of the studio and
  is no manager of the production any more: against the comment at :1231, "The importing
  user must keep manager rights to write task data."
* One `_pending_export` serves all windows; a refused password leaves the window
  waiting; a scan that fails counts as clean; names race between Hubs (`RacingHubs`).

*Grid, batch desk, board*

* `RepairKeepsBlueprints`: a repair writes over a blueprint that has become whole since
  its card was painted.  An
  unreachable share makes every project a "Kitsu Orphan".  Tokens of two dashboards
  coincide, since each counts by itself.
* A window closed early (`closesEarly`) leaves its batch's answer to the next one's.
  `DrawnBoardsKept`: a list that is out of date lets an empty storyboard replace a drawn
  one (docs/pm-guide.md:42).  `StoryboardBatchWorker` reports success whatever
  failed, and `get_or_create_storyboard_task_type` looks for "storyboard" but creates
  "StoryboardSeq" (`production_manager.py:180-185`).
* *A comment posted twice*: Kitsu has stored it and the answer is lost.  The worker
  reports a failure (`comment_workers.py:120-127`), the panel keeps the text and offers
  Send again (`task_board_widget.py:593-598`, `artist_view.py:712-717`), and whoever
  sends it again posts it twice.  A checklist whose answer is lost is shown as it was.
* *An empty file over a new one*: the link dialog's worker looks (`task_file_service.py:102`),
  may run Blender to make the master (`empty_master_provider.py:34-61`), and copies
  without looking again (:68); a file that was made and saved in between is replaced,
  against the docstring "Create the empty file (if needed)".
* *Names that begin alike*: files are matched by prefix (`task_file_resolver.py:211`), so a
  task without a file of its own opens, and the audit counts, the file of another
  whose name begins alike.
* `FoundInEntityFolder` (`task_file_resolver.py:10-13`), `RenamedWhileUnmapped`,
  `UnlinkedMeansUnlinked` (unlinking merges the data instead of removing the key),
  `DrawerShowsItsThread` (docs/artist-guide/feedback-and-notes.md:22), `OnlyTheUnchecked`
  (docs/pm-guide.md:92) and `FilterFollows` fail as their comments say.

*Shell and sessions*

* What is begun aside outlives everything: a comment, a tick, responsibles, a task's
  file and a new person are written by workers that are not critical
  (`task_comments_viewmodel.py:201` and :246, `task_board_viewmodel.py:286`,
  `blend_builder_viewmodel.py:422`, `project_list_viewmodel.py:1313`).  A switch of
  profile and a log-out do not wait for them, and the log-out takes their token away;
  the end of the Hub waits two seconds for them (`openstudiohub.py:142`) and then kills
  them half-way.
* A launch from a project card is counted and never counted down, so that the Hub
  asks before closing ever after; an export's answer after a switch of profile
  starts a publication under the new desk (`escapes`).
* Log-outs wait for test accounts to be seeded, the identity page does not
  (`syncsWhileSeeding`): its host is overwritten when the seeding ends, or the seeding
  goes to a foreign Kitsu (`infrastructure_workers.py:102-103`).  The seeder gives the
  host back but not the tokens.  A log-in whose file cannot be written leaves the
  user set.

## 5. Proofs

`tlapm` checks everything below from the definitions TLC runs, for every value of
the constants that satisfies the modules' assumptions: any number of artists,
working copies, files, Hubs, servers, commits, workers, installers, archives and
ids, and any faults and habits not excluded in the table.

| Theorem | Says | Assumes |
|---|---|---|
| **TaskLockProofs** `TypeCorrect` | `[]TypeOK` | - |
| `TokensHonoured`, `SingleWriter` | `[]TokensLive`, `[]OneWriter` | no lock broken on the server, no commit killed |
| `SessionsGuarded` | `[]OpenSessionGuarded` | - |
| `SessionsKeepTheirLock` | `[]SessionHoldsLock` | `Discipline` |
| `OneSessionAtATime` | `[]OneSessionPerFile` | `Discipline` |
| `UnpublishedWorkIsLocked` | `[]DirtyKeepsLock` | `Discipline` |
| `WorkNeverDiverges` | `[]NoDivergentWork` | `Discipline` |
| `ReleaseIsOnesOwn` | `ReleaseTakesOnlyMine` | own workspaces; no lock broken, no commit killed |
| **ProjectCreationProofs** `TypeCorrect` | `[]TypeOK` | - |
| `OneWinnerAlways`, `SuccessIsCompleteAlways` | `[]OneWinner`, `[]SuccessIsComplete` | every Hub has its own workspace root |
| `FailureOwnsUpAlways` | `[]FailureOwnsUp` | no `kitsuLost` |
| `DeletedMeansGoneAlways` | `[]DeletedMeansGone` | no `nasBusy` |
| **VcsMigrationProofs** `MigrationIsTyped` | `[]MigrationTypeOK` | - |
| `HistoryIsPreserved`, `NoCommitIsDestroyed` | `[]HistoryPreserved`, `[]CommitsSurvive` | `OneWay` |
| `WorkingCopyStaysServed` | `[]WorkingCopyServed` | `OneWay` |
| `CancellationHolds` | `[]CancelledNeverMoves` | - |
| **NotificationsProofs** `CentreIsTyped` | `[]CentreTypeOK` | - |
| `CentreImplementsInbox` | `Lifecycle`: Notifications implements Inbox | - |
| `NothingComesBackEarly` | `NothingReturnsEarly` | - |
| **StoresProofs** `RoomIsTyped`, `RepositoriesAreGuarded` | `[]RoomTypeOK`, `[]TreeIsGuarded`: every repository outside `overtaken` | - |
| `OnlyTheConfirmedGoes`, `NothingUnaskedGoes` | `OnlyWhatWasConfirmed`, `OnlyWhatWasAsked` | - |
| `NoWorkIsLost` | `[]WorkKept` | no `exportOver` |
| `StoresAreTyped` | `[]StoresTypeOK` | - |
| `VaultIsTyped`, `FixesAreComplete` | `[]VaultTypeOK`, `FixesHold` | - |
| `ListingsAreTrue` | `[]ListedIsThere` | no `shortRead`, no `sameFile` |
| `StoresAreSound`, `ProjectIsServed` | the four stores side by side; `[]ProjectStaysServed` | all of these; `OneWay` |
| **PartsProofs** `DeskIsOnesOwn`, `WorkIsOnesOwn` | `[]DeskIsOwn`, `[]WorkIsOwn` | - |
| `SeedingGivesBack` | `[](SeedsLocally /\ HostComesBack)` | no `syncsWhileSeeding` |
| `WorkEndsWithItsDesk`, `NoSecondWorker` | `[](WorkStaysOnBoard /\ SessionsOutlived)`, `[]OneWorkerPerKey` | no `escapes` |
| `NothingOutlives` | `[]NothingOutlivesItsDesk`, shell and session side by side | both |
| `InstalledIsWhole`, `WorkspacesStayWhole` | `[](SuccessIsCurrent /\ VerifiedIsWhole)`, `[]WorkspacesAreWhole` | - |
| `ImportTouchesItsOwn` | `[]` of `OthersProductionsKept`, `NoCheckoutMeansLoaded`, `CommittedFilesKept` | - |
| `StatusesAndFilesAreKept` | `[](StatusesAreLinked /\ FilesAreKept)` | - |
| `ShotsAreKeptApart` | `[]ShotsStayApart` | every shot's sequence is in the archive |
| `ThreadsStayTogether` | `[]ThreadsAreKept` | - |
| `ImportsAreSound` | `[]ImportIsSound`, all of these beside the other parts | as `ShotsAreKeptApart` |
| `BindingsAreProbed`, `BindingsFollowProbes` | `BindingFollowsProbe`, alone and beside the other parts | - |
| `SettingsAreTyped`, `SettingsStaySound` | `[]SettingsTypeOK`, `[]SettingsSound` | - |
| `RegisterStaysSound` | `RegisterStaysRight`, beside the other parts | - |
| `PartsAreTyped` | `[]PartsTypeOK`, all six parts | - |
| **DesksProofs** `SuccessIsOnDisk` | `[]SuccessIsForged` | no `closesEarly` |
| `NothingBeforeTheGate` | `[](GateHolds /\ MasterIsForged)` | - |
| `TheGridIsCurrent` | `[](StaleResultsDropped /\ RepairListIsShown)` | - |
| `NoBundleIsPartial`, `DumpsAreChecked` | `[]BundlesAreWhole`, `[]DumpIsChecked` | the second: no `escapes` |
| `DesksStaySound` | `[]DesksAreSound`, all of these side by side | no `closesEarly`, no `escapes` |
| `ResultsReachTheirDesk` | `ResultsReachTheirAsker` | the same, and no `RacingHubs` |
| `DesksAreTyped` | `[]DesksTypeOK` | - |
| **TaskToolsProofs** `SeenIsFetched`, `PostsAreOnce` | `[]SeenWasFetched`, `[]PostedOnceWhereWritten` | - |
| `ToolsAreTyped`, `ToolsShowWhatIs` | `[]TasksTypeOK`, `[]ShownAsItIs`, the three tools side by side | - |
| `ToolsTakeNothing` | `NothingTaken` (`SomebodyStays`, `NeverEmptied`, `BadgesSurvive`) | - |

The faults and habits excluded are necessary: each breaks its property (section 4).
Every hypothesis is met by a run: `Discipline` by `tl_discipline` and `tl_shared`,
`OneWay` and those of StoresProofs by `pf_servers`, those of PartsProofs by
`pt_stores`, those of DesksProofs by `pd_desks`.  Each inductive invariant was first checked by TLC on these runs.

**TaskLock.**  `TokensLive` is inductive with the types: a token is stored only by
`SvnLock` together with the server's lock, and the lock goes only together with the
token - by an unlock or a commit of that working copy, or by `--force`, which needs
a token in the working copy that asks; since that token is live, the lock removed
is its own.  This is where `UnlockSkipped` matters.  `OneWriter` follows, because
the lock names one working copy.  `OpenSessionGuarded` is not inductive: a
queued report would take the count of the session after it.  `SessionsCounted`
strengthens it: the count is at least the number of queued reports plus
one for an open DCC.

**TaskLock under discipline.**  `Discipline` is what section 4 says must be kept: the
default settings, no two Hubs with one svn user in one working copy, own workspaces
where locks are released, no lock taken back by hand.  `DisciplineInv` has two halves.
Of the files, `WorkHeld`: whoever has changed a file holds its lock (`DirtyHeld`), and
has it at the last revision (`HeldCurrent`), because svn locks nothing out of date and
nobody else can commit past a lock.  Of each artist, `Kept(a)`:
a launch that goes ahead has stored its token (`SessionHeld`); while a launch waits no
worker of that Hub is on its way, and while a DCC is open none that could unlock
(`Alone`); and of a publication or a scan that is on its way, whatever is unpublished is
among the paths it names (`Covered`).  The last is the heart of it: without it the answer
of a scan that began before a save releases the lock, which is finding 1.

**ProjectCreation, completeness.**  `IInv` says four things.  `Order(h)`: the
recorded steps are those the order of `_run` allows where `h` is.  `OnDisk(h)`: what
each recorded step has left in the folder of `h`.  `Remote`: a repository that a
Hub has committed to keeps that commit, and no two Hubs have committed to one
repository, *deleted ones included* - without that clause a rollback and a new
repository of the same name would lose the induction.  `Untouched(h)`, for Hubs
outside `razed`: what `h` made still exists.  `Elsewhere` shows that a step of one
Hub leaves context and folder of another alone; it needs the roots to be apart.

**ProjectCreation, ownership.**  `OInv` holds on shared roots too.  It follows the
maker's mark: while a creation goes on, has failed or is being rolled back, a Kitsu
project, repository or folder that bears its mark implies that the Kitsu step is
among those recorded (all marks but the first come after it); the rollback's parts
remove one mark each or give up the success report.  `MarksElsewhere` shows that
nobody marks anything in another's name.

**VcsMigration.**  `OneWay`: every server has its own host, nobody goes back (finding 3),
and neither a relocation nor the record of it in the blueprint fails (section 4).
`Pointers` and `Served` tie blueprint, working copy and phase together: who works, works
where the blueprint points, but for the TD between relocation and record.  `Leftovers`
says that a repository which the project may still move to holds a beginning of the
log it has now - with the transfer's own counts `m.seen` and `m.dump` in between; this
is what makes a second attempt, which resumes what a first one has left, harmless.
`HeldOnTheWay` follows the commits that were there at the start through dump and load,
and `SinceIsLate` counts the others.  `CommitsSurvive` holds because what a
question may delete is never the bound repository (`Pointers`).  `CancelSeen` says where a cancellation that came
in time can still find the migration.

**Notifications.**  `SizesAssumption`, which the code's sizes satisfy with little to spare,
carries the proof: the archive holds two windows and a list (500 >= 2 * 199 + 100), a
state file the fingerprints of two windows.  `CentreInv` is about what a poll can still
see, the window `lo .. n` at the end of the log.  `ArchiveOK`: what was dismissed and is in
the window is in the archive.  That the archive is cut at 500 does not break this, because
of the entries before the i-th fewer than `MaxItems` can be older than every window it was
in (`Older`: they were in the list with it), and the others are among the 2 * (Window - 1)
events next to it (`StaysArchived`).  `SeenOK`: what the account has been shown, and what
was there at its first look, is among the fingerprints as long as there are no more events
from the first look's window on (`First`) than the file keeps - so an overflow, which drops
any of them, cannot drop one of the first look that the window still reaches.  `Same`:
memory and file differ in fingerprints only, whichever of the two the next call starts
from.  `Step` is what every poll and every edit does to one account: each event's stage
follows in Inbox (`Lawful`), the other accounts' stay; every other step leaves all stages
alone (`Still`).  The run has one account and five events, the theorems any number, and so
the accounts that do not mix.

**ServerRoom.**  `TreeIsGuarded` needs `MakingHolds` (of each creation of a repository
that is not `overtaken`, what its finished commands have written is still there; every
removal under a maker's hands puts the repository into `overtaken`, and the next
removal or creation that meets no other maker takes it out again) and `Emptiness`
(what was destroyed has left nothing, and a server that was not set up has no
repository).
**WorkingFiles.**  `WorkKept` is about the versions that are `owed`: made by the artist,
on no server, not given up.  It needs `PristineIsPublished` (no version that is owed is a
pristine copy or on the server, so that going back to these loses nothing but what was
given up) and `ExportsGoOutside`.  In its types, the stack of windows is without
repetitions: a scan's answer opens no second dialog of a task, and because while an update
is under way no review of one is open (`WindowsTyped`), the update's end opens no second
review.
**SoftwareVault.**  The page writes its copy of the manifest back long after it read
it: `Backed` says that every row of the page, of a fetch and of the file is an archive
that is there, and `WholeInv` that it is a whole one unless a read was short.

**HubShell.**  `OnBoard` ties each critical worker to the dashboard and the account it
was started with; it survives a switch of profile because the guards look at the
slots (`Slotted`: a critical worker that runs is in one), and the credentials prompt,
whose event loop lets a switch happen before the answer, because the answer looks
again (`Prompted`).  `Counted` relates the count of open DCCs to the sessions.
**KitsuSession.**  `Settling` follows the statements of a log-in one by one: which of
client, session file and memory already speak of the new account.
**Installation.**  `Reached(i)` is what an installer that nobody disturbed has done when
it is where it is: every add-on of the blueprint is still wanted, skipped or in place.  For Blender this is only that its folder is there: that it is full
is `Harmed`'s, by the damage done so far and who is still extracting.
`HalfWay` covers the directory that has been removed and not yet been marked: there a
second installer could put its own build under the first one's marker, so the clause,
like the part of `InPlace` about builds, stands only until two have met (`OneAtATime`);
versions and completeness hold even then.
**ProjectImport.**  `Makers` says of every id that the worker, the report or a rollback
holds that an import made that production or was let into it; between the question
and the creation this rests on `Asked`.  `Loads` follows the dump through the
renaming, `Removals` the emptiness of the folder that is removed.  **ImportData.**
`MappedOrLost` and `LinkedOrLost`: at every step, each item of the archive is in the map
from old to new, or its loss is on record.  For the comments, `Visit` and `SortComments` are
recursive functions.  What `Visit` computes is there because no set of comments answers only
itself (`~Circular`): a property that passes from a comment to its replies holds of all
(`DownTheThread`), so there is a table of what is visited (`EveryCommentIsEntered`), any two
of which agree.  `InThread` - each reply is after what it answers - survives a visit, and so
the whole sort; a list comprehension (`KeptKeepsOrder`, below) keeps the order, so that the
answered comment, if it was made at all, was made before.  That the sort by date is one, at
every place exactly one comment, is a count of the comments before it (`PlacesAreTaken`).
**Types of the parts.**  Most of `PartsTypeOK` is in the invariants above; `ShellTyped`,
`ImportRest`, `InstallRest` and `DataTyped` add the rest, the first without any assumption
on habits.  **StudioSettings.**  `Remembered`: a good
probe that the dialog remembers was made while it was open.  The register is filtered, put
together and rewritten as a list, so `SettingsSound` rests on what a list comprehension
keeps: `Kept` of module Lists is a recursive function, `KeptKeepsOrder` says that it keeps
what it is asked for, all of it, in order and once.  The induction over the list is one
over the set of lengths for which this is so (`UpTo`: were one missing, there would be a
least one).  Of the seeds it is assumed that they name each server once
(`SettingsAssumption`): an export writes the register of a machine, of which the theorem
says just that.  `Stored` has the clause for the file only when it is whole; `Wizards` that
a wizard that resumes has no other seed; `Dialogs` that the server chosen is registered,
because nothing else writes the settings while the dialog is open.

**BlendBatch.**  A batch that runs has its window open, and that window is the one the
signal is tied to (`closesEarly` would leave the tie to a window that is gone).
**StoryDesk.**  No name of a list, nor of a batch made from it, is both to be forged and
there.  **ProjectGrid.**  Tokens are given out in order, so that an answer is of this look
exactly when its token is the last; each card has one verdict a look.  `RepairTyped` says
whose a repair is: only the dialog in front can listen, and while it does, the repair that
runs is its own, so that the one removed at the end is the one in front.
**ExportDesk.**  One export at a time, and scan, publication and thread are all about the
film of the window; the parts are packed in their order, so that a bundle under its name
has them all; its number is the least that is free when it is named (`LeastNumber`, from
the well-founded order of the naturals), and only another Hub can take it after that.

**TaskComments.**  `DrawerText` and `PostingText` follow a text from the panel to the
server: it is for the thread of the panel, and no post of it was answered yet unless one
has landed whose answer the panel still awaits - which is why an answer that clears the
panel, and a second post that waits for the first, are both needed.  Posts whose answer
was lost may be on the server any number of times; they go unanswered.  `SeenShape` rests on
the loaded list being read before it is stored (`NewestGrows`: what is delivered is the
highest of what was and what came).  **TaskFiles.**  Types and `Spelled`: the expected file
of a task is one of its own name, so that among the files that match it some version is
the highest and the resolver finds one.  `Looked`: what is at the path of a worker on its
way to copy came after it looked.  **TaskBoard.**  `SomebodyNew`: of an assignment
that adds somebody and that no colleague has disturbed, there is a person who is not to be
removed and who is to be added or on the task.

**Only model-checked.**  Every safety property of the passing runs is the statement of a
theorem above.  `CleanCloseReleases`, `DesksSettle` and `TasksAnswer` are liveness under fairness, which
the prover does not do.

## 6. What is not modelled, and why

* **Subversion, Zou, Blender, Docker, ssh, the keyring** are external: modelled by
  what the Hub relies on, never proved.
* **Watchtower**: a web dashboard that runs as a child process with its own code; the
  Hub starts and stops it.  (Its working directory is set with the process-wide
  `os.chdir`, and both launches share one `.env.local`.)
* **Sparse checkouts of vendors**: no caller reaches the recursive download
  (`application/sparse_manager.py`).  The artist's desk installs every account as role
  "artist" (`interfaces/qt/workers/artist_workers.py:130`), a vendor's too, and checks
  the whole project out; the project list passes the vendor's role but no task, and
  is refused.  docs/features/vendor-jailing.md says that the Hub "automatically shifts"
  to a sparse checkout, and that finished shots are purged, which nothing does.
* **Legacy software page** (`widget_software.py`, `file_downloader.py`,
  `git_packager.py`): nothing reaches it.  `restore_session` and `SvnAdapter.cancel`
  have no caller either; the session file is modelled, its restoration is not.
* **Git LFS**: a stub.
* **Seed encryption, migration of old keys, host keys, texts of hooks, generated
  scripts of add-ons**: one mark each where a property depends on their presence.
* **Previews, thumbnails, search, sorting, layout, painting, wording**: nothing to
  check that the models could tell apart.
* **Files that cannot be deleted**: the session file at a log-out (`auth_service.py:118`; the
  exception would leave the desk open without an account), the directory of an add-on
  half-way.
* **The other workers that are not critical**: the audits' renaming of assets, the vault
  page's downloads and the identity page's sync, and all those that only read.
* **Two Hubs of one account on one machine**, which share session, state and settings
  files: of these only the settings have another Hub that writes.
* **The runner's cancellation between two commands** and the paging of logs.
* **Blender add-on**: its commit from inside Blender is `DccCommit` of TaskLock; the rest
  works on the open file.
* **Widths**: no arithmetic of the code overflows (Python integers).

## 7. What is left

Models: the vendors' sparse checkout, once a caller reaches it; the quality checks of the
Blender add-on; two Hubs of one account on one machine.

Theorems to prove next: the shell's promises and the exports' where a habit is excluded,
with what still holds when it is not.
