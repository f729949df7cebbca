------------------------------ MODULE TaskLock ------------------------------
(***************************************************************************)
(* The artist's cycle in the Hub: lock the task file, open the DCC, scan   *)
(* the workspace when it closes, publish, release the lock.  Every Hub has *)
(* one UI thread (ArtistViewModel) and one worker thread per key of its    *)
(* WorkerManager.  A worker computes its result on its own thread and the  *)
(* UI thread applies it later, when it is back in its event loop; the     *)
(* launch handler calls svn on the UI thread and blocks it meanwhile.      *)
(***************************************************************************)
EXTENDS SvnWorkspace

CONSTANTS Artists,     \* one Hub process each
          WcOf,        \* working copy of each artist (may be shared)
          SvnUser,     \* svn account of each artist
          Email,       \* Kitsu e-mail of each artist
          FirstCard,   \* first task of the project in the card list
          DefaultVcs,  \* is_vcs_enabled() with no project: each Hub's settings.json
          Faults,      \* what may go wrong around the Hub
          Habits,      \* what people do that the Hub does not prevent
          MaxInst      \* bound: register_instance(True) calls

AllFaults == {"adminBreak", "commitKilled", "scanError", "crash", "passwordLost",
              "unlockFails"}
AllHabits == {"publishOpen", "publishPart", "updateOpen", "scanOpen", "launchBusy",
              "release", "releaseAny", "toolkitCommit", "refresh", "closeHub"}

ASSUME TaskLockAssumption ==
    /\ WcOf \in [Artists -> WCs]
    /\ SvnUser \in [Artists -> Users]
    /\ Email \in [Artists -> Users]
    /\ FirstCard \in Files
    /\ DefaultVcs \in [Artists -> BOOLEAN]
    /\ Faults \subseteq AllFaults
    /\ Habits \subseteq AllHabits
    /\ MaxInst \in Nat

VARIABLES worker,     \* WorkerManager: state of the worker under each key
          ui,         \* where the UI thread stands in launch(), or idle
          cardOwner,  \* card.lock_owner
          cardMine,   \* card.lock_is_mine
          pending,    \* card.pending_changes
          awaiting,   \* _awaiting_lock_release
          launching,  \* _launching_card: whose end the next report is taken for
          ended,      \* queued reports of DCCs whose worker was replaced since
          badges,     \* snapshot of lock owners the task_locks worker carries
          instances   \* blender_instances of the shell

hubVars == <<worker, ui, cardOwner, cardMine, pending, awaiting, badges, instances,
             launching, ended>>
\* The session: the shell's count and the view model's idea of the open DCC.
session == <<instances, launching, ended>>
vars == <<svnVars, hubVars>>

Keys == {"launch", "vcs_check", "vcs_publish", "vcs_update", "vcs_resolve", "task_locks"}

\* "run": the thread works.  "out": it has read or done what it reports, and
\* the slot that applies the report has not run yet.  A thread ends a moment
\* before its slot runs; only for "launch", whose report does not say which
\* card it is for, does the model let a new worker start in that moment.
Idle == [st |-> "idle", task |-> None, paths |-> {}, ok |-> FALSE]
Worker == {Idle} \cup
    [st : {"run", "out"}, task : Files, paths : SUBSET Files, ok : BOOLEAN]

NoUi == [step |-> "idle", task |-> None]
UiThread == {NoUi} \cup [step : {"lock", "delegate"}, task : Files]

TypeOK ==
    /\ SvnTypeOK
    /\ worker \in [Artists -> [Keys -> Worker]]
    /\ ui \in [Artists -> UiThread]
    /\ cardOwner \in [Artists -> [Files -> Users \cup {None}]]
    /\ cardMine \in [Artists -> [Files -> BOOLEAN]]
    /\ pending \in [Artists -> [Files -> SUBSET Files]]
    /\ awaiting \in [Artists -> SUBSET Files]
    /\ badges \in [Artists -> [Files -> Users \cup {None}]]
    /\ instances \in [Artists -> Nat]
    /\ launching \in [Artists -> Files \cup {None}]
    /\ ended \in [Artists -> Nat]

NoBadges == [f \in Files |-> None]

Init ==
    /\ SvnInit
    /\ worker = [a \in Artists |-> [k \in Keys |-> Idle]]
    /\ ui = [a \in Artists |-> NoUi]
    /\ cardOwner = [a \in Artists |-> NoBadges]
    /\ cardMine = [a \in Artists |-> [f \in Files |-> FALSE]]
    /\ pending = [a \in Artists |-> [f \in Files |-> {}]]
    /\ awaiting = [a \in Artists |-> {}]
    /\ badges = [a \in Artists |-> NoBadges]
    /\ instances = [a \in Artists |-> 0]
    /\ launching = [a \in Artists |-> None]
    /\ ended = [a \in Artists |-> 0]

-----------------------------------------------------------------------------
(* WorkerManager                                                           *)

IsRunning(a, k) == worker[a][k].st # "idle"
Running(a, k) == worker[a][k].st = "run"
Emitted(a, k) == worker[a][k].st = "out"

Start(a, k, f, S) ==
    worker' = [worker EXCEPT ![a][k] =
                   [st |-> "run", task |-> f, paths |-> S, ok |-> FALSE]]

\* The thread emits its result and ends.
Emit(a, k, S, ok) ==
    worker' = [worker EXCEPT ![a][k] =
                   [st |-> "out", task |-> worker[a][k].task, paths |-> S, ok |-> ok]]

\* The UI thread has taken the result of k: the manager drops the worker.
Delivered(a, k) == [worker[a] EXCEPT ![k] = Idle]

UiFree(a) == ui[a].step = "idle"
InSession(a, f) == Running(a, "launch") /\ worker[a]["launch"].task = f
Open(a) == IsRunning(a, "launch")
Fault(x) == x \in Faults
Habit(x) == x \in Habits

\* A bug: the scan a slot asks for is never started.
CheckSkipped(a, f, W) == W

\* check_vcs_changes: silently does nothing when a scan is already running.
CheckStarted(a, f, W) ==
    IF DefaultVcs[a] /\ W["vcs_check"].st = "idle"
    THEN [W EXCEPT !["vcs_check"] =
              [st |-> "run", task |-> f, paths |-> {}, ok |-> FALSE]]
    ELSE W

\* unlock_task_file on the UI thread; it may fail on the network.
UnlockDone(a, f, force) == SvnUnlock(SvnUser[a], WcOf[a], f, force)
UnlockFailed(a, f, force) ==
    /\ Fault("unlockFails") \/ UnlockRefused(SvnUser[a], WcOf[a], f, force)
    /\ UNCHANGED svnVars

-----------------------------------------------------------------------------
(* launch(card): is the file locked, lock it, delegate to the DCC.  One    *)
(* handler of the UI thread, three points where the world can move.        *)

MarkMine(a, f) ==
    /\ cardOwner' = [cardOwner EXCEPT ![a][f] = Email[a]]
    /\ cardMine' = [cardMine EXCEPT ![a][f] = TRUE]

GoTo(a, step, f) == ui' = [ui EXCEPT ![a] = [step |-> step, task |-> f]]

\* A bug: a file that is writable here needs no lock, whoever took it.
WritableIsEnough(a, f) == Writable(WcOf[a], f)

\* The file carries this account's token and is writable: nothing to lock.
AlreadyMine(a, f) == LockInfo(WcOf[a], f) = SvnUser[a] /\ Writable(WcOf[a], f)

LaunchProbe(a, f) ==
    /\ UiFree(a)
    /\ Habit("launchBusy") \/ \A k \in Keys : ~IsRunning(a, k)
    /\ \/ /\ ~DefaultVcs[a]
          /\ GoTo(a, "delegate", f)
          /\ UNCHANGED <<cardOwner, cardMine>>
       \/ /\ DefaultVcs[a] /\ AlreadyMine(a, f)
          /\ GoTo(a, "delegate", f)
          /\ MarkMine(a, f)
       \/ /\ DefaultVcs[a] /\ LockInfo(WcOf[a], f) = None
          /\ GoTo(a, "lock", f)
          /\ UNCHANGED <<cardOwner, cardMine>>
    /\ UNCHANGED <<svnVars, worker, pending, awaiting, badges, session>>

LaunchLock(a) ==
    /\ ui[a].step = "lock"
    /\ LET f == ui[a].task IN
       /\ SvnLock(SvnUser[a], WcOf[a], f)
       /\ MarkMine(a, f)
       /\ GoTo(a, "delegate", f)
    /\ UNCHANGED <<worker, pending, awaiting, badges, session>>

\* A bug: a lock that cannot be taken does not stop the launch.
LaunchFailsOpen(a) ==
    /\ ui[a].step = "lock"
    /\ GoTo(a, "delegate", ui[a].task)
    /\ UNCHANGED <<svnVars, worker, cardOwner, cardMine, pending, awaiting, badges, session>>

\* Fail-closed: any other answer of `svn lock` ends the launch.  The file is
\* read-only here, so a lock of this account elsewhere is refused as well.
LaunchRefused(a) ==
    /\ ui[a].step = "lock"
    /\ ui' = [ui EXCEPT ![a] = NoUi]
    /\ UNCHANGED <<svnVars, worker, cardOwner, cardMine, pending, awaiting, badges, session>>

\* The Kitsu password left the vault: the handler returns after locking.
LaunchAbandoned(a) ==
    /\ ui[a].step = "delegate"
    /\ Fault("passwordLost")
    /\ ui' = [ui EXCEPT ![a] = NoUi]
    /\ UNCHANGED <<svnVars, worker, cardOwner, cardMine, pending, awaiting, badges, session>>

\* A bug: the DCC is opened without telling the shell.
DelegateUnregistered(a) ==
    /\ ui[a].step = "delegate"
    /\ ~IsRunning(a, "launch")
    /\ Start(a, "launch", ui[a].task, {})
    /\ launching' = [launching EXCEPT ![a] = ui[a].task]
    /\ ui' = [ui EXCEPT ![a] = NoUi]
    /\ UNCHANGED <<svnVars, cardOwner, cardMine, pending, awaiting, badges, instances, ended>>

\* The session is registered before the handler asks whether one is open.
LaunchDelegate(a) ==
    /\ ui[a].step = "delegate"
    /\ instances[a] < MaxInst
    /\ instances' = [instances EXCEPT ![a] = @ + 1]
    /\ \/ IsRunning(a, "launch") /\ UNCHANGED <<worker, launching, ended>>
       \/ /\ ~Running(a, "launch")
          /\ Start(a, "launch", ui[a].task, {})
          /\ launching' = [launching EXCEPT ![a] = ui[a].task]
          /\ ended' = [ended EXCEPT ![a] = IF Emitted(a, "launch") THEN @ + 1 ELSE @]
    /\ ui' = [ui EXCEPT ![a] = NoUi]
    /\ UNCHANGED <<svnVars, cardOwner, cardMine, pending, awaiting, badges>>

-----------------------------------------------------------------------------
(* The DCC.                                                                *)

DccSave(a) ==
    /\ Running(a, "launch")
    /\ LET f == worker[a]["launch"].task
           w == WcOf[a] IN
       /\ Writable(w, f)
       /\ local[w][f] = "clean"
       /\ head[f] < MaxRev
       /\ local' = [local EXCEPT ![w][f] = "modified"]
    /\ UNCHANGED <<slock, head, token, base, hubVars>>

\* Toolkit "Save & Commit": commits the whole workspace from inside Blender.
DccCommit(a) ==
    /\ Habit("toolkitCommit")
    /\ Running(a, "launch")
    /\ SvnCommit(SvnUser[a], WcOf[a], Files)
    /\ UNCHANGED hubVars

DccClose(a) ==
    /\ Running(a, "launch")
    /\ Emit(a, "launch", {}, TRUE)
    /\ UNCHANGED <<svnVars, ui, cardOwner, cardMine, pending, awaiting, badges, session>>

\* A bug: the report is taken for a session's even when none is remembered.
AnyReportArms(a) == DefaultVcs[a]

\* The report ends a session whose lock is to be released.
ReportArms(a) == DefaultVcs[a] /\ launching[a] # None

\* _on_launch_finished, when the reporting worker has left W.
LaunchFinished(a, W) ==
    /\ IF ReportArms(a)
       THEN /\ worker' = [worker EXCEPT ![a] = CheckStarted(a, launching[a], W)]
            /\ awaiting' = [awaiting EXCEPT ![a] = @ \cup {launching[a]}]
       ELSE /\ worker' = [worker EXCEPT ![a] = W]
            /\ UNCHANGED awaiting
    /\ launching' = [launching EXCEPT ![a] = None]
    /\ instances' = [instances EXCEPT ![a] = IF @ = 0 THEN 0 ELSE @ - 1]

OnLaunchFinished(a) ==
    /\ UiFree(a)
    /\ \/ /\ ended[a] > 0
          /\ ended' = [ended EXCEPT ![a] = @ - 1]
          /\ LaunchFinished(a, worker[a])
       \/ /\ ended[a] = 0 /\ Emitted(a, "launch")
          /\ LaunchFinished(a, Delivered(a, "launch"))
          /\ UNCHANGED ended
    /\ UNCHANGED <<svnVars, ui, cardOwner, cardMine, pending, badges>>

-----------------------------------------------------------------------------
(* check_vcs_changes: a scan of the whole workspace.                       *)

CheckChanges(a, f) ==
    /\ UiFree(a)
    /\ Habit("scanOpen") \/ ~Open(a)
    /\ worker' = [worker EXCEPT ![a] = CheckStarted(a, f, @)]
    /\ UNCHANGED <<svnVars, ui, cardOwner, cardMine, pending, awaiting, badges, session>>

Scan(a) ==
    /\ Running(a, "vcs_check")
    /\ \/ Emit(a, "vcs_check", StatusChanges(WcOf[a]), TRUE)
       \/ Fault("scanError") /\ Emit(a, "vcs_check", {}, FALSE)
    /\ UNCHANGED <<svnVars, ui, cardOwner, cardMine, pending, awaiting, badges, session>>

\* A bug: the release at the end of a session does not look at the scan.
ReleaseDue(a, f, S) == f \in awaiting[a]

\* The session's release is due and there is nothing left to upload.
NothingLeft(a, f, S) == f \in awaiting[a] /\ S = {}

OnChangesReady(a) ==
    /\ UiFree(a)
    /\ Emitted(a, "vcs_check") /\ worker[a]["vcs_check"].ok
    /\ LET f == worker[a]["vcs_check"].task
           S == worker[a]["vcs_check"].paths IN
       /\ pending' = [pending EXCEPT ![a][f] = S]
       /\ awaiting' = [awaiting EXCEPT ![a] = @ \ {f}]
       /\ IF NothingLeft(a, f, S)
          THEN UnlockDone(a, f, FALSE) \/ UnlockFailed(a, f, FALSE)
          ELSE UNCHANGED svnVars
    /\ worker' = [worker EXCEPT ![a] = Delivered(a, "vcs_check")]
    /\ UNCHANGED <<ui, cardOwner, cardMine, badges, session>>

OnScanError(a) ==
    /\ UiFree(a)
    /\ Emitted(a, "vcs_check") /\ ~worker[a]["vcs_check"].ok
    /\ worker' = [worker EXCEPT ![a] = Delivered(a, "vcs_check")]
    /\ UNCHANGED <<svnVars, ui, cardOwner, cardMine, pending, awaiting, badges, session>>

-----------------------------------------------------------------------------
(* publish_vcs_changes: commit a selection of the card's pending paths.    *)

PublishStart(a, f, S) ==
    /\ UiFree(a)
    /\ S \subseteq pending[a][f] /\ S # {}
    /\ ~IsRunning(a, "vcs_publish")
    /\ Habit("publishOpen") \/ ~Open(a)
    /\ Habit("publishPart") \/ S = StatusChanges(WcOf[a])
    /\ Start(a, "vcs_publish", f, S)
    /\ UNCHANGED <<svnVars, ui, cardOwner, cardMine, pending, awaiting, badges, session>>

Publish(a) ==
    /\ Running(a, "vcs_publish")
    /\ LET S == worker[a]["vcs_publish"].paths
           w == WcOf[a] IN
       \/ DefaultVcs[a] /\ SvnCommit(SvnUser[a], w, S) /\ Emit(a, "vcs_publish", S, TRUE)
       \/ UNCHANGED svnVars /\ Emit(a, "vcs_publish", S, FALSE)
       \/ /\ DefaultVcs[a] /\ Fault("commitKilled")
          /\ SvnCommitKilled(SvnUser[a], w, S)
          /\ Emit(a, "vcs_publish", S, FALSE)
    /\ UNCHANGED <<ui, cardOwner, cardMine, pending, awaiting, badges, session>>

\* A bug: a publish that failed releases the lock as well.
PublishAlwaysReleases(a) ==
    /\ UiFree(a)
    /\ Emitted(a, "vcs_publish")
    /\ LET f == worker[a]["vcs_publish"].task IN
       UnlockDone(a, f, FALSE) \/ UnlockFailed(a, f, FALSE)
    /\ worker' = [worker EXCEPT ![a] = Delivered(a, "vcs_publish")]
    /\ UNCHANGED <<ui, cardOwner, cardMine, pending, awaiting, badges, session>>

OnPublishFinished(a) ==
    /\ UiFree(a)
    /\ Emitted(a, "vcs_publish")
    /\ LET f == worker[a]["vcs_publish"].task IN
       IF worker[a]["vcs_publish"].ok
       THEN /\ pending' = [pending EXCEPT ![a][f] = {}]
            /\ UnlockDone(a, f, FALSE) \/ UnlockFailed(a, f, FALSE)
            /\ cardOwner' = [cardOwner EXCEPT ![a][f] = None]
            /\ cardMine' = [cardMine EXCEPT ![a][f] = FALSE]
       ELSE UNCHANGED <<svnVars, pending, cardOwner, cardMine>>
    /\ worker' = [worker EXCEPT ![a] = Delivered(a, "vcs_publish")]
    /\ UNCHANGED <<ui, awaiting, badges, session>>

-----------------------------------------------------------------------------
(* update_vcs: `svn update` of the workspace, then a rescan for the first  *)
(* card of the project.                                                    *)

UpdateStart(a) ==
    /\ UiFree(a)
    /\ ~IsRunning(a, "vcs_update")
    /\ Habit("updateOpen") \/ ~Open(a)
    /\ Start(a, "vcs_update", FirstCard, {})
    /\ UNCHANGED <<svnVars, ui, cardOwner, cardMine, pending, awaiting, badges, session>>

\* Reported as failed when it leaves a conflict behind, or when it never ran.
Update(a) ==
    /\ Running(a, "vcs_update")
    /\ LET w == WcOf[a] IN
       \/ /\ SvnUpdate(w)
          /\ Emit(a, "vcs_update", {}, \A f \in Files : local'[w][f] # "conflicted")
       \/ UNCHANGED svnVars /\ Emit(a, "vcs_update", {}, FALSE)
    /\ UNCHANGED <<ui, cardOwner, cardMine, pending, awaiting, badges, session>>

OnUpdateFinished(a) ==
    /\ UiFree(a)
    /\ Emitted(a, "vcs_update")
    /\ LET W == Delivered(a, "vcs_update") IN
       worker' = [worker EXCEPT ![a] =
           IF worker[a]["vcs_update"].ok THEN CheckStarted(a, FirstCard, W) ELSE W]
    /\ UNCHANGED <<svnVars, ui, cardOwner, cardMine, pending, awaiting, badges, session>>

-----------------------------------------------------------------------------
(* resolve_vcs_conflict: one conflicted path of the card's list.           *)

Strategies == {"working", "mine-full", "theirs-full"}

ResolveStart(a, f, p) ==
    /\ UiFree(a)
    /\ p \in pending[a][f] /\ local[WcOf[a]][p] = "conflicted"
    /\ ~IsRunning(a, "vcs_resolve")
    /\ Start(a, "vcs_resolve", f, {p})
    /\ UNCHANGED <<svnVars, ui, cardOwner, cardMine, pending, awaiting, badges, session>>

Resolve(a) ==
    /\ Running(a, "vcs_resolve")
    /\ \/ \E p \in worker[a]["vcs_resolve"].paths, strategy \in Strategies :
             /\ strategy = "theirs-full" \/ head[p] < MaxRev
             /\ SvnResolve(WcOf[a], p, strategy)
             /\ Emit(a, "vcs_resolve", {}, TRUE)
       \/ UNCHANGED svnVars /\ Emit(a, "vcs_resolve", {}, FALSE)
    /\ UNCHANGED <<ui, cardOwner, cardMine, pending, awaiting, badges, session>>

OnResolved(a) ==
    /\ UiFree(a)
    /\ Emitted(a, "vcs_resolve")
    /\ LET W == Delivered(a, "vcs_resolve")
           f == worker[a]["vcs_resolve"].task IN
       worker' = [worker EXCEPT ![a] =
           IF worker[a]["vcs_resolve"].ok THEN CheckStarted(a, f, W) ELSE W]
    /\ UNCHANGED <<svnVars, ui, cardOwner, cardMine, pending, awaiting, badges, session>>

-----------------------------------------------------------------------------
(* Lock badges: a refresh of the task list reads every file's lock owner   *)
(* off-thread; the answer overwrites every card, whenever it arrives.      *)

RefreshLocks(a) ==
    /\ Habit("refresh")
    /\ UiFree(a)
    /\ ~IsRunning(a, "task_locks")
    /\ Start(a, "task_locks", FirstCard, {})    \* for every card
    /\ UNCHANGED <<svnVars, ui, cardOwner, cardMine, pending, awaiting, badges, session>>

ReadLocks(a) ==
    /\ Running(a, "task_locks")
    /\ badges' = [badges EXCEPT ![a] = [f \in Files |-> LockInfo(WcOf[a], f)]]
    /\ Emit(a, "task_locks", {}, TRUE)
    /\ UNCHANGED <<svnVars, ui, cardOwner, cardMine, pending, awaiting, session>>

OnTaskLocksReady(a) ==
    /\ UiFree(a)
    /\ Emitted(a, "task_locks")
    /\ cardOwner' = [cardOwner EXCEPT ![a] = badges[a]]
    /\ cardMine' = [cardMine EXCEPT ![a] = [f \in Files |-> badges[a][f] = Email[a]]]
    /\ badges' = [badges EXCEPT ![a] = NoBadges]
    /\ worker' = [worker EXCEPT ![a] = Delivered(a, "task_locks")]
    /\ UNCHANGED <<svnVars, ui, pending, awaiting, session>>

\* "Release my lock" on the card: unlock --force, on the UI thread.
ReleaseTaskLock(a, f) ==
    /\ UiFree(a)
    /\ cardMine[a][f]
    /\ DefaultVcs[a]
    /\ \/ Habit("releaseAny")
       \/ Habit("release") /\ ~Open(a) /\ local[WcOf[a]][f] = "clean"
    /\ \/ /\ UnlockDone(a, f, TRUE)
          /\ cardOwner' = [cardOwner EXCEPT ![a][f] = None]
          /\ cardMine' = [cardMine EXCEPT ![a][f] = FALSE]
       \/ UnlockFailed(a, f, TRUE) /\ UNCHANGED <<cardOwner, cardMine>>
    /\ UNCHANGED <<worker, ui, pending, awaiting, badges, session>>

-----------------------------------------------------------------------------
(* Outside the artist's Hub.                                               *)

\* The TD's lock manager: svnadmin rmlocks on the server.
AdminBreak(f) ==
    /\ Fault("adminBreak")
    /\ SvnRmLock(f)
    /\ UNCHANGED hubVars

Forget(a) ==
    /\ worker' = [worker EXCEPT ![a] = [k \in Keys |-> Idle]]
    /\ ui' = [ui EXCEPT ![a] = NoUi]
    /\ cardOwner' = [cardOwner EXCEPT ![a] = NoBadges]
    /\ cardMine' = [cardMine EXCEPT ![a] = [f \in Files |-> FALSE]]
    /\ pending' = [pending EXCEPT ![a] = [f \in Files |-> {}]]
    /\ awaiting' = [awaiting EXCEPT ![a] = {}]
    /\ badges' = [badges EXCEPT ![a] = NoBadges]
    /\ instances' = [instances EXCEPT ![a] = 0]
    /\ launching' = [launching EXCEPT ![a] = None]
    /\ ended' = [ended EXCEPT ![a] = 0]

CriticalKeys == {"launch", "vcs_publish", "vcs_update", "vcs_resolve"}

\* closeEvent: refused while a session is registered or a critical worker runs.
CloseHub(a) ==
    /\ Habit("closeHub")
    /\ UiFree(a)
    /\ instances[a] = 0
    /\ \A k \in CriticalKeys : ~IsRunning(a, k)
    /\ Forget(a)
    /\ UNCHANGED svnVars

\* The machine stops: the Hub and the DCC are gone, the working copy is not.
Crash(a) ==
    /\ Fault("crash")
    /\ Forget(a)
    /\ UNCHANGED svnVars

-----------------------------------------------------------------------------
UserStep(a) ==
    \/ \E f \in Files : LaunchProbe(a, f) \/ CheckChanges(a, f) \/ ReleaseTaskLock(a, f)
    \/ \E f \in Files, S \in SUBSET Files : PublishStart(a, f, S)
    \/ \E f, p \in Files : ResolveStart(a, f, p)
    \/ UpdateStart(a) \/ RefreshLocks(a) \/ CloseHub(a)
    \/ DccSave(a) \/ DccCommit(a) \/ DccClose(a)

LaunchStep(a) ==
    LaunchLock(a) \/ LaunchRefused(a) \/ LaunchAbandoned(a) \/ LaunchDelegate(a)

WorkerStep(a) == Scan(a) \/ Publish(a) \/ Update(a) \/ Resolve(a) \/ ReadLocks(a)

SlotStep(a) ==
    \/ OnLaunchFinished(a) \/ OnChangesReady(a) \/ OnScanError(a)
    \/ OnPublishFinished(a) \/ OnUpdateFinished(a) \/ OnResolved(a)
    \/ OnTaskLocksReady(a)

Next ==
    \/ \E a \in Artists :
          UserStep(a) \/ LaunchStep(a) \/ WorkerStep(a) \/ SlotStep(a) \/ Crash(a)
    \/ \E f \in Files : AdminBreak(f)

Spec == Init /\ [][Next]_vars

(* Handlers end, worker threads end and their signals are delivered: every *)
(* svn call has a timeout and the Qt event loop is first-in first-out.     *)
Fairness == \A a \in Artists :
    /\ WF_vars(LaunchStep(a))
    /\ WF_vars(Scan(a)) /\ WF_vars(Publish(a)) /\ WF_vars(Update(a))
    /\ WF_vars(Resolve(a)) /\ WF_vars(ReadLocks(a))
    /\ WF_vars(OnLaunchFinished(a))
    /\ WF_vars(OnChangesReady(a)) /\ WF_vars(OnScanError(a))
    /\ WF_vars(OnPublishFinished(a)) /\ WF_vars(OnUpdateFinished(a))
    /\ WF_vars(OnResolved(a)) /\ WF_vars(OnTaskLocksReady(a))

FairSpec == Spec /\ Fairness

-----------------------------------------------------------------------------
(* Properties.                                                             *)

\* lock_task_file answers "already locked by me" from the working copy's own
\* token: that is right only while the server still honours every stored token.
TokensLive == \A w \in WCs, f \in Files : token[w][f] # None => Live(w, f)

\* svn:needs-lock: a task file is writable in one working copy at a time.
OneWriter == \A v, w \in WCs, f \in Files :
    Writable(v, f) /\ Writable(w, f) => v = w

\* The DCC is open only on a file whose server lock the artist holds: nothing
\* the Hub does behind an open session gives the lock away.
SessionHoldsLock == \A a \in Artists, f \in Files :
    InSession(a, f) => slock[f] = <<SvnUser[a], WcOf[a]>>

\* Two artists never have one task file open at the same time.
OneSessionPerFile == \A a, b \in Artists, f \in Files :
    InSession(a, f) /\ InSession(b, f) => a = b

\* Unpublished changes keep the lock until they are published.
DirtyKeepsLock == \A w \in WCs, f \in Files :
    local[w][f] = "modified" => Live(w, f)

\* No two working copies have unpublished work on one (unmergeable) file.
NoDivergentWork == \A v, w \in WCs, f \in Files :
    local[v][f] # "clean" /\ local[w][f] # "clean" => v = w

\* A release armed by the end of a session waits for a scan that is under way,
\* never for somebody to scan the project for another reason.
ArmedReleaseHasScan == \A a \in Artists : \A f \in awaiting[a] :
    IsRunning(a, "vcs_check") /\ worker[a]["vcs_check"].task = f

\* The shell's count keeps closeEvent from abandoning an open DCC ...
OpenSessionGuarded == \A a \in Artists : Open(a) => instances[a] > 0

\* ... and lets the Hub be closed once no DCC is open.
ClosedSessionsForgotten == \A a \in Artists :
    instances[a] > 0 => Open(a) \/ ended[a] > 0

\* "Release my lock" removes the lock of the artist who asked for it, never
\* the lock a colleague has taken since.
ReleaseTakesOnlyMine == [][
    \A a \in Artists, f \in Files :
        ReleaseTaskLock(a, f) /\ slock'[f] # slock[f]
            => slock[f] = <<SvnUser[a], WcOf[a]>>]_vars

\* A session that ends in a workspace without unpublished work gives its lock
\* back.  Any unpublished file counts, not only the session's own: the scan at
\* the end looks at the whole workspace, an answer that is not empty drops the
\* release for good, and a file nobody changed stays locked by who closed it.
CleanCloseReleases == \A a \in Artists, f \in Files :
    (Emitted(a, "launch") /\ worker[a]["launch"].task = f)
        ~> \/ token[WcOf[a]][f] # SvnUser[a]
           \/ StatusChanges(WcOf[a]) # {}
           \/ InSession(a, f)
=============================================================================
