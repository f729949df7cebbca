--------------------------- MODULE TaskLockProofs ---------------------------
(***************************************************************************)
(* What holds of the lock and publish cycle, for any number of artists,    *)
(* working copies, files and revisions: first in every studio, then in one *)
(* that keeps to the Hub's discipline.                                     *)
(***************************************************************************)
EXTENDS TaskLock, TLAPS

(***************************************************************************)
(* Type correctness: first what the svn commands do, then the Hub.         *)
(***************************************************************************)

LEMMA SvnLockTypes ==
    ASSUME SvnTypeOK, NEW u \in Users, NEW w \in WCs, NEW f \in Files, SvnLock(u, w, f)
    PROVE  SvnTypeOK'
BY DEF SvnTypeOK, SvnLock

LEMMA SvnUnlockTypes ==
    ASSUME SvnTypeOK, NEW u \in Users, NEW w \in WCs, NEW f \in Files,
           NEW force \in BOOLEAN, SvnUnlock(u, w, f, force)
    PROVE  SvnTypeOK'
<1>1. CASE UNCHANGED svnVars
    BY <1>1 DEF SvnTypeOK, svnVars
<1>2. CASE /\ slock' = [slock EXCEPT ![f] = IF force \/ Live(w, f) THEN None ELSE @]
           /\ token' = [token EXCEPT ![w][f] = None]
           /\ UNCHANGED <<head, base, local>>
    BY <1>2 DEF SvnTypeOK
<1>3. QED BY <1>1, <1>2 DEF SvnUnlock

LEMMA SvnCommitTypes ==
    ASSUME SvnTypeOK, NEW u \in Users, NEW w \in WCs, NEW S \in SUBSET Files,
           SvnCommit(u, w, S) \/ SvnCommitKilled(u, w, S)
    PROVE  SvnTypeOK'
<1>1. CASE UNCHANGED svnVars
    BY <1>1 DEF SvnTypeOK, svnVars
<1>2. ASSUME CommitOnServer(u, w, S) PROVE /\ head' \in [Files -> Nat]
                                           /\ slock' \in [Files -> (Users \X WCs) \cup {None}]
    BY <1>2 DEF SvnTypeOK, CommitOnServer
<1>3. CASE CommitOnServer(u, w, S) /\ CommitInWC(u, w, S)
  <2>1. base' \in [WCs -> [Files -> Nat]]
      BY <1>3 DEF SvnTypeOK, CommitInWC
  <2>2. local' \in [WCs -> [Files -> LocalStates]]
      BY <1>3 DEF SvnTypeOK, CommitInWC, LocalStates
  <2>3. token' \in [WCs -> [Files -> Users \cup {None}]]
      BY <1>3 DEF SvnTypeOK, CommitInWC
  <2>4. QED BY <1>2, <1>3, <2>1, <2>2, <2>3 DEF SvnTypeOK
<1>4. CASE CommitOnServer(u, w, S) /\ UNCHANGED <<token, base, local>>
    BY <1>2, <1>4 DEF SvnTypeOK
<1>5. QED BY <1>1, <1>3, <1>4 DEF SvnCommit, SvnCommitKilled

LEMMA SvnUpdateTypes ==
    ASSUME SvnTypeOK, NEW w \in WCs, SvnUpdate(w)
    PROVE  SvnTypeOK'
BY DEF SvnTypeOK, SvnUpdate, LocalStates

LEMMA SvnResolveTypes ==
    ASSUME SvnTypeOK, NEW w \in WCs, NEW f \in Files, NEW strategy, SvnResolve(w, f, strategy)
    PROVE  SvnTypeOK'
BY DEF SvnTypeOK, SvnResolve, LocalStates

LEMMA SvnSameTypes == SvnTypeOK /\ UNCHANGED svnVars => SvnTypeOK'
BY DEF SvnTypeOK, svnVars

(* The WorkerManager only ever stores well-formed workers. *)

WorkerTypes == worker \in [Artists -> [Keys -> Worker]]

LEMMA IdleIsWorker == Idle \in Worker /\ "launch" \in Keys /\ "vcs_check" \in Keys
BY DEF Idle, Worker, Keys

LEMMA StartTypes ==
    ASSUME WorkerTypes, NEW a \in Artists, NEW k \in Keys, NEW f \in Files,
           NEW S \in SUBSET Files, Start(a, k, f, S)
    PROVE  WorkerTypes'
BY DEF WorkerTypes, Start, Worker

LEMMA EmitTypes ==
    ASSUME WorkerTypes, NEW a \in Artists, NEW k \in Keys,
           NEW S \in SUBSET Files, NEW ok \in BOOLEAN, Running(a, k), Emit(a, k, S, ok)
    PROVE  WorkerTypes'
<1>1. worker[a][k].task \in Files
    BY DEF WorkerTypes, Worker, Running, Idle
<1>2. QED BY <1>1 DEF WorkerTypes, Emit, Worker

LEMMA DeliveredTypes ==
    ASSUME WorkerTypes, NEW a \in Artists, NEW k \in Keys
    PROVE  Delivered(a, k) \in [Keys -> Worker]
BY IdleIsWorker DEF WorkerTypes, Delivered

LEMMA CheckStartedTypes ==
    ASSUME NEW a \in Artists, NEW f \in Files, NEW W \in [Keys -> Worker]
    PROVE  CheckStarted(a, f, W) \in [Keys -> Worker]
BY DEF CheckStarted, Worker, Keys

(* The UI thread's variables.                                              *)

UiTypes ==
    /\ ui \in [Artists -> UiThread]
    /\ cardOwner \in [Artists -> [Files -> Users \cup {None}]]
    /\ cardMine \in [Artists -> [Files -> BOOLEAN]]
    /\ pending \in [Artists -> [Files -> SUBSET Files]]
    /\ awaiting \in [Artists -> SUBSET Files]
    /\ badges \in [Artists -> [Files -> Users \cup {None}]]
    /\ instances \in [Artists -> Nat]
    /\ launching \in [Artists -> Files \cup {None}]
    /\ ended \in [Artists -> Nat]

LEMMA TypeParts ==
    /\ TypeOK => SvnTypeOK /\ WorkerTypes /\ UiTypes
    /\ SvnTypeOK' /\ WorkerTypes' /\ UiTypes' => TypeOK'
BY DEF TypeOK, WorkerTypes, UiTypes

LEMMA Accounts ==
    \A a \in Artists : SvnUser[a] \in Users /\ Email[a] \in Users /\ WcOf[a] \in WCs
BY TaskLockAssumption

LEMMA UiTask ==
    ASSUME UiTypes, NEW a \in Artists, ui[a].step # "idle"
    PROVE  ui[a].task \in Files
BY DEF UiTypes, UiThread, NoUi

LEMMA WorkerTask ==
    ASSUME WorkerTypes, NEW a \in Artists, NEW k \in Keys, worker[a][k].st # "idle"
    PROVE  /\ worker[a][k].task \in Files
           /\ worker[a][k].paths \in SUBSET Files
           /\ worker[a][k].ok \in BOOLEAN
BY DEF WorkerTypes, Worker, Idle

LEMMA GoToTypes ==
    ASSUME UiTypes, NEW a \in Artists, NEW f \in Files, NEW step \in {"lock", "delegate"},
           GoTo(a, step, f)
    PROVE  ui' \in [Artists -> UiThread]
BY DEF UiTypes, GoTo, UiThread

LEMMA MarkMineTypes ==
    ASSUME UiTypes, NEW a \in Artists, NEW f \in Files,
           MarkMine(a, f) \/ UNCHANGED <<cardOwner, cardMine>>
    PROVE  /\ cardOwner' \in [Artists -> [Files -> Users \cup {None}]]
           /\ cardMine' \in [Artists -> [Files -> BOOLEAN]]
<1>1. CASE UNCHANGED <<cardOwner, cardMine>>
    BY <1>1 DEF UiTypes
<1>2. CASE MarkMine(a, f)
  <2>1. Email[a] \in Users
      BY Accounts
  <2>2. QED BY <1>2, <2>1 DEF UiTypes, MarkMine
<1>3. QED BY <1>1, <1>2

LEMMA CardTypes ==
    ASSUME UiTypes, NEW a \in Artists, NEW f \in Files,
           \/ /\ cardOwner' = [cardOwner EXCEPT ![a][f] = None]
              /\ cardMine' = [cardMine EXCEPT ![a][f] = FALSE]
           \/ UNCHANGED <<cardOwner, cardMine>>
    PROVE  /\ cardOwner' \in [Artists -> [Files -> Users \cup {None}]]
           /\ cardMine' \in [Artists -> [Files -> BOOLEAN]]
<1>1. CASE UNCHANGED <<cardOwner, cardMine>>
    BY <1>1 DEF UiTypes
<1>2. CASE cardOwner' = [cardOwner EXCEPT ![a][f] = None] /\ cardMine' = [cardMine EXCEPT ![a][f] = FALSE]
  <2>1. cardOwner' \in [Artists -> [Files -> Users \cup {None}]]
      BY <1>2 DEF UiTypes
  <2>2. cardMine' \in [Artists -> [Files -> BOOLEAN]]
      BY <1>2 DEF UiTypes
  <2>3. QED BY <2>1, <2>2
<1>3. QED BY <1>1, <1>2

LEMMA LaunchTypes ==
    ASSUME TypeOK, NEW a \in Artists,
           (\E f \in Files : LaunchProbe(a, f)) \/ LaunchStep(a)
    PROVE  TypeOK'
<1>1. SvnTypeOK /\ WorkerTypes /\ UiTypes
    BY TypeParts
<1>2. ASSUME NEW f \in Files, LaunchProbe(a, f) PROVE TypeOK'
  <2>1. SvnTypeOK' /\ WorkerTypes'
      BY <1>1, <1>2, SvnSameTypes DEF LaunchProbe, WorkerTypes
  <2>2. GoTo(a, "delegate", f) \/ GoTo(a, "lock", f)
      BY <1>2 DEF LaunchProbe
  <2>3. ui' \in [Artists -> UiThread]
      BY <1>1, <2>2, GoToTypes
  <2>4. MarkMine(a, f) \/ UNCHANGED <<cardOwner, cardMine>>
      BY <1>2 DEF LaunchProbe
  <2>5. UNCHANGED <<pending, awaiting, badges, session>>
      BY <1>2 DEF LaunchProbe
  <2>6. UiTypes'
      BY <1>1, <2>3, <2>4, <2>5, MarkMineTypes DEF UiTypes, session
  <2>7. QED BY <2>1, <2>6, TypeParts
<1>3. CASE LaunchLock(a)
  <2> DEFINE f == ui[a].task
  <2>1. f \in Files
      BY <1>1, <1>3, UiTask DEF LaunchLock
  <2>2. /\ SvnLock(SvnUser[a], WcOf[a], f) /\ MarkMine(a, f) /\ GoTo(a, "delegate", f)
        /\ UNCHANGED <<worker, pending, awaiting, badges, session>>
      BY <1>3 DEF LaunchLock
  <2> HIDE DEF f
  <2>3. SvnTypeOK'
      BY <1>1, <2>1, <2>2, Accounts, SvnLockTypes
  <2>4. UiTypes'
      BY <1>1, <2>1, <2>2, GoToTypes, MarkMineTypes DEF UiTypes, session
  <2>5. QED BY <1>1, <2>2, <2>3, <2>4, TypeParts DEF WorkerTypes
<1>4. CASE LaunchRefused(a) \/ LaunchAbandoned(a)
  <2>1. SvnTypeOK' /\ WorkerTypes'
      BY <1>1, <1>4, SvnSameTypes DEF LaunchRefused, LaunchAbandoned, WorkerTypes
  <2>2. UiTypes'
      BY <1>1, <1>4 DEF LaunchRefused, LaunchAbandoned, UiTypes, session, UiThread
  <2>3. QED BY <2>1, <2>2, TypeParts
<1>5. CASE LaunchDelegate(a)
  <2>1. ui[a].task \in Files
      BY <1>1, <1>5, UiTask DEF LaunchDelegate
  <2>2. WorkerTypes'
      BY <1>1, <1>5, <2>1, StartTypes DEF LaunchDelegate, Keys, WorkerTypes
  <2>3. SvnTypeOK'
      BY <1>1, <1>5, SvnSameTypes DEF LaunchDelegate
  <2>4. launching' \in [Artists -> Files \cup {None}]
      BY <1>1, <1>5, <2>1 DEF LaunchDelegate, UiTypes
  <2>5. ended' \in [Artists -> Nat]
      BY <1>1, <1>5 DEF LaunchDelegate, UiTypes
  <2>6. ui' \in [Artists -> UiThread] /\ instances' \in [Artists -> Nat]
      BY <1>1, <1>5 DEF LaunchDelegate, UiTypes, UiThread
  <2>7. UNCHANGED <<cardOwner, cardMine, pending, awaiting, badges>>
      BY <1>5 DEF LaunchDelegate
  <2>8. UiTypes'
      BY <1>1, <2>4, <2>5, <2>6, <2>7 DEF UiTypes
  <2>9. QED BY <2>2, <2>3, <2>8, TypeParts
<1>6. QED BY <1>2, <1>3, <1>4, <1>5 DEF LaunchStep

(* Unlocking from a slot: done, or failed and nothing moved.               *)
LEMMA UnlockTypes ==
    ASSUME SvnTypeOK, NEW a \in Artists, NEW f \in Files, NEW force \in BOOLEAN,
           UnlockDone(a, f, force) \/ UnlockFailed(a, f, force) \/ UNCHANGED svnVars
    PROVE  SvnTypeOK'
BY Accounts, SvnUnlockTypes, SvnSameTypes DEF UnlockDone, UnlockFailed

LEMMA DccTypes ==
    ASSUME TypeOK, NEW a \in Artists, DccSave(a) \/ DccCommit(a) \/ DccClose(a)
    PROVE  TypeOK'
<1>1. SvnTypeOK /\ WorkerTypes /\ UiTypes
    BY TypeParts
<1>2. CASE DccSave(a)
  <2>1. SvnTypeOK'
      BY <1>1, <1>2 DEF DccSave, SvnTypeOK, LocalStates
  <2>2. UNCHANGED hubVars
      BY <1>2 DEF DccSave
  <2>3. QED BY <1>1, <2>1, <2>2, TypeParts DEF hubVars, WorkerTypes, UiTypes, session
<1>3. CASE DccCommit(a)
  <2>1. SvnTypeOK'
      BY <1>1, <1>3, Accounts, SvnCommitTypes DEF DccCommit
  <2>2. UNCHANGED hubVars
      BY <1>3 DEF DccCommit
  <2>3. QED BY <1>1, <2>1, <2>2, TypeParts DEF hubVars, WorkerTypes, UiTypes, session
<1>4. CASE DccClose(a)
  <2>1. WorkerTypes'
      BY <1>1, <1>4, EmitTypes DEF DccClose, Keys
  <2>2. SvnTypeOK' /\ UiTypes'
      BY <1>1, <1>4, SvnSameTypes DEF DccClose, UiTypes, session
  <2>3. QED BY <2>1, <2>2, TypeParts
<1>5. QED BY <1>2, <1>3, <1>4

(* Steps that only start a worker.                                         *)
LEMMA StartersType ==
    ASSUME TypeOK, NEW a \in Artists,
           \/ \E f \in Files : CheckChanges(a, f)
           \/ \E f \in Files, S \in SUBSET Files : PublishStart(a, f, S)
           \/ \E f, p \in Files : ResolveStart(a, f, p)
           \/ UpdateStart(a) \/ RefreshLocks(a)
    PROVE  TypeOK'
<1>1. SvnTypeOK /\ WorkerTypes /\ UiTypes
    BY TypeParts
<1>2. UNCHANGED <<svnVars, ui, cardOwner, cardMine, pending, awaiting, badges, session>>
    BY DEF CheckChanges, PublishStart, ResolveStart, UpdateStart, RefreshLocks
<1>3. SvnTypeOK' /\ UiTypes'
    BY <1>1, <1>2, SvnSameTypes DEF UiTypes, session
<1>4. WorkerTypes'
  <2>1. ASSUME NEW f \in Files, CheckChanges(a, f) PROVE WorkerTypes'
      BY <1>1, <2>1, CheckStartedTypes DEF CheckChanges, WorkerTypes
  <2>2. ASSUME NEW k \in Keys, NEW f \in Files, NEW S \in SUBSET Files, Start(a, k, f, S)
        PROVE  WorkerTypes'
      BY <1>1, <2>2, StartTypes
  <2>3. FirstCard \in Files /\ {"vcs_publish", "vcs_resolve", "vcs_update", "task_locks"} \subseteq Keys
      BY TaskLockAssumption DEF Keys
  <2>4. CASE \E f \in Files, S \in SUBSET Files : PublishStart(a, f, S)
      BY <2>2, <2>3, <2>4 DEF PublishStart
  <2>5. CASE \E f, p \in Files : ResolveStart(a, f, p)
      BY <2>2, <2>3, <2>5 DEF ResolveStart
  <2>6. CASE UpdateStart(a) \/ RefreshLocks(a)
      BY <2>2, <2>3, <2>6 DEF UpdateStart, RefreshLocks
  <2>7. QED BY <2>1, <2>4, <2>5, <2>6
<1>5. QED BY <1>3, <1>4, TypeParts

LEMMA WorkerStepEmits ==
    ASSUME TypeOK, NEW a \in Artists, WorkerStep(a)
    PROVE  \E k \in Keys, S \in SUBSET Files, ok \in BOOLEAN : Running(a, k) /\ Emit(a, k, S, ok)
<1>1. WorkerTypes
    BY TypeParts
<1>2. CASE Scan(a)
    BY <1>2 DEF Scan, Keys, StatusChanges
<1>3. CASE Publish(a)
  <2>1. worker[a]["vcs_publish"].paths \in SUBSET Files
      BY <1>1, <1>3, WorkerTask DEF Publish, Running, Keys
  <2>2. QED BY <1>3, <2>1 DEF Publish, Keys
<1>4. CASE Update(a)
    BY <1>4 DEF Update, Keys
<1>5. CASE Resolve(a)
    BY <1>5 DEF Resolve, Keys
<1>6. CASE ReadLocks(a)
    BY <1>6 DEF ReadLocks, Keys
<1>7. QED BY <1>2, <1>3, <1>4, <1>5, <1>6 DEF WorkerStep

LEMMA WorkerStepTypes ==
    ASSUME TypeOK, NEW a \in Artists, WorkerStep(a)
    PROVE  TypeOK'
<1>1. SvnTypeOK /\ WorkerTypes /\ UiTypes
    BY TypeParts
<1>2. SvnTypeOK'
  <2>1. CASE Scan(a) \/ ReadLocks(a)
      BY <1>1, <2>1, SvnSameTypes DEF Scan, ReadLocks
  <2>2. CASE Publish(a)
    <3>1. worker[a]["vcs_publish"].paths \in SUBSET Files
        BY <1>1, <2>2, WorkerTask DEF Publish, Running, Keys
    <3>2. QED BY <1>1, <2>2, <3>1, Accounts, SvnCommitTypes, SvnSameTypes DEF Publish
  <2>3. CASE Update(a)
      BY <1>1, <2>3, Accounts, SvnUpdateTypes, SvnSameTypes DEF Update
  <2>4. CASE Resolve(a)
    <3>1. worker[a]["vcs_resolve"].paths \in SUBSET Files
        BY <1>1, <2>4, WorkerTask DEF Resolve, Running, Keys
    <3>2. QED BY <1>1, <2>4, <3>1, Accounts, SvnResolveTypes, SvnSameTypes DEF Resolve
  <2>5. QED BY <2>1, <2>2, <2>3, <2>4 DEF WorkerStep
<1>3. WorkerTypes'
  <2>1. PICK k \in Keys, S \in SUBSET Files, ok \in BOOLEAN : Running(a, k) /\ Emit(a, k, S, ok)
      BY WorkerStepEmits
  <2>2. QED BY <1>1, <2>1, EmitTypes
<1>4. UiTypes'
  <2>1. CASE Scan(a) \/ Publish(a) \/ Update(a) \/ Resolve(a)
      BY <1>1, <2>1 DEF Scan, Publish, Update, Resolve, UiTypes, session
  <2>2. CASE ReadLocks(a)
    <3>1. \A f \in Files : LockInfo(WcOf[a], f) \in Users \cup {None}
        BY <1>1, Accounts DEF SvnTypeOK, LockInfo
    <3>2. QED BY <1>1, <2>2, <3>1 DEF ReadLocks, UiTypes, session
  <2>3. QED BY <2>1, <2>2 DEF WorkerStep
<1>5. QED BY <1>2, <1>3, <1>4, TypeParts

LEMMA LaunchFinishedTypes ==
    ASSUME WorkerTypes, UiTypes, NEW a \in Artists, NEW W \in [Keys -> Worker],
           LaunchFinished(a, W)
    PROVE  /\ WorkerTypes'
           /\ awaiting' \in [Artists -> SUBSET Files]
           /\ launching' \in [Artists -> Files \cup {None}]
           /\ instances' \in [Artists -> Nat]
<1>1. launching' \in [Artists -> Files \cup {None}]
    BY DEF LaunchFinished, UiTypes
<1>2. instances' \in [Artists -> Nat]
  <2>1. (IF instances[a] = 0 THEN 0 ELSE instances[a] - 1) \in Nat
      BY DEF UiTypes
  <2>2. QED BY <2>1 DEF LaunchFinished, UiTypes
<1>3. CASE ReportArms(a)
  <2>1. launching[a] \in Files
      BY <1>3 DEF ReportArms, UiTypes
  <2>2. CheckStarted(a, launching[a], W) \in [Keys -> Worker]
      BY <2>1, CheckStartedTypes
  <2>3. WorkerTypes'
      BY <1>3, <2>2 DEF LaunchFinished, WorkerTypes
  <2>4. awaiting' \in [Artists -> SUBSET Files]
    <3>1. awaiting[a] \cup {launching[a]} \in SUBSET Files
        BY <2>1 DEF UiTypes
    <3>2. awaiting' = [awaiting EXCEPT ![a] = awaiting[a] \cup {launching[a]}]
        BY <1>3 DEF LaunchFinished
    <3>3. QED BY <3>1, <3>2 DEF UiTypes
  <2>5. QED BY <1>1, <1>2, <2>3, <2>4
<1>4. CASE ~ReportArms(a)
    BY <1>1, <1>2, <1>4 DEF LaunchFinished, WorkerTypes, UiTypes
<1>5. QED BY <1>3, <1>4

LEMMA SlotStepTypes ==
    ASSUME TypeOK, NEW a \in Artists, SlotStep(a)
    PROVE  TypeOK'
<1>1. SvnTypeOK /\ WorkerTypes /\ UiTypes
    BY TypeParts
<1>2. CASE OnLaunchFinished(a)
  <2>1. PICK W \in [Keys -> Worker] : LaunchFinished(a, W)
      BY <1>1, <1>2, IdleIsWorker, DeliveredTypes DEF OnLaunchFinished, WorkerTypes
  <2>2. ended' \in [Artists -> Nat]
    <3>1. ended[a] \in Nat /\ (ended[a] > 0 => ended[a] - 1 \in Nat)
        BY <1>1 DEF UiTypes
    <3>2. ended' = ended \/ (ended[a] > 0 /\ ended' = [ended EXCEPT ![a] = ended[a] - 1])
        BY <1>2 DEF OnLaunchFinished
    <3>3. QED BY <1>1, <3>1, <3>2 DEF UiTypes
  <2>3. UNCHANGED <<svnVars, ui, cardOwner, cardMine, pending, badges>>
      BY <1>2 DEF OnLaunchFinished
  <2>4. UiTypes'
      BY <1>1, <2>1, <2>2, <2>3, LaunchFinishedTypes DEF UiTypes
  <2>5. QED BY <1>1, <2>1, <2>3, <2>4, LaunchFinishedTypes, SvnSameTypes, TypeParts
<1>3. CASE OnChangesReady(a)
  <2> DEFINE f == worker[a]["vcs_check"].task
             S == worker[a]["vcs_check"].paths
  <2>1. f \in Files /\ S \in SUBSET Files
      BY <1>1, <1>3, WorkerTask DEF OnChangesReady, Emitted, Keys
  <2>2. /\ UnlockDone(a, f, FALSE) \/ UnlockFailed(a, f, FALSE) \/ UNCHANGED svnVars
        /\ pending' = [pending EXCEPT ![a][f] = S]
        /\ awaiting' = [awaiting EXCEPT ![a] = @ \ {f}]
        /\ worker' = [worker EXCEPT ![a] = Delivered(a, "vcs_check")]
        /\ UNCHANGED <<ui, cardOwner, cardMine, badges, session>>
      BY <1>3 DEF OnChangesReady
  <2> HIDE DEF f, S
  <2>3. SvnTypeOK'
      BY <1>1, <2>1, <2>2, UnlockTypes
  <2>4. WorkerTypes'
      BY <1>1, <2>2, IdleIsWorker, DeliveredTypes DEF WorkerTypes
  <2>5. UiTypes'
      BY <1>1, <2>1, <2>2 DEF UiTypes, session
  <2>6. QED BY <2>3, <2>4, <2>5, TypeParts
<1>4. CASE OnScanError(a)
  <2>1. WorkerTypes'
      BY <1>1, <1>4, IdleIsWorker, DeliveredTypes DEF OnScanError, WorkerTypes
  <2>2. SvnTypeOK' /\ UiTypes'
      BY <1>1, <1>4, SvnSameTypes DEF OnScanError, UiTypes, session
  <2>3. QED BY <2>1, <2>2, TypeParts
<1>5. CASE OnPublishFinished(a)
  <2> DEFINE f == worker[a]["vcs_publish"].task
  <2>1. f \in Files /\ "vcs_publish" \in Keys
      BY <1>1, <1>5, WorkerTask DEF OnPublishFinished, Emitted, Keys
  <2>2. /\ worker' = [worker EXCEPT ![a] = Delivered(a, "vcs_publish")]
        /\ UNCHANGED <<ui, awaiting, badges, session>>
        /\ \/ /\ pending' = [pending EXCEPT ![a][f] = {}]
              /\ UnlockDone(a, f, FALSE) \/ UnlockFailed(a, f, FALSE)
              /\ cardOwner' = [cardOwner EXCEPT ![a][f] = None]
              /\ cardMine' = [cardMine EXCEPT ![a][f] = FALSE]
           \/ UNCHANGED <<svnVars, pending, cardOwner, cardMine>>
      BY <1>5 DEF OnPublishFinished
  <2> HIDE DEF f
  <2>3. SvnTypeOK'
      BY <1>1, <2>1, <2>2, UnlockTypes
  <2>4. WorkerTypes'
      BY <1>1, <2>1, <2>2, DeliveredTypes DEF WorkerTypes
  <2>5. pending' \in [Artists -> [Files -> SUBSET Files]]
    <3>1. pending' = pending \/ pending' = [pending EXCEPT ![a][f] = {}]
        BY <2>2
    <3>2. CASE pending' = [pending EXCEPT ![a][f] = {}]
        BY <1>1, <2>1, <3>2 DEF UiTypes
    <3>3. QED BY <1>1, <3>1, <3>2 DEF UiTypes
  <2>6. UiTypes'
      BY <1>1, <2>1, <2>2, <2>5, CardTypes DEF UiTypes, session
  <2>7. QED BY <2>3, <2>4, <2>6, TypeParts
<1>6. CASE OnUpdateFinished(a) \/ OnResolved(a)
  <2>1. PICK k \in {"vcs_update", "vcs_resolve"}, f \in Files :
            worker' = [worker EXCEPT ![a] = CheckStarted(a, f, Delivered(a, k))]
            \/ worker' = [worker EXCEPT ![a] = Delivered(a, k)]
    <3>1. CASE OnUpdateFinished(a)
        BY <3>1, TaskLockAssumption DEF OnUpdateFinished
    <3>2. CASE OnResolved(a)
        BY <1>1, <3>2, WorkerTask DEF OnResolved, Emitted, Keys
    <3>3. QED BY <1>6, <3>1, <3>2
  <2>2. k \in Keys
      BY DEF Keys
  <2>3. WorkerTypes'
      BY <1>1, <2>1, <2>2, DeliveredTypes, CheckStartedTypes DEF WorkerTypes
  <2>4. SvnTypeOK' /\ UiTypes'
      BY <1>1, <1>6, SvnSameTypes DEF OnUpdateFinished, OnResolved, UiTypes, session
  <2>5. QED BY <2>3, <2>4, TypeParts
<1>7. CASE OnTaskLocksReady(a)
  <2>1. WorkerTypes'
      BY <1>1, <1>7, DeliveredTypes DEF OnTaskLocksReady, WorkerTypes, Keys
  <2>2. SvnTypeOK'
      BY <1>1, <1>7, SvnSameTypes DEF OnTaskLocksReady
  <2>3. UiTypes'
      BY <1>1, <1>7 DEF OnTaskLocksReady, UiTypes, session, NoBadges
  <2>4. QED BY <2>1, <2>2, <2>3, TypeParts
<1>8. QED BY <1>2, <1>3, <1>4, <1>5, <1>6, <1>7 DEF SlotStep

LEMMA OtherTypes ==
    ASSUME TypeOK,
           \/ \E a \in Artists : CloseHub(a) \/ Crash(a)
           \/ \E a \in Artists, f \in Files : ReleaseTaskLock(a, f)
           \/ \E f \in Files : AdminBreak(f)
    PROVE  TypeOK'
<1>1. SvnTypeOK /\ WorkerTypes /\ UiTypes
    BY TypeParts
<1>2. ASSUME NEW a \in Artists, Forget(a), UNCHANGED svnVars PROVE TypeOK'
  <2>1. WorkerTypes'
      BY <1>1, <1>2, IdleIsWorker DEF Forget, WorkerTypes
  <2>2. UiTypes'
      BY <1>1, <1>2 DEF Forget, UiTypes, session, UiThread, NoBadges
  <2>3. QED BY <1>1, <1>2, <2>1, <2>2, SvnSameTypes, TypeParts
<1>3. ASSUME NEW a \in Artists, NEW f \in Files, ReleaseTaskLock(a, f) PROVE TypeOK'
  <2>1. SvnTypeOK'
      BY <1>1, <1>3, UnlockTypes DEF ReleaseTaskLock
  <2>2. UiTypes'
    <3>1. /\ \/ /\ cardOwner' = [cardOwner EXCEPT ![a][f] = None]
                /\ cardMine' = [cardMine EXCEPT ![a][f] = FALSE]
             \/ UNCHANGED <<cardOwner, cardMine>>
          /\ UNCHANGED <<ui, pending, awaiting, badges, session>>
        BY <1>3 DEF ReleaseTaskLock
    <3>2. QED BY <1>1, <3>1, CardTypes DEF UiTypes, session
  <2>3. QED BY <1>1, <1>3, <2>1, <2>2, TypeParts DEF ReleaseTaskLock, WorkerTypes
<1>4. ASSUME NEW f \in Files, AdminBreak(f) PROVE TypeOK'
  <2>1. SvnTypeOK'
      BY <1>1, <1>4 DEF AdminBreak, SvnRmLock, SvnTypeOK
  <2>2. UNCHANGED hubVars
      BY <1>4 DEF AdminBreak
  <2>3. QED BY <1>1, <2>1, <2>2, TypeParts DEF hubVars, WorkerTypes, UiTypes, session
<1>5. QED BY <1>2, <1>3, <1>4 DEF CloseHub, Crash

\* Every variable keeps its type, in every studio and under every fault.
THEOREM TypeCorrect == Spec => []TypeOK
<1>1. Init => TypeOK
  <2>1. Init => SvnTypeOK
      BY DEF Init, SvnInit, SvnTypeOK, LocalStates
  <2>2. Init => TypeOK
      BY <2>1 DEF Init, TypeOK, Worker, Idle, UiThread, NoUi, NoBadges
  <2>3. QED BY <2>2
<1>2. TypeOK /\ [Next]_vars => TypeOK'
  <2> SUFFICES ASSUME TypeOK, [Next]_vars PROVE TypeOK'
      OBVIOUS
  <2>1. CASE UNCHANGED vars
      BY <2>1 DEF vars, svnVars, hubVars, TypeOK, SvnTypeOK
  <2>2. ASSUME NEW a \in Artists, UserStep(a) PROVE TypeOK'
      BY <2>2, LaunchTypes, DccTypes, StartersType, OtherTypes DEF UserStep
  <2>3. ASSUME NEW a \in Artists, LaunchStep(a) \/ WorkerStep(a) \/ SlotStep(a) \/ Crash(a)
        PROVE  TypeOK'
      BY <2>3, LaunchTypes, WorkerStepTypes, SlotStepTypes, OtherTypes
  <2>4. ASSUME NEW f \in Files, AdminBreak(f) PROVE TypeOK'
      BY <2>4, OtherTypes
  <2>5. QED BY <2>1, <2>2, <2>3, <2>4 DEF Next
<1>3. QED BY <1>1, <1>2, PTL DEF Spec

-----------------------------------------------------------------------------
(***************************************************************************)
(* Lock tokens.  The svn commands keep every stored token honoured, so     *)
(* only a lock broken on the server or a commit whose answer is lost can   *)
(* leave a working copy believing in a lock it has not got.                *)
(***************************************************************************)

LEMMA SvnLockTokens ==
    ASSUME SvnTypeOK, TokensLive, NEW u \in Users, NEW w \in WCs, NEW f \in Files,
           SvnLock(u, w, f)
    PROVE  TokensLive'
<1>1. \A v \in WCs : token[v][f] = None
    BY NoneFresh DEF SvnTypeOK, TokensLive, Live, SvnLock, SvnLockable
<1>2. SUFFICES ASSUME NEW v \in WCs, NEW g \in Files, token'[v][g] # None
               PROVE  slock'[g] = <<token'[v][g], v>>
    BY DEF TokensLive, Live
<1>3. CASE g = f
    BY <1>1, <1>2, <1>3 DEF SvnLock, SvnTypeOK
<1>4. CASE g # f
    BY <1>2, <1>4 DEF SvnLock, SvnTypeOK, TokensLive, Live
<1>5. QED BY <1>3, <1>4

LEMMA SvnUnlockTokens ==
    ASSUME SvnTypeOK, TokensLive, NEW u \in Users, NEW w \in WCs, NEW f \in Files,
           NEW force \in BOOLEAN, SvnUnlock(u, w, f, force)
    PROVE  TokensLive'
<1>1. CASE UNCHANGED svnVars
    BY <1>1 DEF TokensLive, Live, svnVars
<1>2. CASE /\ ~UnlockSkipped(w, f)
           /\ slock' = [slock EXCEPT ![f] = IF force \/ Live(w, f) THEN None ELSE @]
           /\ token' = [token EXCEPT ![w][f] = None]
  <2>1. slock[f] = <<token[w][f], w>>
      BY <1>2 DEF TokensLive, Live, UnlockSkipped, LockInfo
  <2>2. SUFFICES ASSUME NEW v \in WCs, NEW g \in Files, token'[v][g] # None
                 PROVE  slock'[g] = <<token'[v][g], v>>
      BY DEF TokensLive, Live
  <2>3. CASE g = f
    <3>1. v = w
        BY <1>2, <2>1, <2>2, <2>3 DEF TokensLive, Live, SvnTypeOK
    <3>2. QED BY <1>2, <2>2, <2>3, <3>1 DEF SvnTypeOK
  <2>4. CASE g # f
      BY <1>2, <2>2, <2>4 DEF SvnTypeOK, TokensLive, Live
  <2>5. QED BY <2>3, <2>4
<1>3. QED BY <1>1, <1>2 DEF SvnUnlock

LEMMA SvnCommitTokens ==
    ASSUME SvnTypeOK, TokensLive, NEW u \in Users, NEW w \in WCs, NEW S \in SUBSET Files,
           SvnCommit(u, w, S)
    PROVE  TokensLive'
<1>1. CASE UNCHANGED svnVars
    BY <1>1 DEF TokensLive, Live, svnVars
<1>2. CASE CommitOnServer(u, w, S) /\ CommitInWC(u, w, S)
  <2>1. SUFFICES ASSUME NEW v \in WCs, NEW g \in Files, token'[v][g] # None
                 PROVE  slock'[g] = <<token'[v][g], v>>
      BY DEF TokensLive, Live
  <2>2. token'[v][g] = IF v = w /\ g \in S /\ token[w][g] = u THEN None ELSE token[v][g]
      BY <1>2 DEF CommitInWC, SvnTypeOK
  <2>3. slock'[g] = IF g \in S /\ slock[g] = <<u, w>> THEN None ELSE slock[g]
      BY <1>2 DEF CommitOnServer
  <2>4. slock[g] = <<token[v][g], v>>
      BY <2>1, <2>2 DEF TokensLive, Live
  <2>5. QED BY <2>1, <2>2, <2>3, <2>4
<1>3. QED BY <1>1, <1>2 DEF SvnCommit

LEMMA SvnUpdateTokens ==
    ASSUME SvnTypeOK, TokensLive, NEW w \in WCs, SvnUpdate(w)
    PROVE  TokensLive'
BY DEF SvnTypeOK, TokensLive, Live, SvnUpdate

LEMMA SameTokens == TokensLive /\ UNCHANGED <<slock, token>> => TokensLive'
BY DEF TokensLive, Live

LEMMA UnlockTokens ==
    ASSUME SvnTypeOK, TokensLive, NEW a \in Artists, NEW f \in Files, NEW force \in BOOLEAN,
           UnlockDone(a, f, force) \/ UnlockFailed(a, f, force) \/ UNCHANGED svnVars
    PROVE  TokensLive'
BY Accounts, SvnUnlockTokens, SameTokens DEF UnlockDone, UnlockFailed, svnVars

LEMMA UserStepTokens ==
    ASSUME TypeOK, TokensLive, NEW a \in Artists, UserStep(a)
    PROVE  TokensLive'
<1>1. SvnTypeOK
    BY TypeParts
<1>2. CASE \E f \in Files : ReleaseTaskLock(a, f)
    BY <1>1, <1>2, UnlockTokens DEF ReleaseTaskLock
<1>3. CASE DccCommit(a)
    BY <1>1, <1>3, Accounts, SvnCommitTokens DEF DccCommit
<1>4. CASE \/ \E f \in Files : LaunchProbe(a, f) \/ CheckChanges(a, f)
           \/ \E f \in Files, S \in SUBSET Files : PublishStart(a, f, S)
           \/ \E f, p \in Files : ResolveStart(a, f, p)
           \/ UpdateStart(a) \/ RefreshLocks(a) \/ CloseHub(a)
           \/ DccSave(a) \/ DccClose(a)
  <2>1. UNCHANGED <<slock, token>>
      BY <1>4 DEF LaunchProbe, CheckChanges, PublishStart, ResolveStart, UpdateStart,
                  RefreshLocks, CloseHub, DccSave, DccClose, svnVars
  <2>2. QED BY <2>1, SameTokens
<1>5. QED BY <1>2, <1>3, <1>4 DEF UserStep

LEMMA HubStepTokens ==
    ASSUME TypeOK, TokensLive, Faults \cap {"adminBreak", "commitKilled"} = {},
           NEW a \in Artists, LaunchStep(a) \/ WorkerStep(a) \/ SlotStep(a) \/ Crash(a)
    PROVE  TokensLive'
<1>1. SvnTypeOK /\ WorkerTypes /\ UiTypes
    BY TypeParts
<1>2. CASE LaunchLock(a)
  <2>1. ui[a].task \in Files
      BY <1>1, <1>2, UiTask DEF LaunchLock
  <2>2. SvnLock(SvnUser[a], WcOf[a], ui[a].task)
      BY <1>2 DEF LaunchLock
  <2>3. QED BY <1>1, <2>1, <2>2, Accounts, SvnLockTokens
<1>3. CASE Publish(a)
  <2>1. worker[a]["vcs_publish"].paths \in SUBSET Files
      BY <1>1, <1>3, WorkerTask DEF Publish, Running, Keys
  <2>2. SvnCommit(SvnUser[a], WcOf[a], worker[a]["vcs_publish"].paths) \/ UNCHANGED svnVars
      BY <1>3 DEF Publish, Fault
  <2>3. QED BY <1>1, <2>1, <2>2, Accounts, SvnCommitTokens, SameTokens DEF svnVars
<1>4. CASE Update(a)
    BY <1>1, <1>4, Accounts, SvnUpdateTokens, SameTokens DEF Update, svnVars
<1>5. CASE OnChangesReady(a)
  <2>1. worker[a]["vcs_check"].task \in Files
      BY <1>1, <1>5, WorkerTask DEF OnChangesReady, Emitted, Keys
  <2>2. \/ UnlockDone(a, worker[a]["vcs_check"].task, FALSE)
        \/ UnlockFailed(a, worker[a]["vcs_check"].task, FALSE)
        \/ UNCHANGED svnVars
      BY <1>5 DEF OnChangesReady
  <2>3. QED BY <1>1, <2>1, <2>2, UnlockTokens
<1>6. CASE OnPublishFinished(a)
  <2>1. worker[a]["vcs_publish"].task \in Files
      BY <1>1, <1>6, WorkerTask DEF OnPublishFinished, Emitted, Keys
  <2>2. \/ UnlockDone(a, worker[a]["vcs_publish"].task, FALSE)
        \/ UnlockFailed(a, worker[a]["vcs_publish"].task, FALSE)
        \/ UNCHANGED svnVars
      BY <1>6 DEF OnPublishFinished
  <2>3. QED BY <1>1, <2>1, <2>2, UnlockTokens
<1>7. CASE \/ LaunchRefused(a) \/ LaunchAbandoned(a) \/ LaunchDelegate(a)
           \/ Scan(a) \/ Resolve(a) \/ ReadLocks(a) \/ Crash(a)
           \/ OnLaunchFinished(a) \/ OnScanError(a) \/ OnUpdateFinished(a)
           \/ OnResolved(a) \/ OnTaskLocksReady(a)
  <2>1. UNCHANGED <<slock, token>>
      BY <1>7 DEF LaunchRefused, LaunchAbandoned, LaunchDelegate, Scan, Resolve, SvnResolve,
                  ReadLocks, Crash, OnLaunchFinished, OnScanError, OnUpdateFinished,
                  OnResolved, OnTaskLocksReady, svnVars
  <2>2. QED BY <2>1, SameTokens
<1>8. QED BY <1>2, <1>3, <1>4, <1>5, <1>6, <1>7 DEF LaunchStep, WorkerStep, SlotStep

\* Every lock token a working copy stores is one the server honours, whatever
\* people do with the Hub, unless somebody breaks a lock on the server or a
\* commit's answer is lost.
THEOREM TokensHonoured ==
    ASSUME Faults \cap {"adminBreak", "commitKilled"} = {}
    PROVE  Spec => []TokensLive
<1>1. Init => TokensLive
    BY DEF Init, SvnInit, TokensLive
<1>2. TypeOK /\ TokensLive /\ [Next]_vars => TokensLive'
  <2> SUFFICES ASSUME TypeOK, TokensLive, [Next]_vars PROVE TokensLive'
      OBVIOUS
  <2>1. CASE UNCHANGED vars
      BY <2>1, SameTokens DEF vars, svnVars
  <2>2. ASSUME NEW a \in Artists,
               UserStep(a) \/ LaunchStep(a) \/ WorkerStep(a) \/ SlotStep(a) \/ Crash(a)
        PROVE  TokensLive'
      BY <2>2, UserStepTokens, HubStepTokens
  <2>3. ASSUME NEW f \in Files, AdminBreak(f) PROVE TokensLive'
      BY <2>3 DEF AdminBreak, Fault
  <2>4. QED BY <2>1, <2>2, <2>3 DEF Next
<1>3. QED BY <1>1, <1>2, TypeCorrect, PTL DEF Spec

\* Under the same assumption a task file is writable in at most one working
\* copy: the one the server's lock names.
THEOREM SingleWriter ==
    ASSUME Faults \cap {"adminBreak", "commitKilled"} = {}
    PROVE  Spec => []OneWriter
<1>1. TypeOK /\ TokensLive => OneWriter
    BY DEF TypeOK, SvnTypeOK, TokensLive, OneWriter, Writable, Live
<1>2. QED BY <1>1, TypeCorrect, TokensHonoured, PTL

-----------------------------------------------------------------------------
(***************************************************************************)
(* The shell's session count.  Only LaunchDelegate opens a session, only   *)
(* OnLaunchFinished and the end of the Hub close one.  The invariant has   *)
(* to count the reports still queued as well: each will take one off.      *)
(***************************************************************************)

SessionsCounted == \A a \in Artists :
    /\ instances[a] >= ended[a]
    /\ Open(a) => instances[a] > ended[a]

\* The step opens no session and forgets none.
CountKept ==
    /\ UNCHANGED <<instances, ended>>
    /\ \A b \in Artists : IsRunning(b, "launch")' => IsRunning(b, "launch")

LEMMA CountKeptCounts == SessionsCounted /\ CountKept => SessionsCounted'
BY DEF SessionsCounted, CountKept, Open

\* A step of one artist leaves the others' sessions alone.
LEMMA CountedByArtist ==
    ASSUME TypeOK, SessionsCounted, NEW a \in Artists,
           \A b \in Artists \ {a} : /\ worker'[b] = worker[b]
                                    /\ instances'[b] = instances[b]
                                    /\ ended'[b] = ended[b],
           instances'[a] >= ended'[a],
           worker'[a]["launch"].st # "idle" => instances'[a] > ended'[a]
    PROVE  SessionsCounted'
BY DEF SessionsCounted, Open, IsRunning

LEMMA StartKeepsCount ==
    ASSUME WorkerTypes, NEW a \in Artists, NEW k \in Keys \ {"launch"}, NEW f, NEW S,
           Start(a, k, f, S), UNCHANGED <<instances, ended>>
    PROVE  CountKept
BY DEF WorkerTypes, Start, CountKept, IsRunning, Keys

LEMMA EmitKeepsCount ==
    ASSUME WorkerTypes, NEW a \in Artists, NEW k \in Keys, NEW S, NEW ok,
           Running(a, k), Emit(a, k, S, ok), UNCHANGED <<instances, ended>>
    PROVE  CountKept
BY DEF WorkerTypes, Emit, Running, CountKept, IsRunning, Keys

LEMMA DeliveredKeepsCount ==
    ASSUME WorkerTypes, NEW a \in Artists, NEW k \in Keys, NEW f, UNCHANGED <<instances, ended>>,
           \/ worker' = [worker EXCEPT ![a] = Delivered(a, k)]
           \/ worker' = [worker EXCEPT ![a] = CheckStarted(a, f, Delivered(a, k))]
           \/ worker' = [worker EXCEPT ![a] = CheckStarted(a, f, @)]
    PROVE  CountKept
<1>1. CASE worker' = [worker EXCEPT ![a] = Delivered(a, k)]
    BY <1>1 DEF WorkerTypes, Delivered, CountKept, IsRunning, Keys, Idle
<1>2. CASE worker' = [worker EXCEPT ![a] = CheckStarted(a, f, Delivered(a, k))]
    BY <1>2 DEF WorkerTypes, Delivered, CheckStarted, CountKept, IsRunning, Keys, Idle
<1>3. CASE worker' = [worker EXCEPT ![a] = CheckStarted(a, f, @)]
    BY <1>3 DEF WorkerTypes, CheckStarted, CountKept, IsRunning, Keys
<1>4. QED BY <1>1, <1>2, <1>3

LEMMA SameWorkersKeepCount == UNCHANGED <<worker, instances, ended>> => CountKept
BY DEF CountKept, IsRunning

LEMMA ForgetCounts ==
    ASSUME TypeOK, SessionsCounted, NEW a \in Artists, Forget(a)
    PROVE  SessionsCounted'
<1>1. WorkerTypes /\ UiTypes
    BY TypeParts
<1>2. /\ worker'[a]["launch"].st = "idle"
      /\ \A b \in Artists \ {a} : worker'[b] = worker[b]
    BY <1>1 DEF Forget, WorkerTypes, Keys, Idle
<1>3. /\ instances'[a] = 0 /\ ended'[a] = 0
      /\ \A b \in Artists \ {a} : instances'[b] = instances[b] /\ ended'[b] = ended[b]
    BY <1>1 DEF Forget, UiTypes
<1>4. QED BY <1>2, <1>3, CountedByArtist

LEMMA UserStepCounts ==
    ASSUME TypeOK, SessionsCounted, NEW a \in Artists, UserStep(a)
    PROVE  SessionsCounted'
<1>1. WorkerTypes
    BY TypeParts
<1>2. {"vcs_publish", "vcs_resolve", "vcs_update", "task_locks"} \subseteq Keys \ {"launch"}
    BY DEF Keys
<1>3. CASE CloseHub(a)
    BY <1>3, ForgetCounts DEF CloseHub
<1>4. CASE \/ \E f \in Files : LaunchProbe(a, f) \/ ReleaseTaskLock(a, f)
           \/ DccSave(a) \/ DccCommit(a)
  <2>1. UNCHANGED <<worker, instances, ended>>
      BY <1>4 DEF LaunchProbe, ReleaseTaskLock, DccSave, DccCommit, hubVars, session
  <2>2. QED BY <2>1, SameWorkersKeepCount, CountKeptCounts
<1>5. CASE \E f \in Files : CheckChanges(a, f)
    BY <1>1, <1>5, IdleIsWorker, DeliveredKeepsCount, CountKeptCounts DEF CheckChanges, session
<1>6. CASE \E f \in Files, S \in SUBSET Files : PublishStart(a, f, S)
    BY <1>1, <1>2, <1>6, StartKeepsCount, CountKeptCounts DEF PublishStart, session
<1>7. CASE \E f, p \in Files : ResolveStart(a, f, p)
    BY <1>1, <1>2, <1>7, StartKeepsCount, CountKeptCounts DEF ResolveStart, session
<1>8. CASE UpdateStart(a) \/ RefreshLocks(a)
    BY <1>1, <1>2, <1>8, StartKeepsCount, CountKeptCounts DEF UpdateStart, RefreshLocks, session
<1>9. CASE DccClose(a)
    BY <1>1, <1>9, IdleIsWorker, EmitKeepsCount, CountKeptCounts DEF DccClose, session
<1>10. QED BY <1>3, <1>4, <1>5, <1>6, <1>7, <1>8, <1>9 DEF UserStep

LEMMA DelegateCounts ==
    ASSUME TypeOK, SessionsCounted, NEW a \in Artists, LaunchDelegate(a)
    PROVE  SessionsCounted'
<1>1. WorkerTypes /\ UiTypes
    BY TypeParts
<1>2. \A b \in Artists \ {a} : worker'[b] = worker[b] /\ instances'[b] = instances[b] /\ ended'[b] = ended[b]
    BY <1>1 DEF LaunchDelegate, Start, WorkerTypes, UiTypes
<1>3. instances'[a] = instances[a] + 1
    BY <1>1 DEF LaunchDelegate, UiTypes
<1>4. \/ ended'[a] = ended[a]
      \/ ended'[a] = ended[a] + 1 /\ Open(a)
    BY <1>1 DEF LaunchDelegate, UiTypes, Emitted, Open, IsRunning
<1>5. instances[a] \in Nat /\ ended[a] \in Nat
    BY <1>1 DEF UiTypes
<1>6. instances[a] >= ended[a] /\ (Open(a) => instances[a] > ended[a])
    BY DEF SessionsCounted
<1>7. instances'[a] > ended'[a] /\ instances'[a] >= ended'[a]
    BY <1>3, <1>4, <1>5, <1>6
<1>8. QED BY <1>2, <1>7, CountedByArtist

LEMMA FinishedCounts ==
    ASSUME TypeOK, SessionsCounted, NEW a \in Artists, OnLaunchFinished(a)
    PROVE  SessionsCounted'
<1>1. WorkerTypes /\ UiTypes
    BY TypeParts
<1>2. instances[a] \in Nat /\ ended[a] \in Nat
    BY <1>1 DEF UiTypes
<1>3. instances[a] >= ended[a] /\ (Open(a) => instances[a] > ended[a])
    BY DEF SessionsCounted
<1>4. PICK W \in [Keys -> Worker] :
          /\ LaunchFinished(a, W)
          /\ \/ W = worker[a] /\ ended[a] > 0 /\ ended' = [ended EXCEPT ![a] = @ - 1]
             \/ W = Delivered(a, "launch") /\ ended[a] = 0 /\ Emitted(a, "launch") /\ ended' = ended
  <2>1. worker[a] \in [Keys -> Worker] /\ Delivered(a, "launch") \in [Keys -> Worker]
      BY <1>1, IdleIsWorker, DeliveredTypes DEF WorkerTypes
  <2>2. QED BY <2>1 DEF OnLaunchFinished
<1>5. instances' = [instances EXCEPT ![a] = IF @ = 0 THEN 0 ELSE @ - 1]
    BY <1>4 DEF LaunchFinished
<1>6. worker' = [worker EXCEPT ![a] = W]
      \/ worker' = [worker EXCEPT ![a] = CheckStarted(a, launching[a], W)]
    BY <1>4 DEF LaunchFinished
<1>7. worker'[a]["launch"] = W["launch"]
    BY <1>1, <1>6 DEF WorkerTypes, CheckStarted, Keys
<1>8. \A b \in Artists \ {a} : worker'[b] = worker[b] /\ instances'[b] = instances[b] /\ ended'[b] = ended[b]
  <2>1. \A b \in Artists \ {a} : worker'[b] = worker[b]
      BY <1>1, <1>6 DEF WorkerTypes
  <2>2. \A b \in Artists \ {a} : instances'[b] = instances[b]
      BY <1>1, <1>5 DEF UiTypes
  <2>3. \A b \in Artists \ {a} : ended'[b] = ended[b]
      BY <1>1, <1>4 DEF UiTypes
  <2>4. QED BY <2>1, <2>2, <2>3
<1>9. CASE W = worker[a] /\ ended[a] > 0 /\ ended' = [ended EXCEPT ![a] = @ - 1]
  <2>1. instances'[a] = instances[a] - 1 /\ ended'[a] = ended[a] - 1
      BY <1>1, <1>2, <1>3, <1>5, <1>9 DEF UiTypes
  <2>2. worker'[a]["launch"].st # "idle" => Open(a)
      BY <1>7, <1>9 DEF Open, IsRunning
  <2>3. QED BY <1>2, <1>3, <1>8, <2>1, <2>2, CountedByArtist
<1>10. CASE W = Delivered(a, "launch") /\ ended[a] = 0 /\ Emitted(a, "launch") /\ ended' = ended
  <2>1. worker'[a]["launch"].st = "idle"
      BY <1>1, <1>7, <1>10 DEF WorkerTypes, Delivered, Keys, Idle
  <2>2. instances'[a] >= 0 /\ ended'[a] = 0
      BY <1>1, <1>2, <1>5, <1>10 DEF UiTypes
  <2>3. QED BY <1>8, <2>1, <2>2, CountedByArtist
<1>11. QED BY <1>4, <1>9, <1>10

LEMMA HubStepCounts ==
    ASSUME TypeOK, SessionsCounted, NEW a \in Artists,
           LaunchStep(a) \/ WorkerStep(a) \/ SlotStep(a) \/ Crash(a)
    PROVE  SessionsCounted'
<1>1. WorkerTypes
    BY TypeParts
<1>2. CASE LaunchLock(a) \/ LaunchRefused(a) \/ LaunchAbandoned(a)
    BY <1>2, SameWorkersKeepCount, CountKeptCounts
       DEF LaunchLock, LaunchRefused, LaunchAbandoned, session
<1>3. CASE WorkerStep(a)
  <2>1. PICK k \in Keys, S \in SUBSET Files, ok \in BOOLEAN : Running(a, k) /\ Emit(a, k, S, ok)
      BY <1>3, WorkerStepEmits
  <2>2. UNCHANGED <<instances, ended>>
      BY <1>3 DEF WorkerStep, Scan, Publish, Update, Resolve, ReadLocks, session
  <2>3. QED BY <1>1, <2>1, <2>2, EmitKeepsCount, CountKeptCounts
<1>4. CASE \/ OnChangesReady(a) \/ OnScanError(a) \/ OnPublishFinished(a)
           \/ OnUpdateFinished(a) \/ OnResolved(a) \/ OnTaskLocksReady(a)
  <2>1. UNCHANGED <<instances, ended>>
      BY <1>4 DEF OnChangesReady, OnScanError, OnPublishFinished, OnUpdateFinished,
                  OnResolved, OnTaskLocksReady, session
  <2>2. PICK k \in Keys :
            \/ worker' = [worker EXCEPT ![a] = Delivered(a, k)]
            \/ \E f : worker' = [worker EXCEPT ![a] = CheckStarted(a, f, Delivered(a, k))]
      BY <1>4 DEF OnChangesReady, OnScanError, OnPublishFinished, OnUpdateFinished,
                  OnResolved, OnTaskLocksReady, Keys
  <2>3. QED BY <1>1, <2>1, <2>2, DeliveredKeepsCount, CountKeptCounts
<1>5. QED BY <1>2, <1>3, <1>4, DelegateCounts, FinishedCounts, ForgetCounts
          DEF LaunchStep, SlotStep, Crash

\* Whatever goes wrong and whatever people do, a Hub with an open DCC has a
\* session registered, so that closeEvent asks before abandoning it.
THEOREM SessionsGuarded == Spec => []OpenSessionGuarded
<1>1. Init => SessionsCounted
    BY DEF Init, SessionsCounted, Open, IsRunning, Keys, Idle
<1>2. TypeOK /\ SessionsCounted /\ [Next]_vars => SessionsCounted'
  <2> SUFFICES ASSUME TypeOK, SessionsCounted, [Next]_vars PROVE SessionsCounted'
      OBVIOUS
  <2>1. CASE UNCHANGED vars
      BY <2>1, SameWorkersKeepCount, CountKeptCounts DEF vars, hubVars
  <2>2. ASSUME NEW a \in Artists,
               UserStep(a) \/ LaunchStep(a) \/ WorkerStep(a) \/ SlotStep(a) \/ Crash(a)
        PROVE  SessionsCounted'
      BY <2>2, UserStepCounts, HubStepCounts
  <2>3. ASSUME NEW f \in Files, AdminBreak(f) PROVE SessionsCounted'
      BY <2>3, SameWorkersKeepCount, CountKeptCounts DEF AdminBreak, hubVars
  <2>4. QED BY <2>1, <2>2, <2>3 DEF Next
<1>3. TypeOK /\ SessionsCounted => OpenSessionGuarded
    BY DEF TypeOK, SessionsCounted, OpenSessionGuarded
<1>4. QED BY <1>1, <1>2, <1>3, TypeCorrect, PTL DEF Spec

(***************************************************************************)
(* Under discipline.  What the lock protects when people keep the Hub's    *)
(* rules: any number of artists, each with an account or a working copy of *)
(* his own, who do not publish, update, scan or commit behind an open DCC, *)
(* launch nothing while the Hub works, and publish all of their changes.   *)
(***************************************************************************)

\* Every artist has a working copy of its own.
OwnWorkspaces == \A a, b \in Artists : WcOf[a] = WcOf[b] => a = b

\* Artists may share a working copy under accounts of their own, as long as
\* they leave its locks alone.  DCCs crash, networks fail and the Hub closes.
Discipline ==
    /\ \A a \in Artists : DefaultVcs[a]
    /\ \A a, b \in Artists : SvnUser[a] = SvnUser[b] /\ WcOf[a] = WcOf[b] => a = b
    /\ "release" \in Habits => OwnWorkspaces
    /\ Habits \subseteq {"release", "closeHub", "refresh"}
    /\ Faults \cap {"adminBreak", "commitKilled"} = {}

(***************************************************************************)
(* The working copies: whatever is not clean is modified, never conflicted,*)
(* under a token, and what has a token is up to date.                      *)
(***************************************************************************)

DirtyHeld == \A w \in WCs, f \in Files :
    local[w][f] # "clean" => local[w][f] = "modified" /\ token[w][f] # None

HeldCurrent == \A w \in WCs, f \in Files :
    token[w][f] # None => base[w][f] = head[f]

WorkHeld == TokensLive /\ DirtyHeld /\ HeldCurrent

\* No file gets dirty, and a file that stays dirty keeps its token.
NothingDirtied == \A v \in WCs, f \in Files :
    local'[v][f] # "clean" => local[v][f] # "clean" /\ token'[v][f] = token[v][f]

\* Only tokens of account u in working copy w go.
OthersTokensKept(u, w) == \A v \in WCs, f \in Files :
    token[v][f] # None /\ (token[v][f] # u \/ v # w) => token'[v][f] = token[v][f]

LEMMA SvnLockHeld ==
    ASSUME SvnTypeOK, WorkHeld, NEW u \in Users, NEW w \in WCs, NEW f \in Files,
           SvnLock(u, w, f)
    PROVE  /\ DirtyHeld' /\ HeldCurrent' /\ NothingDirtied /\ OthersTokensKept(u, w)
           /\ token'[w][f] = u
<1>1. \A v \in WCs : token[v][f] = None
    BY NoneFresh DEF SvnTypeOK, WorkHeld, TokensLive, Live, SvnLock, SvnLockable
<1>2. /\ \A v \in WCs, g \in Files : token'[v][g] = IF v = w /\ g = f THEN u ELSE token[v][g]
      /\ local' = local /\ base' = base /\ head' = head /\ base[w][f] = head[f]
    BY DEF SvnLock, SvnLockable, SvnTypeOK
<1>3. u # None
    BY NoneFresh
<1>4. DirtyHeld' /\ HeldCurrent'
    BY <1>1, <1>2, <1>3 DEF WorkHeld, DirtyHeld, HeldCurrent
<1>5. NothingDirtied /\ OthersTokensKept(u, w)
    BY <1>1, <1>2 DEF WorkHeld, DirtyHeld, NothingDirtied, OthersTokensKept
<1>6. QED BY <1>2, <1>4, <1>5

LEMMA SvnUnlockHeld ==
    ASSUME SvnTypeOK, WorkHeld, NEW u \in Users, NEW w \in WCs, NEW f \in Files,
           NEW force \in BOOLEAN, SvnUnlock(u, w, f, force),
           ~UnlockRefused(u, w, f, force) => local[w][f] = "clean"
    PROVE  /\ DirtyHeld' /\ HeldCurrent' /\ NothingDirtied
           /\ \A v \in WCs \ {w}, g \in Files : token'[v][g] = token[v][g]
           /\ ~force => OthersTokensKept(u, w)
<1>1. CASE UNCHANGED svnVars
    BY <1>1 DEF svnVars, WorkHeld, DirtyHeld, HeldCurrent, NothingDirtied, OthersTokensKept
<1>2. CASE ~(UnlockSkipped(w, f) \/ UnlockRefused(u, w, f, force))
  <2>1. /\ \A v \in WCs, g \in Files : token'[v][g] = IF v = w /\ g = f THEN None ELSE token[v][g]
        /\ local' = local /\ base' = base /\ head' = head /\ local[w][f] = "clean"
      BY <1>2 DEF SvnUnlock, SvnTypeOK
  <2>2. DirtyHeld' /\ HeldCurrent' /\ NothingDirtied
      BY <2>1 DEF WorkHeld, DirtyHeld, HeldCurrent, NothingDirtied
  <2>3. ~force => token[w][f] = u
      BY <1>2 DEF UnlockRefused, OwnerMismatch
  <2>4. ~force => OthersTokensKept(u, w)
      BY <2>1, <2>3 DEF OthersTokensKept
  <2>5. QED BY <2>1, <2>2, <2>4
<1>3. QED BY <1>1, <1>2 DEF SvnUnlock

\* A commit of files that are clean or modified leaves them clean.
LEMMA SvnCommitHeld ==
    ASSUME SvnTypeOK, WorkHeld, NEW u \in Users, NEW w \in WCs, NEW S \in SUBSET Files,
           SvnCommit(u, w, S)
    PROVE  /\ DirtyHeld' /\ HeldCurrent' /\ NothingDirtied /\ OthersTokensKept(u, w)
           /\ \A f \in S : local'[w][f] = "clean"
<1>1. \A f \in S \ ToCommit(w, S) : local[w][f] = "clean"
    BY DEF WorkHeld, DirtyHeld, ToCommit
<1>2. CASE UNCHANGED svnVars /\ ToCommit(w, S) = {}
    BY <1>1, <1>2 DEF svnVars, WorkHeld, DirtyHeld, HeldCurrent, NothingDirtied, OthersTokensKept
<1>3. CASE CommitOnServer(u, w, S) /\ CommitInWC(u, w, S)
  <2>1. /\ \A v \in WCs, g \in Files :
              /\ local'[v][g] = IF v = w /\ g \in ToCommit(w, S) THEN "clean" ELSE local[v][g]
              /\ base'[v][g] = IF v = w /\ g \in ToCommit(w, S) THEN head[g] + 1 ELSE base[v][g]
              /\ token'[v][g] = IF v = w /\ g \in S /\ token[w][g] = u THEN None ELSE token[v][g]
        /\ \A g \in Files : head'[g] = IF g \in ToCommit(w, S) THEN head[g] + 1 ELSE head[g]
      BY <1>3 DEF CommitOnServer, CommitInWC, SvnTypeOK
  <2>2. \A g \in ToCommit(w, S) : g \in S /\ slock[g] = <<u, w>> /\ token[w][g] = u
    <3>1. ASSUME NEW g \in ToCommit(w, S) PROVE g \in S /\ slock[g] = <<u, w>> /\ token[w][g] = u
      <4>1. g \in S /\ g \in Files /\ local[w][g] # "clean" /\ slock[g] \in {None, <<u, w>>}
          BY <3>1 DEF ToCommit, SvnCommit, CommitAccepted
      <4>2. slock[g] = <<token[w][g], w>> /\ token[w][g] \in Users
          BY <4>1 DEF WorkHeld, DirtyHeld, TokensLive, Live, SvnTypeOK
      <4>3. slock[g] # None
          BY <4>2, NoneFresh
      <4>4. QED BY <4>1, <4>2, <4>3
    <3>2. QED BY <3>1
  <2>3. \A v \in WCs, g \in ToCommit(w, S) : v # w => token[v][g] = None
      BY <2>2 DEF WorkHeld, TokensLive, Live, ToCommit
  <2>4. DirtyHeld' /\ NothingDirtied /\ OthersTokensKept(u, w)
      BY <1>1, <2>1, <2>2 DEF WorkHeld, DirtyHeld, NothingDirtied, OthersTokensKept
  <2>5. HeldCurrent'
      BY <2>1, <2>2, <2>3 DEF WorkHeld, HeldCurrent
  <2>6. QED BY <1>1, <2>1, <2>4, <2>5
<1>4. QED BY <1>2, <1>3 DEF SvnCommit

LEMMA SvnUpdateHeld ==
    ASSUME SvnTypeOK, WorkHeld, NEW u \in Users, NEW w \in WCs, SvnUpdate(w)
    PROVE  DirtyHeld' /\ HeldCurrent' /\ NothingDirtied /\ OthersTokensKept(u, w)
<1>1. \A f \in Files : local[w][f] = "modified" => ~Behind(w, f)
    BY DEF SvnTypeOK, WorkHeld, DirtyHeld, HeldCurrent, Behind
<1>2. /\ \A v \in WCs, g \in Files : token'[v][g] = token[v][g] /\ local'[v][g] = local[v][g]
      /\ \A v \in WCs, g \in Files : base'[v][g] = IF v = w THEN head[g] ELSE base[v][g]
      /\ head' = head
    BY <1>1 DEF SvnUpdate, SvnTypeOK, WorkHeld, TokensLive, Live
<1>3. QED BY <1>2 DEF WorkHeld, DirtyHeld, HeldCurrent, NothingDirtied, OthersTokensKept

LEMMA SvnResolveHeld ==
    ASSUME SvnTypeOK, WorkHeld, NEW u \in Users, NEW w \in WCs, NEW f \in Files, NEW strategy,
           SvnResolve(w, f, strategy)
    PROVE  DirtyHeld' /\ HeldCurrent' /\ NothingDirtied /\ OthersTokensKept(u, w)
<1>1. \A v \in WCs, g \in Files : local'[v][g] = local[v][g]
    BY DEF SvnResolve, SvnTypeOK, WorkHeld, DirtyHeld
<1>2. QED BY <1>1 DEF SvnResolve, WorkHeld, DirtyHeld, HeldCurrent, NothingDirtied, OthersTokensKept

LEMMA SvnSameHeld ==
    ASSUME WorkHeld, UNCHANGED svnVars, NEW u, NEW w
    PROVE  DirtyHeld' /\ HeldCurrent' /\ NothingDirtied /\ OthersTokensKept(u, w)
BY DEF svnVars, WorkHeld, DirtyHeld, HeldCurrent, NothingDirtied, OthersTokensKept

-----------------------------------------------------------------------------
(***************************************************************************)
(* The Hubs.  An open DCC has the lock of its file; nothing else runs      *)
(* while launch() does, and nothing that touches the working copy while a  *)
(* DCC is open; a publish takes every change of its artist along, and what *)
(* a scan has found stays complete until its slot has looked at it.        *)
(***************************************************************************)

\* The unpublished work of an artist.
Mine(a) == {f \in Files : local[WcOf[a]][f] # "clean" /\ token[WcOf[a]][f] = SvnUser[a]}

SessionHeld(a) ==
    /\ Running(a, "launch") => token[WcOf[a]][worker[a]["launch"].task] = SvnUser[a]
    /\ ui[a].step = "delegate" => token[WcOf[a]][ui[a].task] = SvnUser[a]

Alone(a) ==
    /\ ended[a] = 0
    /\ ~UiFree(a) => \A k \in Keys : ~IsRunning(a, k)
    /\ Open(a) => \A k \in Keys \ {"launch", "task_locks"} : ~IsRunning(a, k)

Covered(a) ==
    /\ Running(a, "vcs_publish") => Mine(a) \subseteq worker[a]["vcs_publish"].paths
    /\ Emitted(a, "vcs_publish") /\ worker[a]["vcs_publish"].ok => Mine(a) = {}
    /\ Emitted(a, "vcs_check") /\ worker[a]["vcs_check"].ok
           => Mine(a) \subseteq worker[a]["vcs_check"].paths

Kept(a) == SessionHeld(a) /\ Alone(a) /\ Covered(a)

DisciplineInv == WorkHeld /\ \A a \in Artists : Kept(a)

LEMMA DistinctKeys ==
    /\ {"launch", "vcs_check", "vcs_publish", "vcs_update", "vcs_resolve", "task_locks"} = Keys
BY DEF Keys

\* What a step of artist a leaves to the others.
LeavesOthers(a) ==
    /\ \A b \in Artists \ {a} : worker'[b] = worker[b] /\ ui'[b] = ui[b] /\ ended'[b] = ended[b]
    /\ \A b \in Artists \ {a} : Mine(b)' \subseteq Mine(b)
    /\ \A b \in Artists \ {a}, f \in Files :
           token[WcOf[b]][f] = SvnUser[b] => token'[WcOf[b]][f] = SvnUser[b]

LEMMA OneArtistMoves ==
    ASSUME TypeOK, DisciplineInv, NEW a \in Artists, LeavesOthers(a), Kept(a)'
    PROVE  \A b \in Artists : Kept(b)'
<1>1. WorkerTypes /\ UiTypes
    BY TypeParts
<1>2. SUFFICES ASSUME NEW b \in Artists \ {a} PROVE Kept(b)'
    OBVIOUS
<1>3. /\ worker'[b] = worker[b] /\ ui'[b] = ui[b] /\ ended'[b] = ended[b]
      /\ Mine(b)' \subseteq Mine(b) /\ Kept(b)
    BY <1>2 DEF LeavesOthers, DisciplineInv
<1>4. Alone(b)'
    BY <1>3 DEF Kept, Alone, UiFree, IsRunning, Open
<1>5. Covered(b)'
    BY <1>3 DEF Kept, Covered, Running, Emitted
<1>6. SessionHeld(b)'
  <2>1. Running(b, "launch") => worker[b]["launch"].task \in Files
      BY <1>1, WorkerTask, DistinctKeys DEF Running
  <2>2. ui[b].step = "delegate" => ui[b].task \in Files
      BY <1>1, UiTask
  <2>3. QED BY <1>2, <1>3, <2>1, <2>2 DEF Kept, SessionHeld, Running, LeavesOthers
<1>7. QED BY <1>4, <1>5, <1>6 DEF Kept

\* A step of account and working copy of a that dirties nothing.
LEMMA GentleLeavesOthers ==
    ASSUME TypeOK, Discipline, NEW a \in Artists, NothingDirtied,
           OthersTokensKept(SvnUser[a], WcOf[a])
           \/ (OwnWorkspaces /\ \A v \in WCs \ {WcOf[a]}, f \in Files : token'[v][f] = token[v][f])
    PROVE  /\ \A b \in Artists : Mine(b)' \subseteq Mine(b)
           /\ \A b \in Artists \ {a}, f \in Files :
                  token[WcOf[b]][f] = SvnUser[b] => token'[WcOf[b]][f] = SvnUser[b]
<1>1. \A b \in Artists : Mine(b)' \subseteq Mine(b)
    BY Accounts DEF NothingDirtied, Mine
<1>2. ASSUME NEW b \in Artists \ {a}, NEW f \in Files, token[WcOf[b]][f] = SvnUser[b]
      PROVE  token'[WcOf[b]][f] = SvnUser[b]
  <2>1. SvnUser[b] # None /\ WcOf[b] \in WCs
      BY Accounts, NoneFresh
  <2>2. SvnUser[b] # SvnUser[a] \/ WcOf[b] # WcOf[a]
      BY DEF Discipline
  <2>3. OwnWorkspaces => WcOf[b] # WcOf[a]
      BY DEF OwnWorkspaces
  <2>4. QED BY <1>2, <2>1, <2>2, <2>3 DEF OthersTokensKept
<1>3. QED BY <1>1, <1>2

(* Steps that leave the working copies and their tokens alone.             *)
LEMMA QuietStep ==
    ASSUME TypeOK, Discipline, DisciplineInv, NEW a \in Artists, UNCHANGED svnVars,
           \A b \in Artists \ {a} : worker'[b] = worker[b] /\ ui'[b] = ui[b] /\ ended'[b] = ended[b],
           SessionHeld(a)', Alone(a)', Covered(a)'
    PROVE  DisciplineInv'
<1>1. /\ DirtyHeld' /\ HeldCurrent' /\ NothingDirtied /\ OthersTokensKept(SvnUser[a], WcOf[a])
      /\ TokensLive'
    BY SvnSameHeld, SameTokens DEF DisciplineInv, WorkHeld, svnVars
<1>2. LeavesOthers(a)
    BY <1>1, GentleLeavesOthers DEF LeavesOthers
<1>3. QED BY <1>1, <1>2, OneArtistMoves DEF DisciplineInv, WorkHeld, Kept

(* launch(): nothing else runs from its first look at the lock to the DCC. *)
LEMMA LaunchProbeKeeps ==
    ASSUME TypeOK, Discipline, DisciplineInv, NEW a \in Artists, NEW f \in Files,
           LaunchProbe(a, f)
    PROVE  DisciplineInv'
<1>1. WorkerTypes /\ UiTypes
    BY TypeParts
<1>2. /\ \A k \in Keys : ~IsRunning(a, k)
      /\ DefaultVcs[a]
    BY DEF LaunchProbe, Habit, Discipline
<1>3. /\ ui'[a].task = f
      /\ ui'[a].step = "delegate" => token[WcOf[a]][f] = SvnUser[a]
      /\ \A b \in Artists \ {a} : ui'[b] = ui[b]
    BY <1>1, <1>2 DEF LaunchProbe, GoTo, UiTypes, AlreadyMine, LockInfo
<1>4. UNCHANGED <<svnVars, worker, ended>>
    BY DEF LaunchProbe, session
<1>5. Alone(a)'
    BY <1>2, <1>4, DistinctKeys DEF DisciplineInv, Kept, Alone, IsRunning, Open
<1>6. SessionHeld(a)' /\ Covered(a)'
    BY <1>2, <1>3, <1>4, DistinctKeys
       DEF SessionHeld, Covered, IsRunning, Running, Emitted, svnVars
<1>7. QED BY <1>3, <1>4, <1>5, <1>6, QuietStep

LEMMA LaunchLockKeeps ==
    ASSUME TypeOK, Discipline, DisciplineInv, TokensLive', NEW a \in Artists, LaunchLock(a)
    PROVE  DisciplineInv'
<1> DEFINE f == ui[a].task
<1>1. SvnTypeOK /\ WorkerTypes /\ UiTypes
    BY TypeParts
<1>2. f \in Files /\ SvnLock(SvnUser[a], WcOf[a], f)
    BY <1>1, UiTask DEF LaunchLock
<1>3. /\ DirtyHeld' /\ HeldCurrent' /\ NothingDirtied /\ OthersTokensKept(SvnUser[a], WcOf[a])
      /\ token'[WcOf[a]][f] = SvnUser[a]
    BY <1>1, <1>2, Accounts, SvnLockHeld DEF DisciplineInv
<1>4. /\ \A b \in Artists \ {a} : ui'[b] = ui[b]
      /\ ui'[a].task = f
      /\ worker' = worker /\ ended' = ended
    BY <1>1 DEF LaunchLock, GoTo, UiTypes, session
<1>5. \A k \in Keys : ~IsRunning(a, k)
    BY DEF LaunchLock, DisciplineInv, Kept, Alone, UiFree
<1>6. Kept(a)'
    BY <1>3, <1>4, <1>5, DistinctKeys
       DEF DisciplineInv, Kept, SessionHeld, Alone, Covered, IsRunning, Running, Emitted, Open
<1>7. LeavesOthers(a)
    BY <1>3, <1>4, GentleLeavesOthers DEF LeavesOthers
<1>8. QED BY <1>3, <1>6, <1>7, OneArtistMoves DEF DisciplineInv, WorkHeld

LEMMA LaunchStepKeeps ==
    ASSUME TypeOK, Discipline, DisciplineInv, TokensLive', NEW a \in Artists, LaunchStep(a)
    PROVE  DisciplineInv'
<1>1. WorkerTypes /\ UiTypes
    BY TypeParts
<1>2. CASE LaunchRefused(a) \/ LaunchAbandoned(a)
  <2>1. /\ UNCHANGED <<svnVars, worker, ended>>
        /\ ui'[a].step = "idle" /\ \A b \in Artists \ {a} : ui'[b] = ui[b]
      BY <1>1, <1>2 DEF LaunchRefused, LaunchAbandoned, session, UiTypes, NoUi
  <2>2. \A k \in Keys : ~IsRunning(a, k)
      BY <1>2 DEF LaunchRefused, LaunchAbandoned, DisciplineInv, Kept, Alone, UiFree
  <2>3. SessionHeld(a)' /\ Alone(a)' /\ Covered(a)'
      BY <2>1, <2>2, DistinctKeys
         DEF DisciplineInv, Kept, SessionHeld, Alone, Covered, IsRunning, Running, Emitted, Open, UiFree
  <2>4. QED BY <2>1, <2>3, QuietStep
<1>3. CASE LaunchDelegate(a)
  <2>1. \A k \in Keys : ~IsRunning(a, k)
      BY <1>3 DEF LaunchDelegate, DisciplineInv, Kept, Alone, UiFree
  <2>2. Start(a, "launch", ui[a].task, {}) /\ ended' = [ended EXCEPT ![a] = @]
      BY <1>3, <2>1, DistinctKeys DEF LaunchDelegate, IsRunning, Emitted
  <2>3. UNCHANGED svnVars /\ ui' = [ui EXCEPT ![a] = NoUi]
      BY <1>3 DEF LaunchDelegate
  <2>4. /\ \A b \in Artists \ {a} : worker'[b] = worker[b] /\ ui'[b] = ui[b] /\ ended'[b] = ended[b]
        /\ ended'[a] = ended[a] /\ ui'[a].step = "idle"
        /\ worker'[a]["launch"].task = ui[a].task
        /\ \A k \in Keys \ {"launch"} : worker'[a][k] = worker[a][k]
      BY <1>1, <2>2, <2>3, DistinctKeys DEF Start, WorkerTypes, UiTypes, NoUi
  <2>5. token[WcOf[a]][ui[a].task] = SvnUser[a]
      BY <1>3 DEF LaunchDelegate, DisciplineInv, Kept, SessionHeld
  <2>6. SessionHeld(a)'
      BY <2>3, <2>4, <2>5 DEF SessionHeld, svnVars
  <2>7. Alone(a)' /\ Covered(a)'
      BY <2>1, <2>3, <2>4, DistinctKeys
         DEF DisciplineInv, Kept, Alone, Covered, IsRunning, Running, Emitted, Open, UiFree
  <2>8. QED BY <2>3, <2>4, <2>6, <2>7, QuietStep
<1>4. QED BY <1>2, <1>3, LaunchLockKeeps DEF LaunchStep

(* The DCC: it saves only the file it has locked, and nothing waits for a  *)
(* look at this artist's changes meanwhile.                                *)
LEMMA DccSaveKeeps ==
    ASSUME TypeOK, Discipline, DisciplineInv, TokensLive', NEW a \in Artists, DccSave(a)
    PROVE  DisciplineInv'
<1> DEFINE f == worker[a]["launch"].task
<1>1. SvnTypeOK /\ WorkerTypes /\ UiTypes
    BY TypeParts
<1>2. /\ f \in Files /\ WcOf[a] \in WCs /\ token[WcOf[a]][f] = SvnUser[a] /\ SvnUser[a] # None
      /\ \A k \in Keys \ {"launch", "task_locks"} : ~IsRunning(a, k)
    BY <1>1, WorkerTask, Accounts, NoneFresh, DistinctKeys
       DEF DccSave, DisciplineInv, Kept, SessionHeld, Alone, Open, Running, IsRunning
<1>3. /\ UNCHANGED <<slock, head, token, base, worker, ui, ended>>
      /\ \A v \in WCs, g \in Files :
             local'[v][g] = IF v = WcOf[a] /\ g = f THEN "modified" ELSE local[v][g]
    BY <1>1, <1>2 DEF DccSave, hubVars, session, SvnTypeOK
<1>4. DirtyHeld' /\ HeldCurrent'
    BY <1>2, <1>3 DEF DisciplineInv, WorkHeld, DirtyHeld, HeldCurrent
<1>5. \A b \in Artists \ {a} : Mine(b)' \subseteq Mine(b)
  <2>1. SUFFICES ASSUME NEW b \in Artists \ {a}, NEW g \in Files,
                        local'[WcOf[b]][g] # "clean", token[WcOf[b]][g] = SvnUser[b]
                 PROVE  local[WcOf[b]][g] # "clean"
      BY <1>3 DEF Mine
  <2>2. SvnUser[b] # SvnUser[a] \/ WcOf[b] # WcOf[a]
      BY DEF Discipline
  <2>3. QED BY <1>2, <1>3, <2>1, <2>2, Accounts
<1>6. LeavesOthers(a)
    BY <1>3, <1>5 DEF LeavesOthers
<1>7. Kept(a)'
    BY <1>2, <1>3, DistinctKeys
       DEF DisciplineInv, Kept, SessionHeld, Alone, Covered, IsRunning, Running, Emitted, Open, UiFree
<1>8. QED BY <1>4, <1>6, <1>7, OneArtistMoves DEF DisciplineInv, WorkHeld

LEMMA DccCloseKeeps ==
    ASSUME TypeOK, Discipline, DisciplineInv, NEW a \in Artists, DccClose(a)
    PROVE  DisciplineInv'
<1>1. WorkerTypes
    BY TypeParts
<1>2. /\ \A b \in Artists \ {a} : worker'[b] = worker[b]
      /\ worker'[a]["launch"].st = "out"
      /\ \A k \in Keys \ {"launch"} : worker'[a][k] = worker[a][k]
      /\ Running(a, "launch") /\ UNCHANGED <<svnVars, ui, ended>>
    BY <1>1, DistinctKeys DEF DccClose, Emit, WorkerTypes, session
<1>3. SessionHeld(a)' /\ Alone(a)' /\ Covered(a)'
    BY <1>2, DistinctKeys
       DEF DisciplineInv, Kept, SessionHeld, Alone, Covered, IsRunning, Running, Emitted, Open,
           UiFree, svnVars, Mine
<1>4. QED BY <1>2, <1>3, QuietStep

-----------------------------------------------------------------------------
(* Workers and slots.  A worker starts when the UI thread is idle and no   *)
(* DCC is open, unless it only reads the locks; what it reports covers the *)
(* unpublished work of its artist.                                         *)

WorkerMoves(a) == \A k \in Keys :
    \/ worker'[a][k] = worker[a][k]
    \/ worker'[a][k].st = "idle"
    \/ /\ worker'[a][k].st = "run" /\ k # "launch" /\ UiFree(a)
       /\ k = "task_locks" \/ worker'[a]["launch"].st = "idle"
       /\ k = "vcs_publish" => Mine(a) \subseteq worker'[a][k].paths
    \/ /\ Running(a, k) /\ worker'[a][k].st = "out"
       /\ k = "vcs_publish" /\ worker'[a][k].ok => Mine(a)' = {}
       /\ k = "vcs_check" /\ worker'[a][k].ok => Mine(a)' \subseteq worker'[a][k].paths

\* What svn did to the working copies, seen from the account and copy of a.
GentleOnWork(a) ==
    /\ TokensLive' /\ DirtyHeld' /\ HeldCurrent' /\ NothingDirtied
    /\ \/ OthersTokensKept(SvnUser[a], WcOf[a])
       \/ OwnWorkspaces /\ \A v \in WCs \ {WcOf[a]}, f \in Files : token'[v][f] = token[v][f]

OthersIdle(a) ==
    \A b \in Artists \ {a} : worker'[b] = worker[b] /\ ui'[b] = ui[b] /\ ended'[b] = ended[b]

LEMMA StepKeeps ==
    ASSUME TypeOK, Discipline, DisciplineInv, NEW a \in Artists,
           GentleOnWork(a), OthersIdle(a), WorkerMoves(a),
           ended'[a] = 0, ui'[a] = ui[a] \/ ui'[a].step = "idle",
           ui'[a].step # "idle" => svnVars' = svnVars /\ worker' = worker,
           Running(a, "launch") => token'[WcOf[a]][worker[a]["launch"].task] = SvnUser[a]
    PROVE  DisciplineInv'
<1>1. Mine(a)' \subseteq Mine(a) /\ LeavesOthers(a)
    BY GentleLeavesOthers DEF GentleOnWork, OthersIdle, LeavesOthers
<1>2. Alone(a)'
    BY DistinctKeys DEF DisciplineInv, Kept, Alone, UiFree, IsRunning, Running, Open, WorkerMoves
<1>3. Covered(a)'
    BY <1>1, DistinctKeys
       DEF DisciplineInv, Kept, Covered, Running, Emitted, WorkerMoves
<1>4. SessionHeld(a)'
  <2>1. ui'[a].step = "delegate" => token'[WcOf[a]][ui'[a].task] = SvnUser[a]
      BY DEF DisciplineInv, Kept, SessionHeld, svnVars
  <2>2. worker'[a]["launch"].st = "run" => worker'[a]["launch"] = worker[a]["launch"]
      BY DistinctKeys DEF WorkerMoves
  <2>3. QED BY <2>1, <2>2 DEF SessionHeld, Running
<1>5. QED BY <1>1, <1>2, <1>3, <1>4, OneArtistMoves DEF DisciplineInv, WorkHeld, Kept, GentleOnWork

LEMMA SameIsGentle ==
    ASSUME DisciplineInv, NEW a \in Artists, UNCHANGED svnVars
    PROVE  /\ GentleOnWork(a)
           /\ Running(a, "launch") => token'[WcOf[a]][worker[a]["launch"].task] = SvnUser[a]
           /\ Mine(a)' = Mine(a)
BY SvnSameHeld, SameTokens
   DEF DisciplineInv, WorkHeld, GentleOnWork, svnVars, Kept, SessionHeld, Mine

LEMMA StartersKeep ==
    ASSUME TypeOK, Discipline, DisciplineInv, NEW a \in Artists,
           \/ \E f \in Files : CheckChanges(a, f)
           \/ \E f \in Files, S \in SUBSET Files : PublishStart(a, f, S)
           \/ \E f, p \in Files : ResolveStart(a, f, p)
           \/ UpdateStart(a) \/ RefreshLocks(a)
    PROVE  DisciplineInv'
<1>1. SvnTypeOK /\ WorkerTypes /\ UiTypes
    BY TypeParts
<1>2. UNCHANGED <<svnVars, ui, ended>> /\ UiFree(a)
    BY DEF CheckChanges, PublishStart, ResolveStart, UpdateStart, RefreshLocks, session
<1>3. OthersIdle(a)
    BY <1>1, <1>2 DEF OthersIdle, CheckChanges, PublishStart, ResolveStart, UpdateStart,
                      RefreshLocks, Start, WorkerTypes
<1>4. ~\E f, p \in Files : ResolveStart(a, f, p)
    BY Accounts DEF ResolveStart, DisciplineInv, WorkHeld, DirtyHeld
<1>5. WorkerMoves(a)
  <2>1. ASSUME NEW f \in Files, CheckChanges(a, f) PROVE WorkerMoves(a)
    <3>1. ~Open(a) /\ worker'[a] = CheckStarted(a, f, worker[a])
        BY <1>1, <2>1 DEF CheckChanges, Habit, Discipline, WorkerTypes
    <3>2. QED BY <1>1, <1>2, <3>1, DistinctKeys
              DEF CheckStarted, WorkerMoves, Open, IsRunning, WorkerTypes
  <2>2. ASSUME NEW k \in Keys \ {"launch"}, NEW f \in Files, NEW S \in SUBSET Files,
               Start(a, k, f, S), k = "task_locks" \/ ~Open(a),
               k = "vcs_publish" => Mine(a) \subseteq S
        PROVE  WorkerMoves(a)
      BY <1>1, <1>2, <2>2, DistinctKeys DEF Start, WorkerMoves, Open, IsRunning, WorkerTypes
  <2>3. FirstCard \in Files
      BY TaskLockAssumption
  <2>4. CASE \E f \in Files, S \in SUBSET Files : PublishStart(a, f, S)
    <3>1. Mine(a) \subseteq StatusChanges(WcOf[a])
        BY DEF Mine, StatusChanges
    <3>2. QED BY <2>2, <2>4, <3>1, DistinctKeys DEF PublishStart, Habit, Discipline
  <2>5. CASE UpdateStart(a) \/ RefreshLocks(a)
      BY <2>2, <2>3, <2>5, DistinctKeys DEF UpdateStart, RefreshLocks, Habit, Discipline
  <2>6. QED BY <1>4, <2>1, <2>4, <2>5
<1>6. QED BY <1>2, <1>3, <1>5, SameIsGentle, StepKeeps DEF DisciplineInv, Kept, Alone, UiFree

LEMMA WorkersKeep ==
    ASSUME TypeOK, Discipline, DisciplineInv, TokensLive', NEW a \in Artists, WorkerStep(a)
    PROVE  DisciplineInv'
<1>1. SvnTypeOK /\ WorkerTypes /\ UiTypes
    BY TypeParts
<1>2. PICK k \in Keys, S \in SUBSET Files, ok \in BOOLEAN : Running(a, k) /\ Emit(a, k, S, ok)
    BY WorkerStepEmits
<1>3. /\ UNCHANGED <<ui, ended>>
      /\ OthersIdle(a)
    BY <1>1, <1>2 DEF WorkerStep, Scan, Publish, Update, Resolve, ReadLocks, session,
                      OthersIdle, Emit, WorkerTypes
<1>4. ended[a] = 0 /\ UiFree(a)
    BY <1>2 DEF DisciplineInv, Kept, Alone, Running, IsRunning
<1>5. ASSUME NEW j \in Keys, NEW T \in SUBSET Files, NEW good \in BOOLEAN,
             Running(a, j), Emit(a, j, T, good),
             j = "vcs_publish" /\ good => Mine(a)' = {},
             j = "vcs_check" /\ good => Mine(a)' \subseteq T
      PROVE  WorkerMoves(a)
    BY <1>1, <1>5 DEF WorkerMoves, Emit, WorkerTypes
<1>6. ASSUME NEW j \in Keys \ {"launch", "task_locks"}, Running(a, j) PROVE ~Running(a, "launch")
    BY <1>6 DEF DisciplineInv, Kept, Alone, Open, IsRunning, Running
<1>7. CASE Scan(a)
  <2>1. UNCHANGED svnVars /\ Mine(a) \subseteq StatusChanges(WcOf[a])
      BY <1>7 DEF Scan, Mine, StatusChanges
  <2>2. WorkerMoves(a)
    <3>1. CASE Emit(a, "vcs_check", StatusChanges(WcOf[a]), TRUE)
        BY <1>5, <1>7, <2>1, <3>1, SameIsGentle, DistinctKeys DEF Scan, StatusChanges
    <3>2. CASE Emit(a, "vcs_check", {}, FALSE)
        BY <1>5, <1>7, <3>2, DistinctKeys DEF Scan
    <3>3. QED BY <1>7, <3>1, <3>2 DEF Scan
  <2>3. QED BY <1>3, <1>4, <2>1, <2>2, SameIsGentle, StepKeeps DEF UiFree
<1>8. CASE Publish(a)
  <2> DEFINE P == worker[a]["vcs_publish"].paths
  <2>1. /\ P \in SUBSET Files /\ Running(a, "vcs_publish") /\ Mine(a) \subseteq P
        /\ ~Running(a, "launch")
      BY <1>1, <1>6, <1>8, WorkerTask, DistinctKeys
         DEF Publish, DisciplineInv, Kept, Covered, Running
  <2> HIDE DEF P
  <2>2. CASE SvnCommit(SvnUser[a], WcOf[a], P) /\ Emit(a, "vcs_publish", P, TRUE)
    <3>1. /\ GentleOnWork(a)
          /\ \A f \in P : local'[WcOf[a]][f] = "clean"
        BY <1>1, <2>1, <2>2, Accounts, SvnCommitHeld DEF DisciplineInv, GentleOnWork
    <3>2. Mine(a)' = {}
        BY <2>1, <3>1, Accounts DEF GentleOnWork, NothingDirtied, Mine
    <3>3. WorkerMoves(a)
        BY <1>5, <2>1, <2>2, <3>2, DistinctKeys
    <3>4. QED BY <1>3, <1>4, <2>1, <3>1, <3>3, StepKeeps DEF UiFree
  <2>3. CASE UNCHANGED svnVars /\ Emit(a, "vcs_publish", P, FALSE)
    <3>1. WorkerMoves(a)
        BY <1>5, <2>1, <2>3, DistinctKeys
    <3>2. QED BY <1>3, <1>4, <2>1, <2>3, <3>1, SameIsGentle, StepKeeps DEF UiFree
  <2>4. QED BY <1>8, <2>2, <2>3 DEF Publish, Discipline, Fault, P
<1>9. CASE Update(a) \/ Resolve(a)
  <2>1. /\ Running(a, "vcs_update") \/ Running(a, "vcs_resolve")
        /\ ~Running(a, "launch")
      BY <1>6, <1>9, DistinctKeys DEF Update, Resolve
  <2>2. GentleOnWork(a)
    <3>1. CASE UNCHANGED svnVars
        BY <3>1, SameIsGentle
    <3>2. CASE SvnUpdate(WcOf[a])
        BY <1>1, <3>2, Accounts, SvnUpdateHeld DEF DisciplineInv, GentleOnWork
    <3>3. ASSUME NEW p \in worker[a]["vcs_resolve"].paths, NEW strategy \in Strategies,
                 Running(a, "vcs_resolve"), SvnResolve(WcOf[a], p, strategy)
          PROVE  GentleOnWork(a)
      <4>1. p \in Files
          BY <1>1, <3>3, WorkerTask, DistinctKeys DEF Running
      <4>2. QED BY <1>1, <3>3, <4>1, Accounts, SvnResolveHeld DEF DisciplineInv, GentleOnWork
    <3>4. QED BY <1>9, <3>1, <3>2, <3>3 DEF Update, Resolve
  <2>3. WorkerMoves(a)
    <3>1. CASE Update(a)
        BY <1>5, <3>1, DistinctKeys DEF Update
    <3>2. CASE Resolve(a)
        BY <1>5, <3>2, DistinctKeys DEF Resolve
    <3>3. QED BY <1>9, <3>1, <3>2
  <2>4. QED BY <1>3, <1>4, <2>1, <2>2, <2>3, StepKeeps DEF UiFree
<1>10. CASE ReadLocks(a)
  <2>1. UNCHANGED svnVars /\ WorkerMoves(a)
      BY <1>5, <1>10, DistinctKeys DEF ReadLocks
  <2>2. QED BY <1>3, <1>4, <2>1, SameIsGentle, StepKeeps DEF UiFree
<1>11. QED BY <1>7, <1>8, <1>9, <1>10 DEF WorkerStep

(* An unlock the Hub asks for finds the file clean, or is refused.         *)
LEMMA UnlockIsGentle ==
    ASSUME TypeOK, DisciplineInv, TokensLive', NEW a \in Artists, NEW f \in Files,
           NEW force \in BOOLEAN, force => OwnWorkspaces,
           token[WcOf[a]][f] = SvnUser[a] \/ force => local[WcOf[a]][f] = "clean",
           UnlockDone(a, f, force) \/ UnlockFailed(a, f, force)
    PROVE  GentleOnWork(a)
<1>1. SvnTypeOK
    BY TypeParts
<1>2. CASE UNCHANGED svnVars
    BY <1>2, SameIsGentle
<1>3. CASE SvnUnlock(SvnUser[a], WcOf[a], f, force)
  <2>1. ~UnlockRefused(SvnUser[a], WcOf[a], f, force) => local[WcOf[a]][f] = "clean"
      BY <1>1, Accounts DEF UnlockRefused, UnlockSkipped, LockInfo, OwnerMismatch, DisciplineInv,
                            WorkHeld, DirtyHeld
  <2>2. QED BY <1>1, <1>3, <2>1, Accounts, SvnUnlockHeld DEF DisciplineInv, GentleOnWork
<1>4. QED BY <1>2, <1>3 DEF UnlockDone, UnlockFailed

LEMMA SlotsKeep ==
    ASSUME TypeOK, Discipline, DisciplineInv, TokensLive', NEW a \in Artists, SlotStep(a)
    PROVE  DisciplineInv'
<1>1. SvnTypeOK /\ WorkerTypes /\ UiTypes
    BY TypeParts
<1>2. ended[a] = 0 /\ UiFree(a) /\ ui' = ui
    BY DEF SlotStep, OnLaunchFinished, OnChangesReady, OnScanError, OnPublishFinished,
           OnUpdateFinished, OnResolved, OnTaskLocksReady, DisciplineInv, Kept, Alone
<1>3. /\ ended' = ended
      /\ \E k \in Keys : /\ Emitted(a, k)
                         /\ \/ worker' = [worker EXCEPT ![a] = Delivered(a, k)]
                            \/ /\ k # "task_locks"
                               /\ \E f \in Files : worker' = [worker EXCEPT ![a] =
                                      CheckStarted(a, f, Delivered(a, k))]
  <2>1. CASE OnLaunchFinished(a)
    <3>1. ended' = ended /\ Emitted(a, "launch") /\ LaunchFinished(a, Delivered(a, "launch"))
        BY <1>1, <1>2, <2>1 DEF OnLaunchFinished
    <3>2. ReportArms(a) => launching[a] \in Files
        BY <1>1 DEF ReportArms, UiTypes
    <3>3. QED BY <3>1, <3>2, DistinctKeys DEF LaunchFinished
  <2>2. CASE \/ OnChangesReady(a) \/ OnScanError(a) \/ OnPublishFinished(a) \/ OnTaskLocksReady(a)
      BY <2>2, DistinctKeys
         DEF OnChangesReady, OnScanError, OnPublishFinished, OnTaskLocksReady, session
  <2>3. CASE OnUpdateFinished(a) \/ OnResolved(a)
    <3>1. /\ FirstCard \in Files
          /\ Emitted(a, "vcs_resolve") => worker[a]["vcs_resolve"].task \in Files
        BY <1>1, TaskLockAssumption, WorkerTask, DistinctKeys DEF Emitted
    <3>2. QED BY <2>3, <3>1, DistinctKeys DEF OnUpdateFinished, OnResolved, session
  <2>4. QED BY <2>1, <2>2, <2>3 DEF SlotStep
<1>4. PICK k \in Keys : /\ Emitted(a, k)
                        /\ \/ worker' = [worker EXCEPT ![a] = Delivered(a, k)]
                           \/ /\ k # "task_locks"
                              /\ \E f \in Files : worker' = [worker EXCEPT ![a] =
                                     CheckStarted(a, f, Delivered(a, k))]
    BY <1>3
<1>5. OthersIdle(a)
    BY <1>1, <1>2, <1>3, <1>4 DEF OthersIdle, WorkerTypes
<1>6. k # "task_locks" => ~Running(a, "launch")
    BY <1>4, DistinctKeys DEF DisciplineInv, Kept, Alone, Open, IsRunning, Emitted, Running
<1>7. WorkerMoves(a)
  <2>1. CASE worker'[a] = Delivered(a, k)
      BY <1>1, <1>4, <2>1 DEF WorkerMoves, Delivered, WorkerTypes, Idle
  <2>2. ASSUME NEW f \in Files, k # "task_locks", worker'[a] = CheckStarted(a, f, Delivered(a, k))
        PROVE  WorkerMoves(a)
    <3>1. Delivered(a, k)["launch"].st = "idle"
        BY <1>1, <1>4, <2>2, DistinctKeys
           DEF Delivered, WorkerTypes, Idle, DisciplineInv, Kept, Alone, Open, IsRunning, Emitted
    <3>2. \A j \in Keys : Delivered(a, k)[j] = worker[a][j] \/ Delivered(a, k)[j].st = "idle"
        BY <1>1 DEF Delivered, WorkerTypes, Idle
    <3>3. \A j \in Keys : \/ worker'[a][j] = Delivered(a, k)[j]
                          \/ j = "vcs_check" /\ worker'[a][j].st = "run"
        BY <1>1, <2>2, DistinctKeys DEF CheckStarted, Delivered, WorkerTypes
    <3>4. worker'[a]["launch"].st = "idle"
        BY <3>1, <3>3, DistinctKeys
    <3>5. QED BY <1>2, <3>2, <3>3, <3>4 DEF WorkerMoves
  <2>3. QED BY <1>1, <1>4, <2>1, <2>2 DEF WorkerTypes
<1>8. GentleOnWork(a) /\ (Running(a, "launch") => UNCHANGED svnVars)
  <2>1. CASE UNCHANGED svnVars
      BY <2>1, SameIsGentle
  <2>2. CASE OnChangesReady(a) /\ ~UNCHANGED svnVars
    <3> DEFINE f == worker[a]["vcs_check"].task
    <3>1. f \in Files /\ Emitted(a, "vcs_check") /\ ~Running(a, "launch")
        BY <1>1, <2>2, WorkerTask, DistinctKeys
           DEF OnChangesReady, Emitted, DisciplineInv, Kept, Alone, Open, IsRunning, Running
    <3>2. UnlockDone(a, f, FALSE) \/ UnlockFailed(a, f, FALSE)
        BY <2>2 DEF OnChangesReady
    <3>3. Mine(a) = {}
        BY <2>2 DEF OnChangesReady, NothingLeft, DisciplineInv, Kept, Covered
    <3>4. token[WcOf[a]][f] = SvnUser[a] => local[WcOf[a]][f] = "clean"
        BY <3>1, <3>3 DEF Mine
    <3>5. QED BY <3>1, <3>2, <3>4, UnlockIsGentle
  <2>3. CASE OnPublishFinished(a) /\ ~UNCHANGED svnVars
    <3> DEFINE f == worker[a]["vcs_publish"].task
    <3>1. f \in Files /\ Emitted(a, "vcs_publish") /\ ~Running(a, "launch")
        BY <1>1, <2>3, WorkerTask, DistinctKeys
           DEF OnPublishFinished, Emitted, DisciplineInv, Kept, Alone, Open, IsRunning, Running
    <3>2. UnlockDone(a, f, FALSE) \/ UnlockFailed(a, f, FALSE)
        BY <2>3 DEF OnPublishFinished
    <3>3. Mine(a) = {}
        BY <2>3 DEF OnPublishFinished, DisciplineInv, Kept, Covered
    <3>4. token[WcOf[a]][f] = SvnUser[a] => local[WcOf[a]][f] = "clean"
        BY <3>1, <3>3 DEF Mine
    <3>5. QED BY <3>1, <3>2, <3>4, UnlockIsGentle
  <2>4. QED BY <2>1, <2>2, <2>3
        DEF SlotStep, OnLaunchFinished, OnScanError, OnUpdateFinished, OnResolved, OnTaskLocksReady
<1>9. QED BY <1>2, <1>3, <1>5, <1>6, <1>7, <1>8, SameIsGentle, StepKeeps DEF UiFree

\* Leaving the Hub and "Release my lock", which needs a clean file here.
LEMMA LeaveAndReleaseKeep ==
    ASSUME TypeOK, Discipline, DisciplineInv, TokensLive', NEW a \in Artists,
           CloseHub(a) \/ Crash(a) \/ \E f \in Files : ReleaseTaskLock(a, f)
    PROVE  DisciplineInv'
<1>1. SvnTypeOK /\ WorkerTypes /\ UiTypes
    BY TypeParts
<1>2. CASE Forget(a) /\ UNCHANGED svnVars
  <2>1. OthersIdle(a) /\ ended'[a] = 0 /\ ui'[a].step = "idle" /\ WorkerMoves(a)
      BY <1>1, <1>2 DEF Forget, OthersIdle, WorkerMoves, WorkerTypes, UiTypes, NoUi, Idle
  <2>2. QED BY <1>2, <2>1, SameIsGentle, StepKeeps
<1>3. ASSUME NEW f \in Files, ReleaseTaskLock(a, f) PROVE DisciplineInv'
  <2>1. /\ UiFree(a) /\ ~Open(a) /\ local[WcOf[a]][f] = "clean" /\ OwnWorkspaces
        /\ UNCHANGED <<worker, ui, ended>>
      BY <1>3 DEF ReleaseTaskLock, Habit, Discipline, session
  <2>2. GentleOnWork(a)
      BY <1>3, <2>1, UnlockIsGentle DEF ReleaseTaskLock
  <2>3. OthersIdle(a) /\ WorkerMoves(a) /\ ended'[a] = 0 /\ ~Running(a, "launch")
      BY <2>1 DEF OthersIdle, WorkerMoves, DisciplineInv, Kept, Alone, Open, IsRunning, Running
  <2>4. QED BY <2>1, <2>2, <2>3, StepKeeps DEF UiFree
<1>4. QED BY <1>2, <1>3 DEF CloseHub, Crash

-----------------------------------------------------------------------------
(* Together.                                                               *)

LEMMA DisciplineInit == Init => DisciplineInv
<1> SUFFICES ASSUME Init PROVE DisciplineInv
    OBVIOUS
<1>1. WorkHeld
    BY DEF Init, SvnInit, WorkHeld, TokensLive, DirtyHeld, HeldCurrent
<1>2. ASSUME NEW a \in Artists PROVE Kept(a)
  <2>1. \A k \in Keys : worker[a][k].st = "idle"
      BY DEF Init, Idle
  <2>2. ui[a].step = "idle" /\ ended[a] = 0
      BY DEF Init, NoUi
  <2>3. QED BY <2>1, <2>2, DistinctKeys
            DEF Kept, SessionHeld, Alone, Covered, Running, Emitted, IsRunning, Open, UiFree
<1>3. QED BY <1>1, <1>2 DEF DisciplineInv

LEMMA DisciplineStep ==
    ASSUME TypeOK, Discipline, DisciplineInv, [Next]_vars
    PROVE  DisciplineInv'
<1>1. CASE UNCHANGED vars
  <2>1. UNCHANGED <<svnVars, worker, ui, ended>>
      BY <1>1 DEF vars, hubVars
  <2>2. WorkHeld'
      BY <2>1 DEF DisciplineInv, WorkHeld, TokensLive, Live, DirtyHeld, HeldCurrent, svnVars
  <2>3. ASSUME NEW a \in Artists PROVE Kept(a)'
      BY <2>1 DEF DisciplineInv, Kept, SessionHeld, Alone, Covered, Running, Emitted, IsRunning,
                  Open, UiFree, Mine, svnVars
  <2>4. QED BY <2>2, <2>3 DEF DisciplineInv
<1>2. ASSUME NEW a \in Artists, UserStep(a) PROVE DisciplineInv'
  <2>1. TokensLive'
      BY <1>2, UserStepTokens DEF DisciplineInv, WorkHeld
  <2>2. ~DccCommit(a)
      BY DEF DccCommit, Habit, Discipline
  <2>3. QED BY <1>2, <2>1, <2>2, LaunchProbeKeeps, StartersKeep, LeaveAndReleaseKeep, DccSaveKeeps,
               DccCloseKeeps
            DEF UserStep
<1>3. ASSUME NEW a \in Artists, LaunchStep(a) \/ WorkerStep(a) \/ SlotStep(a) \/ Crash(a)
      PROVE  DisciplineInv'
  <2>1. TokensLive'
      BY <1>3, HubStepTokens DEF DisciplineInv, WorkHeld, Discipline
  <2>2. QED BY <1>3, <2>1, LaunchStepKeeps, WorkersKeep, SlotsKeep, LeaveAndReleaseKeep
<1>4. ASSUME NEW f \in Files PROVE ~AdminBreak(f)
    BY DEF AdminBreak, Fault, Discipline
<1>5. QED BY <1>1, <1>2, <1>3, <1>4 DEF Next

LEMMA DisciplineIsKept ==
    ASSUME Discipline
    PROVE  Spec => [](TypeOK /\ DisciplineInv)
<1>1. TypeOK /\ DisciplineInv /\ [Next]_vars => DisciplineInv'
    BY DisciplineStep
<1>2. QED BY <1>1, DisciplineInit, TypeCorrect, PTL DEF Spec

\* Under the discipline an open DCC has the server's lock on its file, for
\* this account and from this working copy: neither a publish, nor the scan at
\* the end of a session, nor a colleague gives the lock away behind it.
THEOREM SessionsKeepTheirLock ==
    ASSUME Discipline
    PROVE  Spec => []SessionHoldsLock
<1>1. TypeOK /\ DisciplineInv => SessionHoldsLock
  <2> SUFFICES ASSUME TypeOK, DisciplineInv, NEW a \in Artists, NEW f \in Files, InSession(a, f)
               PROVE  slock[f] = <<SvnUser[a], WcOf[a]>>
      BY DEF SessionHoldsLock
  <2>1. token[WcOf[a]][f] = SvnUser[a]
      BY DEF DisciplineInv, Kept, SessionHeld, InSession
  <2>2. QED BY <2>1, Accounts, NoneFresh DEF DisciplineInv, WorkHeld, TokensLive, Live
<1>2. QED BY <1>1, DisciplineIsKept, PTL

\* One task file is open in one DCC at a time, whoever the artists are.
THEOREM OneSessionAtATime ==
    ASSUME Discipline
    PROVE  Spec => []OneSessionPerFile
<1>1. SessionHoldsLock => OneSessionPerFile
    BY DEF SessionHoldsLock, OneSessionPerFile, Discipline
<1>2. QED BY <1>1, SessionsKeepTheirLock, PTL

\* Work that is not published keeps its lock on the server, through crashes,
\* failed publishes and the closing of the Hub.
THEOREM UnpublishedWorkIsLocked ==
    ASSUME Discipline
    PROVE  Spec => []DirtyKeepsLock
<1>1. TypeOK /\ DisciplineInv => DirtyKeepsLock
    BY DEF DisciplineInv, WorkHeld, DirtyHeld, TokensLive, DirtyKeepsLock
<1>2. QED BY <1>1, DisciplineIsKept, PTL

\* No two working copies have unpublished work on one file, which nobody could
\* merge.
THEOREM WorkNeverDiverges ==
    ASSUME Discipline
    PROVE  Spec => []NoDivergentWork
<1>1. TypeOK /\ DisciplineInv => NoDivergentWork
  <2> SUFFICES ASSUME TypeOK, DisciplineInv, NEW v \in WCs, NEW w \in WCs, NEW f \in Files,
                      local[v][f] # "clean", local[w][f] # "clean"
               PROVE  v = w
      BY DEF NoDivergentWork
  <2>1. /\ slock[f] = <<token[v][f], v>> /\ slock[f] = <<token[w][f], w>>
      BY DEF DisciplineInv, WorkHeld, DirtyHeld, TokensLive, Live
  <2>2. QED BY <2>1
<1>2. QED BY <1>1, DisciplineIsKept, PTL

-----------------------------------------------------------------------------
(* "Release my lock", whatever else people do: in a working copy that one  *)
(* artist uses there are only tokens of that artist.                       *)

OwnTokens == \A a \in Artists, f \in Files : token[WcOf[a]][f] \in {None, SvnUser[a]}

TokensOnlyGo == \A w \in WCs, f \in Files : token'[w][f] \in {None, token[w][f]}

LEMMA SvnTakesNoToken ==
    ASSUME SvnTypeOK, NEW u \in Users, NEW w \in WCs, NEW f \in Files, NEW force \in BOOLEAN,
           NEW S \in SUBSET Files,
           \/ UNCHANGED svnVars \/ SvnUnlock(u, w, f, force) \/ SvnUpdate(w)
           \/ SvnCommit(u, w, S) \/ SvnCommitKilled(u, w, S)
    PROVE  TokensOnlyGo
<1>1. CASE UNCHANGED token
    BY <1>1 DEF TokensOnlyGo
<1>2. CASE token' = [token EXCEPT ![w][f] = None]
    BY <1>2 DEF SvnTypeOK, TokensOnlyGo
<1>3. CASE SvnUpdate(w)
  <2>1. \A v \in WCs, g \in Files : token'[v][g] \in {None, token[v][g]}
      BY <1>3 DEF SvnUpdate, SvnTypeOK
  <2>2. QED BY <2>1 DEF TokensOnlyGo
<1>4. CASE CommitInWC(u, w, S)
  <2>1. \A v \in WCs, g \in Files : token'[v][g] \in {None, token[v][g]}
      BY <1>4 DEF CommitInWC, SvnTypeOK
  <2>2. QED BY <2>1 DEF TokensOnlyGo
<1>5. QED BY <1>1, <1>2, <1>3, <1>4 DEF SvnUnlock, SvnCommit, SvnCommitKilled, svnVars

LEMMA UserStepTakesNoToken ==
    ASSUME TypeOK, NEW a \in Artists, UserStep(a)
    PROVE  TokensOnlyGo
<1>1. SvnTypeOK
    BY TypeParts
<1>2. CASE UNCHANGED token
    BY <1>2 DEF TokensOnlyGo
<1>3. CASE \E f \in Files : ReleaseTaskLock(a, f)
    BY <1>1, <1>3, Accounts, SvnTakesNoToken DEF ReleaseTaskLock, UnlockDone, UnlockFailed
<1>4. CASE DccCommit(a)
    BY <1>1, <1>4, Accounts, TaskLockAssumption, SvnTakesNoToken DEF DccCommit
<1>5. QED BY <1>2, <1>3, <1>4
          DEF UserStep, LaunchProbe, CheckChanges, PublishStart, ResolveStart, UpdateStart,
              RefreshLocks, CloseHub, DccSave, DccClose, svnVars

LEMMA HubStepTakesNoToken ==
    ASSUME TypeOK, NEW a \in Artists,
           LaunchStep(a) \/ WorkerStep(a) \/ SlotStep(a) \/ Crash(a), ~LaunchLock(a)
    PROVE  TokensOnlyGo
<1>1. SvnTypeOK /\ WorkerTypes
    BY TypeParts
<1>2. CASE UNCHANGED token
    BY <1>2 DEF TokensOnlyGo
<1>3. CASE OnChangesReady(a)
  <2>1. worker[a]["vcs_check"].task \in Files
      BY <1>1, <1>3, WorkerTask, DistinctKeys DEF OnChangesReady, Emitted
  <2>2. QED BY <1>1, <1>3, <2>1, Accounts, SvnTakesNoToken
            DEF OnChangesReady, UnlockDone, UnlockFailed
<1>4. CASE OnPublishFinished(a)
  <2>1. worker[a]["vcs_publish"].task \in Files
      BY <1>1, <1>4, WorkerTask, DistinctKeys DEF OnPublishFinished, Emitted
  <2>2. QED BY <1>1, <1>4, <2>1, Accounts, SvnTakesNoToken
            DEF OnPublishFinished, UnlockDone, UnlockFailed
<1>5. CASE Publish(a)
  <2>1. worker[a]["vcs_publish"].paths \in SUBSET Files
      BY <1>1, <1>5, WorkerTask, DistinctKeys DEF Publish, Running
  <2>2. QED BY <1>1, <1>5, <2>1, Accounts, TaskLockAssumption, SvnTakesNoToken DEF Publish
<1>6. CASE Update(a)
    BY <1>1, <1>6, Accounts, TaskLockAssumption, SvnTakesNoToken DEF Update
<1>7. QED BY <1>2, <1>3, <1>4, <1>5, <1>6
          DEF LaunchStep, LaunchRefused, LaunchAbandoned, LaunchDelegate, WorkerStep, Scan, Resolve,
              SvnResolve, ReadLocks, SlotStep, OnLaunchFinished, OnScanError, OnUpdateFinished,
              OnResolved, OnTaskLocksReady, Crash, svnVars

LEMMA OwnTokensStep ==
    ASSUME OwnWorkspaces, TypeOK, OwnTokens, [Next]_vars
    PROVE  OwnTokens'
<1>1. CASE TokensOnlyGo
    BY <1>1, Accounts DEF OwnTokens, TokensOnlyGo
<1>2. CASE UNCHANGED vars
    BY <1>2 DEF OwnTokens, vars, svnVars
<1>3. ASSUME NEW a \in Artists, LaunchLock(a) PROVE OwnTokens'
  <2>1. SvnTypeOK /\ ui[a].task \in Files
      BY <1>3, TypeParts, UiTask DEF LaunchLock
  <2>2. \A w \in WCs, f \in Files :
            token'[w][f] = IF w = WcOf[a] /\ f = ui[a].task THEN SvnUser[a] ELSE token[w][f]
      BY <1>3, <2>1, Accounts DEF LaunchLock, SvnLock, SvnTypeOK
  <2>3. QED BY <2>2, Accounts DEF OwnTokens, OwnWorkspaces
<1>4. ASSUME NEW f \in Files, AdminBreak(f) PROVE TokensOnlyGo
    BY <1>4 DEF AdminBreak, SvnRmLock, TokensOnlyGo
<1>5. QED BY <1>1, <1>2, <1>3, <1>4, UserStepTakesNoToken, HubStepTakesNoToken DEF Next

\* The forced unlock behind "Release my lock" goes by a card that may be out of
\* date; it removes the lock of the artist who asks or none.
THEOREM ReleaseIsOnesOwn ==
    ASSUME OwnWorkspaces, Faults \cap {"adminBreak", "commitKilled"} = {}
    PROVE  Spec => ReleaseTakesOnlyMine
<1>1. Init => OwnTokens
    BY Accounts DEF Init, SvnInit, OwnTokens
<1>2. TypeOK /\ OwnTokens /\ [Next]_vars => OwnTokens'
    BY OwnTokensStep
<1>3. TypeOK /\ TokensLive /\ OwnTokens =>
          \A a \in Artists, f \in Files :
              ReleaseTaskLock(a, f) /\ slock'[f] # slock[f] => slock[f] = <<SvnUser[a], WcOf[a]>>
  <2> SUFFICES ASSUME TypeOK, TokensLive, OwnTokens, NEW a \in Artists, NEW f \in Files,
                      ReleaseTaskLock(a, f), slock'[f] # slock[f]
               PROVE  slock[f] = <<SvnUser[a], WcOf[a]>>
      OBVIOUS
  <2>1. token[WcOf[a]][f] # None
      BY DEF ReleaseTaskLock, UnlockDone, UnlockFailed, SvnUnlock, UnlockSkipped, LockInfo, svnVars
  <2>2. QED BY <2>1, Accounts DEF TokensLive, Live, OwnTokens
<1>4. QED BY <1>1, <1>2, <1>3, TypeCorrect, TokensHonoured, PTL DEF Spec, ReleaseTakesOnlyMine
=============================================================================
