-------------------------- MODULE ProjectCreation --------------------------
(***************************************************************************)
(* The project creation saga of the Hub (ProjectCreationService), driven   *)
(* by the creation dialog and its error dialog (Retry / Delete created     *)
(* data / close), for several Hubs that create a project of ONE name: the  *)
(* name fixes the Kitsu project, the repository of the server and the      *)
(* workspace folder.  Every step talks to a service that can fail, and the *)
(* saga keeps what it has done only in the memory of the Hub.              *)
(***************************************************************************)
EXTENDS Naturals, FiniteSets

CONSTANTS
    Hubs,       \* Hubs whose Technical Director creates the project
    Outside,    \* the maker of whatever no running creation has made
    None,       \* no project, no repository, no folder
    Roots,      \* workspace roots (local disks or NAS shares)
    Root,       \* the workspace root each Hub is configured with
    Ids,        \* Kitsu project ids and repository uuids
    Faults      \* the faults of this instance

ASSUME CreationAssumption ==
    /\ None \notin Hubs \cup {Outside} \cup Ids
    /\ Outside \notin Hubs
    /\ Root \in [Hubs -> Roots]
    /\ Faults \subseteq {"kitsuDown", "kitsuLost", "diskFull", "nasBusy",
                         "svnDown", "repoPartial", "commitLost", "crash"}

VARIABLES
    kitsu,      \* the Kitsu project of that name: its id and its maker
    repo,       \* the repository of that name on the VCS server
    folder,     \* the project folder under each workspace root
    ctx,        \* CreationContext of each Hub's current creation
    at,         \* where each Hub's dialog and worker are
    razed       \* history: Hubs that another Hub's rollback took something from

world == <<kitsu, repo, folder>>
vars == <<kitsu, repo, folder, ctx, at, razed>>

-----------------------------------------------------------------------------
(* The saga's steps, in the order _run lists them.                          *)
Steps == {"preflight_kitsu", "preflight_vcs", "kitsu", "scaffold",
          "manifests", "splash", "vfs_patch", "vcs"}

\* (a slip of it: the manifests are written before Kitsu has the project)
ManifestsBeforeKitsu ==
    [s \in Steps |->
        CASE s = "preflight_kitsu" -> {}
          [] s = "preflight_vcs" -> {"preflight_kitsu"}
          [] s = "manifests" -> {"preflight_kitsu", "preflight_vcs"}
          [] s = "kitsu" -> {"preflight_kitsu", "preflight_vcs", "manifests"}
          [] s = "scaffold" -> {"preflight_kitsu", "preflight_vcs", "kitsu"}
          [] s = "splash" -> Steps \ {"splash", "vfs_patch", "vcs"}
          [] s = "vfs_patch" -> Steps \ {"vfs_patch", "vcs"}
          [] s = "vcs" -> Steps \ {"vcs"}]

Before ==
    [s \in Steps |->
        CASE s = "preflight_kitsu" -> {}
          [] s = "preflight_vcs" -> {"preflight_kitsu"}
          [] s = "kitsu" -> {"preflight_kitsu", "preflight_vcs"}
          [] s = "scaffold" -> {"preflight_kitsu", "preflight_vcs", "kitsu"}
          [] s = "manifests" -> {"preflight_kitsu", "preflight_vcs", "kitsu",
                                 "scaffold"}
          [] s = "splash" -> {"preflight_kitsu", "preflight_vcs", "kitsu",
                              "scaffold", "manifests"}
          [] s = "vfs_patch" -> Steps \ {"vfs_patch", "vcs"}
          [] s = "vcs" -> Steps \ {"vcs"}]

\* (a slip of it: the Kitsu project does not count as data)
KitsuIsNoData == Steps \ {"preflight_kitsu", "preflight_vcs", "kitsu"}

SideEffectSteps == Steps \ {"preflight_kitsu", "preflight_vcs"}

Makers == Hubs \cup {Outside}
NoProject == [id |-> None, by |-> Outside]
NoRepo == [id |-> None, by |-> Outside, ready |-> FALSE, base |-> None]
NoFolder == [by |-> None, tree |-> FALSE, manifest |-> None,
             wc |-> None, conflict |-> FALSE]
Fresh == [vcs |-> TRUE, kid |-> None, done |-> {}, ok |-> TRUE]

Idle == {"form", "deleted", "not_deleted"}
Running == {"running", "pull", "commit"}
RollingBack == {"rb_kitsu", "rb_repo", "rb_folder"}

\* The type of the state.
TypeOK ==
    /\ kitsu \in [id : Ids \cup {None}, by : Makers]
    /\ repo \in [id : Ids \cup {None}, by : Makers, ready : BOOLEAN,
                 base : Makers \cup {None}]
    /\ folder \in [Roots -> [by : Makers \cup {None}, tree : BOOLEAN,
                             manifest : Ids \cup {None}, wc : Ids \cup {None},
                             conflict : BOOLEAN]]
    /\ ctx \in [Hubs -> [vcs : BOOLEAN, kid : Ids \cup {None},
                         done : SUBSET Steps, ok : BOOLEAN]]
    /\ at \in [Hubs -> Idle \cup Running \cup RollingBack
                        \cup {"failed", "created"}]
    /\ razed \in SUBSET Hubs

\* The id of what is made next: one that is not in use, whichever that is.
NewId(used) ==
    LET free == Ids \ used IN {CHOOSE id \in free : TRUE} \cap free

\* The name may be taken already: a project of the studio whose folder is on
\* other machines, a repository left on the server by an earlier creation.
Init ==
    /\ kitsu \in {NoProject} \cup [id : NewId({}), by : {Outside}]
    /\ repo \in {NoRepo} \cup [id : NewId({}), by : {Outside},
                              ready : {TRUE}, base : {Outside}]
    /\ folder = [r \in Roots |-> NoFolder]
    /\ ctx = [h \in Hubs |-> Fresh]
    /\ at = [h \in Hubs |-> "form"]
    /\ razed = {}

-----------------------------------------------------------------------------
(* What the steps are written with.                                         *)
Here(h) == folder[Root[h]]
Exists(h) == Here(h).by # None
ProjectIds == {kitsu.id} \cup {ctx[h].kid : h \in Hubs}
                \cup {folder[r].manifest : r \in Roots}
RepoIds == {repo.id} \cup {folder[r].wc : r \in Roots}

\* Writing under the project folder makes it when it is not there.
Written(h) == IF Exists(h) THEN Here(h) ELSE [NoFolder EXCEPT !.by = h]

\* The loop of _run reaches step s: the steps before it are done (or, for the
\* VCS probe of a project without VCS, not asked for) and s is not.
Due(h, s) ==
    /\ at[h] = "running"
    /\ s \notin ctx[h].done
    /\ s = "preflight_vcs" => ctx[h].vcs
    /\ Before[s] \subseteq
        ctx[h].done \cup (IF ctx[h].vcs THEN {} ELSE {"preflight_vcs"})

\* mark_done, and the loop goes on.
Pass(h, s) ==
    /\ ctx' = [ctx EXCEPT ![h].done = @ \cup {s}]
    /\ at' = [at EXCEPT ![h] = "running"]

\* StageError, or any exception: _failure_outcome, shown in the error dialog.
Fail(h) ==
    /\ at' = [at EXCEPT ![h] = "failed"]
    /\ ctx' = ctx

HasSideEffects(h) == ctx[h].done \cap SideEffectSteps # {}
CanRollback(h) == HasSideEffects(h) /\ (ctx[h].kid # None \/ Exists(h))

Goes(f) == f \in Faults

\* The creation is over for its Hub: no button reaches its context any more.
Over(h, dialog) ==
    /\ at' = [at EXCEPT ![h] = dialog]
    /\ ctx' = [ctx EXCEPT ![h] = Fresh]

\* A new creation starts: what an earlier one of this Hub made is now
\* somebody else's.
Disowned(x, h) == IF x.by = h THEN [x EXCEPT !.by = Outside] ELSE x
-----------------------------------------------------------------------------
(* The creation dialog.                                                     *)

\* Generate Project: create_project builds a context when the folder is free.
CreateProject(h) ==
    /\ at[h] \in Idle
    /\ ~Exists(h)
    /\ \E v \in BOOLEAN : ctx' = [ctx EXCEPT ![h] = [Fresh EXCEPT !.vcs = v]]
    /\ at' = [at EXCEPT ![h] = "running"]
    /\ kitsu' = Disowned(kitsu, h)
    /\ repo' = Disowned(repo, h)
    /\ folder' = [r \in Roots |-> Disowned(folder[r], h)]
    /\ razed' = razed

\* "Folder ... already exists on the NAS": nothing is started.
CreationRefused(h) ==
    /\ at[h] \in Idle \cup {"created"}
    /\ Exists(h)
    /\ UNCHANGED vars

\* Retry resumes the recorded context (can_retry of every StageError).
Retry(h) ==
    /\ at[h] = "failed"
    /\ at' = [at EXCEPT ![h] = "running"]
    /\ UNCHANGED <<world, ctx, razed>>

\* Closing the error dialog: its action stays BACK, the form is offered again
\* and the context is out of reach of every button.
Back(h) ==
    /\ at[h] = "failed"
    /\ Over(h, "form")
    /\ razed' = razed \ {h}
    /\ UNCHANGED world

\* The Hub dies: the context was only in its memory.
Crash(h) ==
    /\ Goes("crash")
    /\ at[h] \notin Idle \cup {"created"}
    /\ Over(h, "form")
    /\ razed' = razed \ {h}
    /\ UNCHANGED world

-----------------------------------------------------------------------------
(* The steps of the saga.                                                   *)
PreflightKitsu(h) ==
    /\ Due(h, "preflight_kitsu")
    /\ Pass(h, "preflight_kitsu") \/ (Goes("kitsuDown") /\ Fail(h))
    /\ UNCHANGED <<world, razed>>

PreflightVcs(h) ==
    /\ Due(h, "preflight_vcs")
    /\ Pass(h, "preflight_vcs") \/ (Goes("svnDown") /\ Fail(h))
    /\ UNCHANGED <<world, razed>>

\* (a slip of it: the answer of Kitsu is kept instead of its id)
AnswerKept(h, id) ==
    /\ ctx' = [ctx EXCEPT ![h].kid = [id |-> id], ![h].done = @ \cup {"kitsu"}]
    /\ at' = at

\* The project of the context: its id goes to the context and the blueprint.
KitsuReady(h, id) ==
    /\ ctx' = [ctx EXCEPT ![h].kid = id, ![h].done = @ \cup {"kitsu"}]
    /\ at' = at

\* create_project_from_template; when that fails (the name is taken, or the
\* call failed), a project found under the name is used instead.
StepKitsu(h) ==
    /\ Due(h, "kitsu")
    /\ UNCHANGED <<repo, folder, razed>>
    /\ \/ /\ kitsu.id = None
          /\ \E id \in NewId(ProjectIds) :
                /\ kitsu' = [id |-> id, by |-> h]
                /\ KitsuReady(h, id)
       \/ /\ kitsu.id # None
          /\ kitsu' = kitsu
          /\ KitsuReady(h, kitsu.id)
       \/ /\ Goes("kitsuDown")
          /\ kitsu' = kitsu
          /\ Fail(h)
       \/ \* Kitsu makes it, the answer is lost and so is the look-up
          /\ Goes("kitsuLost")
          /\ kitsu.id = None
          /\ \E id \in NewId(ProjectIds) : kitsu' = [id |-> id, by |-> h]
          /\ Fail(h)

\* build_directories: the tree, or as much of it as could be made.
StepScaffold(h) ==
    /\ Due(h, "scaffold")
    /\ UNCHANGED <<kitsu, repo, razed>>
    /\ \/ /\ folder' = [folder EXCEPT ![Root[h]] =
                            [Written(h) EXCEPT !.tree = TRUE]]
          /\ Pass(h, "scaffold")
       \/ /\ Goes("diskFull")
          /\ folder' \in {folder, [folder EXCEPT ![Root[h]] = Written(h)]}
          /\ Fail(h)

\* write_manifests: project_init.json, emptied before it is written.
StepManifests(h) ==
    /\ Due(h, "manifests")
    /\ UNCHANGED <<kitsu, repo, razed>>
    /\ \/ /\ folder' = [folder EXCEPT ![Root[h]] =
                            [Written(h) EXCEPT !.manifest = ctx[h].kid]]
          /\ Pass(h, "manifests")
       \/ /\ Goes("diskFull")
          /\ folder' \in {folder, [folder EXCEPT ![Root[h]] =
                                    [Written(h) EXCEPT !.manifest = None]]}
          /\ Fail(h)

\* The splash picture is copied into the pipeline folder, when there is one.
StepSplash(h) ==
    /\ Due(h, "splash")
    /\ UNCHANGED <<world, razed>>
    /\ \/ Pass(h, "splash")
       \/ (Goes("diskFull") \/ ~Here(h).tree) /\ Fail(h)

StepVfsPatch(h) ==
    /\ Due(h, "vfs_patch")
    /\ UNCHANGED <<kitsu, repo, razed>>
    /\ \/ /\ folder' = [folder EXCEPT ![Root[h]] = Written(h)]
          /\ Pass(h, "vfs_patch")
       \/ /\ Goes("diskFull")
          /\ folder' \in {folder, [folder EXCEPT ![Root[h]] = Written(h)]}
          /\ Fail(h)
\* The VCS step: nothing to do for a project without VCS.
SkipVcs(h) ==
    /\ Due(h, "vcs")
    /\ ~ctx[h].vcs
    /\ Pass(h, "vcs")
    /\ UNCHANGED <<world, razed>>

\* probe_health, then create_server_repository: an existing repository is
\* taken as it is; a creation that breaks off leaves one that is not set up.
CreateRepository(h) ==
    /\ Due(h, "vcs")
    /\ ctx[h].vcs
    /\ UNCHANGED <<kitsu, folder, razed>>
    /\ \/ /\ repo' = repo
          /\ repo.id # None
          /\ at' = [at EXCEPT ![h] = "pull"]
          /\ ctx' = ctx
       \/ /\ repo.id = None
          /\ \E id \in NewId(RepoIds) :
                repo' = [id |-> id, by |-> h, ready |-> TRUE, base |-> None]
          /\ at' = [at EXCEPT ![h] = "pull"]
          /\ ctx' = ctx
       \/ /\ Goes("svnDown")
          /\ repo' = repo
          /\ Fail(h)
       \/ /\ Goes("repoPartial")
          /\ repo.id = None
          /\ \E id \in NewId(RepoIds) :
                repo' = [id |-> id, by |-> h, ready |-> FALSE, base |-> None]
          /\ Fail(h)

\* full_pull and _assert_no_conflicts: a first pull checks out over the tree
\* of the scaffold, a later one updates.  Both need the repository's folder;
\* what the repository already holds conflicts with the tree.
Pull(h) ==
    /\ at[h] = "pull"
    /\ UNCHANGED <<kitsu, repo, razed>>
    /\ LET there == repo.ready /\ Here(h).wc \in {None, repo.id}
           clash == Here(h).conflict \/ repo.base # None
       IN  \/ /\ there
              /\ folder' = [folder EXCEPT ![Root[h]] =
                    [Written(h) EXCEPT !.wc = repo.id, !.conflict = clash]]
              /\ IF clash
                 THEN Fail(h)
                 ELSE at' = [at EXCEPT ![h] = "commit"] /\ ctx' = ctx
           \/ /\ Goes("svnDown") \/ ~there
              /\ folder' = folder
              /\ Fail(h)

\* The commit is accepted: the repository is still the one checked out and
\* nobody has committed the same folders before.
Accepted(h) == repo.ready /\ repo.id = Here(h).wc /\ repo.base = None

\* (a slip of it: the result of the commit is not looked at)
CommitUnchecked(h) ==
    /\ at[h] = "commit"
    /\ UNCHANGED <<kitsu, folder, razed>>
    /\ repo' = IF Accepted(h) THEN [repo EXCEPT !.base = h] ELSE repo
    /\ Pass(h, "vcs")

\* setup_ignore, add_all and the commit of the blueprint.
Commit(h) ==
    /\ at[h] = "commit"
    /\ UNCHANGED <<kitsu, folder, razed>>
    /\ \/ /\ Accepted(h)
          /\ repo' = [repo EXCEPT !.base = h]
          /\ Pass(h, "vcs")
       \/ /\ Goes("svnDown") \/ ~Accepted(h)
          /\ repo' = repo
          /\ Fail(h)
       \/ \* committed, and the answer is lost
          /\ Goes("commitLost")
          /\ Accepted(h)
          /\ repo' = [repo EXCEPT !.base = h]
          /\ Fail(h)

\* The steps a creation has to do.
Asked(h) == IF ctx[h].vcs THEN Steps ELSE Steps \ {"preflight_vcs"}

\* The loop of _run ends: a successful outcome, and the dialog closes.
Succeed(h) ==
    /\ at[h] = "running"
    /\ Asked(h) \subseteq ctx[h].done
    /\ at' = [at EXCEPT ![h] = "created"]
    /\ UNCHANGED <<world, ctx, razed>>

-----------------------------------------------------------------------------
(* Delete created data: rollback, whose parts go on when one fails.         *)
Rollback(h) ==
    /\ at[h] = "failed"
    /\ CanRollback(h)
    /\ at' = [at EXCEPT ![h] = "rb_kitsu"]
    /\ ctx' = [ctx EXCEPT ![h].ok = TRUE]
    /\ UNCHANGED <<world, razed>>

Reports(h, next, ok) ==
    /\ at' = [at EXCEPT ![h] = next]
    /\ ctx' = IF ok THEN ctx ELSE [ctx EXCEPT ![h].ok = FALSE]

\* Hubs other than h in the middle or at the end of a creation.
Others(h) == {g \in Hubs \ {h} : at[g] \notin Idle}

RollbackKitsu(h) ==
    /\ at[h] = "rb_kitsu"
    /\ UNCHANGED <<repo, folder>>
    /\ \/ /\ ctx[h].kid = None
          /\ Reports(h, "rb_repo", TRUE)
          /\ UNCHANGED <<kitsu, razed>>
       \/ /\ ctx[h].kid # None
          /\ ctx[h].kid = kitsu.id
          /\ kitsu' = NoProject
          /\ razed' = razed \cup {g \in Others(h) : ctx[g].kid = kitsu.id}
          /\ Reports(h, "rb_repo", TRUE)
       \/ /\ ctx[h].kid # None
          /\ Goes("kitsuDown") \/ ctx[h].kid # kitsu.id
          /\ Reports(h, "rb_repo", FALSE)
          /\ UNCHANGED <<kitsu, razed>>

\* (a slip of it: the repository is deleted only after a finished VCS step)
RollbackRepoIfDone(h) ==
    /\ at[h] = "rb_repo"
    /\ repo' = IF "vcs" \in ctx[h].done THEN NoRepo ELSE repo
    /\ Reports(h, "rb_folder", TRUE)
    /\ UNCHANGED <<kitsu, folder, razed>>

\* destroy_repository: whatever has the name, whenever VCS was asked for.
RollbackRepo(h) ==
    /\ at[h] = "rb_repo"
    /\ UNCHANGED <<kitsu, folder>>
    /\ \/ /\ ~ctx[h].vcs
          /\ Reports(h, "rb_folder", TRUE)
          /\ UNCHANGED <<repo, razed>>
       \/ /\ ctx[h].vcs
          /\ repo' = NoRepo
          /\ razed' = razed \cup {g \in Others(h) :
                                    repo.id # None /\ Here(g).wc = repo.id}
          /\ Reports(h, "rb_folder", TRUE)
       \/ /\ ctx[h].vcs
          /\ Goes("svnDown")
          /\ Reports(h, "rb_folder", FALSE)
          /\ UNCHANGED <<repo, razed>>

\* delete_project_folder: rmtree ignores its errors and reports success.
RollbackFolder(h) ==
    /\ at[h] = "rb_folder"
    /\ UNCHANGED <<kitsu, repo>>
    /\ \/ folder' = [folder EXCEPT ![Root[h]] = NoFolder]
       \/ /\ Goes("nasBusy")
          /\ Exists(h)
          /\ folder' = [folder EXCEPT ![Root[h]].tree = FALSE]
    /\ razed' = {g \in Others(h) : g \in razed \/ Root[g] = Root[h]}
    /\ Over(h, IF ctx[h].ok THEN "deleted" ELSE "not_deleted")

-----------------------------------------------------------------------------
Saga(h) ==
    \/ PreflightKitsu(h) \/ PreflightVcs(h) \/ StepKitsu(h) \/ StepScaffold(h)
    \/ StepManifests(h) \/ StepSplash(h) \/ StepVfsPatch(h) \/ SkipVcs(h)
    \/ CreateRepository(h) \/ Pull(h) \/ Commit(h) \/ Succeed(h)

Deletion(h) == RollbackKitsu(h) \/ RollbackRepo(h) \/ RollbackFolder(h)

Dialog(h) ==
    CreateProject(h) \/ CreationRefused(h) \/ Retry(h) \/ Back(h) \/ Rollback(h)

Next == \E h \in Hubs : Dialog(h) \/ Saga(h) \/ Deletion(h) \/ Crash(h)

Spec == Init /\ [][Next]_vars

-----------------------------------------------------------------------------
(* Properties.                                                              *)

\* What a successful outcome says, and goes on saying until another Hub's
\* rollback takes something away: the Kitsu project of the context exists, the
\* folder has its tree and a manifest that names this very project, and with
\* VCS the repository's first commit is this creation's and the working copy is
\* a clean one of that repository (_run returns success after its last step).
SuccessIsComplete ==
    \A h \in Hubs : (at[h] = "created" /\ h \notin razed) =>
        /\ ctx[h].kid # None /\ kitsu.id = ctx[h].kid
        /\ Here(h).tree /\ Here(h).manifest = ctx[h].kid
        /\ ctx[h].vcs =>
            /\ repo.ready /\ repo.base = h
            /\ Here(h).wc = repo.id /\ ~Here(h).conflict

\* Two creations never both succeed on one repository: however their steps
\* interleave, the second one fails on the first one's commit, even when a
\* rollback and a new repository come in between (initialize_and_commit).
OneWinner ==
    \A g, h \in Hubs :
        (/\ at[g] = "created" /\ at[h] = "created"
         /\ ctx[g].vcs /\ ctx[h].vcs /\ Here(g).wc = Here(h).wc) => g = h

\* A failed creation that offers no deletion has left nothing behind ("No
\* project data has been created yet", creation_error_dialog.py:67): no Kitsu
\* project, repository or folder of its making (has_side_effects, can_rollback).
FailureOwnsUp ==
    \A h \in Hubs : (at[h] = "failed" /\ ~CanRollback(h)) =>
        kitsu.by # h /\ repo.by # h /\ \A r \in Roots : folder[r].by # h

\* A rollback that reports success has left nothing that the creation made,
\* at whatever step it had failed and however often it was retried.
DeletedMeansGone ==
    \A h \in Hubs : at[h] = "deleted" =>
        kitsu.by # h /\ repo.by # h /\ \A r \in Roots : folder[r].by # h

\* "Delete everything created by the last failed project creation"
\* (new_project_viewmodel.py:155): a rollback deletes no Kitsu project and no
\* repository that this creation has not made.
DeletesOnlyItsOwn ==
    [][\A h \in Hubs :
        /\ (at[h] = "rb_kitsu" /\ at'[h] = "rb_repo" /\ kitsu' # kitsu) =>
                kitsu.by = h
        /\ (at[h] = "rb_repo" /\ at'[h] = "rb_folder" /\ repo' # repo) =>
                repo.by = h]_vars
=============================================================================
