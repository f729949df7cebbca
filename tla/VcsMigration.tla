---------------------------- MODULE VcsMigration ----------------------------
(***************************************************************************)
(* The migration of one project's repository from a VCS server to another  *)
(* (VCSMigrationService.migrate_project, the migration worker and the      *)
(* questions the project list asks when it ends): dump and load, the check *)
(* of the target, svn relocate of the working copy of the Technical        *)
(* Director and the new binding in the blueprint, while the studio goes on *)
(* committing from working copies that nobody relocates.                   *)
(***************************************************************************)
EXTENDS Naturals, Sequences, FiniteSets

CONSTANTS
    Servers,    \* the SVN servers of the registry
    Home,       \* the server the project is on at first
    Local,      \* the servers in local_docker mode
    Host,       \* the host name of each server
    TD,         \* the working copy of the Hub that migrates
    Artists,    \* the other working copies of the project
    MaxCommits, \* bound on the revisions ever committed
    Habits,     \* what people do: the answers to the questions, commits from a
                \* working copy whose server is no longer the project's, and
                \* migrations back to a server the project has left
    Faults      \* the faults of this instance

ASSUME MigrationAssumption ==
    /\ Home \in Servers /\ Local \subseteq Servers
    /\ TD \notin Artists
    /\ MaxCommits \in Nat \ {0}
    /\ Habits \subseteq {"deleteOld", "keepOld", "deleteTarget", "keepTarget",
                         "commitOrphan", "goBack"}
    /\ Faults \subseteq {"serverDown", "transferFails", "createFails",
                         "relocateFails", "relocateLost", "blueprintFails",
                         "destroyFails", "crash"}

VARIABLES
    repo,       \* the project's repository on each server: uuid and revisions
    wc,         \* the server each working copy points at
    bound,      \* vcs_server_id of the blueprint in the Hub's project folder
    m,          \* the migration of the Hub
    cancel,     \* the service's _cancel event
    commits,    \* history: number of revisions ever committed
    left,       \* history: the servers the project has been moved from
    late        \* history: revisions committed while a migration was running

migrationVars == <<repo, wc, bound, m, cancel, commits, left, late>>

-----------------------------------------------------------------------------
Committers == Artists \cup {TD}
Revs == 1..MaxCommits
Logs == UNION {[1..n -> Revs] : n \in 0..MaxCommits}

Running == {"starting", "inspect", "target", "create", "transfer", "load",
            "verify", "relocate", "record"}

NoRepo == [uuid |-> "none", log |-> <<>>]
NoMigration == [phase |-> "idle", source |-> Home, target |-> Home, seen |-> 0,
                dump |-> <<>>, held |-> {}, inTime |-> FALSE]

Holds(s) == {repo[s].log[i] : i \in DOMAIN repo[s].log}

\* The type of the state; a loaded repository has the project's uuid, one just
\* created has a uuid of its own.
MigrationTypeOK ==
    /\ repo \in [Servers -> [uuid : {"none", "new", "project"}, log : Logs]]
    /\ wc \in [Committers -> Servers]
    /\ bound \in Servers
    /\ m \in [phase : Running \cup {"idle", "succeeded", "failed"},
              source : Servers, target : Servers, seen : 0..MaxCommits,
              dump : Logs, held : SUBSET Revs, inTime : BOOLEAN]
    /\ cancel \in BOOLEAN
    /\ commits \in Revs
    /\ left \in SUBSET Servers
    /\ late \in SUBSET Revs

\* One revision, the initial commit of the blueprint.
MigrationInit ==
    /\ repo = [s \in Servers |->
                IF s = Home THEN [uuid |-> "project", log |-> <<1>>] ELSE NoRepo]
    /\ wc = [u \in Committers |-> Home]
    /\ bound = Home
    /\ m = NoMigration
    /\ cancel = FALSE
    /\ commits = 1
    /\ left = {}
    /\ late = {}

-----------------------------------------------------------------------------
Goes(f) == f \in Faults

To(phase) == m' = [m EXCEPT !.phase = phase]

\* A commit from a working copy: its server must still have this repository.
StudioCommits(u) ==
    /\ commits < MaxCommits
    /\ repo[wc[u]].uuid = "project"
    /\ wc[u] = bound \/ "commitOrphan" \in Habits
    /\ commits' = commits + 1
    /\ repo' = [repo EXCEPT ![wc[u]].log = Append(@, commits + 1)]
    /\ late' = IF m.phase = "idle" THEN late ELSE late \cup {commits + 1}
    /\ UNCHANGED <<wc, bound, m, cancel, left>>

\* Migrate VCS: the target is any other server of the registry.
StartMigration(t) ==
    /\ m.phase = "idle"
    /\ t # bound
    /\ t \notin left \/ "goBack" \in Habits
    /\ m' = [NoMigration EXCEPT !.phase = "starting", !.source = bound,
                                !.target = t, !.held = Holds(bound)]
    /\ UNCHANGED <<repo, wc, bound, cancel, commits, left, late>>

\* Cancel Migration in the progress dialog: sets the event and kills the
\* processes of a transfer.
Cancel ==
    /\ m.phase \in Running
    /\ ~cancel
    /\ cancel' = TRUE
    /\ m' = [m EXCEPT !.inTime =
                m.phase \in {"inspect", "target", "create", "transfer", "load"}]
    /\ UNCHANGED <<repo, wc, bound, commits, left, late>>

-----------------------------------------------------------------------------
(* migrate_project, statement by statement.                                 *)

\* (a slip of Begin: the URL is compared with the old server's host)
BeginBySource ==
    /\ m.phase = "starting"
    /\ cancel' = FALSE
    /\ To(IF m.target \notin Local /\ Host[wc[TD]] = Host[m.source]
          THEN "succeeded"
          ELSE "inspect")
    /\ UNCHANGED <<repo, wc, bound, commits, left, late>>

\* _reset, and the working copy that already points at the target's host.
Begin ==
    /\ m.phase = "starting"
    /\ cancel' = FALSE
    /\ To(IF m.target \notin Local /\ Host[wc[TD]] = Host[m.target]
          THEN "succeeded"
          ELSE "inspect")
    /\ UNCHANGED <<repo, wc, bound, commits, left, late>>

\* (a slip of InspectSource: revision 0 is counted)
InspectWithRevisionZero ==
    /\ m.phase = "inspect"
    /\ m' = [m EXCEPT !.phase = "target", !.seen = Len(repo[m.source].log) + 1]
    /\ UNCHANGED <<repo, wc, bound, cancel, commits, left, late>>

\* The number of revisions of the source.
InspectSource ==
    /\ m.phase = "inspect"
    /\ \/ /\ repo[m.source].uuid # "none"
          /\ m' = [m EXCEPT !.phase = "target", !.seen = Len(repo[m.source].log)]
       \/ /\ repo[m.source].uuid = "none" \/ Goes("serverDown")
          /\ To("failed")
    /\ UNCHANGED <<repo, wc, bound, cancel, commits, left, late>>

\* The target holds this very repository: the transfer of an earlier attempt.
AlreadyLoaded ==
    /\ Len(repo[m.target].log) = m.seen
    /\ repo[m.target].uuid = repo[m.source].uuid

\* The target must be absent, empty, or loaded already.
InspectTarget ==
    /\ m.phase = "target"
    /\ \/ /\ repo[m.target].uuid = "none"
          /\ To("create")
       \/ /\ repo[m.target].uuid # "none"
          /\ repo[m.target].log = <<>>
          /\ To(IF cancel THEN "failed" ELSE "transfer")
       \/ /\ repo[m.target].log # <<>>
          /\ AlreadyLoaded
          /\ To(IF cancel THEN "failed" ELSE "verify")
       \/ /\ repo[m.target].log # <<>> /\ ~AlreadyLoaded
          /\ To("failed")
       \/ /\ Goes("serverDown")
          /\ To("failed")
    /\ UNCHANGED <<repo, wc, bound, cancel, commits, left, late>>

CreateTarget ==
    /\ m.phase = "create"
    /\ \/ /\ repo' = [repo EXCEPT ![m.target] = [uuid |-> "new", log |-> <<>>]]
          /\ To(IF cancel THEN "failed" ELSE "transfer")
       \/ /\ Goes("createFails")
          /\ repo' \in {repo, [repo EXCEPT ![m.target] =
                                [uuid |-> "new", log |-> <<>>]]}
          /\ To("failed")
    /\ UNCHANGED <<wc, bound, cancel, commits, left, late>>
\* svnadmin dump reads the source up to the revision it finds when it starts.
StartTransfer ==
    /\ m.phase = "transfer"
    /\ m' = [m EXCEPT !.phase = "load", !.dump = repo[m.source].log]
    /\ UNCHANGED <<repo, wc, bound, cancel, commits, left, late>>

\* svnadmin load commits the next revision of the dump; the first one brings
\* the uuid along.
LoadRevision ==
    /\ m.phase = "load"
    /\ LET n == Len(repo[m.target].log) IN
        /\ n < Len(m.dump)
        /\ repo' = [repo EXCEPT ![m.target] =
                [uuid |-> "project", log |-> Append(@.log, m.dump[n + 1])]]
    /\ UNCHANGED <<wc, bound, m, cancel, commits, left, late>>

\* (a slip of EndTransfer: only the exit codes are looked at)
EndTransferByExitCode ==
    /\ m.phase = "load"
    /\ \/ Len(repo[m.target].log) = Len(m.dump) /\ To("verify")
       \/ (cancel \/ Goes("transferFails")) /\ To("failed")
    /\ UNCHANGED <<repo, wc, bound, cancel, commits, left, late>>

\* Both processes have ended: cancelled, failed, or the whole dump is loaded.
EndTransfer ==
    /\ m.phase = "load"
    /\ \/ /\ ~cancel
          /\ Len(repo[m.target].log) = Len(m.dump)
          /\ To("verify")
       \/ /\ cancel \/ Goes("transferFails")
          /\ To("failed")
    /\ UNCHANGED <<repo, wc, bound, cancel, commits, left, late>>

\* The target has as many revisions as the source had.
Verify ==
    /\ m.phase = "verify"
    /\ \/ /\ Len(repo[m.target].log) = m.seen
          /\ To("relocate")
       \/ /\ Len(repo[m.target].log) # m.seen \/ Goes("serverDown")
          /\ To("failed")
    /\ UNCHANGED <<repo, wc, bound, cancel, commits, left, late>>

\* svn relocate and the check of the new URL.
Relocate ==
    /\ m.phase = "relocate"
    /\ \/ /\ repo[m.target].uuid = "project"
          /\ wc' = [wc EXCEPT ![TD] = m.target]
          /\ To("record")
       \/ /\ Goes("relocateFails") \/ repo[m.target].uuid # "project"
          /\ wc' = wc
          /\ To("failed")
       \/ \* repointed, and the check of it fails
          /\ Goes("relocateLost")
          /\ wc' = [wc EXCEPT ![TD] = m.target]
          /\ To("failed")
    /\ UNCHANGED <<repo, bound, cancel, commits, left, late>>

\* _update_blueprint, whose errors are only printed.
Record ==
    /\ m.phase = "record"
    /\ bound' \in {m.target} \cup (IF Goes("blueprintFails") THEN {bound} ELSE {})
    /\ left' = IF bound' = bound THEN left ELSE left \cup {bound}
    /\ To("succeeded")
    /\ UNCHANGED <<repo, wc, cancel, commits, late>>

-----------------------------------------------------------------------------
(* The questions after it.                                                  *)

Destroyed(s) == repo' = [repo EXCEPT ![s] = NoRepo]

\* (a slip of AnswerTarget: the repository on the other server is deleted)
AnswerTargetOnSource ==
    /\ m.phase = "failed"
    /\ Destroyed(m.source)
    /\ m' = NoMigration
    /\ UNCHANGED <<wc, bound, cancel, commits, left, late>>

\* "Delete it, or keep it orphaned?", of the repository on the old server.
AnswerOld ==
    /\ m.phase = "succeeded"
    /\ \/ "deleteOld" \in Habits /\ Destroyed(m.source)
       \/ ("keepOld" \in Habits \/ Goes("destroyFails")) /\ repo' = repo
    /\ m' = NoMigration
    /\ UNCHANGED <<wc, bound, cancel, commits, left, late>>

\* "The target repository may be partially loaded.  Delete it now?"
AnswerTarget ==
    /\ m.phase = "failed"
    /\ \/ "deleteTarget" \in Habits /\ Destroyed(m.target)
       \/ ("keepTarget" \in Habits \/ Goes("destroyFails")) /\ repo' = repo
    /\ m' = NoMigration
    /\ UNCHANGED <<wc, bound, cancel, commits, left, late>>

\* The Hub dies in the middle; before the new binding is written, that is one
\* more way for the blueprint to miss it.
Crash ==
    /\ Goes("crash")
    /\ m.phase # "idle"
    /\ m.phase = "record" => Goes("blueprintFails")
    /\ m' = NoMigration
    /\ cancel' = FALSE
    /\ UNCHANGED <<repo, wc, bound, commits, left, late>>

Work ==
    \/ Begin \/ InspectSource \/ InspectTarget \/ CreateTarget \/ StartTransfer
    \/ LoadRevision \/ EndTransfer \/ Verify \/ Relocate \/ Record

MigrationNext ==
    \/ \E u \in Committers : StudioCommits(u)
    \/ \E t \in Servers : StartMigration(t)
    \/ Cancel \/ Work \/ AnswerOld \/ AnswerTarget \/ Crash

MigrationSpec == MigrationInit /\ [][MigrationNext]_migrationVars

-----------------------------------------------------------------------------
(* Properties.                                                              *)

\* "Migration ... preserves history" (deployment.md:76): a migration that
\* succeeds has left on the target every revision that the project's server
\* had when it was started, whatever an earlier attempt had left there; only
\* what was committed while a migration was running may be missing.
HistoryPreserved ==
    m.phase = "succeeded" => m.held \ late \subseteq Holds(m.target)

\* No answer to the questions destroys the last copy of a revision, except of
\* those committed while the migration was running: the old repository goes
\* only after its history is on the target, the target only while it is not
\* the project's repository.
CommitsSurvive ==
    \A c \in 1..commits : c \in late \/ \E s \in Servers : c \in Holds(s)

\* The working copy of the Hub always points at a server that has the
\* project's repository ("svn relocate ... uncommitted local changes are
\* kept", deployment.md:80): it is never left without one.
WorkingCopyServed == repo[wc[TD]].uuid = "project"

\* A cancellation that comes before the transfer has ended leaves the working
\* copy and the blueprint where they were (the _cancel checks).
CancelledNeverMoves ==
    m.inTime => m.phase \notin {"verify", "relocate", "record", "succeeded"}
=============================================================================
