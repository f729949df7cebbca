----------------------------- MODULE ServerRoom -----------------------------
(***************************************************************************)
(* The administration of the project repositories: RepositoryAdmin with    *)
(* its two strategies (a Docker container on this machine, a container     *)
(* reached over SSH), the SvnAdapter and the VCSMigrationService in front  *)
(* of it, and what calls them on a Hub: project creation, the deletion of  *)
(* a project, the clean-up of an old repository, the policy button, the    *)
(* lock table and the infrastructure panel.                                *)
(*                                                                         *)
(* An operation is a list of commands, run one at a time on the server;    *)
(* other Hubs, the artists' locks and the server's own outages come        *)
(* between two commands.  A command may fail, and over SSH its answer may  *)
(* be lost after it has run.  Nothing keeps one Hub from removing what     *)
(* another one is making: `overtaken` remembers where that has happened.   *)
(***************************************************************************)
EXTENDS Naturals, Sequences, FiniteSets

CONSTANTS
    Hubs,         \* the Hubs of those who administer
    Projects,
    TDs,          \* the Hubs whose user is a technical director
    Strangers,    \* the Hubs whose vault has no passphrase yet
    LockPaths,    \* paths that artists lock
    Lockers,
    Strategies,   \* which of "local" and "remote" are looked at
    MaxOrders,    \* bound: operations started
    MaxMishaps,   \* bound: failed commands, lost answers and server stops
    NoJob, NoTable, NobodyLocks

ASSUME RoomAssumption ==
    /\ Projects # {} /\ LockPaths # {} /\ TDs \subseteq Hubs
    /\ MaxOrders \in Nat /\ MaxMishaps \in Nat

VARIABLES
    strategy,     \* the server's mode
    serving,      \* the container: "up", "down", or "none" (never deployed)
    store,        \* project -> its repository on the server
    production,   \* project -> Kitsu has it
    folder,       \* project -> its folder is on the share
    passphrase,   \* Hub -> what its vault holds: "none", "right", "wrong"
    jobs,         \* Hub -> worker key -> the operation under way
    table,        \* Hub -> the lock dialog it shows
    overtaken,    \* history: the repositories that were removed under their
                  \* makers, until one is made with no other maker about
    orders, mishaps

roomVars == << strategy, serving, store, production, folder, passphrase, jobs,
               table, overtaken, orders, mishaps >>

Orders == {"create", "delete", "cleanup", "policy", "list", "break", "test"}

Absent == [there |-> FALSE, conf |-> FALSE, hook |-> FALSE, policy |-> FALSE,
           tree |-> FALSE, locks |-> [x \in LockPaths |-> NobodyLocks]]

Bare == [Absent EXCEPT !.there = TRUE]

Ready == [Bare EXCEPT !.conf = TRUE, !.hook = TRUE, !.policy = TRUE, !.tree = TRUE]

\* Only the removal of a lock is about a path, and a test is about no project.
AnyProject == CHOOSE p \in Projects : TRUE
AnyPath == CHOOSE x \in LockPaths : TRUE

RoomInit ==
    /\ strategy \in Strategies
    /\ serving = "up"
    /\ store = [p \in Projects |-> Ready]
    /\ production = [p \in Projects |-> TRUE]
    /\ folder = [p \in Projects |-> TRUE]
    /\ passphrase = [h \in Hubs |-> IF h \in Strangers THEN "none" ELSE "right"]
    /\ jobs = [h \in Hubs |-> [k \in Orders |-> NoJob]]
    /\ table = [h \in Hubs |-> NoTable]
    /\ overtaken = {}
    /\ orders = 0 /\ mishaps = 0

-----------------------------------------------------------------------------
(* The commands of an operation.                                           *)

\* The local strategy removes without looking, the remote one looks first.
Looks == strategy # "local"

Commands(op) ==
    CASE op \in {"create", "policy"} -> <<"probe">>
      [] op = "cleanup" -> IF Looks THEN <<"probe", "rm">> ELSE <<"rm">>
      [] op = "delete"  -> IF Looks THEN <<"kitsu", "probe", "rm", "folder">>
                                    ELSE <<"kitsu", "rm", "folder">>
      [] op = "list"    -> <<"lslocks">>
      [] op = "break"   -> <<"rmlocks">>
      [] op = "test"    -> <<"version">>

\* A bug: the tree is there before the policy and the hook are.
MadeReadyTreeFirst == <<"svnadmin", "conf", "mkdir", "policy", "hook">>

\* A repository is made ready from the inside out: what artists check out
\* comes last.
Provision == <<"svnadmin", "conf", "policy", "hook", "mkdir">>

\* An existing repository only gets its policy again.
Repolicy == <<"hook", "policy">>

\* Over SSH a command needs the key's passphrase; every command but those of
\* Kitsu and of the share needs the container.
Reached(h, c) ==
    c \in {"kitsu", "folder"} \/
    (serving = "up" /\ (strategy = "local" \/ passphrase[h] = "right"))

Possible(c, r) ==
    CASE c = "svnadmin" -> ~ r.there
      [] c \in {"conf", "hook", "policy", "lslocks", "rmlocks"} -> r.there
      [] c = "mkdir" -> r.there /\ ~ r.tree
      [] OTHER -> TRUE

Unlock(r, path) == [r EXCEPT !.locks[path] = NobodyLocks]

Effect(c, r, path) ==
    CASE c = "svnadmin" -> Bare
      [] c = "conf"     -> [r EXCEPT !.conf = TRUE]
      [] c = "hook"     -> [r EXCEPT !.hook = TRUE]
      [] c = "policy"   -> [r EXCEPT !.policy = TRUE]
      [] c = "mkdir"    -> [r EXCEPT !.tree = TRUE]
      [] c = "rm"       -> Absent
      [] c = "rmlocks"  -> Unlock(r, path)
      [] OTHER          -> r

Parsed(r) == {x \in LockPaths : r.locks[x] # NobodyLocks}

-----------------------------------------------------------------------------
(* How an operation goes on.                                               *)

\* The adapter writes an audit line when the strategy has answered; the
\* operations of the migration service do not pass through the adapter.
Audited(op) == op \in {"create", "delete"}

Ended(j, told) == [j EXCEPT !.todo = <<>>, !.told = told,
                            !.logged = Audited(j.op)]

\* The deletion of a project reports nothing but its end.
WentOn(j) ==
    [j EXCEPT !.todo = Tail(@),
              !.told = IF Len(j.todo) = 1 THEN "ok" ELSE @,
              !.logged = \/ @
                         \/ Audited(j.op) /\ Head(j.todo) \in {"rm", "mkdir"}
                         \/ j.op = "create" /\ Len(j.todo) = 1]

Probed(j, found) ==
    CASE j.op = "create" -> [j EXCEPT !.todo = IF found THEN Repolicy ELSE Provision]
      [] j.op = "policy" -> IF found THEN [j EXCEPT !.todo = Repolicy]
                                     ELSE Ended(j, "failed")
      [] j.op = "cleanup" -> IF found THEN WentOn(j) ELSE Ended(j, "absent")
      [] j.op = "delete" -> IF found THEN WentOn(j)
                            ELSE [j EXCEPT !.todo = <<"folder">>, !.logged = TRUE]

\* Over SSH the error of a command is not the one the strategy expects: it
\* passes through the adapter, which has then written nothing.
Heard(j) == Audited(j.op) /\ (strategy = "local" \/ Head(j.todo) = "probe")

\* The deletion of a project goes on, whatever fails.
DeletionWentOn(j) ==
    CASE Head(j.todo) = "kitsu"  -> [j EXCEPT !.todo = Tail(@)]
      [] Head(j.todo) = "folder" -> [j EXCEPT !.todo = <<>>, !.told = "ok",
                                              !.logged = @ \/ Heard(j)]
      [] OTHER -> [j EXCEPT !.todo = <<"folder">>, !.logged = @ \/ Heard(j)]

\* A local policy commit may fail without harm: the hook enforces the locks.
Failed(j) ==
    IF j.op = "delete" THEN DeletionWentOn(j)
    ELSE IF Head(j.todo) = "policy" /\ strategy = "local" THEN WentOn(j)
    ELSE [j EXCEPT !.todo = <<>>, !.told = "failed", !.logged = Heard(j)]

-----------------------------------------------------------------------------
(* The operations a Hub starts.                                            *)

\* The deletion of a project runs on the UI thread.
Responsive(h) == jobs[h]["delete"] = NoJob

NewJob(op, p, x) == [op |-> op, project |-> p, path |-> x, todo |-> Commands(op),
                     told |-> "none", logged |-> FALSE, rows |-> {}]

Started(h, op, p, x) ==
    /\ orders < MaxOrders
    /\ Responsive(h) /\ jobs[h][op] = NoJob
    /\ jobs' = [jobs EXCEPT ![h][op] = NewJob(op, p, x)]
    /\ orders' = orders + 1

\* A Hub has commands before it that make the repository of p.
Makes(g, p) == LET j == jobs[g]["create"] IN
    j # NoJob /\ j.project = p /\ j.todo # <<>>

CreateRepository(h, p) ==
    /\ table[h] = NoTable
    /\ Started(h, "create", p, AnyPath)
    /\ UNCHANGED << strategy, serving, store, production, folder, passphrase,
                    table, overtaken, mishaps >>

DeleteProject(h, p) ==
    /\ table[h] = NoTable
    /\ Started(h, "delete", p, AnyPath)
    /\ UNCHANGED << strategy, serving, store, production, folder, passphrase,
                    table, overtaken, mishaps >>

CleanUpRepository(h, p) ==
    /\ table[h] = NoTable
    /\ Started(h, "cleanup", p, AnyPath)
    /\ UNCHANGED << strategy, serving, store, production, folder, passphrase,
                    table, overtaken, mishaps >>

ApplyPolicy(h, p) ==
    /\ h \in TDs /\ table[h] = NoTable
    /\ Started(h, "policy", p, AnyPath)
    /\ UNCHANGED << strategy, serving, store, production, folder, passphrase,
                    table, overtaken, mishaps >>

ListLocks(h, p) ==
    /\ h \in TDs /\ table[h] = NoTable
    /\ Started(h, "list", p, AnyPath)
    /\ UNCHANGED << strategy, serving, store, production, folder, passphrase,
                    table, overtaken, mishaps >>

\* The dialog asks the ViewModel to break the selected lock and takes the
\* missing return value for a refusal.
BreakLock(h) ==
    /\ table[h] # NoTable
    /\ \E x \in table[h].rows :
         \/ Started(h, "break", table[h].project, x)
         \/ Responsive(h) /\ jobs[h]["break"] # NoJob /\ UNCHANGED << jobs, orders >>
    /\ table' = [table EXCEPT ![h].said = "notStarted"]
    /\ UNCHANGED << strategy, serving, store, production, folder, passphrase,
                    overtaken, mishaps >>

CloseTable(h) ==
    /\ table[h] # NoTable
    /\ table' = [table EXCEPT ![h] = NoTable]
    /\ UNCHANGED << strategy, serving, store, production, folder, passphrase,
                    jobs, orders, overtaken, mishaps >>

\* The panel asks for a passphrase once, keeps what was typed and tests.
TestServer(h) ==
    /\ h \in TDs /\ table[h] = NoTable /\ strategy = "remote"
    /\ Started(h, "test", AnyProject, AnyPath)
    /\ passphrase' \in IF passphrase[h] = "none"
                       THEN {[passphrase EXCEPT ![h] = w] : w \in {"none", "right", "wrong"}}
                       ELSE {passphrase}
    /\ UNCHANGED << strategy, serving, store, production, folder, table, overtaken, mishaps >>

\* The settings page replaces a passphrase.
SavePassphrase(h) ==
    /\ table[h] = NoTable /\ strategy = "remote" /\ Responsive(h)
    /\ passphrase[h] # "right"
    /\ passphrase' = [passphrase EXCEPT ![h] = "right"]
    /\ UNCHANGED << strategy, serving, store, production, folder, jobs, table,
                    orders, overtaken, mishaps >>

-----------------------------------------------------------------------------
(* One command of an operation.                                            *)

Probe(h, op) ==
    LET j == jobs[h][op] IN
    /\ j # NoJob /\ j.todo # <<>> /\ Head(j.todo) = "probe"
    /\ \/ /\ Reached(h, "probe")
          /\ jobs' = [jobs EXCEPT ![h][op] = Probed(j, store[j.project].there)]
          /\ UNCHANGED mishaps
       \* "docker exec" on a stopped container answers like "test -d".
       \/ /\ serving # "up" /\ (strategy = "remote" => passphrase[h] = "right")
          /\ jobs' = [jobs EXCEPT ![h][op] = Probed(j, FALSE)]
          /\ UNCHANGED mishaps
       \/ /\ strategy = "remote"
          /\ IF passphrase[h] # "right" THEN UNCHANGED mishaps
             ELSE mishaps < MaxMishaps /\ mishaps' = mishaps + 1
          /\ jobs' = [jobs EXCEPT ![h][op] = Failed(j)]
    /\ UNCHANGED << strategy, serving, store, production, folder, passphrase,
                    table, overtaken, orders >>

Done(j, c) ==
    /\ store' = [store EXCEPT ![j.project] = Effect(c, @, j.path)]
    /\ production' = [production EXCEPT ![j.project] = @ /\ c # "kitsu"]
    /\ folder' = [folder EXCEPT ![j.project] = @ /\ c # "folder"]

\* History: command c of operation op on Hub h has met another maker of p.
Overtaking(h, op, c, p) ==
    IF c \notin {"rm", "svnadmin"} THEN UNCHANGED overtaken
    ELSE IF \A g \in Hubs : Makes(g, p) => g = h /\ op = "create"
         THEN overtaken' = overtaken \ {p}
         ELSE overtaken' = IF c = "rm" THEN overtaken \cup {p} ELSE overtaken

Command(h, op) ==
    LET j == jobs[h][op]
        c == Head(j.todo)
        fits == Reached(h, c) /\ Possible(c, store[j.project])
    IN
    /\ j # NoJob /\ j.todo # <<>> /\ c # "probe"
    /\ \/ /\ fits /\ Done(j, c) /\ Overtaking(h, op, c, j.project)
          /\ jobs' = [jobs EXCEPT ![h][op] =
                        [WentOn(j) EXCEPT !.rows = IF c = "lslocks"
                                                   THEN Parsed(store[j.project]) ELSE @]]
          /\ UNCHANGED mishaps
       \/ /\ IF fits THEN mishaps < MaxMishaps /\ mishaps' = mishaps + 1
                     ELSE UNCHANGED mishaps
          /\ jobs' = [jobs EXCEPT ![h][op] = Failed(j)]
          /\ UNCHANGED << store, production, folder, overtaken >>
       \* The connection breaks after the command has run.
       \/ /\ fits /\ strategy = "remote" /\ mishaps < MaxMishaps
          /\ Done(j, c) /\ Overtaking(h, op, c, j.project)
          /\ mishaps' = mishaps + 1
          /\ jobs' = [jobs EXCEPT ![h][op] = Failed(j)]
    /\ UNCHANGED << strategy, serving, passphrase, table, orders >>

\* A bug: the table takes the answer to the removal of a lock elsewhere.
RowsAfterAny(t, j) ==
    IF t = NoTable \/ j.op # "break" THEN t
    ELSE IF j.told = "ok" THEN [t EXCEPT !.rows = @ \ {j.path}, !.said = "removed"]
    ELSE [t EXCEPT !.said = "failed"]

\* A row goes when the removal of its lock has succeeded; the answers of
\* another project's removals are not for this table.
LockBroken(t, j) ==
    IF t = NoTable \/ j.op # "break" \/ j.project # t.project THEN t
    ELSE IF j.told = "ok" THEN [t EXCEPT !.rows = @ \ {j.path}, !.said = "removed"]
    ELSE [t EXCEPT !.said = "failed"]

\* A list that found locks opens the table.
Shown(t, j) ==
    IF j.op = "list" /\ j.told = "ok" /\ j.rows # {}
    THEN [project |-> j.project, rows |-> j.rows, said |-> "none"]
    ELSE LockBroken(t, j)

Answered(h, op) ==
    LET j == jobs[h][op] IN
    /\ j # NoJob /\ j.todo = <<>>
    /\ op = "delete" \/ Responsive(h)
    /\ jobs' = [jobs EXCEPT ![h][op] = NoJob]
    /\ table' = [table EXCEPT ![h] = Shown(@, j)]
    /\ UNCHANGED << strategy, serving, store, production, folder, passphrase,
                    orders, overtaken, mishaps >>

-----------------------------------------------------------------------------
(* The server and the artists.                                             *)

\* The container stops (a reboot, "docker stop") and, on a remote server, is
\* started again.
ServerStops ==
    /\ serving = "up" /\ mishaps < MaxMishaps
    /\ serving' = "down" /\ mishaps' = mishaps + 1
    /\ UNCHANGED << strategy, store, production, folder, passphrase, jobs, table,
                    orders, overtaken >>

ServerBack ==
    /\ serving = "down"
    /\ serving' = "up"
    /\ UNCHANGED << strategy, store, production, folder, passphrase, jobs, table,
                    orders, overtaken, mishaps >>

\* "Stop & Destroy" removes the container, and the repositories with it.
StopSvn(h) ==
    /\ h \in TDs /\ strategy = "local" /\ Responsive(h) /\ table[h] = NoTable
    /\ serving # "none" /\ mishaps < MaxMishaps
    /\ serving' = "none" /\ mishaps' = mishaps + 1
    /\ store' = [p \in Projects |-> Absent]
    /\ overtaken' = {p \in Projects : \E g \in Hubs : Makes(g, p)}
    /\ UNCHANGED << strategy, production, folder, passphrase, jobs, table, orders >>

\* "docker run" refuses a name that a stopped container still has.
DeploySvn ==
    /\ strategy = "local" /\ serving = "none"
    /\ serving' = "up"
    /\ UNCHANGED << strategy, store, production, folder, passphrase, jobs, table,
                    orders, overtaken, mishaps >>

Lock(a, p, x) ==
    /\ serving = "up" /\ store[p].conf /\ store[p].tree
    /\ store[p].locks[x] \in {NobodyLocks, a}
    /\ store' = [store EXCEPT ![p].locks[x] = IF @ = a THEN NobodyLocks ELSE a]
    /\ UNCHANGED << strategy, serving, production, folder, passphrase, jobs,
                    table, orders, overtaken, mishaps >>

RoomNext ==
    \/ \E h \in Hubs, p \in Projects :
         \/ CreateRepository(h, p) \/ DeleteProject(h, p) \/ CleanUpRepository(h, p)
         \/ ApplyPolicy(h, p) \/ ListLocks(h, p)
    \/ \E h \in Hubs :
         \/ BreakLock(h) \/ CloseTable(h) \/ TestServer(h) \/ SavePassphrase(h)
         \/ StopSvn(h)
    \/ \E h \in Hubs, op \in Orders : Probe(h, op) \/ Command(h, op) \/ Answered(h, op)
    \/ ServerStops \/ ServerBack \/ DeploySvn
    \/ \E a \in Lockers, p \in Projects, x \in LockPaths : Lock(a, p, x)

\* The commands of an operation have an end, and the UI thread handles what
\* they answer.
RoomFairness ==
    \A h \in Hubs, op \in Orders :
      WF_roomVars(Probe(h, op) \/ Command(h, op) \/ Answered(h, op))

RoomSpec == RoomInit /\ [][RoomNext]_roomVars /\ RoomFairness

-----------------------------------------------------------------------------
(* Properties.                                                             *)

Job == [op : Orders, project : Projects, path : LockPaths,
        todo : Seq({"probe", "svnadmin", "conf", "policy", "hook", "mkdir", "rm",
                    "kitsu", "folder", "lslocks", "rmlocks", "version"}),
        told : {"none", "ok", "absent", "failed"}, logged : BOOLEAN,
        rows : SUBSET LockPaths]

\* The variables keep their types, and an operation sits under its own key.
RoomTypeOK ==
    /\ strategy \in Strategies /\ serving \in {"up", "down", "none"}
    /\ store \in [Projects -> [there : BOOLEAN, conf : BOOLEAN, hook : BOOLEAN,
                               policy : BOOLEAN, tree : BOOLEAN,
                               locks : [LockPaths -> Lockers \cup {NobodyLocks}]]]
    /\ production \in [Projects -> BOOLEAN] /\ folder \in [Projects -> BOOLEAN]
    /\ passphrase \in [Hubs -> {"none", "right", "wrong"}]
    /\ \A h \in Hubs, k \in Orders :
         jobs[h][k] # NoJob => jobs[h][k] \in Job /\ jobs[h][k].op = k
    /\ \A h \in Hubs : table[h] = NoTable \/
         table[h] \in [project : Projects, rows : SUBSET LockPaths,
                       said : {"none", "notStarted", "removed", "failed"}]
    /\ overtaken \subseteq Projects
    /\ orders \in 0 .. MaxOrders /\ mishaps \in 0 .. MaxMishaps

\* Wherever its making was broken off, and whoever took it up again: a
\* repository that artists can check out and lock in has its access rules and
\* the hook that enforces the locks.  Only one that was removed while a Hub was
\* still making it may lack them: the commands that Hub has left are run on
\* whatever another Hub makes under the name.
TreeIsGuarded ==
    \A p \in Projects \ overtaken : store[p].tree => store[p].conf /\ store[p].hook

\* An administrator's step takes from a repository that stays at most the one
\* lock that was confirmed, and from an open table at most the row of a lock
\* of the same project that the server has removed.
OnlyWhatWasConfirmed ==
    [][/\ \A p \in Projects, x \in LockPaths :
            (/\ store[p].locks[x] # NobodyLocks /\ store'[p].locks[x] = NobodyLocks
             /\ store'[p].there /\ jobs' # jobs)
            => \E h \in Hubs : LET j == jobs[h]["break"] IN
                 j # NoJob /\ j.project = p /\ j.path = x /\ j.todo # <<>>
       /\ \A h \in Hubs : table[h] # NoTable /\ table'[h] # NoTable =>
            \A x \in table[h].rows \ table'[h].rows : LET j == jobs[h]["break"] IN
              j # NoJob /\ j.project = table[h].project /\ j.path = x /\ j.told = "ok"
      ]_roomVars

\* Whatever a server administration has ended with, the audit trail has it.
\* (docs/features/vcs-client.md says so; the code does not do it.)
AdministrationIsAudited ==
    \A h \in Hubs, op \in Orders \ {"test"} : LET j == jobs[h][op] IN
      j # NoJob /\ j.todo = <<>> => j.logged

\* "Already absent" is said of repositories that are not there.
AbsentIsGone ==
    \A h \in Hubs : LET j == jobs[h]["cleanup"] IN
      j # NoJob /\ j.told = "absent" => ~ store[j.project].there

\* "Could not start the lock removal" is not shown of one that was started.
RefusalIsTrue ==
    [][\A h \in Hubs : (jobs[h]["break"] = NoJob /\ jobs'[h]["break"] # NoJob)
         => table'[h].said # "notStarted"]_roomVars
=============================================================================
