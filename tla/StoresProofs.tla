----------------------------- MODULE StoresProofs -----------------------------
(***************************************************************************)
(* What holds of what the Hub keeps on disks and servers, for every value  *)
(* of the constants: the server room, an artist's working copy and the     *)
(* software vault, and with the proofs about the migrations the            *)
(* composition that puts them side by side.                                *)
(***************************************************************************)
EXTENDS MCServers, VcsMigrationProofs, SequenceTheorems, TLAPS

(***************************************************************************)
(* The server room: the inductive invariant.                               *)
(***************************************************************************)

Repositories == [there : BOOLEAN, conf : BOOLEAN, hook : BOOLEAN, policy : BOOLEAN,
                 tree : BOOLEAN, locks : [LockPaths -> Lockers \cup {NobodyLocks}]]

\* What is left to do of an operation at any time.
Scripts(op) ==
    CASE op = "create"  -> {<<>>, <<"probe">>, <<"hook", "policy">>, <<"policy">>,
                            <<"svnadmin", "conf", "policy", "hook", "mkdir">>,
                            <<"conf", "policy", "hook", "mkdir">>,
                            <<"policy", "hook", "mkdir">>, <<"hook", "mkdir">>, <<"mkdir">>}
      [] op = "policy"  -> {<<>>, <<"probe">>, <<"hook", "policy">>, <<"policy">>}
      [] op = "cleanup" -> {<<>>, <<"probe", "rm">>, <<"rm">>}
      [] op = "delete"  -> {<<>>, <<"kitsu", "rm", "folder">>, <<"kitsu", "probe", "rm", "folder">>,
                            <<"probe", "rm", "folder">>, <<"rm", "folder">>, <<"folder">>}
      [] op = "list"    -> {<<>>, <<"lslocks">>}
      [] op = "break"   -> {<<>>, <<"rmlocks">>}
      [] op = "test"    -> {<<>>, <<"version">>}

RoomJob(op) == [op : {op}, project : Projects, path : LockPaths, todo : Scripts(op),
                told : {"none", "ok", "absent", "failed"}, logged : BOOLEAN,
                rows : SUBSET LockPaths]

LockTable == [project : Projects, rows : SUBSET LockPaths,
              said : {"none", "notStarted", "removed", "failed"}]

RoomShape ==
    /\ strategy \in Strategies /\ serving \in {"up", "down", "none"}
    /\ store \in [Projects -> Repositories]
    /\ production \in [Projects -> BOOLEAN] /\ folder \in [Projects -> BOOLEAN]
    /\ passphrase \in [Hubs -> {"none", "right", "wrong"}]
    /\ jobs \in [Hubs -> [Orders -> {NoJob} \cup UNION {RoomJob(op) : op \in Orders}]]
    /\ \A h \in Hubs, op \in Orders : jobs[h][op] # NoJob => jobs[h][op] \in RoomJob(op)
    /\ table \in [Hubs -> {NoTable} \cup LockTable]
    /\ overtaken \subseteq Projects
    /\ orders \in 0 .. MaxOrders /\ mishaps \in 0 .. MaxMishaps

\* What is not there has nothing in it, and a container that was removed has
\* taken every repository along.
Emptiness ==
    /\ \A p \in Projects : ~ store[p].there => store[p] = Absent
    /\ serving = "none" => \A p \in Projects : ~ store[p].there

\* What the making of a repository has already done is still there, unless the
\* repository was removed meanwhile.
DoneSoFar(todo, r) ==
    /\ todo \in {<<"conf", "policy", "hook", "mkdir">>, <<"policy", "hook", "mkdir">>,
                 <<"hook", "mkdir">>, <<"mkdir">>} => r.there
    /\ todo \in {<<"policy", "hook", "mkdir">>, <<"hook", "mkdir">>, <<"mkdir">>} => r.conf
    /\ todo = <<"mkdir">> => r.hook

MakingHolds ==
    \A h \in Hubs : LET j == jobs[h]["create"] IN
        j # NoJob /\ j.project \notin overtaken => DoneSoFar(j.todo, store[j.project])

\* A Hub lists locks only while it shows no list.
OneTable == \A h \in Hubs : table[h] # NoTable => jobs[h]["list"] = NoJob

RoomInv ==
    /\ RoomShape /\ Emptiness /\ MakingHolds /\ OneTable /\ TreeIsGuarded

(***************************************************************************)
(* Operations and their commands.                                          *)
(***************************************************************************)

LEMMA HeadsAndTails ==
    /\ Head(<<"probe">>) = "probe" /\ Tail(<<"probe">>) = <<>>
    /\ Head(<<"hook", "policy">>) = "hook" /\ Tail(<<"hook", "policy">>) = <<"policy">>
    /\ Head(<<"policy">>) = "policy" /\ Tail(<<"policy">>) = <<>>
    /\ Head(<<"svnadmin", "conf", "policy", "hook", "mkdir">>) = "svnadmin"
    /\ Tail(<<"svnadmin", "conf", "policy", "hook", "mkdir">>)
           = <<"conf", "policy", "hook", "mkdir">>
    /\ Head(<<"conf", "policy", "hook", "mkdir">>) = "conf" /\ Tail(<<"conf", "policy", "hook", "mkdir">>) = <<"policy", "hook", "mkdir">>
    /\ Head(<<"policy", "hook", "mkdir">>) = "policy" /\ Tail(<<"policy", "hook", "mkdir">>) = <<"hook", "mkdir">>
    /\ Head(<<"hook", "mkdir">>) = "hook" /\ Tail(<<"hook", "mkdir">>) = <<"mkdir">>
    /\ Head(<<"mkdir">>) = "mkdir" /\ Tail(<<"mkdir">>) = <<>>
    /\ Head(<<"probe", "rm">>) = "probe" /\ Tail(<<"probe", "rm">>) = <<"rm">>
    /\ Head(<<"rm">>) = "rm" /\ Tail(<<"rm">>) = <<>>
    /\ Head(<<"kitsu", "rm", "folder">>) = "kitsu" /\ Tail(<<"kitsu", "rm", "folder">>) = <<"rm", "folder">>
    /\ Head(<<"kitsu", "probe", "rm", "folder">>) = "kitsu" /\ Tail(<<"kitsu", "probe", "rm", "folder">>) = <<"probe", "rm", "folder">>
    /\ Head(<<"probe", "rm", "folder">>) = "probe" /\ Tail(<<"probe", "rm", "folder">>) = <<"rm", "folder">>
    /\ Head(<<"rm", "folder">>) = "rm" /\ Tail(<<"rm", "folder">>) = <<"folder">>
    /\ Head(<<"folder">>) = "folder" /\ Tail(<<"folder">>) = <<>>
    /\ Head(<<"lslocks">>) = "lslocks" /\ Tail(<<"lslocks">>) = <<>>
    /\ Head(<<"rmlocks">>) = "rmlocks" /\ Tail(<<"rmlocks">>) = <<>>
    /\ Head(<<"version">>) = "version" /\ Tail(<<"version">>) = <<>>
OBVIOUS

\* A script ends where it ends, and each command belongs to some operations.
LEMMA ScriptSteps ==
    ASSUME NEW op \in Orders, NEW todo \in Scripts(op), todo # <<>>
    PROVE  /\ Tail(todo) \in Scripts(op)
           /\ Head(todo) \in {"svnadmin", "conf", "mkdir"} => op = "create"
           /\ Head(todo) = "rm" => op \in {"delete", "cleanup"}
           /\ Head(todo) = "rmlocks" => op = "break"
           /\ Head(todo) = "lslocks" => op = "list"
           /\ Head(todo) = "probe" => op \in {"create", "policy", "cleanup", "delete"}
           /\ Head(todo) = "policy" => op \in {"create", "policy"}
           /\ op = "create" => Head(todo) \in {"probe", "svnadmin", "conf", "policy", "hook", "mkdir"}
           /\ op = "delete" => Head(todo) \in {"probe", "kitsu", "rm", "folder"}
<1>1. CASE op = "create"
  <2>1. Scripts(op) = {<<>>, <<"probe">>, <<"hook", "policy">>, <<"policy">>,
                     <<"svnadmin", "conf", "policy", "hook", "mkdir">>,
                     <<"conf", "policy", "hook", "mkdir">>,
                     <<"policy", "hook", "mkdir">>, <<"hook", "mkdir">>, <<"mkdir">>}
      BY <1>1 DEF Scripts
  <2>2. QED BY <1>1, <2>1, HeadsAndTails, Zenon
<1>2. CASE op = "policy"
  <2>1. Scripts(op) = {<<>>, <<"probe">>, <<"hook", "policy">>, <<"policy">>}
      BY <1>2 DEF Scripts
  <2>2. QED BY <1>2, <2>1, HeadsAndTails, Zenon
<1>3. CASE op = "cleanup"
  <2>1. Scripts(op) = {<<>>, <<"probe", "rm">>, <<"rm">>}
      BY <1>3 DEF Scripts
  <2>2. QED BY <1>3, <2>1, HeadsAndTails, Zenon
<1>4. CASE op = "delete"
  <2>1. Scripts(op) = {<<>>, <<"kitsu", "rm", "folder">>, <<"kitsu", "probe", "rm", "folder">>,
                     <<"probe", "rm", "folder">>, <<"rm", "folder">>, <<"folder">>}
      BY <1>4 DEF Scripts
  <2>2. QED BY <1>4, <2>1, HeadsAndTails, Zenon
<1>5. CASE op = "list"
  <2>1. Scripts(op) = {<<>>, <<"lslocks">>}
      BY <1>5 DEF Scripts
  <2>2. QED BY <1>5, <2>1, HeadsAndTails, Zenon
<1>6. CASE op = "break"
  <2>1. Scripts(op) = {<<>>, <<"rmlocks">>}
      BY <1>6 DEF Scripts
  <2>2. QED BY <1>6, <2>1, HeadsAndTails, Zenon
<1>7. CASE op = "test"
  <2>1. Scripts(op) = {<<>>, <<"version">>}
      BY <1>7 DEF Scripts
  <2>2. QED BY <1>7, <2>1, HeadsAndTails, Zenon
<1>8. QED BY <1>1, <1>2, <1>3, <1>4, <1>5, <1>6, <1>7 DEF Orders

LEMMA NoneLeft == ASSUME NEW op \in Orders PROVE <<>> \in Scripts(op)
BY DEF Scripts, Orders

\* A job that goes on keeps its operation, project and path.
LEMMA JobWentOn ==
    ASSUME NEW op \in Orders, NEW j \in RoomJob(op), j.todo # <<>>
    PROVE  /\ WentOn(j) \in RoomJob(op) /\ WentOn(j).todo = Tail(j.todo)
           /\ WentOn(j).project = j.project /\ WentOn(j).path = j.path
           /\ WentOn(j).rows = j.rows
<1> DEFINE told == IF Len(j.todo) = 1 THEN "ok" ELSE j.told
           b == \/ j.logged
                \/ Audited(j.op) /\ Head(j.todo) \in {"rm", "mkdir"}
                \/ j.op = "create" /\ Len(j.todo) = 1
<1>1. WentOn(j) = [j EXCEPT !.todo = Tail(j.todo), !.told = told, !.logged = b]
    BY DEF WentOn
<1>2. told \in {"none", "ok", "absent", "failed"} /\ b \in BOOLEAN
    BY DEF RoomJob
<1>3. Tail(j.todo) \in Scripts(op)
    BY ScriptSteps DEF RoomJob
<1> HIDE DEF told, b
<1>4. QED BY <1>1, <1>2, <1>3 DEF RoomJob

LEMMA JobEnded ==
    ASSUME NEW op \in Orders, NEW j \in RoomJob(op),
           NEW told \in {"none", "ok", "absent", "failed"}
    PROVE  /\ Ended(j, told) \in RoomJob(op) /\ Ended(j, told).todo = <<>>
           /\ Ended(j, told).project = j.project /\ Ended(j, told).path = j.path
           /\ Ended(j, told).told = told
<1> DEFINE b == Audited(j.op)
<1>1. Ended(j, told) = [j EXCEPT !.todo = <<>>, !.told = told, !.logged = b]
    BY DEF Ended
<1>2. b \in BOOLEAN
    BY DEF Audited
<1> HIDE DEF b
<1>3. QED BY <1>1, <1>2, NoneLeft DEF RoomJob

LEMMA JobProbed ==
    ASSUME NEW op \in Orders, NEW j \in RoomJob(op), NEW found \in BOOLEAN,
           j.todo # <<>>, Head(j.todo) = "probe"
    PROVE  /\ Probed(j, found) \in RoomJob(op)
           /\ Probed(j, found).project = j.project /\ Probed(j, found).path = j.path
           /\ op = "create" => Probed(j, found).todo \in {Repolicy, Provision}
<1>1. j.op = op /\ j.todo \in Scripts(op)
    BY DEF RoomJob
<1>2. op \in {"create", "policy", "cleanup", "delete"}
    BY <1>1, ScriptSteps
<1>3. CASE op = "create"
    BY <1>1, <1>3 DEF RoomJob, Probed, Repolicy, Provision, Scripts
<1>4. CASE op = "policy"
  <2>1. CASE found
    <3>1. Probed(j, found) = [j EXCEPT !.todo = Repolicy]
        BY <1>1, <1>4, <2>1 DEF Probed
    <3>2. Repolicy \in Scripts(op)
        BY <1>4 DEF Repolicy, Scripts
    <3>3. QED BY <1>4, <3>1, <3>2 DEF RoomJob
  <2>2. CASE ~found
    <3>1. Probed(j, found) = Ended(j, "failed")
        BY <1>1, <1>4, <2>2 DEF Probed
    <3>2. QED BY <1>4, <3>1, JobEnded
  <2>3. QED BY <2>1, <2>2
<1>5. CASE op = "cleanup"
    BY <1>1, <1>5, JobEnded, JobWentOn DEF Probed
<1>6. CASE op = "delete"
  <2>1. CASE found
      BY <1>1, <1>6, <2>1, JobWentOn DEF Probed
  <2>2. CASE ~found
    <3>1. Probed(j, found) = [j EXCEPT !.todo = <<"folder">>, !.logged = TRUE]
        BY <1>1, <1>6, <2>2 DEF Probed
    <3>2. <<"folder">> \in Scripts(op)
        BY <1>6 DEF Scripts
    <3>3. QED BY <1>6, <3>1, <3>2 DEF RoomJob
  <2>3. QED BY <2>1, <2>2
<1>7. QED BY <1>2, <1>3, <1>4, <1>5, <1>6

LEMMA JobFailed ==
    ASSUME NEW op \in Orders, NEW j \in RoomJob(op), j.todo # <<>>
    PROVE  /\ Failed(j) \in RoomJob(op)
           /\ Failed(j).project = j.project /\ Failed(j).path = j.path
           /\ op = "create" =>
                  \/ Failed(j).todo = <<>>
                  \/ Head(j.todo) = "policy" /\ Failed(j).todo = Tail(j.todo)
           /\ op = "break" => Failed(j).told = "failed"
<1>1. j.op = op /\ j.todo \in Scripts(op)
    BY DEF RoomJob
<1> DEFINE b == j.logged \/ Heard(j)
           heard == Heard(j)
<1>2. b \in BOOLEAN /\ heard \in BOOLEAN
    BY DEF RoomJob, Heard, Audited
<1>3. CASE op = "delete"
  <2>1. Tail(j.todo) \in Scripts(op) /\ <<"folder">> \in Scripts(op) /\ <<>> \in Scripts(op)
      BY <1>1, <1>3, ScriptSteps DEF Scripts
  <2>2. Failed(j) = DeletionWentOn(j)
      BY <1>1, <1>3 DEF Failed
  <2>3. CASE Head(j.todo) = "kitsu"
      BY <1>1, <1>3, <2>1, <2>2, <2>3 DEF DeletionWentOn, RoomJob
  <2>4. CASE Head(j.todo) = "folder"
    <3>1. Failed(j) = [j EXCEPT !.todo = <<>>, !.told = "ok", !.logged = b]
        BY <2>2, <2>4 DEF DeletionWentOn
    <3> HIDE DEF b, heard
    <3>2. QED BY <1>2, <1>3, <2>1, <3>1 DEF RoomJob
  <2>5. CASE Head(j.todo) \notin {"kitsu", "folder"}
    <3>1. Failed(j) = [j EXCEPT !.todo = <<"folder">>, !.logged = b]
        BY <2>2, <2>5 DEF DeletionWentOn
    <3> HIDE DEF b, heard
    <3>2. QED BY <1>2, <1>3, <2>1, <3>1 DEF RoomJob
  <2>6. QED BY <2>3, <2>4, <2>5
<1>4. CASE op # "delete" /\ Head(j.todo) = "policy" /\ strategy = "local"
  <2>1. Failed(j) = WentOn(j) /\ op # "break"
      BY <1>1, <1>4, ScriptSteps DEF Failed
  <2>2. QED BY <1>4, <2>1, JobWentOn
<1>5. CASE op # "delete" /\ ~ (Head(j.todo) = "policy" /\ strategy = "local")
  <2>1. Failed(j) = [j EXCEPT !.todo = <<>>, !.told = "failed", !.logged = heard]
      BY <1>1, <1>5 DEF Failed
  <2> HIDE DEF b, heard
  <2>2. QED BY <1>2, <2>1, NoneLeft DEF RoomJob
<1>6. QED BY <1>3, <1>4, <1>5

LEMMA JobStarts ==
    ASSUME NEW op \in Orders, NEW p \in Projects, NEW x \in LockPaths
    PROVE  /\ NewJob(op, p, x) \in RoomJob(op) /\ NewJob(op, p, x).project = p
           /\ NewJob(op, p, x).path = x
           /\ op = "create" => NewJob(op, p, x).todo = <<"probe">>
<1>1. Commands(op) \in Scripts(op)
  <2>1. CASE op = "delete"
      BY <2>1 DEF Commands, Scripts
  <2>2. CASE op = "cleanup"
      BY <2>2 DEF Commands, Scripts
  <2>3. CASE op = "create"
      BY <2>3 DEF Commands, Scripts
  <2>4. CASE op = "policy"
      BY <2>4 DEF Commands, Scripts
  <2>5. CASE op \in {"list", "break", "test"}
      BY <2>5 DEF Commands, Scripts
  <2>6. QED BY <2>1, <2>2, <2>3, <2>4, <2>5 DEF Orders
<1>2. QED BY <1>1 DEF NewJob, RoomJob, Commands

(***************************************************************************)
(* One operation moves, the others stay.                                   *)
(***************************************************************************)

LEMMA JobsAt ==
    ASSUME RoomShape, NEW h \in Hubs, NEW op \in Orders, NEW J,
           jobs' = [jobs EXCEPT ![h][op] = J], J = NoJob \/ J \in RoomJob(op)
    PROVE  /\ \A g \in Hubs, k \in Orders :
                  jobs'[g][k] = IF g = h /\ k = op THEN J ELSE jobs[g][k]
           /\ jobs' \in [Hubs -> [Orders -> {NoJob} \cup UNION {RoomJob(k) : k \in Orders}]]
           /\ \A g \in Hubs, k \in Orders : jobs'[g][k] # NoJob => jobs'[g][k] \in RoomJob(k)
<1> DEFINE X == {NoJob} \cup UNION {RoomJob(k) : k \in Orders}
<1>1. jobs \in [Hubs -> [Orders -> X]]
    BY DEF RoomShape
<1>2. J \in X
    OBVIOUS
<1> HIDE DEF X
<1>3. \A g \in Hubs, k \in Orders :
          jobs'[g][k] = IF g = h /\ k = op THEN J ELSE jobs[g][k]
    BY <1>1
<1>4. jobs' \in [Hubs -> [Orders -> X]]
    BY <1>1, <1>2
<1>5. \A g \in Hubs, k \in Orders : jobs[g][k] # NoJob => jobs[g][k] \in RoomJob(k)
    BY DEF RoomShape
<1>6. \A g \in Hubs, k \in Orders : jobs'[g][k] # NoJob => jobs'[g][k] \in RoomJob(k)
  <2> SUFFICES ASSUME NEW g \in Hubs, NEW k \in Orders, jobs'[g][k] # NoJob
               PROVE  jobs'[g][k] \in RoomJob(k)
      OBVIOUS
  <2>1. CASE g = h /\ k = op
      BY <1>3, <2>1
  <2>2. CASE ~ (g = h /\ k = op)
      BY <1>3, <1>5, <2>2
  <2>3. QED BY <2>1, <2>2
<1>7. QED BY <1>3, <1>4, <1>6 DEF X

LEMMA UnderWay ==
    ASSUME RoomInv, NEW h \in Hubs, NEW op \in Orders, jobs[h][op] # NoJob
    PROVE  jobs[h][op] \in RoomJob(op) /\ jobs[h][op].project \in Projects
<1>1. jobs[h][op] \in RoomJob(op)
    BY DEF RoomInv, RoomShape
<1>2. QED BY <1>1 DEF RoomJob

\* A step of one operation that leaves the repositories alone.
LEMMA OnlyAJob ==
    ASSUME RoomInv, NEW h \in Hubs, NEW op \in Orders, NEW J,
           jobs' = [jobs EXCEPT ![h][op] = J], J = NoJob \/ J \in RoomJob(op),
           J # NoJob /\ op = "create" /\ J.project \notin overtaken =>
               DoneSoFar(J.todo, store[J.project]),
           UNCHANGED << strategy, serving, store, production, folder, overtaken >>,
           passphrase' \in [Hubs -> {"none", "right", "wrong"}],
           table' \in [Hubs -> {NoTable} \cup LockTable],
           OneTable', orders' \in 0 .. MaxOrders, mishaps' \in 0 .. MaxMishaps
    PROVE  RoomInv'
<1> USE DEF RoomInv
<1>1. RoomShape'
    BY JobsAt DEF RoomShape
<1>3. MakingHolds'
  <2> SUFFICES ASSUME NEW g \in Hubs, jobs'[g]["create"] # NoJob,
                      jobs'[g]["create"].project \notin overtaken
               PROVE  DoneSoFar(jobs'[g]["create"].todo, store[jobs'[g]["create"].project])
      BY DEF MakingHolds
  <2>1. "create" \in Orders
      BY DEF Orders
  <2>2. CASE g = h /\ op = "create"
      BY <2>1, <2>2, JobsAt
  <2>3. CASE ~ (g = h /\ op = "create")
    <3>1. jobs'[g]["create"] = jobs[g]["create"]
        BY <2>1, <2>3, JobsAt
    <3>2. QED BY <3>1 DEF MakingHolds
  <2>4. QED BY <2>2, <2>3
<1>4. Emptiness' /\ TreeIsGuarded'
    BY DEF Emptiness, Absent, TreeIsGuarded
<1>5. QED BY <1>1, <1>3, <1>4

\* The lists stay away from the tables while no list starts and no table opens.
LEMMA TablesStayAlone ==
    ASSUME RoomInv, NEW h \in Hubs, NEW op \in Orders, NEW J,
           jobs' = [jobs EXCEPT ![h][op] = J], J = NoJob \/ J \in RoomJob(op),
           op = "list" /\ J # NoJob => table'[h] = NoTable,
           \A g \in Hubs : table'[g] # NoTable =>
               table[g] # NoTable \/ (g = h /\ op = "list" /\ J = NoJob)
    PROVE  OneTable'
<1>1. "list" \in Orders
    BY DEF Orders
<1> SUFFICES ASSUME NEW g \in Hubs, table'[g] # NoTable PROVE jobs'[g]["list"] = NoJob
    BY DEF OneTable
<1>2. CASE g = h /\ op = "list"
    BY <1>1, <1>2, JobsAt DEF RoomInv
<1>3. CASE ~ (g = h /\ op = "list")
  <2>1. jobs'[g]["list"] = jobs[g]["list"]
      BY <1>1, <1>3, JobsAt DEF RoomInv
  <2>2. table[g] # NoTable
      BY <1>3
  <2>3. QED BY <2>1, <2>2 DEF RoomInv, OneTable
<1>4. QED BY <1>2, <1>3

(***************************************************************************)
(* The steps that start an operation, look, and answer.                    *)
(***************************************************************************)

LEMMA OperationStarts ==
    ASSUME RoomInv, NEW h \in Hubs, NEW op \in Orders, NEW p \in Projects,
           NEW x \in LockPaths, Started(h, op, p, x),
           UNCHANGED << strategy, serving, store, production, folder, overtaken, mishaps >>,
           passphrase' \in [Hubs -> {"none", "right", "wrong"}],
           table' \in [Hubs -> {NoTable} \cup LockTable],
           op = "list" => table'[h] = NoTable,
           \A g \in Hubs : table'[g] # NoTable => table[g] # NoTable
    PROVE  RoomInv'
<1> DEFINE J == NewJob(op, p, x)
<1>1. J \in RoomJob(op) /\ J.project = p /\ (op = "create" => J.todo = <<"probe">>)
    BY JobStarts
<1>2. jobs' = [jobs EXCEPT ![h][op] = J]
    BY DEF Started
<1>3. orders' \in 0 .. MaxOrders /\ mishaps' \in 0 .. MaxMishaps
    BY RoomAssumption DEF Started, RoomInv, RoomShape
<1>4. op = "create" => DoneSoFar(J.todo, store[J.project])
  <2>1. \A r : DoneSoFar(<<"probe">>, r)
      BY DEF DoneSoFar
  <2>2. QED BY <1>1, <2>1
<1> HIDE DEF J
<1>5. OneTable'
    BY <1>1, <1>2, TablesStayAlone
<1>6. QED BY <1>1, <1>2, <1>3, <1>4, <1>5, OnlyAJob

LEMMA SomeProjectSomePath == AnyProject \in Projects /\ AnyPath \in LockPaths
BY RoomAssumption DEF AnyProject, AnyPath

LEMMA StartsKeepTheRoom ==
    ASSUME RoomInv, NEW h \in Hubs, NEW p \in Projects,
           CreateRepository(h, p) \/ DeleteProject(h, p) \/ CleanUpRepository(h, p)
               \/ ApplyPolicy(h, p) \/ ListLocks(h, p)
    PROVE  RoomInv'
<1>1. passphrase \in [Hubs -> {"none", "right", "wrong"}] /\ table \in [Hubs -> {NoTable} \cup LockTable]
    BY DEF RoomInv, RoomShape
<1>2. {"create", "delete", "cleanup", "policy", "list"} \subseteq Orders
    BY DEF Orders
<1>3. CASE CreateRepository(h, p)
    BY <1>1, <1>2, <1>3, SomeProjectSomePath, OperationStarts DEF CreateRepository
<1>4. CASE DeleteProject(h, p)
    BY <1>1, <1>2, <1>4, SomeProjectSomePath, OperationStarts DEF DeleteProject
<1>5. CASE CleanUpRepository(h, p)
    BY <1>1, <1>2, <1>5, SomeProjectSomePath, OperationStarts DEF CleanUpRepository
<1>6. CASE ApplyPolicy(h, p)
    BY <1>1, <1>2, <1>6, SomeProjectSomePath, OperationStarts DEF ApplyPolicy
<1>7. CASE ListLocks(h, p)
    BY <1>1, <1>2, <1>7, SomeProjectSomePath, OperationStarts DEF ListLocks
<1>8. QED BY <1>3, <1>4, <1>5, <1>6, <1>7

LEMMA BreakKeepsTheRoom ==
    ASSUME RoomInv, NEW h \in Hubs, BreakLock(h)
    PROVE  RoomInv'
<1>1. table \in [Hubs -> {NoTable} \cup LockTable] /\ table[h] \in LockTable /\ "break" \in Orders
    BY DEF RoomInv, RoomShape, BreakLock, Orders
<1>2. table' = [table EXCEPT ![h] = [table[h] EXCEPT !.said = "notStarted"]]
    BY DEF BreakLock
<1>3. [table[h] EXCEPT !.said = "notStarted"] \in LockTable
    BY <1>1 DEF LockTable
<1>4. /\ table' \in [Hubs -> {NoTable} \cup LockTable]
      /\ \A g \in Hubs : table'[g] # NoTable => table[g] # NoTable
    BY <1>1, <1>2, <1>3 DEF BreakLock
<1>5. passphrase' \in [Hubs -> {"none", "right", "wrong"}]
    BY DEF RoomInv, RoomShape, BreakLock
<1>6. PICK x \in table[h].rows :
        \/ Started(h, "break", table[h].project, x)
        \/ Responsive(h) /\ jobs[h]["break"] # NoJob /\ UNCHANGED << jobs, orders >>
    BY DEF BreakLock
<1>7. table[h].project \in Projects /\ x \in LockPaths
    BY <1>1 DEF LockTable
<1>8. UNCHANGED << strategy, serving, store, production, folder, passphrase, overtaken, mishaps >>
    BY DEF BreakLock
<1>9. CASE Started(h, "break", table[h].project, x)
    BY <1>1, <1>4, <1>5, <1>7, <1>8, <1>9, OperationStarts
<1>10. CASE UNCHANGED << jobs, orders >>
  <2>1. RoomShape'
      BY <1>4, <1>8, <1>10 DEF RoomInv, RoomShape
  <2>2. OneTable'
      BY <1>4, <1>10 DEF RoomInv, OneTable
  <2>3. QED BY <2>1, <2>2, <1>8, <1>10
            DEF RoomInv, Emptiness, Absent, MakingHolds, TreeIsGuarded
<1>11. QED BY <1>6, <1>9, <1>10

LEMMA PanelKeepsTheRoom ==
    ASSUME RoomInv, NEW h \in Hubs, TestServer(h) \/ SavePassphrase(h) \/ CloseTable(h)
    PROVE  RoomInv'
<1>1. /\ passphrase \in [Hubs -> {"none", "right", "wrong"}] /\ table \in [Hubs -> {NoTable} \cup LockTable]
      /\ "test" \in Orders
    BY DEF RoomInv, RoomShape, Orders
<1>2. CASE TestServer(h)
  <2>1. passphrase' \in [Hubs -> {"none", "right", "wrong"}]
      BY <1>1, <1>2 DEF TestServer
  <2>2. /\ UNCHANGED << strategy, serving, store, production, folder, table, overtaken, mishaps >>
        /\ Started(h, "test", AnyProject, AnyPath)
      BY <1>2 DEF TestServer
  <2>3. QED BY <1>1, <2>1, <2>2, SomeProjectSomePath, OperationStarts
<1>3. CASE SavePassphrase(h)
  <2>1. passphrase' \in [Hubs -> {"none", "right", "wrong"}]
      BY <1>1, <1>3 DEF SavePassphrase
  <2>2. UNCHANGED << strategy, serving, store, production, folder, jobs, table, orders, overtaken,
                     mishaps >>
      BY <1>3 DEF SavePassphrase
  <2>3. QED BY <2>1, <2>2 DEF RoomInv, RoomShape, Emptiness, Absent, MakingHolds, OneTable, TreeIsGuarded
<1>4. CASE CloseTable(h)
  <2>1. /\ table' \in [Hubs -> {NoTable} \cup LockTable]
        /\ \A g \in Hubs : table'[g] # NoTable => table[g] # NoTable
      BY <1>1, <1>4 DEF CloseTable
  <2>2. UNCHANGED << strategy, serving, store, production, folder, passphrase, jobs, orders,
                     overtaken, mishaps >>
      BY <1>4 DEF CloseTable
  <2>3. QED BY <2>1, <2>2 DEF RoomInv, RoomShape, Emptiness, Absent, MakingHolds, OneTable, TreeIsGuarded
<1>5. QED BY <1>2, <1>3, <1>4

\* A look makes a plan, ends the operation, or goes on without one.
LEMMA PlansAreOpen ==
    ASSUME NEW r
    PROVE  DoneSoFar(Repolicy, r) /\ DoneSoFar(Provision, r) /\ DoneSoFar(<<>>, r)
BY DEF DoneSoFar, Repolicy, Provision

LEMMA ProbeKeepsTheRoom ==
    ASSUME RoomInv, NEW h \in Hubs, NEW op \in Orders, Probe(h, op)
    PROVE  RoomInv'
<1> DEFINE j == jobs[h][op]
<1>1. j \in RoomJob(op) /\ j.todo # <<>> /\ Head(j.todo) = "probe" /\ j.project \in Projects
    BY UnderWay DEF Probe
<1>3. store[j.project].there \in BOOLEAN
    BY <1>1 DEF RoomInv, RoomShape, Repositories
<1>4. PICK J \in {Probed(j, store[j.project].there), Probed(j, FALSE), Failed(j)} :
          jobs' = [jobs EXCEPT ![h][op] = J]
    BY DEF Probe
<1>5. /\ J \in RoomJob(op) /\ J.project = j.project
      /\ op = "create" => J.todo \in {Repolicy, Provision, <<>>}
  <2>1. CASE J = Failed(j)
      BY <1>1, <2>1, JobFailed
  <2>2. CASE J # Failed(j)
    <3>1. PICK found \in BOOLEAN : J = Probed(j, found)
        BY <1>3, <2>2
    <3>2. /\ Probed(j, found) \in RoomJob(op) /\ Probed(j, found).project = j.project
          /\ op = "create" => Probed(j, found).todo \in {Repolicy, Provision}
        BY <1>1, JobProbed
    <3>3. QED BY <3>1, <3>2
  <2>3. QED BY <2>1, <2>2
<1>6. UNCHANGED << strategy, serving, store, production, folder, passphrase, table, overtaken,
                   orders >>
    BY DEF Probe
<1>7. mishaps' \in 0 .. MaxMishaps
  <2>1. mishaps' = mishaps \/ (mishaps < MaxMishaps /\ mishaps' = mishaps + 1)
      BY DEF Probe
  <2>2. mishaps \in 0 .. MaxMishaps
      BY DEF RoomInv, RoomShape
  <2>3. QED BY <2>1, <2>2, RoomAssumption
<1>8. /\ passphrase' \in [Hubs -> {"none", "right", "wrong"}]
      /\ table' \in [Hubs -> {NoTable} \cup LockTable] /\ orders' \in 0 .. MaxOrders
    BY <1>6 DEF RoomInv, RoomShape
<1>9. op = "create" => DoneSoFar(J.todo, store[J.project])
    BY <1>5, PlansAreOpen
<1>10. jobs[h][op] # NoJob
    BY DEF Probe
<1> HIDE DEF j
<1>11. OneTable'
  <2>1. op = "list" => table'[h] = NoTable
      BY <1>6, <1>10 DEF RoomInv, OneTable
  <2>2. QED BY <1>4, <1>5, <1>6, <2>1, TablesStayAlone
<1>12. QED BY <1>4, <1>5, <1>6, <1>7, <1>8, <1>9, <1>11, OnlyAJob

LEMMA AnswerKeepsTheRoom ==
    ASSUME RoomInv, NEW h \in Hubs, NEW op \in Orders, Answered(h, op)
    PROVE  RoomInv'
<1> DEFINE j == jobs[h][op]
<1>1. j \in RoomJob(op) /\ j # NoJob
    BY UnderWay DEF Answered
<1>2. table' = [table EXCEPT ![h] = Shown(table[h], j)] /\ table \in [Hubs -> {NoTable} \cup LockTable]
    BY DEF Answered, RoomInv, RoomShape
<1> HIDE DEF j
<1>3. j.op = op /\ j.project \in Projects /\ j.path \in LockPaths /\ j.rows \subseteq LockPaths
    BY <1>1 DEF RoomJob
<1>4. Shown(table[h], j) \in {NoTable} \cup LockTable
  <2>1. table[h] \in {NoTable} \cup LockTable
      BY <1>2
  <2>2. LockBroken(table[h], j) \in {NoTable} \cup LockTable
      BY <2>1 DEF LockBroken, LockTable
  <2>3. [project |-> j.project, rows |-> j.rows, said |-> "none"] \in LockTable
      BY <1>3 DEF LockTable
  <2>4. QED BY <2>2, <2>3 DEF Shown
<1>5. table' \in [Hubs -> {NoTable} \cup LockTable]
    BY <1>2, <1>4
<1>6. \A g \in Hubs : table'[g] # NoTable => table[g] # NoTable \/ (g = h /\ op = "list")
  <2> SUFFICES ASSUME NEW g \in Hubs, table[g] = NoTable, table'[g] # NoTable
               PROVE  g = h /\ op = "list"
      OBVIOUS
  <2>1. g = h /\ Shown(NoTable, j) # NoTable
      BY <1>2
  <2>2. LockBroken(NoTable, j) = NoTable
      BY DEF LockBroken
  <2>3. QED BY <1>3, <2>1, <2>2 DEF Shown
<1>7. jobs' = [jobs EXCEPT ![h][op] = NoJob]
    BY DEF Answered
<1>8. OneTable'
    BY <1>6, <1>7, TablesStayAlone
<1>9. /\ UNCHANGED << strategy, serving, store, production, folder, overtaken >>
      /\ passphrase' \in [Hubs -> {"none", "right", "wrong"}]
      /\ orders' \in 0 .. MaxOrders /\ mishaps' \in 0 .. MaxMishaps
    BY DEF Answered, RoomInv, RoomShape
<1>10. QED BY <1>5, <1>7, <1>8, <1>9, OnlyAJob

(***************************************************************************)
(* A command on the server.                                                *)
(***************************************************************************)

LEMMA EmptyRepository ==
    /\ Absent \in Repositories /\ Bare \in Repositories /\ Ready \in Repositories
    /\ ~ Absent.there /\ ~ Absent.conf /\ ~ Absent.hook /\ ~ Absent.tree
    /\ Bare.there /\ ~ Bare.conf /\ ~ Bare.hook /\ ~ Bare.tree
    /\ Ready.there /\ Ready.conf /\ Ready.hook /\ Ready.tree
    /\ \A x \in LockPaths : Absent.locks[x] = NobodyLocks
<1>1. [x \in LockPaths |-> NobodyLocks] \in [LockPaths -> Lockers \cup {NobodyLocks}]
    OBVIOUS
<1>2. QED BY <1>1 DEF Absent, Bare, Ready, Repositories

\* But for the removal, a command only adds to a repository.
LEMMA EffectOfCommand ==
    ASSUME NEW r \in Repositories, NEW c, NEW x \in LockPaths, Possible(c, r),
           ~ r.there => r = Absent
    PROVE  /\ Effect(c, r, x) \in Repositories
           /\ ~ Effect(c, r, x).there => Effect(c, r, x) = Absent
           /\ (r.tree => r.conf /\ r.hook) /\ (c = "mkdir" => r.conf /\ r.hook) =>
                  (Effect(c, r, x).tree => Effect(c, r, x).conf /\ Effect(c, r, x).hook)
           /\ c \in {"rm", "svnadmin"} => ~ Effect(c, r, x).tree
           /\ c # "rm" => \A todo : DoneSoFar(todo, r) => DoneSoFar(todo, Effect(c, r, x))
<1>1. CASE c = "svnadmin"
  <2>1. Effect(c, r, x) = Bare /\ r = Absent
      BY <1>1 DEF Effect, Possible
  <2>2. QED BY <1>1, <2>1, EmptyRepository DEF DoneSoFar
<1>2. CASE c = "conf"
    BY <1>2 DEF Effect, Possible, Repositories, DoneSoFar
<1>3. CASE c = "hook"
    BY <1>3 DEF Effect, Possible, Repositories, DoneSoFar
<1>4. CASE c = "policy"
    BY <1>4 DEF Effect, Possible, Repositories, DoneSoFar
<1>5. CASE c = "mkdir"
    BY <1>5 DEF Effect, Possible, Repositories, DoneSoFar
<1>6. CASE c = "rm"
    BY <1>6, EmptyRepository DEF Effect
<1>7. CASE c = "rmlocks"
    BY <1>7 DEF Effect, Possible, Repositories, DoneSoFar, Unlock
<1>8. CASE c \notin {"svnadmin", "conf", "hook", "policy", "mkdir", "rm", "rmlocks"}
    BY <1>8 DEF Effect
<1>9. QED BY <1>1, <1>2, <1>3, <1>4, <1>5, <1>6, <1>7, <1>8

\* The making of a repository goes on after a command, and after a policy that
\* could not be written.
LEMMA MakingGoesOn ==
    ASSUME NEW r \in Repositories, NEW x \in LockPaths, NEW todo \in Scripts("create"),
           todo # <<>>, DoneSoFar(todo, r), Possible(Head(todo), r)
    PROVE  /\ DoneSoFar(Tail(todo), Effect(Head(todo), r, x))
           /\ Head(todo) = "mkdir" => r.conf /\ r.hook
<1>1. Scripts("create") = {<<>>, <<"probe">>, <<"hook", "policy">>, <<"policy">>,
                           <<"svnadmin", "conf", "policy", "hook", "mkdir">>,
                           <<"conf", "policy", "hook", "mkdir">>,
                           <<"policy", "hook", "mkdir">>, <<"hook", "mkdir">>, <<"mkdir">>}
    BY DEF Scripts
<1>2. CASE todo \in {<<"probe">>, <<"hook", "policy">>, <<"policy">>}
  <2>1. Tail(todo) \in {<<>>, <<"policy">>} /\ Head(todo) # "mkdir"
      BY <1>2, HeadsAndTails, Zenon
  <2>2. \A q : DoneSoFar(<<>>, q) /\ DoneSoFar(<<"policy">>, q)
      BY DEF DoneSoFar
  <2>3. QED BY <2>1, <2>2
<1>3. CASE todo = <<"svnadmin", "conf", "policy", "hook", "mkdir">>
  <2>1. Tail(todo) = <<"conf", "policy", "hook", "mkdir">> /\ Head(todo) = "svnadmin"
      BY <1>3, HeadsAndTails, Zenon
  <2>2. QED BY <2>1, EmptyRepository DEF DoneSoFar, Effect
<1>4. CASE todo = <<"conf", "policy", "hook", "mkdir">>
  <2>1. Tail(todo) = <<"policy", "hook", "mkdir">> /\ Head(todo) = "conf"
      BY <1>4, HeadsAndTails, Zenon
  <2>2. QED BY <1>4, <2>1 DEF DoneSoFar, Effect, Repositories
<1>5. CASE todo = <<"policy", "hook", "mkdir">>
  <2>1. Tail(todo) = <<"hook", "mkdir">> /\ Head(todo) = "policy"
      BY <1>5, HeadsAndTails, Zenon
  <2>2. QED BY <1>5, <2>1 DEF DoneSoFar, Effect, Repositories
<1>6. CASE todo = <<"hook", "mkdir">>
  <2>1. Tail(todo) = <<"mkdir">> /\ Head(todo) = "hook"
      BY <1>6, HeadsAndTails, Zenon
  <2>2. QED BY <1>6, <2>1 DEF DoneSoFar, Effect, Repositories
<1>7. CASE todo = <<"mkdir">>
  <2>1. Tail(todo) = <<>> /\ Head(todo) = "mkdir"
      BY <1>7, HeadsAndTails, Zenon
  <2>2. QED BY <1>7, <2>1 DEF DoneSoFar
<1>8. QED BY <1>1, <1>2, <1>3, <1>4, <1>5, <1>6, <1>7

LEMMA MakingGoesOnUnpolicied ==
    ASSUME NEW r, NEW todo \in Scripts("create"), Head(todo) = "policy", todo # <<>>,
           DoneSoFar(todo, r)
    PROVE  DoneSoFar(Tail(todo), r)
<1>1. Scripts("create") = {<<>>, <<"probe">>, <<"hook", "policy">>, <<"policy">>,
                           <<"svnadmin", "conf", "policy", "hook", "mkdir">>,
                           <<"conf", "policy", "hook", "mkdir">>,
                           <<"policy", "hook", "mkdir">>, <<"hook", "mkdir">>, <<"mkdir">>}
    BY DEF Scripts
<1>2. \/ todo = <<"policy", "hook", "mkdir">> /\ Tail(todo) = <<"hook", "mkdir">>
      \/ todo = <<"policy">> /\ Tail(todo) = <<>>
    BY <1>1, HeadsAndTails, Zenon
<1>3. QED BY <1>2 DEF DoneSoFar

\* Who is about to make the repository relies on nothing.
LEMMA MakingStarts ==
    ASSUME NEW r, NEW todo \in Scripts("create"), todo # <<>>, Head(todo) = "svnadmin"
    PROVE  DoneSoFar(todo, r)
<1>1. Scripts("create") = {<<>>, <<"probe">>, <<"hook", "policy">>, <<"policy">>,
                           <<"svnadmin", "conf", "policy", "hook", "mkdir">>,
                           <<"conf", "policy", "hook", "mkdir">>,
                           <<"policy", "hook", "mkdir">>, <<"hook", "mkdir">>, <<"mkdir">>}
    BY DEF Scripts
<1>2. todo = <<"svnadmin", "conf", "policy", "hook", "mkdir">>
    BY <1>1, HeadsAndTails, Zenon
<1>3. QED BY <1>2 DEF DoneSoFar

\* Where a command leaves the history: the repository it was about counts as
\* undisturbed if it was and the command has not removed it, or if nobody else
\* was making it.
LEMMA WhatWasOvertaken ==
    ASSUME overtaken \subseteq Projects, NEW h \in Hubs, NEW op, NEW c, NEW p \in Projects,
           Overtaking(h, op, c, p)
    PROVE  /\ overtaken' \subseteq Projects
           /\ \A q \in Projects : q # p => (q \in overtaken' <=> q \in overtaken)
           /\ p \notin overtaken' =>
                  \/ p \notin overtaken /\ c # "rm"
                  \/ /\ c \in {"rm", "svnadmin"}
                     /\ \A g \in Hubs : Makes(g, p) => g = h /\ op = "create"
<1>1. CASE c \notin {"rm", "svnadmin"}
    BY <1>1 DEF Overtaking
<1>2. CASE c \in {"rm", "svnadmin"} /\ \A g \in Hubs : Makes(g, p) => g = h /\ op = "create"
    BY <1>2 DEF Overtaking
<1>3. CASE c \in {"rm", "svnadmin"} /\ ~ \A g \in Hubs : Makes(g, p) => g = h /\ op = "create"
  <2>1. overtaken' = IF c = "rm" THEN overtaken \cup {p} ELSE overtaken
      BY <1>3 DEF Overtaking
  <2>2. QED BY <1>3, <2>1
<1>4. QED BY <1>1, <1>2, <1>3

LEMMA EffectKeepsTheRoom ==
    ASSUME RoomInv, NEW h \in Hubs, NEW op \in Orders, NEW J \in RoomJob(op),
           jobs[h][op] # NoJob, jobs[h][op].todo # <<>>, Head(jobs[h][op].todo) # "probe",
           Reached(h, Head(jobs[h][op].todo)),
           Possible(Head(jobs[h][op].todo), store[jobs[h][op].project]),
           Done(jobs[h][op], Head(jobs[h][op].todo)),
           Overtaking(h, op, Head(jobs[h][op].todo), jobs[h][op].project),
           jobs' = [jobs EXCEPT ![h][op] = J], J.project = jobs[h][op].project,
           op = "create" => J.todo = <<>> \/ J.todo = Tail(jobs[h][op].todo),
           UNCHANGED << strategy, serving, passphrase, table, orders >>,
           mishaps' \in 0 .. MaxMishaps
    PROVE  RoomInv'
<1>0. \A g \in Hubs, k \in Orders :
           jobs'[g][k] = IF g = h /\ k = op THEN J ELSE jobs[g][k]
  <2>1. RoomShape
      BY DEF RoomInv
  <2>2. J = NoJob \/ J \in RoomJob(op)
      OBVIOUS
  <2>3. QED BY <2>1, <2>2, JobsAt
<1> DEFINE j == jobs[h][op]
           c == Head(j.todo)
           p == j.project
           r == store[p]
           e == Effect(c, r, j.path)
<1>1. /\ j \in RoomJob(op) /\ j.project \in Projects /\ j.path \in LockPaths
      /\ j.todo \in Scripts(op) /\ j.todo # <<>>
    BY UnderWay DEF RoomJob
<1>3. /\ r \in Repositories /\ (~ r.there => r = Absent)
      /\ p \notin overtaken => (r.tree => r.conf /\ r.hook)
      /\ store \in [Projects -> Repositories]
    BY <1>1 DEF RoomInv, RoomShape, Emptiness, TreeIsGuarded
<1>4. op = "create" /\ p \notin overtaken => DoneSoFar(j.todo, r)
    BY DEF RoomInv, MakingHolds
<1>5. c \in {"svnadmin", "conf", "mkdir", "rm", "hook", "policy", "rmlocks"} => serving # "none"
    BY DEF Reached
<1>6. c \in {"svnadmin", "conf", "mkdir"} => op = "create"
    BY <1>1, ScriptSteps
<1>7. c = "mkdir" /\ p \notin overtaken => r.conf /\ r.hook
    BY <1>1, <1>3, <1>4, <1>6, MakingGoesOn
<1>8. /\ e \in Repositories /\ (~ e.there => e = Absent)
      /\ p \notin overtaken => (e.tree => e.conf /\ e.hook)
      /\ c \in {"rm", "svnadmin"} => ~ e.tree
      /\ c # "rm" => \A todo : DoneSoFar(todo, r) => DoneSoFar(todo, e)
    BY <1>1, <1>3, <1>7, EffectOfCommand
<1>9. /\ overtaken' \subseteq Projects
      /\ \A q \in Projects : q # p => (q \in overtaken' <=> q \in overtaken)
      /\ p \notin overtaken' =>
             \/ p \notin overtaken /\ c # "rm"
             \/ /\ c \in {"rm", "svnadmin"}
                /\ \A g \in Hubs : Makes(g, p) => g = h /\ op = "create"
  <2>1. overtaken \subseteq Projects
      BY DEF RoomInv, RoomShape
  <2>2. QED BY <1>1, <2>1, WhatWasOvertaken
<1>10. store' = [store EXCEPT ![p] = e]
    BY DEF Done
<1>11. op = "create" /\ p \notin overtaken' => DoneSoFar(J.todo, e)
  <2> SUFFICES ASSUME op = "create", p \notin overtaken' PROVE DoneSoFar(J.todo, e)
      OBVIOUS
  <2>1. CASE J.todo = <<>>
      BY <2>1, PlansAreOpen
  <2>2. CASE J.todo = Tail(j.todo)
    <3>1. CASE p \notin overtaken
        BY <1>1, <1>3, <1>4, <2>2, <3>1, MakingGoesOn
    <3>2. CASE p \in overtaken
      <4>1. c \in {"rm", "svnadmin"} /\ (c = "rm" => op \in {"delete", "cleanup"})
          BY <1>1, <1>9, <3>2, ScriptSteps
      <4>2. DoneSoFar(j.todo, r)
          BY <1>1, <4>1, MakingStarts
      <4>3. QED BY <1>1, <1>3, <2>2, <4>2, MakingGoesOn
    <3>3. QED BY <3>1, <3>2
  <2>3. QED BY <2>1, <2>2
<1>12. production' \in [Projects -> BOOLEAN] /\ folder' \in [Projects -> BOOLEAN]
  <2>1. production \in [Projects -> BOOLEAN] /\ folder \in [Projects -> BOOLEAN]
      BY DEF RoomInv, RoomShape
  <2>2. (production[p] /\ c # "kitsu") \in BOOLEAN /\ (folder[p] /\ c # "folder") \in BOOLEAN
      OBVIOUS
  <2>3. /\ production' = [production EXCEPT ![p] = production[p] /\ c # "kitsu"]
        /\ folder' = [folder EXCEPT ![p] = folder[p] /\ c # "folder"]
      BY DEF Done
  <2> DEFINE b1 == production[p] /\ c # "kitsu"
             b2 == folder[p] /\ c # "folder"
  <2>4. b1 \in BOOLEAN /\ b2 \in BOOLEAN /\ production' = [production EXCEPT ![p] = b1]
        /\ folder' = [folder EXCEPT ![p] = b2]
      BY <2>2, <2>3
  <2> HIDE DEF b1, b2
  <2>5. QED BY <2>1, <2>4
<1>13. J.project = p /\ jobs' = [jobs EXCEPT ![h][op] = J]
    OBVIOUS
<1>15. serving = "none" => store' = store
  <2> SUFFICES ASSUME serving = "none" PROVE store' = store
      OBVIOUS
  <2>1. c \notin {"svnadmin", "conf", "mkdir", "rm", "hook", "policy", "rmlocks"}
      BY <1>5
  <2>2. e = r
      BY <2>1 DEF Effect
  <2>3. QED BY <1>1, <1>3, <1>10, <2>2
<1>16. p \in Projects
    BY <1>1
<1> HIDE DEF j, c, p, r, e
<1>17. \A q \in Projects : store'[q] = IF q = p THEN e ELSE store[q]
    BY <1>3, <1>10, <1>16
<1>18. RoomShape'
  <2>1. store' \in [Projects -> Repositories]
      BY <1>3, <1>8, <1>10
  <2>2. QED BY <1>9, <1>12, <2>1, JobsAt DEF RoomInv, RoomShape
<1>19. Emptiness'
  <2>1. \A q \in Projects : ~ store'[q].there => store'[q] = Absent
      BY <1>8, <1>17 DEF RoomInv, Emptiness
  <2>2. serving = "none" => \A q \in Projects : ~ store'[q].there
      BY <1>15 DEF RoomInv, Emptiness
  <2>3. QED BY <2>1, <2>2 DEF Emptiness, Absent
<1>21. TreeIsGuarded'
  <2> SUFFICES ASSUME NEW q \in Projects, q \notin overtaken', store'[q].tree
               PROVE  store'[q].conf /\ store'[q].hook
      BY DEF TreeIsGuarded
  <2>1. CASE q = p
      BY <1>8, <1>9, <1>17, <2>1
  <2>2. CASE q # p
      BY <1>9, <1>17, <2>2 DEF RoomInv, TreeIsGuarded
  <2>3. QED BY <2>1, <2>2
<1>22. OneTable'
  <2>1. op = "list" => table[h] = NoTable
      BY DEF RoomInv, OneTable
  <2>2. QED BY <1>13, <2>1, TablesStayAlone
<1>23. MakingHolds'
  <2> SUFFICES ASSUME NEW g \in Hubs, jobs'[g]["create"] # NoJob,
                      jobs'[g]["create"].project \notin overtaken'
               PROVE  DoneSoFar(jobs'[g]["create"].todo, store'[jobs'[g]["create"].project])
      BY DEF MakingHolds
  <2>1. "create" \in Orders
      BY DEF Orders
  <2>2. CASE g = h /\ op = "create"
    <3>1. jobs'[g]["create"] = J
        BY <1>0, <2>1, <2>2
    <3>2. QED BY <1>11, <1>13, <1>16, <1>17, <2>2, <3>1
  <2>3. CASE ~ (g = h /\ op = "create")
    <3>1. jobs'[g]["create"] = jobs[g]["create"]
        BY <1>0, <2>1, <2>3
    <3>2. jobs[g]["create"] # NoJob /\ jobs[g]["create"].project \in Projects
        BY <2>1, <3>1, UnderWay
    <3>4. CASE jobs[g]["create"].project = p
      <4>1. CASE jobs[g]["create"].todo = <<>>
          BY <3>1, <4>1, PlansAreOpen
      <4>2. CASE jobs[g]["create"].todo # <<>>
        <5>1. Makes(g, p)
            BY <3>2, <3>4, <4>2 DEF Makes
        <5>2. p \notin overtaken /\ c # "rm"
            BY <1>9, <2>3, <3>1, <3>4, <5>1
        <5>3. DoneSoFar(jobs[g]["create"].todo, r)
            BY <3>2, <3>4, <5>2 DEF RoomInv, MakingHolds, r
        <5>4. QED BY <1>8, <1>16, <1>17, <3>1, <3>4, <5>2, <5>3
      <4>3. QED BY <4>1, <4>2
    <3>5. CASE jobs[g]["create"].project # p
      <4>1. jobs[g]["create"].project \notin overtaken
          BY <1>9, <3>1, <3>2, <3>5
      <4>2. DoneSoFar(jobs[g]["create"].todo, store[jobs[g]["create"].project])
          BY <3>2, <4>1 DEF RoomInv, MakingHolds
      <4>3. QED BY <1>17, <3>1, <3>2, <3>5, <4>2
    <3>6. QED BY <3>4, <3>5
  <2>4. QED BY <2>2, <2>3
<1>24. QED BY <1>18, <1>19, <1>21, <1>22, <1>23 DEF RoomInv

LEMMA CommandKeepsTheRoom ==
    ASSUME RoomInv, NEW h \in Hubs, NEW op \in Orders, Command(h, op)
    PROVE  RoomInv'
<1> DEFINE j == jobs[h][op]
           c == Head(j.todo)
           p == j.project
           fits == Reached(h, c) /\ Possible(c, store[p])
           rows == IF c = "lslocks" THEN Parsed(store[p]) ELSE j.rows
           W == [WentOn(j) EXCEPT !.rows = rows]
<1>1. j \in RoomJob(op) /\ j # NoJob /\ j.todo # <<>> /\ c # "probe"
    BY UnderWay DEF Command
<1>3. /\ Failed(j) \in RoomJob(op) /\ Failed(j).project = p
      /\ op = "create" => \/ Failed(j).todo = <<>>
                          \/ c = "policy" /\ Failed(j).todo = Tail(j.todo)
    BY <1>1, JobFailed
<1>4. W \in RoomJob(op) /\ W.project = p /\ W.todo = Tail(j.todo)
  <2>1. rows \subseteq LockPaths
      BY <1>1 DEF RoomJob, Parsed
  <2>2. /\ WentOn(j) \in RoomJob(op) /\ WentOn(j).todo = Tail(j.todo)
        /\ WentOn(j).project = p /\ WentOn(j).rows = j.rows
      BY <1>1, JobWentOn
  <2> HIDE DEF rows, j
  <2>3. QED BY <2>1, <2>2 DEF RoomJob
<1>5. UNCHANGED << strategy, serving, passphrase, table, orders >>
    BY DEF Command
<1>6. mishaps' \in 0 .. MaxMishaps
  <2>1. mishaps' = mishaps \/ (mishaps < MaxMishaps /\ mishaps' = mishaps + 1)
      BY DEF Command
  <2>2. mishaps \in 0 .. MaxMishaps
      BY DEF RoomInv, RoomShape
  <2>3. QED BY <2>1, <2>2, RoomAssumption
<1>7. \/ fits /\ Done(j, c) /\ Overtaking(h, op, c, p) /\ jobs' = [jobs EXCEPT ![h][op] = W]
      \/ jobs' = [jobs EXCEPT ![h][op] = Failed(j)]
         /\ UNCHANGED << store, production, folder, overtaken >>
      \/ fits /\ Done(j, c) /\ Overtaking(h, op, c, p)
         /\ jobs' = [jobs EXCEPT ![h][op] = Failed(j)]
  <2>1. [WentOn(j) EXCEPT !.rows = IF c = "lslocks" THEN Parsed(store[p]) ELSE @] = W
    <3>1. WentOn(j).rows = j.rows
        BY <1>1, JobWentOn
    <3>2. QED BY <3>1
  <2> HIDE DEF W
  <2>2. QED BY <2>1 DEF Command
<1>8. CASE fits /\ Done(j, c) /\ Overtaking(h, op, c, p) /\ jobs' = [jobs EXCEPT ![h][op] = W]
  <2> HIDE DEF W
  <2>1. QED BY <1>1, <1>4, <1>5, <1>6, <1>8, EffectKeepsTheRoom
<1>9. CASE fits /\ Done(j, c) /\ Overtaking(h, op, c, p)
           /\ jobs' = [jobs EXCEPT ![h][op] = Failed(j)]
    BY <1>1, <1>3, <1>5, <1>6, <1>9, EffectKeepsTheRoom
<1>10. CASE jobs' = [jobs EXCEPT ![h][op] = Failed(j)]
            /\ UNCHANGED << store, production, folder, overtaken >>
  <2>1. op = "create" /\ p \notin overtaken => DoneSoFar(Failed(j).todo, store[p])
    <3> SUFFICES ASSUME op = "create", p \notin overtaken PROVE DoneSoFar(Failed(j).todo, store[p])
        OBVIOUS
    <3>1. CASE Failed(j).todo = <<>>
        BY <3>1, PlansAreOpen
    <3>2. CASE c = "policy" /\ Failed(j).todo = Tail(j.todo)
      <4>1. DoneSoFar(j.todo, store[p])
          BY <1>1 DEF RoomInv, MakingHolds
      <4>2. j.todo \in Scripts("create")
          BY <1>1 DEF RoomJob
      <4>3. QED BY <1>1, <3>2, <4>1, <4>2, MakingGoesOnUnpolicied
    <3>3. QED BY <1>3, <3>1, <3>2
  <2>2. /\ passphrase' \in [Hubs -> {"none", "right", "wrong"}]
        /\ table' \in [Hubs -> {NoTable} \cup LockTable] /\ orders' \in 0 .. MaxOrders
      BY <1>5 DEF RoomInv, RoomShape
  <2>3. OneTable'
    <3>1. op = "list" => table'[h] = NoTable
        BY <1>1, <1>5 DEF RoomInv, OneTable
    <3>2. QED BY <1>3, <1>5, <1>10, <3>1, TablesStayAlone
  <2>4. QED BY <1>3, <1>5, <1>6, <1>10, <2>1, <2>2, <2>3, OnlyAJob
<1>11. QED BY <1>7, <1>8, <1>9, <1>10

(***************************************************************************)
(* The server, the artists, and all steps together.                        *)
(***************************************************************************)

LEMMA ServerKeepsTheRoom ==
    ASSUME RoomInv, ServerStops \/ ServerBack \/ DeploySvn
    PROVE  RoomInv'
<1>1. UNCHANGED << strategy, store, production, folder, passphrase, jobs, table, overtaken, orders >>
    BY DEF ServerStops, ServerBack, DeploySvn
<1>2. mishaps' \in 0 .. MaxMishaps
  <2>1. mishaps' = mishaps \/ (mishaps < MaxMishaps /\ mishaps' = mishaps + 1)
      BY DEF ServerStops, ServerBack, DeploySvn
  <2>2. mishaps \in 0 .. MaxMishaps
      BY DEF RoomInv, RoomShape
  <2>3. QED BY <2>1, <2>2, RoomAssumption
<1>3. serving' \in {"up", "down"}
    BY DEF ServerStops, ServerBack, DeploySvn
<1>4. RoomShape'
    BY <1>1, <1>2, <1>3 DEF RoomInv, RoomShape
<1>5. Emptiness' /\ MakingHolds' /\ OneTable' /\ TreeIsGuarded'
    BY <1>1, <1>3 DEF RoomInv, Emptiness, Absent, MakingHolds, OneTable, TreeIsGuarded
<1>6. QED BY <1>4, <1>5 DEF RoomInv

LEMMA StopKeepsTheRoom ==
    ASSUME RoomInv, NEW h \in Hubs, StopSvn(h)
    PROVE  RoomInv'
<1>1. UNCHANGED << strategy, production, folder, passphrase, jobs, table, orders >>
    BY DEF StopSvn
<1>2. mishaps' \in 0 .. MaxMishaps
  <2>1. mishaps < MaxMishaps /\ mishaps' = mishaps + 1
      BY DEF StopSvn
  <2>2. mishaps \in 0 .. MaxMishaps
      BY DEF RoomInv, RoomShape
  <2>3. QED BY <2>1, <2>2, RoomAssumption
<1>3. /\ serving' = "none" /\ store' = [p \in Projects |-> Absent]
      /\ overtaken' = {p \in Projects : \E g \in Hubs : Makes(g, p)}
    BY DEF StopSvn
<1>4. RoomShape'
    BY <1>1, <1>2, <1>3, EmptyRepository DEF RoomInv, RoomShape
<1>5. Emptiness' /\ TreeIsGuarded'
    BY <1>3, EmptyRepository DEF Emptiness, TreeIsGuarded, Absent
<1>6. OneTable'
    BY <1>1 DEF RoomInv, OneTable
<1>7. MakingHolds'
  <2> SUFFICES ASSUME NEW g \in Hubs, jobs[g]["create"] # NoJob,
                      jobs[g]["create"].project \notin overtaken'
               PROVE  DoneSoFar(jobs[g]["create"].todo, store'[jobs[g]["create"].project])
      BY <1>1 DEF MakingHolds
  <2>1. jobs[g]["create"].project \in Projects
      BY UnderWay DEF Orders
  <2>2. jobs[g]["create"].todo = <<>>
      BY <1>3, <2>1 DEF Makes
  <2>3. QED BY <2>2, PlansAreOpen
<1>8. QED BY <1>4, <1>5, <1>6, <1>7 DEF RoomInv

LEMMA LockKeepsTheRoom ==
    ASSUME RoomInv, NEW a \in Lockers, NEW p \in Projects, NEW x \in LockPaths, Lock(a, p, x)
    PROVE  RoomInv'
<1>1. UNCHANGED << strategy, serving, production, folder, passphrase, jobs, table, orders,
                   overtaken, mishaps >>
    BY DEF Lock
<1> DEFINE r == store[p]
           k == IF r.locks[x] = a THEN NobodyLocks ELSE a
           s == [r EXCEPT !.locks[x] = k]
<1>2. store \in [Projects -> Repositories] /\ r \in Repositories
    BY DEF RoomInv, RoomShape
<1>3. store' = [store EXCEPT ![p] = s]
    BY DEF Lock
<1>4. r.conf /\ r.there
  <2>1. r.conf
      BY DEF Lock
  <2>2. ~ r.there => r = Absent
      BY DEF RoomInv, Emptiness
  <2>3. QED BY <2>1, <2>2, EmptyRepository
<1>5. k \in Lockers \cup {NobodyLocks}
    OBVIOUS
<1> HIDE DEF r, k
<1>6. /\ s \in Repositories /\ s.there = r.there /\ s.conf = r.conf
      /\ s.hook = r.hook /\ s.tree = r.tree
    BY <1>2, <1>5 DEF Repositories
<1> HIDE DEF s
<1>7. \A q \in Projects : store'[q] = IF q = p THEN s ELSE store[q]
    BY <1>2, <1>3
<1>8. RoomShape'
  <2>1. store' \in [Projects -> Repositories]
      BY <1>2, <1>3, <1>6
  <2>2. QED BY <1>1, <2>1 DEF RoomInv, RoomShape
<1>9. serving # "none"
    BY DEF Lock
<1>10. Emptiness'
  <2>1. \A q \in Projects : ~ store'[q].there => store'[q] = Absent
      BY <1>4, <1>6, <1>7 DEF RoomInv, Emptiness
  <2>2. QED BY <1>1, <1>9, <2>1 DEF Emptiness, Absent
<1>11. TreeIsGuarded'
    BY <1>1, <1>6, <1>7 DEF RoomInv, TreeIsGuarded, r
<1>12. OneTable'
    BY <1>1 DEF RoomInv, OneTable
<1>13. MakingHolds'
  <2> SUFFICES ASSUME NEW g \in Hubs, jobs[g]["create"] # NoJob,
                      jobs[g]["create"].project \notin overtaken
               PROVE  DoneSoFar(jobs[g]["create"].todo, store'[jobs[g]["create"].project])
      BY <1>1 DEF MakingHolds
  <2>1. DoneSoFar(jobs[g]["create"].todo, store[jobs[g]["create"].project])
      BY DEF RoomInv, MakingHolds
  <2>2. jobs[g]["create"].project \in Projects
      BY UnderWay DEF Orders
  <2>3. QED BY <1>6, <1>7, <2>1, <2>2 DEF DoneSoFar, r
<1>14. QED BY <1>8, <1>10, <1>11, <1>12, <1>13 DEF RoomInv

LEMMA RoomStarts == RoomInit => RoomInv
<1> SUFFICES ASSUME RoomInit PROVE RoomInv
    OBVIOUS
<1>1. \A h \in Hubs, k \in Orders : jobs[h][k] = NoJob
    BY DEF RoomInit
<1>2. "create" \in Orders /\ "delete" \in Orders /\ "cleanup" \in Orders /\ "list" \in Orders
    BY DEF Orders
<1>3. RoomShape
  <2>1. store \in [Projects -> Repositories]
      BY EmptyRepository DEF RoomInit
  <2>2. jobs \in [Hubs -> [Orders -> {NoJob} \cup UNION {RoomJob(op) : op \in Orders}]]
      BY DEF RoomInit
  <2>3. orders \in 0 .. MaxOrders /\ mishaps \in 0 .. MaxMishaps
      BY RoomAssumption DEF RoomInit
  <2>4. table \in [Hubs -> {NoTable} \cup LockTable]
      BY DEF RoomInit
  <2>5. /\ strategy \in Strategies /\ serving \in {"up", "down", "none"}
        /\ production \in [Projects -> BOOLEAN] /\ folder \in [Projects -> BOOLEAN]
        /\ passphrase \in [Hubs -> {"none", "right", "wrong"}] /\ overtaken \subseteq Projects
      BY DEF RoomInit
  <2>6. QED BY <1>1, <2>1, <2>2, <2>3, <2>4, <2>5 DEF RoomShape
<1>4. Emptiness /\ TreeIsGuarded
    BY EmptyRepository DEF RoomInit, Emptiness, TreeIsGuarded
<1>5. MakingHolds /\ OneTable
    BY <1>1, <1>2 DEF MakingHolds, OneTable
<1>6. QED BY <1>3, <1>4, <1>5 DEF RoomInv

LEMMA RoomSteps == RoomInv /\ [RoomNext]_roomVars => RoomInv'
<1> SUFFICES ASSUME RoomInv, [RoomNext]_roomVars PROVE RoomInv'
    OBVIOUS
<1>1. ASSUME NEW h \in Hubs, NEW p \in Projects,
             CreateRepository(h, p) \/ DeleteProject(h, p) \/ CleanUpRepository(h, p)
                 \/ ApplyPolicy(h, p) \/ ListLocks(h, p)
      PROVE  RoomInv'
    BY <1>1, StartsKeepTheRoom
<1>2. ASSUME NEW h \in Hubs, BreakLock(h) PROVE RoomInv'
    BY <1>2, BreakKeepsTheRoom
<1>3. ASSUME NEW h \in Hubs, TestServer(h) \/ SavePassphrase(h) \/ CloseTable(h) PROVE RoomInv'
    BY <1>3, PanelKeepsTheRoom
<1>4. ASSUME NEW h \in Hubs, StopSvn(h) PROVE RoomInv'
    BY <1>4, StopKeepsTheRoom
<1>5. ASSUME NEW h \in Hubs, NEW op \in Orders, Probe(h, op) PROVE RoomInv'
    BY <1>5, ProbeKeepsTheRoom
<1>6. ASSUME NEW h \in Hubs, NEW op \in Orders, Command(h, op) PROVE RoomInv'
    BY <1>6, CommandKeepsTheRoom
<1>7. ASSUME NEW h \in Hubs, NEW op \in Orders, Answered(h, op) PROVE RoomInv'
    BY <1>7, AnswerKeepsTheRoom
<1>8. CASE ServerStops \/ ServerBack \/ DeploySvn
    BY <1>8, ServerKeepsTheRoom
<1>9. ASSUME NEW a \in Lockers, NEW p \in Projects, NEW x \in LockPaths, Lock(a, p, x)
      PROVE  RoomInv'
    BY <1>9, LockKeepsTheRoom
<1>10. CASE UNCHANGED roomVars
    BY <1>10 DEF roomVars, RoomInv, RoomShape, Emptiness, Absent, MakingHolds, OneTable, TreeIsGuarded
<1>11. QED BY <1>1, <1>2, <1>3, <1>4, <1>5, <1>6, <1>7, <1>8, <1>9, <1>10 DEF RoomNext

LEMMA RoomInvariant == RoomInit /\ [][RoomNext]_roomVars => []RoomInv
<1>1. RoomInit => RoomInv
    BY RoomStarts
<1>2. RoomInv /\ [RoomNext]_roomVars => RoomInv'
    BY RoomSteps
<1>3. QED BY <1>1, <1>2, PTL

CommandNames == {"probe", "svnadmin", "conf", "policy", "hook", "mkdir", "rm",
                 "kitsu", "folder", "lslocks", "rmlocks", "version"}

LEMMA ScriptsAreLists ==
    ASSUME NEW op \in Orders
    PROVE  Scripts(op) \subseteq Seq(CommandNames)
<1> DEFINE C == CommandNames
<1>1. {"probe", "svnadmin", "conf", "policy", "hook", "mkdir", "rm",
       "kitsu", "folder", "lslocks", "rmlocks", "version"} \subseteq C
    BY DEF CommandNames
<1> HIDE DEF C
<1>2. /\ <<>> \in Seq(C)
      /\ \A a \in C : <<a>> \in Seq(C)
      /\ \A a, b \in C : <<a, b>> \in Seq(C)
      /\ \A a, b, c \in C : <<a, b, c>> \in Seq(C)
      /\ \A a, b, c, d \in C : <<a, b, c, d>> \in Seq(C)
      /\ \A a, b, c, d, e \in C : <<a, b, c, d, e>> \in Seq(C)
    OBVIOUS
<1>3. /\ <<>> \in Seq(C) /\ <<"probe">> \in Seq(C) /\ <<"hook", "policy">> \in Seq(C)
      /\ <<"policy">> \in Seq(C) /\ <<"svnadmin", "conf", "policy", "hook", "mkdir">> \in Seq(C)
      /\ <<"conf", "policy", "hook", "mkdir">> \in Seq(C)
      /\ <<"policy", "hook", "mkdir">> \in Seq(C) /\ <<"hook", "mkdir">> \in Seq(C)
      /\ <<"mkdir">> \in Seq(C)
    BY <1>1, <1>2
<1>4. /\ <<"probe", "rm">> \in Seq(C) /\ <<"rm">> \in Seq(C)
      /\ <<"kitsu", "rm", "folder">> \in Seq(C) /\ <<"kitsu", "probe", "rm", "folder">> \in Seq(C)
      /\ <<"probe", "rm", "folder">> \in Seq(C) /\ <<"rm", "folder">> \in Seq(C)
      /\ <<"folder">> \in Seq(C) /\ <<"lslocks">> \in Seq(C) /\ <<"rmlocks">> \in Seq(C)
      /\ <<"version">> \in Seq(C)
    BY <1>1, <1>2
<1>5. CASE op = "create"
    BY <1>3, <1>5, Zenon DEF Scripts, C
<1>6. CASE op # "create"
    BY <1>3, <1>4, <1>6, Zenon DEF Scripts, Orders, C
<1>7. QED BY <1>5, <1>6

\* The invariant of the room contains its types.
LEMMA RoomTypes == RoomInv => RoomTypeOK
<1> SUFFICES ASSUME RoomInv PROVE RoomTypeOK
    OBVIOUS
<1>1. \A op \in Orders : RoomJob(op) \subseteq Job
  <2> SUFFICES ASSUME NEW op \in Orders, NEW j \in RoomJob(op) PROVE j \in Job
      OBVIOUS
  <2>1. Scripts(op) \subseteq Seq(CommandNames)
      BY ScriptsAreLists
  <2>2. QED BY <2>1 DEF RoomJob, Job, CommandNames
<1>2. \A op \in Orders : \A j \in RoomJob(op) : j.op = op
    BY DEF RoomJob
<1>3. \A h \in Hubs, k \in Orders :
         jobs[h][k] # NoJob => jobs[h][k] \in Job /\ jobs[h][k].op = k
    BY <1>1, <1>2 DEF RoomInv, RoomShape
<1>4. \A h \in Hubs : table[h] = NoTable \/
         table[h] \in [project : Projects, rows : SUBSET LockPaths,
                       said : {"none", "notStarted", "removed", "failed"}]
    BY DEF RoomInv, RoomShape, LockTable
<1>5. QED BY <1>3, <1>4 DEF RoomInv, RoomShape, RoomTypeOK, Repositories

\* The variables of the server room keep their types, and an operation sits
\* under its own key, with a list of commands the code can give it.
THEOREM RoomIsTyped == RoomSpec => []RoomTypeOK
BY RoomTypes, RoomInvariant, PTL DEF RoomSpec

\* Whoever is making, removing or repairing repositories, whatever fails and
\* however often the server goes away: a repository with a tree to check out
\* has the access rules and the hook that enforces the locks.
THEOREM RepositoriesAreGuarded == RoomSpec => []TreeIsGuarded
<1>1. RoomInv => TreeIsGuarded
    BY DEF RoomInv
<1>2. QED BY <1>1, RoomInvariant, PTL DEF RoomSpec

(***************************************************************************)
(* What an administrator's step may take away.                             *)
(***************************************************************************)

LEMMA LocksGoOneByOne ==
    ASSUME RoomInv, NEW h \in Hubs, NEW op \in Orders, Command(h, op),
           NEW p \in Projects, NEW x \in LockPaths,
           store[p].locks[x] # NobodyLocks, store'[p].locks[x] = NobodyLocks,
           store'[p].there
    PROVE  /\ op = "break" /\ jobs[h][op] # NoJob /\ jobs[h][op].project = p
           /\ jobs[h][op].path = x /\ jobs[h][op].todo # <<>>
<1> DEFINE j == jobs[h][op]
           c == Head(j.todo)
           r == store[p]
<1>1. /\ j \in RoomJob(op) /\ j # NoJob /\ j.todo # <<>> /\ j.todo \in Scripts(op)
      /\ j.project \in Projects /\ j.path \in LockPaths
    BY UnderWay DEF Command, RoomJob
<1>2. /\ store \in [Projects -> Repositories] /\ r \in Repositories
      /\ ~ r.there => r = Absent
    BY DEF RoomInv, RoomShape, Emptiness
<1>3. store' = [store EXCEPT ![j.project] = Effect(c, store[j.project], j.path)]
      /\ Possible(c, store[j.project])
    BY <1>2 DEF Command, Done
<1> HIDE DEF j, c
<1>4. j.project = p /\ store'[p] = Effect(c, r, j.path) /\ Possible(c, r)
    BY <1>1, <1>2, <1>3
<1>5. c # "svnadmin"
    BY <1>2, <1>4, EmptyRepository DEF Possible
<1>6. c # "rm"
    BY <1>4, EmptyRepository DEF Effect
<1>7. c = "rmlocks" /\ j.path = x
    BY <1>1, <1>2, <1>4, <1>5, <1>6 DEF Effect, Unlock, Repositories
<1>8. op = "break"
    BY <1>1, <1>7, ScriptSteps DEF c
<1>9. QED BY <1>1, <1>4, <1>7, <1>8 DEF j

LEMMA RowsGoOneByOne ==
    ASSUME RoomInv, NEW g \in Hubs, NEW op \in Orders, Answered(g, op),
           NEW h \in Hubs, table[h] # NoTable,
           NEW x \in table[h].rows \ table'[h].rows
    PROVE  LET j == jobs[h]["break"] IN
              j # NoJob /\ j.project = table[h].project /\ j.path = x /\ j.told = "ok"
<1> DEFINE j == jobs[g][op]
           t == table[h]
<1>1. j \in RoomJob(op) /\ j # NoJob /\ j.op = op
    BY UnderWay DEF Answered, RoomJob
<1>2. t \in LockTable /\ table \in [Hubs -> {NoTable} \cup LockTable]
    BY DEF RoomInv, RoomShape
<1>3. g = h /\ table'[h] = Shown(t, j)
    BY <1>2 DEF Answered
<1>4. op # "list"
    BY <1>1, <1>3 DEF RoomInv, OneTable
<1> HIDE DEF j, t
<1>5. Shown(t, j) = LockBroken(t, j)
    BY <1>1, <1>4 DEF Shown
<1>6. x \in t.rows /\ x \notin LockBroken(t, j).rows
    BY <1>3, <1>5 DEF t
<1>7. op = "break" /\ j.project = t.project /\ j.told = "ok" /\ j.path = x
    BY <1>1, <1>2, <1>6 DEF LockBroken, LockTable
<1>8. QED BY <1>1, <1>3, <1>7 DEF j, t

LEMMA OthersTakeNothing ==
    ASSUME RoomInv, [RoomNext]_roomVars,
           \A h \in Hubs, op \in Orders : ~ Command(h, op) /\ ~ Answered(h, op)
    PROVE  /\ store' = store \/ jobs' = jobs
           /\ \A h \in Hubs : table[h] # NoTable /\ table'[h] # NoTable
                                  => table'[h].rows = table[h].rows
<1>1. table \in [Hubs -> {NoTable} \cup LockTable]
    BY DEF RoomInv, RoomShape
<1>2. ASSUME NEW h \in Hubs, NEW p \in Projects,
             CreateRepository(h, p) \/ DeleteProject(h, p) \/ CleanUpRepository(h, p)
                 \/ ApplyPolicy(h, p) \/ ListLocks(h, p)
      PROVE  store' = store /\ table' = table
    BY <1>2 DEF CreateRepository, DeleteProject, CleanUpRepository, ApplyPolicy, ListLocks
<1>3. ASSUME NEW h \in Hubs, BreakLock(h)
      PROVE  store' = store /\ \A g \in Hubs : table[g] # NoTable => table'[g].rows = table[g].rows
    BY <1>1, <1>3 DEF BreakLock, LockTable
<1>4. ASSUME NEW h \in Hubs, CloseTable(h)
      PROVE  store' = store /\ \A g \in Hubs : table'[g] # NoTable => table'[g] = table[g]
    BY <1>1, <1>4 DEF CloseTable
<1>5. ASSUME NEW h \in Hubs, TestServer(h) \/ SavePassphrase(h)
      PROVE  store' = store /\ table' = table
    BY <1>5 DEF TestServer, SavePassphrase
<1>6. ASSUME NEW h \in Hubs, StopSvn(h) PROVE jobs' = jobs /\ table' = table
    BY <1>6 DEF StopSvn
<1>7. ASSUME NEW h \in Hubs, NEW op \in Orders, Probe(h, op) PROVE store' = store /\ table' = table
    BY <1>7 DEF Probe
<1>8. CASE ServerStops \/ ServerBack \/ DeploySvn
    BY <1>8 DEF ServerStops, ServerBack, DeploySvn
<1>9. ASSUME NEW a \in Lockers, NEW p \in Projects, NEW x \in LockPaths, Lock(a, p, x)
      PROVE  jobs' = jobs /\ table' = table
    BY <1>9 DEF Lock
<1>10. CASE UNCHANGED roomVars
    BY <1>10 DEF roomVars
<1>11. QED BY <1>2, <1>3, <1>4, <1>5, <1>6, <1>7, <1>8, <1>9, <1>10 DEF RoomNext

LEMMA ConfirmedSteps ==
    ASSUME RoomInv, [RoomNext]_roomVars
    PROVE  /\ \A p \in Projects, x \in LockPaths :
                (/\ store[p].locks[x] # NobodyLocks /\ store'[p].locks[x] = NobodyLocks
                 /\ store'[p].there /\ jobs' # jobs)
                => \E h \in Hubs : LET j == jobs[h]["break"] IN
                     j # NoJob /\ j.project = p /\ j.path = x /\ j.todo # <<>>
           /\ \A h \in Hubs : table[h] # NoTable /\ table'[h] # NoTable =>
                \A x \in table[h].rows \ table'[h].rows : LET j == jobs[h]["break"] IN
                  j # NoJob /\ j.project = table[h].project /\ j.path = x /\ j.told = "ok"
<1>1. CASE \A h \in Hubs, op \in Orders : ~ Command(h, op) /\ ~ Answered(h, op)
    BY <1>1, OthersTakeNothing
<1>2. ASSUME NEW h \in Hubs, NEW op \in Orders, Command(h, op)
      PROVE  /\ table' = table
             /\ \A p \in Projects, x \in LockPaths :
                  (/\ store[p].locks[x] # NobodyLocks /\ store'[p].locks[x] = NobodyLocks
                   /\ store'[p].there)
                  => \E g \in Hubs : LET j == jobs[g]["break"] IN
                       j # NoJob /\ j.project = p /\ j.path = x /\ j.todo # <<>>
  <2>1. table' = table
      BY <1>2 DEF Command
  <2>2. QED BY <1>2, <2>1, LocksGoOneByOne
<1>3. ASSUME NEW g \in Hubs, NEW op \in Orders, Answered(g, op)
      PROVE  /\ store' = store
             /\ \A h \in Hubs : table[h] # NoTable =>
                  \A x \in table[h].rows \ table'[h].rows : LET j == jobs[h]["break"] IN
                    j # NoJob /\ j.project = table[h].project /\ j.path = x /\ j.told = "ok"
  <2>1. store' = store
      BY <1>3 DEF Answered
  <2>2. QED BY <1>3, <2>1, RowsGoOneByOne
<1>4. QED BY <1>1, <1>2, <1>3

LEMMA ConfirmedGoes == RoomInit /\ [][RoomNext]_roomVars => OnlyWhatWasConfirmed
<1>1. RoomInv /\ [RoomNext]_roomVars =>
        /\ \A p \in Projects, x \in LockPaths :
                (/\ store[p].locks[x] # NobodyLocks /\ store'[p].locks[x] = NobodyLocks
                 /\ store'[p].there /\ jobs' # jobs)
                => \E h \in Hubs : LET j == jobs[h]["break"] IN
                     j # NoJob /\ j.project = p /\ j.path = x /\ j.todo # <<>>
        /\ \A h \in Hubs : table[h] # NoTable /\ table'[h] # NoTable =>
                \A x \in table[h].rows \ table'[h].rows : LET j == jobs[h]["break"] IN
                  j # NoJob /\ j.project = table[h].project /\ j.path = x /\ j.told = "ok"
    BY ConfirmedSteps
<1>2. QED BY <1>1, RoomInvariant, PTL DEF OnlyWhatWasConfirmed

\* An administrator's step takes from a repository that stays at most the one
\* lock whose removal was confirmed, and from an open lock table at most the
\* row of a lock of the same project that the server has removed.
THEOREM OnlyTheConfirmedGoes == RoomSpec => OnlyWhatWasConfirmed
BY ConfirmedGoes, PTL DEF RoomSpec

(***************************************************************************)
(* The working copy: no work of the artist is lost.                        *)
(***************************************************************************)

\* Contents that have been saved so far.
Known == 0 .. lastSave \cup {NoFile}

NodeOf(K) == [sched : Schedules, base : K, disk : K, folder : BOOLEAN,
              conflict : {"none", "text", "tree"}]

FilesShape ==
    /\ server \in [Paths -> Known] /\ node \in [Paths -> NodeOf(Known)]
    /\ lastSave \in Nat /\ owed \subseteq 1 .. lastSave
    /\ exporter \in ExportJob /\ resolver \in ResolveJob

\* What the server or svn's own copy holds is not owed to anybody, so an
\* update may replace a file that is like its pristine copy.
PristineIsPublished == \A p \in Paths : server[p] \notin owed /\ node[p].base \notin owed

\* No revision is exported over a file of the working copy.
ExportsGoOutside == exporter.st = "run" => exporter.to \notin Paths

WorkInv == FilesShape /\ PristineIsPublished /\ ExportsGoOutside /\ WorkKept

LEMMA NoFileIsNotOwed ==
    ASSUME FilesShape
    PROVE  NoFile \notin owed
<1>1. owed \subseteq 1 .. lastSave /\ 1 .. lastSave \subseteq Nat
    BY DEF FilesShape
<1>2. NoFile \notin Nat
    BY WorkingFilesAssumption
<1>3. QED BY <1>1, <1>2

\* A node that gives up a file gives up one that svn still has.
Careful(n, k) == k.disk = n.disk \/ n.disk = n.base \/ n.disk = NoFile

LEMMA UpdateIsCareful ==
    ASSUME FilesShape, NEW p \in Paths
    PROVE  /\ Updated(p) \in NodeOf(Known)
           /\ Updated(p).base \in {node[p].base, server[p]}
           /\ Careful(node[p], Updated(p))
<1> DEFINE n == node[p]
           x == server[p]
           u == Updated(p)
<1>1. n \in NodeOf(Known) /\ x \in Known
    BY DEF FilesShape
<1>2. \/ u = n
      \/ u = Receive(n, p) /\ ((n.sched = "normal" /\ ~ n.folder /\ ~ Edited(n)) \/ n.disk = x \/ ~ Present(n))
      \/ u = Collide(n, p, "normal") \/ u = Collide(n, p, "replaced") \/ u = Collide(n, p, "deleted")
      \/ u = [n EXCEPT !.base = x, !.conflict = "text"]
    BY DEF Updated
<1> HIDE DEF u, n, x
<1>3. CASE u = n
    BY <1>1, <1>3 DEF Careful, u, n
<1>4. CASE u = Receive(n, p)
  <2>1. u = [n EXCEPT !.sched = "normal", !.base = x, !.disk = x]
      BY <1>4 DEF Receive, x
  <2>2. u \in NodeOf(Known) /\ u.base = x /\ u.disk = x
      BY <1>1, <2>1 DEF NodeOf, Schedules
  <2>3. CASE u = n \/ n.disk = x \/ ~ Present(n)
      BY <2>2, <2>3 DEF Careful, Present, u, n, x
  <2>4. CASE n.sched = "normal" /\ ~ n.folder /\ ~ Edited(n)
    <3>1. n.disk = n.base \/ n.disk = NoFile
        BY <2>4 DEF Edited, Present
    <3>2. QED BY <2>2, <3>1 DEF Careful, u, n, x
  <2>5. CASE u = Collide(n, p, "normal") \/ u = Collide(n, p, "replaced")
               \/ u = Collide(n, p, "deleted") \/ u = [n EXCEPT !.base = x, !.conflict = "text"]
    <3>1. u.disk = n.disk
        BY <1>1, <2>5 DEF Collide, NodeOf
    <3>2. QED BY <2>2, <3>1 DEF Careful, u, n, x
  <2>6. QED BY <1>2, <2>3, <2>4, <2>5
<1>5. ASSUME NEW s \in Schedules, u = Collide(n, p, s)
      PROVE  u \in NodeOf(Known) /\ u.base = x /\ u.disk = n.disk
    BY <1>1, <1>5 DEF Collide, NodeOf, x
<1>6. CASE u = [n EXCEPT !.base = x, !.conflict = "text"]
    BY <1>1, <1>6 DEF NodeOf, Careful, u, n, x
<1>7. "normal" \in Schedules /\ "replaced" \in Schedules /\ "deleted" \in Schedules
    BY DEF Schedules
<1>8. QED BY <1>2, <1>3, <1>4, <1>5, <1>6, <1>7 DEF Careful, u, n, x

\* A step of the working copy whose nodes are careful, and which leaves what is
\* owed, keeps the work.
LEMMA CarefulSteps ==
    ASSUME WorkInv, UNCHANGED << server, lastSave, owed, aside >>,
           node' \in [Paths -> NodeOf(Known)],
           \A p \in Paths : /\ node'[p].base \in {node[p].base, server[p]}
                            /\ Careful(node[p], node'[p]),
           exporter' \in ExportJob, resolver' \in ResolveJob, ExportsGoOutside'
    PROVE  WorkInv'
<1>1. FilesShape'
    BY DEF WorkInv, FilesShape, Known
<1>2. PristineIsPublished'
    BY DEF WorkInv, PristineIsPublished
<1>3. WorkKept'
  <2> SUFFICES ASSUME NEW x \in owed, x \notin aside
               PROVE  \E p \in Paths : x = node'[p].disk
      BY DEF WorkKept
  <2>1. PICK p \in Paths : x = node[p].disk
      BY DEF WorkInv, WorkKept
  <2>2. x # node[p].base /\ x # NoFile
      BY NoFileIsNotOwed DEF WorkInv, PristineIsPublished
  <2>3. QED BY <2>1, <2>2 DEF Careful
<1>4. QED BY <1>1, <1>2, <1>3 DEF WorkInv

\* The steps that leave the working copy alone.
LEMMA IdleSteps ==
    ASSUME WorkInv, UNCHANGED << server, node, lastSave, owed, aside >>,
           exporter' \in ExportJob, resolver' \in ResolveJob, ExportsGoOutside'
    PROVE  WorkInv'
BY DEF WorkInv, FilesShape, Known, PristineIsPublished, WorkKept

(***************************************************************************)
(* People.                                                                 *)
(***************************************************************************)

LEMMA SavesKeepTheWork ==
    ASSUME WorkInv, NEW p \in Paths, SaveContents(p) \/ PutFolder(p)
    PROVE  WorkInv'
<1> DEFINE new == lastSave + 1
<1>1. /\ lastSave' = new /\ lastSave \in Nat
      /\ UNCHANGED << server, aside, exporter, resolver >>
    BY DEF SaveContents, PutFolder, jobVars, WorkInv, FilesShape
<1>2. node \in [Paths -> NodeOf(Known)] /\ server \in [Paths -> Known]
    BY DEF WorkInv, FilesShape
<1>3. Known \subseteq Known' /\ new \in Known' /\ new \notin Known
    BY <1>1, WorkingFilesAssumption DEF Known
<1>4. PICK b \in BOOLEAN :
          node' = [node EXCEPT ![p] = [node[p] EXCEPT !.disk = new, !.folder = b]]
  <2>1. CASE SaveContents(p)
    <3>1. node' = [node EXCEPT ![p] = [node[p] EXCEPT !.disk = new]] /\ node[p].folder = FALSE
        BY <1>1, <1>2, <2>1 DEF SaveContents, NodeOf
    <3>2. [node[p] EXCEPT !.disk = new] = [node[p] EXCEPT !.disk = new, !.folder = FALSE]
        BY <1>2, <3>1 DEF NodeOf
    <3>3. QED BY <3>1, <3>2
  <2>2. CASE PutFolder(p)
    <3>1. node' = [node EXCEPT ![p] = [node[p] EXCEPT !.disk = new, !.folder = TRUE]]
        BY <1>1, <1>2, <2>2 DEF PutFolder
    <3>2. QED BY <3>1
  <2>3. QED BY <2>1, <2>2
<1>5. /\ owed' \subseteq owed \cup {new} /\ new \in owed'
      /\ node[p].disk \notin owed'
  <2>1. CASE SaveContents(p)
    <3>1. owed' = (owed \ {node[p].disk}) \cup {new}
        BY <1>1, <2>1 DEF SaveContents
    <3>2. node[p].disk # new
        BY <1>2, <1>3 DEF NodeOf
    <3>3. QED BY <3>1, <3>2
  <2>2. CASE PutFolder(p)
    <3>1. owed' = owed \cup {new}
        BY <1>1, <2>2 DEF PutFolder
    <3>2. node[p].disk = node[p].base
        BY <2>2 DEF PutFolder, StatusCode, ItemCode, Edited, Present
    <3>3. node[p].disk # new
        BY <1>2, <1>3 DEF NodeOf
    <3>4. QED BY <3>1, <3>2, <3>3 DEF WorkInv, PristineIsPublished
  <2>3. QED BY <2>1, <2>2
<1>6. owed \subseteq owed' \cup {node[p].disk}
    BY DEF SaveContents, PutFolder
<1> HIDE DEF new
<1>7. /\ \A q \in Paths : /\ node'[q].base = node[q].base
                          /\ q # p => node'[q] = node[q]
      /\ node'[p].disk = new /\ node' \in [Paths -> NodeOf(Known')]
  <2>1. node[p] \in NodeOf(Known)
      BY <1>2
  <2>2. /\ [node[p] EXCEPT !.disk = new, !.folder = b] \in NodeOf(Known')
        /\ [node[p] EXCEPT !.disk = new, !.folder = b].base = node[p].base
        /\ [node[p] EXCEPT !.disk = new, !.folder = b].disk = new
      BY <1>3, <2>1 DEF NodeOf
  <2>3. \A q \in Paths : node[q] \in NodeOf(Known')
      BY <1>2, <1>3 DEF NodeOf
  <2>4. QED BY <1>2, <1>4, <2>2, <2>3
<1>8. FilesShape'
  <2>1. server' \in [Paths -> Known']
      BY <1>1, <1>2, <1>3
  <2>2. owed' \subseteq 1 .. lastSave' /\ lastSave' \in Nat
      BY <1>1, <1>5 DEF WorkInv, FilesShape, new
  <2>3. QED BY <1>1, <1>7, <2>1, <2>2 DEF WorkInv, FilesShape
<1>9. PristineIsPublished'
  <2> SUFFICES ASSUME NEW q \in Paths PROVE server[q] \notin owed' /\ node[q].base \notin owed'
      BY <1>1, <1>7 DEF PristineIsPublished
  <2>1. server[q] \in Known /\ node[q].base \in Known
      BY <1>2 DEF NodeOf
  <2>2. QED BY <1>3, <1>5, <2>1 DEF WorkInv, PristineIsPublished
<1>10. WorkKept'
  <2> SUFFICES ASSUME NEW x \in owed', x \notin aside
               PROVE  \E q \in Paths : x = node'[q].disk
      BY <1>1 DEF WorkKept
  <2>1. CASE x = new
      BY <1>7, <2>1
  <2>2. CASE x # new
    <3>1. PICK q \in Paths : x = node[q].disk
        BY <1>5, <2>2 DEF WorkInv, WorkKept
    <3>2. QED BY <1>5, <1>7, <3>1
  <2>3. QED BY <2>1, <2>2
<1>11. ExportsGoOutside'
    BY <1>1 DEF WorkInv, ExportsGoOutside
<1>12. QED BY <1>8, <1>9, <1>10, <1>11 DEF WorkInv

LEMMA ColleaguesKeepTheWork ==
    ASSUME WorkInv, NEW p \in Paths, ColleaguePublishes(p)
    PROVE  WorkInv'
<1>1. /\ lastSave' = lastSave + 1 /\ lastSave \in Nat
      /\ UNCHANGED << node, owed, aside, exporter, resolver >>
      /\ server' = [server EXCEPT ![p] = lastSave + 1]
    BY DEF ColleaguePublishes, jobVars, WorkInv, FilesShape
<1>2. Known \subseteq Known' /\ lastSave + 1 \in Known'
    BY <1>1 DEF Known
<1>3. /\ node \in [Paths -> NodeOf(Known)] /\ server \in [Paths -> Known]
      /\ owed \subseteq 1 .. lastSave
    BY DEF WorkInv, FilesShape
<1>4. FilesShape'
  <2>1. NodeOf(Known) \subseteq NodeOf(Known')
      BY <1>2 DEF NodeOf
  <2>2. node' \in [Paths -> NodeOf(Known')] /\ server' \in [Paths -> Known']
      BY <1>1, <1>2, <1>3, <2>1
  <2>3. QED BY <1>1, <1>3, <2>2 DEF WorkInv, FilesShape
<1>5. lastSave + 1 \notin owed
    BY <1>1, <1>3
<1>6. PristineIsPublished'
    BY <1>1, <1>3, <1>5 DEF WorkInv, PristineIsPublished
<1>7. WorkKept' /\ ExportsGoOutside'
    BY <1>1 DEF WorkInv, WorkKept, ExportsGoOutside
<1>8. QED BY <1>4, <1>6, <1>7 DEF WorkInv

LEMMA AsideKeepsTheWork ==
    ASSUME WorkInv, NEW p \in Paths, MovePathAside(p)
    PROVE  WorkInv'
<1>1. /\ UNCHANGED << server, lastSave, owed, exporter, resolver >>
      /\ aside' = aside \cup {node[p].disk}
      /\ node' = [node EXCEPT ![p] = [node[p] EXCEPT !.disk = NoFile, !.folder = FALSE]]
  <2>1. node \in [Paths -> NodeOf(Known)]
      BY DEF WorkInv, FilesShape
  <2>2. QED BY <2>1 DEF MovePathAside, jobVars, KeptAside
<1> DEFINE k == [node[p] EXCEPT !.disk = NoFile, !.folder = FALSE]
<1>2. node \in [Paths -> NodeOf(Known)] /\ NoFile \in Known
    BY DEF WorkInv, FilesShape, Known
<1>3. k \in NodeOf(Known) /\ k.base = node[p].base
    BY <1>2 DEF NodeOf
<1> HIDE DEF k
<1>4. /\ node' \in [Paths -> NodeOf(Known)]
      /\ \A q \in Paths : node'[q].base = node[q].base /\ (q # p => node'[q] = node[q])
    BY <1>1, <1>2, <1>3 DEF k
<1>5. FilesShape' /\ PristineIsPublished' /\ ExportsGoOutside'
  <2>1. Known' = Known
      BY <1>1 DEF Known
  <2>2. FilesShape'
      BY <1>1, <1>4, <2>1 DEF WorkInv, FilesShape
  <2>3. QED BY <1>1, <1>4, <2>2 DEF WorkInv, PristineIsPublished, ExportsGoOutside
<1>6. WorkKept'
    BY <1>1, <1>4 DEF WorkInv, WorkKept
<1>7. QED BY <1>5, <1>6 DEF WorkInv

(***************************************************************************)
(* The workers.                                                            *)
(***************************************************************************)

LEMMA PullKeepsTheWork ==
    ASSUME WorkInv, Pull
    PROVE  WorkInv'
<1>1. UNCHANGED << server, lastSave, owed, aside, exporter, resolver >>
    BY DEF Pull
<1>2. /\ FilesShape /\ node \in [Paths -> NodeOf(Known)] /\ exporter \in ExportJob
      /\ resolver \in ResolveJob
    BY DEF WorkInv, FilesShape
<1>3. \A p \in Paths : /\ Updated(p) \in NodeOf(Known)
                       /\ Updated(p).base \in {node[p].base, server[p]}
                       /\ Careful(node[p], Updated(p))
    BY <1>2, UpdateIsCareful
<1>4. \A p \in Paths : node[p] \in NodeOf(Known) /\ Careful(node[p], node[p])
    BY <1>2 DEF Careful
<1>5. /\ node' \in [Paths -> NodeOf(Known)]
      /\ \A p \in Paths : node'[p] \in {node[p], Updated(p)}
  <2>1. CASE PullDone
      BY <1>3, <2>1 DEF PullDone
  <2>2. CASE PullKilled
    <3>1. PICK S \in SUBSET Paths :
              node' = [p \in Paths |-> IF p \in S THEN Updated(p) ELSE node[p]]
        BY <2>2 DEF PullKilled
    <3>2. QED BY <1>3, <1>4, <3>1
  <2>3. CASE PullRefused
      BY <1>2, <2>3 DEF PullRefused
  <2>4. QED BY <2>1, <2>2, <2>3 DEF Pull
<1>6. node' \in [Paths -> NodeOf(Known)]
    BY <1>5
<1>7. \A p \in Paths : /\ node'[p].base \in {node[p].base, server[p]}
                       /\ Careful(node[p], node'[p])
    BY <1>3, <1>4, <1>5
<1>8. ExportsGoOutside'
    BY <1>1 DEF WorkInv, ExportsGoOutside
<1>9. QED BY <1>1, <1>2, <1>6, <1>7, <1>8, CarefulSteps

LEMMA AddKeepsTheWork ==
    ASSUME WorkInv, Add
    PROVE  WorkInv'
<1>1. UNCHANGED << server, lastSave, owed, aside, exporter, resolver >>
    BY DEF Add
<1>2. /\ node \in [Paths -> NodeOf(Known)] /\ exporter \in ExportJob /\ resolver \in ResolveJob
    BY DEF WorkInv, FilesShape
<1>3. ASSUME NEW p \in Paths
      PROVE  /\ Added(node[p]) \in NodeOf(Known) /\ Added(node[p]).base = node[p].base
             /\ Careful(node[p], Added(node[p]))
  <2>1. node[p] \in NodeOf(Known)
      BY <1>2
  <2>2. \/ Added(node[p]) = node[p]
        \/ Added(node[p]) = [node[p] EXCEPT !.sched = "added"]
        \/ Added(node[p]) = [node[p] EXCEPT !.sched = "replaced"]
      BY DEF Added
  <2>3. QED BY <2>1, <2>2 DEF NodeOf, Schedules, Careful
<1>4. \A p \in Paths : node[p] \in NodeOf(Known) /\ Careful(node[p], node[p])
    BY <1>2 DEF Careful
<1>5. /\ node' \in [Paths -> NodeOf(Known)]
      /\ \A p \in Paths : node'[p] \in {node[p], Added(node[p])}
  <2>1. CASE AddDone
      BY <1>3, <1>4, <2>1 DEF AddDone
  <2>2. CASE AddStopped
    <3>1. PICK S \in SUBSET {p \in publisher.fresh : CanAdd(node[p])} :
              node' = [p \in Paths |-> IF p \in S THEN Added(node[p]) ELSE node[p]]
        BY <2>2 DEF AddStopped
    <3>2. QED BY <1>3, <1>4, <3>1
  <2>3. CASE AddRefused
      BY <1>2, <2>3 DEF AddRefused
  <2>4. QED BY <2>1, <2>2, <2>3 DEF Add
<1>6. node' \in [Paths -> NodeOf(Known)]
    BY <1>5
<1>7. \A p \in Paths : /\ node'[p].base \in {node[p].base, server[p]}
                       /\ Careful(node[p], node'[p])
    BY <1>3, <1>4, <1>5
<1>8. ExportsGoOutside'
    BY <1>1 DEF WorkInv, ExportsGoOutside
<1>9. QED BY <1>1, <1>2, <1>6, <1>7, <1>8, CarefulSteps

LEMMA CommitKeepsTheWork ==
    ASSUME WorkInv, Commit
    PROVE  WorkInv'
<1> DEFINE S == publisher.chosen
<1>1. /\ UNCHANGED << lastSave, aside, exporter, resolver >> /\ Targets(S) = S
    BY DEF Commit, Targets
<1>2. /\ node \in [Paths -> NodeOf(Known)] /\ server \in [Paths -> Known]
      /\ exporter \in ExportJob /\ resolver \in ResolveJob /\ NoFile \in Known
      /\ lastSave \in Nat /\ owed \subseteq 1 .. lastSave
    BY DEF WorkInv, FilesShape, Known
<1>3. Known' = Known /\ ExportsGoOutside'
    BY <1>1 DEF Known, WorkInv, ExportsGoOutside
<1>4. \/ UNCHANGED << server, node, owed >>
      \/ /\ server' = ServerAfter(S) /\ owed' = owed \ {server'[p] : p \in S}
         /\ \/ UNCHANGED node
            \/ node' = [p \in Paths |-> IF p \in S THEN Committed(node[p]) ELSE node[p]]
    BY <1>1 DEF Commit, CommitDone, CommitKilled, CommitRefused
<1>5. CASE UNCHANGED << server, node, owed >>
    BY <1>1, <1>2, <1>3, <1>5, IdleSteps
<1>6. CASE /\ server' = ServerAfter(S) /\ owed' = owed \ {server'[p] : p \in S}
           /\ \/ UNCHANGED node
              \/ node' = [p \in Paths |-> IF p \in S THEN Committed(node[p]) ELSE node[p]]
  <2> HIDE DEF S
  <2>1. \A p \in Paths : server'[p] = IF p \in S /\ Changed(node[p]) THEN Sent(p) ELSE server[p]
      BY <1>6 DEF ServerAfter
  <2>2. server' \in [Paths -> Known]
    <3>1. \A p \in Paths : Sent(p) \in Known
        BY <1>2 DEF Sent, NodeOf
    <3>2. QED BY <1>2, <1>6, <3>1 DEF ServerAfter
  <2>3. ASSUME NEW p \in Paths
        PROVE  /\ Committed(node[p]) \in NodeOf(Known)
               /\ Committed(node[p]).disk = node[p].disk
               /\ \/ Committed(node[p]).base = node[p].base
                  \/ Committed(node[p]).base = NoFile
                  \/ Changed(node[p]) /\ Committed(node[p]).base = Sent(p)
    <3>1. node[p] \in NodeOf(Known)
        BY <1>2
    <3>2. CASE ~ Changed(node[p])
        BY <3>1, <3>2 DEF Committed, Changed
    <3>3. CASE Changed(node[p]) /\ node[p].sched = "deleted"
      <4>1. Committed(node[p]) = [node[p] EXCEPT !.sched = "none", !.base = NoFile]
          BY <3>3 DEF Committed
      <4>2. QED BY <1>2, <3>1, <4>1 DEF NodeOf, Schedules
    <3>4. CASE Changed(node[p]) /\ node[p].sched # "deleted"
      <4>1. Committed(node[p]) = [node[p] EXCEPT !.sched = "normal", !.base = node[p].disk]
          BY <3>4 DEF Committed
      <4>2. Sent(p) = node[p].disk
          BY <3>4 DEF Sent
      <4>3. QED BY <3>1, <3>4, <4>1, <4>2 DEF NodeOf, Schedules
    <3>5. QED BY <3>2, <3>3, <3>4
  <2>4. /\ node' \in [Paths -> NodeOf(Known)]
        /\ \A p \in Paths : node'[p].disk = node[p].disk
        /\ \A p \in Paths : \/ node'[p].base = node[p].base \/ node'[p].base = NoFile
                            \/ p \in S /\ Changed(node[p]) /\ node'[p].base = Sent(p)
    <3>1. CASE UNCHANGED node
        BY <1>2, <3>1
    <3>2. CASE node' = [p \in Paths |-> IF p \in S THEN Committed(node[p]) ELSE node[p]]
        BY <1>2, <2>3, <3>2
    <3>3. QED BY <1>6, <3>1, <3>2
  <2>5. owed' \subseteq owed /\ NoFile \notin owed
      BY <1>6, NoFileIsNotOwed DEF WorkInv
  <2>6. \A p \in Paths : p \in S => server'[p] \notin owed'
      BY <1>6
  <2>7. FilesShape'
      BY <1>1, <1>2, <1>3, <2>2, <2>4, <2>5 DEF FilesShape
  <2>8. PristineIsPublished'
    <3> SUFFICES ASSUME NEW p \in Paths PROVE server'[p] \notin owed' /\ node'[p].base \notin owed'
        BY DEF PristineIsPublished
    <3>1. server[p] \notin owed' /\ node[p].base \notin owed'
        BY <2>5 DEF WorkInv, PristineIsPublished
    <3>2. server'[p] \notin owed'
        BY <2>1, <2>6, <3>1
    <3>3. p \in S /\ Changed(node[p]) => Sent(p) \notin owed'
        BY <2>1, <3>2
    <3>4. QED BY <2>4, <2>5, <3>1, <3>2, <3>3
  <2>9. WorkKept'
      BY <1>1, <2>4, <2>5 DEF WorkInv, WorkKept
  <2>10. QED BY <1>3, <2>7, <2>8, <2>9 DEF WorkInv
<1>7. QED BY <1>4, <1>5, <1>6

LEMMA ResolveKeepsTheWork ==
    ASSUME WorkInv, Resolve
    PROVE  WorkInv'
<1>1. /\ UNCHANGED << server, lastSave, aside, exporter >> /\ resolver.st = "run"
      /\ Accept(resolver.how) = resolver.how
    BY DEF Resolve, Accept
<1>2. /\ node \in [Paths -> NodeOf(Known)] /\ server \in [Paths -> Known]
      /\ exporter \in ExportJob /\ resolver \in ResolveJob
    BY DEF WorkInv, FilesShape
<1>3. resolver.path \in Paths /\ resolver.how \in Resolutions
      /\ [resolver EXCEPT !.st = "out"] \in ResolveJob
      /\ [resolver EXCEPT !.st = "out", !.ok = TRUE] \in ResolveJob
  <2>1. resolver # Resting
      BY <1>1 DEF Resting
  <2>2. QED BY <1>2, <2>1 DEF ResolveJob
<1>4. Known' = Known /\ ExportsGoOutside'
    BY <1>1 DEF Known, WorkInv, ExportsGoOutside
<1> DEFINE p == resolver.path
           how == resolver.how
<1>5. CASE ResolveRefused(how, p)
  <2>1. resolver' \in ResolveJob /\ UNCHANGED << node, owed >>
      BY <1>3, <1>5 DEF ResolveRefused
  <2>2. QED BY <1>1, <1>2, <1>4, <2>1, IdleSteps
<1>6. CASE ResolveDone(how, p)
  <2>1. /\ resolver' \in ResolveJob /\ node' = [node EXCEPT ![p] = Accepted(how, node[p])]
        /\ owed' = IF how = "theirs-full" /\ node[p].conflict = "text"
                   THEN owed \ {node[p].disk} ELSE owed
      BY <1>3, <1>6 DEF ResolveDone
  <2>2. node[p] \in NodeOf(Known) /\ p \in Paths
      BY <1>2, <1>3
  <2> HIDE DEF p, how
  <2>3. CASE how = "theirs-full" /\ node[p].conflict = "text"
    <3> DEFINE k == [node[p] EXCEPT !.conflict = "none", !.disk = node[p].base]
    <3>1. Accepted(how, node[p]) = k
        BY <2>3 DEF Accepted
    <3>2. k \in NodeOf(Known) /\ k.base = node[p].base
        BY <2>2 DEF NodeOf
    <3> HIDE DEF k
    <3>3. /\ node' \in [Paths -> NodeOf(Known)]
          /\ \A q \in Paths : node'[q].base = node[q].base /\ (q # p => node'[q] = node[q])
        BY <1>2, <2>1, <2>2, <3>1, <3>2
    <3>4. owed' = owed \ {node[p].disk}
        BY <2>1, <2>3
    <3>5. FilesShape'
        BY <1>1, <1>4, <2>1, <3>3, <3>4 DEF WorkInv, FilesShape
    <3>6. PristineIsPublished'
        BY <1>1, <3>3, <3>4 DEF WorkInv, PristineIsPublished
    <3>7. WorkKept'
        BY <1>1, <3>3, <3>4 DEF WorkInv, WorkKept
    <3>8. QED BY <1>4, <3>5, <3>6, <3>7 DEF WorkInv
  <2>4. CASE ~ (how = "theirs-full" /\ node[p].conflict = "text")
    <3> DEFINE k == [node[p] EXCEPT !.conflict = "none"]
    <3>1. Accepted(how, node[p]) = k /\ owed' = owed
        BY <2>1, <2>4 DEF Accepted
    <3>2. k \in NodeOf(Known) /\ k.base = node[p].base /\ k.disk = node[p].disk
        BY <2>2 DEF NodeOf
    <3> HIDE DEF k
    <3>3. node' \in [Paths -> NodeOf(Known)]
        BY <1>2, <2>1, <2>2, <3>1, <3>2
    <3>4. \A q \in Paths : node'[q].base \in {node[q].base, server[q]} /\ Careful(node[q], node'[q])
        BY <1>2, <2>1, <2>2, <3>1, <3>2 DEF Careful
    <3>5. QED BY <1>1, <1>2, <1>4, <2>1, <3>1, <3>3, <3>4, CarefulSteps
  <2>5. QED BY <2>3, <2>4
<1>7. QED BY <1>1, <1>5, <1>6 DEF Resolve

LEMMA ExportKeepsTheWork ==
    ASSUME WorkInv, ExportRevision
    PROVE  WorkInv'
<1>1. exporter.st = "run" /\ exporter.to \notin Paths
    BY DEF ExportRevision, WorkInv, ExportsGoOutside
<1>2. UNCHANGED << server, node, lastSave, owed, aside, resolver >>
    BY <1>1 DEF ExportRevision, Overwritten
<1>3. exporter' = [exporter EXCEPT !.st = "out"] /\ exporter \in ExportJob /\ exporter # Resting
    BY <1>1 DEF ExportRevision, WorkInv, FilesShape, Resting
<1>4. exporter' \in ExportJob /\ exporter'.st = "out"
    BY <1>3 DEF ExportJob
<1>5. ExportsGoOutside' /\ resolver' \in ResolveJob
    BY <1>2, <1>4 DEF ExportsGoOutside, WorkInv, FilesShape
<1>6. QED BY <1>2, <1>4, <1>5, IdleSteps

LEMMA AsksKeepTheWork ==
    ASSUME WorkInv, "exportOver" \notin Carelessness,
           \/ \E t \in Tasks, p \in Paths, how \in Resolutions : ResolveVcsConflict(t, p, how)
           \/ \E to \in ExportTargets : ExportVcsRevision(to)
           \/ OnVcsConflictResolved \/ OnVcsExportFinished
    PROVE  WorkInv'
<1>1. UNCHANGED << server, node, lastSave, owed, aside >>
    BY DEF ResolveVcsConflict, ExportVcsRevision, OnVcsConflictResolved, OnVcsExportFinished, wcVars
<1>2. /\ exporter \in ExportJob /\ resolver \in ResolveJob /\ ExportsGoOutside
      /\ Resting \in ExportJob /\ Resting \in ResolveJob /\ Resting.st = "idle"
    BY DEF WorkInv, FilesShape, ExportJob, ResolveJob, Resting
<1>3. ASSUME NEW t \in Tasks, NEW p \in Paths, NEW how \in Resolutions,
             ResolveVcsConflict(t, p, how)
      PROVE  WorkInv'
  <2>1. resolver' \in ResolveJob /\ exporter' = exporter
      BY <1>3 DEF ResolveVcsConflict, ResolveJob
  <2>2. ExportsGoOutside'
      BY <1>2, <2>1 DEF ExportsGoOutside
  <2>3. QED BY <1>1, <1>2, <2>1, <2>2, IdleSteps
<1>4. ASSUME NEW to \in ExportTargets, ExportVcsRevision(to) PROVE WorkInv'
  <2>1. to = Outside
      BY DEF ExportTargets
  <2>2. exporter' = [st |-> "run", to |-> Outside] /\ resolver' = resolver
      BY <1>4, <2>1 DEF ExportVcsRevision
  <2>3. exporter' \in ExportJob /\ exporter'.to \notin Paths
      BY <2>2, WorkingFilesAssumption DEF ExportJob
  <2>4. QED BY <1>1, <1>2, <2>2, <2>3, IdleSteps DEF ExportsGoOutside
<1>5. CASE OnVcsConflictResolved
  <2>1. resolver' = Resting /\ exporter' = exporter
      BY <1>5 DEF OnVcsConflictResolved
  <2>2. QED BY <1>1, <1>2, <2>1, IdleSteps DEF ExportsGoOutside
<1>6. CASE OnVcsExportFinished
  <2>1. exporter' = Resting /\ resolver' = resolver
      BY <1>6 DEF OnVcsExportFinished
  <2>2. QED BY <1>1, <1>2, <2>1, IdleSteps DEF ExportsGoOutside
<1>7. QED BY <1>3, <1>4, <1>5, <1>6

LEMMA OthersKeepTheWork ==
    ASSUME WorkInv,
           \/ UNCHANGED workVars
           \/ \E p \in Paths : AddLocalIgnore(p)
           \/ \E t \in Tasks : CheckVcsChanges(t) \/ PublishVcsChanges(t) \/ ClosePublish(t)
           \/ CleanedByHand \/ UpdateVcs \/ RetryUpdate \/ CloseReview \/ Scan
           \/ CollectUpdateIssues \/ OnVcsChangesReady \/ OnVcsUpdateFinished
           \/ OnVcsPublishFinished
    PROVE  WorkInv'
<1>1. UNCHANGED << server, node, lastSave, owed, aside, exporter, resolver >>
    BY DEF workVars, wcVars, jobVars, AddLocalIgnore, CheckVcsChanges, PublishVcsChanges,
           ClosePublish, CleanedByHand, UpdateVcs, RetryUpdate, CloseReview, Scan,
           CollectUpdateIssues, OnVcsChangesReady, OnVcsUpdateFinished, OnVcsPublishFinished
<1>2. exporter' \in ExportJob /\ resolver' \in ResolveJob /\ ExportsGoOutside'
    BY <1>1 DEF WorkInv, FilesShape, ExportsGoOutside
<1>3. QED BY <1>1, <1>2, IdleSteps

LEMMA WorkStarts == FilesInit => WorkInv
<1> SUFFICES ASSUME FilesInit PROVE WorkInv
    OBVIOUS
<1>1. lastSave = 0 /\ owed = {} /\ exporter = Resting /\ resolver = Resting
    BY DEF FilesInit
<1>2. 0 \in Known /\ NoFile \in Known
    BY <1>1 DEF Known
<1>3. server \in [Paths -> Known]
    BY <1>2 DEF FilesInit
<1>4. node \in [Paths -> NodeOf(Known)]
  <2>1. \A p \in Paths : Checkout(p) \in NodeOf(Known)
      BY <1>2 DEF Checkout, NodeOf, Schedules
  <2>2. QED BY <2>1 DEF FilesInit
<1>5. FilesShape
    BY <1>1, <1>3, <1>4 DEF FilesShape, ExportJob, ResolveJob
<1>6. PristineIsPublished /\ WorkKept /\ ExportsGoOutside
    BY <1>1 DEF PristineIsPublished, WorkKept, ExportsGoOutside, Resting
<1>7. QED BY <1>5, <1>6 DEF WorkInv

LEMMA WorkSteps ==
    ASSUME "exportOver" \notin Carelessness
    PROVE  WorkInv /\ [FilesNext]_workVars => WorkInv'
<1> SUFFICES ASSUME WorkInv, [FilesNext]_workVars PROVE WorkInv'
    OBVIOUS
<1>1. ASSUME NEW p \in Paths, SaveContents(p) \/ PutFolder(p) PROVE WorkInv'
    BY <1>1, SavesKeepTheWork
<1>2. ASSUME NEW p \in Paths, ColleaguePublishes(p) PROVE WorkInv'
    BY <1>2, ColleaguesKeepTheWork
<1>3. ASSUME NEW p \in Paths, MovePathAside(p) PROVE WorkInv'
    BY <1>3, AsideKeepsTheWork
<1>4. CASE Pull
    BY <1>4, PullKeepsTheWork
<1>5. CASE Add
    BY <1>5, AddKeepsTheWork
<1>6. CASE Commit
    BY <1>6, CommitKeepsTheWork
<1>7. CASE Resolve
    BY <1>7, ResolveKeepsTheWork
<1>8. CASE ExportRevision
    BY <1>8, ExportKeepsTheWork
<1>9. CASE \/ \E t \in Tasks, p \in Paths, how \in Resolutions : ResolveVcsConflict(t, p, how)
           \/ \E to \in ExportTargets : ExportVcsRevision(to)
           \/ OnVcsConflictResolved \/ OnVcsExportFinished
    BY <1>9, AsksKeepTheWork
<1>10. CASE \/ UNCHANGED workVars
            \/ \E p \in Paths : AddLocalIgnore(p)
            \/ \E t \in Tasks : CheckVcsChanges(t) \/ PublishVcsChanges(t) \/ ClosePublish(t)
            \/ CleanedByHand \/ UpdateVcs \/ RetryUpdate \/ CloseReview \/ Scan
            \/ CollectUpdateIssues \/ OnVcsChangesReady \/ OnVcsUpdateFinished
            \/ OnVcsPublishFinished
    BY <1>10, OthersKeepTheWork
<1>11. QED BY <1>1, <1>2, <1>3, <1>4, <1>5, <1>6, <1>7, <1>8, <1>9, <1>10
           DEF FilesNext, FilesThreads, FilesSlots

LEMMA WorkIsKept ==
    ASSUME "exportOver" \notin Carelessness
    PROVE  FilesInit /\ [][FilesNext]_workVars => []WorkKept
<1>1. FilesInit => WorkInv
    BY WorkStarts
<1>2. WorkInv /\ [FilesNext]_workVars => WorkInv'
    BY WorkSteps
<1>3. WorkInv => WorkKept
    BY DEF WorkInv
<1>4. QED BY <1>1, <1>2, <1>3, PTL

\* Work that is on no server and that the artist did not give up is in the
\* working copy or under .openstudio_aside, through updates that collide with
\* it, publications that are killed or refused, resolutions and clean-ups, as
\* long as no old revision is exported over a file of the working copy.
THEOREM NoWorkIsLost ==
    ASSUME "exportOver" \notin Carelessness
    PROVE  FilesSpec => []WorkKept
BY WorkIsKept, PTL DEF FilesSpec

LEMMA OnlyTheChosenChange ==
    Commit => \A p \in Paths \ publisher.chosen : server'[p] = server[p]
<1> SUFFICES ASSUME Commit, NEW p \in Paths \ publisher.chosen PROVE server'[p] = server[p]
    OBVIOUS
<1>1. UNCHANGED server \/ server' = ServerAfter(publisher.chosen)
    BY DEF Commit, CommitDone, CommitKilled, CommitRefused, Targets
<1>2. QED BY <1>1 DEF ServerAfter

LEMMA PublicationsAreAsked == FilesInit /\ [][FilesNext]_workVars => OnlyTheChosen
<1>1. Commit => \A p \in Paths \ publisher.chosen : server'[p] = server[p]
    BY OnlyTheChosenChange
<1>2. QED BY <1>1, PTL DEF OnlyTheChosen

\* What is left of a list from which one place is taken.
LEMMA RemovedAt ==
    ASSUME NEW T, NEW s \in Seq(T), NEW i \in 1 .. Len(s)
    PROVE  /\ RemoveAt(s, i) \in Seq(T) /\ Len(RemoveAt(s, i)) = Len(s) - 1
           /\ \A k \in 1 .. Len(s) - 1 : RemoveAt(s, i)[k] = IF k < i THEN s[k] ELSE s[k + 1]
<1> DEFINE n == Len(s)
           a == SubSeq(s, 1, i - 1)
           b == SubSeq(s, i + 1, n)
<1>1. n \in Nat /\ i \in Nat /\ 1 <= i /\ i <= n /\ \A k \in 1 .. n : s[k] \in T
    OBVIOUS
<1>2. /\ a \in Seq(T) /\ Len(a) = (IF 1 <= i - 1 THEN i - 1 - 1 + 1 ELSE 0)
      /\ \A k \in 1 .. i - 1 - 1 + 1 : a[k] = s[1 + k - 1]
  <2>1. \A k \in 1 .. i - 1 : s[k] \in T
      BY <1>1
  <2>2. QED BY <1>1, <2>1, SubSeqProperties
<1>3. /\ b \in Seq(T) /\ Len(b) = (IF i + 1 <= n THEN n - (i + 1) + 1 ELSE 0)
      /\ \A k \in 1 .. n - (i + 1) + 1 : b[k] = s[i + 1 + k - 1]
  <2>1. \A k \in i + 1 .. n : s[k] \in T
      BY <1>1
  <2>2. QED BY <1>1, <2>1, SubSeqProperties
<1> HIDE DEF a, b, n
<1>4. Len(a) = i - 1 /\ Len(b) = n - i
    BY <1>1, <1>2, <1>3
<1>5. /\ a \o b \in Seq(T) /\ Len(a \o b) = n - 1
      /\ \A k \in 1 .. n - 1 : (a \o b)[k] = IF k <= i - 1 THEN a[k] ELSE b[k - (i - 1)]
  <2>1. /\ a \o b \in Seq(T) /\ Len(a \o b) = Len(a) + Len(b)
        /\ \A k \in 1 .. Len(a) + Len(b) : (a \o b)[k] = IF k <= Len(a) THEN a[k] ELSE b[k - Len(a)]
      BY <1>2, <1>3, ConcatProperties
  <2>2. Len(a) + Len(b) = n - 1
      BY <1>1, <1>4
  <2>3. QED BY <1>4, <2>1, <2>2
<1>6. ASSUME NEW k \in 1 .. n - 1
      PROVE  (a \o b)[k] = IF k < i THEN s[k] ELSE s[k + 1]
  <2>1. CASE k < i
    <3>1. (a \o b)[k] = a[k] /\ k \in 1 .. i - 1 - 1 + 1 /\ 1 + k - 1 = k
        BY <1>1, <1>5, <2>1
    <3>2. QED BY <1>2, <2>1, <3>1
  <2>2. CASE ~ (k < i)
    <3>1. (a \o b)[k] = b[k - (i - 1)] /\ k - (i - 1) \in 1 .. n - (i + 1) + 1
          /\ i + 1 + (k - (i - 1)) - 1 = k + 1
        BY <1>1, <1>5, <2>2
    <3>2. QED BY <1>3, <2>2, <3>1
  <2>3. QED BY <2>1, <2>2
<1>7. RemoveAt(s, i) = a \o b
    BY DEF RemoveAt, a, b, n
<1>8. QED BY <1>5, <1>6, <1>7 DEF n

\* A window that is open once is no longer open when it is taken out, and the others
\* stay open once.
LEMMA TakenOut ==
    ASSUME NEW T, NEW s \in Seq(T), IsInjective(s), NEW w
    PROVE  /\ RemoveFirst(s, w) \in Seq(T) /\ IsInjective(RemoveFirst(s, w))
           /\ Range(RemoveFirst(s, w)) = Range(s) \ {w}
<1>1. CASE \A i \in 1 .. Len(s) : s[i] # w
  <2>1. RemoveFirst(s, w) = s
      BY <1>1 DEF RemoveFirst
  <2>2. w \notin Range(s)
      BY <1>1 DEF Range
  <2>3. QED BY <2>1, <2>2
<1>2. CASE \E i \in 1 .. Len(s) : s[i] = w
  <2>1. PICK i \in 1 .. Len(s) : s[i] = w
      BY <1>2
  <2>2. {k \in 1 .. Len(s) : s[k] = w} = {i}
      BY <2>1 DEF IsInjective
  <2>3. Min({i}) = i
      BY DEF Min
  <2>4. SelectInSeq(s, LAMBDA v : v = w) = i
      BY <2>2, <2>3 DEF SelectInSeq
  <2>5. RemoveFirst(s, w) = RemoveAt(s, i)
      BY <1>2, <2>4 DEF RemoveFirst
  <2>6. PICK r : r = RemoveAt(s, i)
      OBVIOUS
  <2>7. /\ r \in Seq(T) /\ Len(r) = Len(s) - 1 /\ DOMAIN r = 1 .. Len(s) - 1
        /\ \A k \in 1 .. Len(s) - 1 : r[k] = IF k < i THEN s[k] ELSE s[k + 1]
    <3>1. /\ r \in Seq(T) /\ Len(r) = Len(s) - 1
          /\ \A k \in 1 .. Len(s) - 1 : r[k] = IF k < i THEN s[k] ELSE s[k + 1]
        BY <2>6, RemovedAt
    <3>2. QED BY <3>1
  <2>8. IsInjective(r)
      BY <2>7 DEF IsInjective
  <2>9. ASSUME NEW k \in 1 .. Len(s) - 1
        PROVE  r[k] \in Range(s) \ {w}
    <3>1. PICK j \in 1 .. Len(s) : r[k] = s[j] /\ j # i
        BY <2>7
    <3>2. s[j] # w
        BY <2>1, <3>1 DEF IsInjective
    <3>3. QED BY <3>1, <3>2 DEF Range
  <2>10. ASSUME NEW x \in Range(s) \ {w}
         PROVE  x \in Range(r)
    <3>1. PICK j \in 1 .. Len(s) : s[j] = x /\ j # i
        BY <2>1 DEF Range
    <3>2. \E k \in 1 .. Len(s) - 1 : r[k] = x
      <4>1. CASE j < i
          BY <2>7, <3>1, <4>1
      <4>2. CASE ~ (j < i)
        <5>1. j - 1 \in 1 .. Len(s) - 1 /\ ~ (j - 1 < i) /\ j - 1 + 1 = j
            BY <3>1, <4>2
        <5>2. r[j - 1] = s[j]
            BY <2>7, <5>1
        <5>3. QED BY <3>1, <5>1, <5>2
      <4>3. QED BY <4>1, <4>2
    <3>3. QED BY <2>7, <3>2 DEF Range
  <2>11. Range(r) = Range(s) \ {w}
      BY <2>7, <2>9, <2>10 DEF Range
  <2>12. QED BY <2>5, <2>6, <2>7, <2>8, <2>11
<1>3. QED BY <1>1, <1>2

\* A window that is not open is opened in front of the others.
LEMMA PutInFront ==
    ASSUME NEW T, NEW s \in Seq(T), IsInjective(s), NEW w \in T, w \notin Range(s)
    PROVE  /\ Append(s, w) \in Seq(T) /\ IsInjective(Append(s, w))
           /\ Range(Append(s, w)) = Range(s) \cup {w}
<1>1. PICK r : r = Append(s, w)
    OBVIOUS
<1>2. /\ r \in Seq(T) /\ Len(r) = Len(s) + 1 /\ DOMAIN r = 1 .. Len(s) + 1
      /\ r[Len(s) + 1] = w /\ \A i \in 1 .. Len(s) : r[i] = s[i]
    BY <1>1
<1>3. \A i \in 1 .. Len(s) : s[i] # w
    BY DEF Range
<1>4. IsInjective(r)
    BY <1>2, <1>3 DEF IsInjective
<1>5. Range(r) = Range(s) \cup {w}
    BY <1>2 DEF Range
<1>6. QED BY <1>1, <1>2, <1>4, <1>5

(***************************************************************************)
(* The working copy: types, and every window is open once.                 *)
(***************************************************************************)

CopyTyped ==
    /\ server \in [Paths -> Contents] /\ node \in [Paths -> Node] /\ stuck \in BOOLEAN
    /\ lastSave \in 0 .. MaxWork /\ owed \subseteq 1 .. lastSave
    /\ aside \subseteq Nat /\ hidden \subseteq {NameOf[p] : p \in Paths}

JobsTyped ==
    /\ scanner \in ScanJob /\ updater \in UpdateJob /\ publisher \in PublishJob
    /\ resolver \in ResolveJob /\ exporter \in ExportJob

\* While an update is under way, no review of one is open.
WindowsTyped ==
    /\ stack \in Seq(Tasks \cup {Review}) /\ IsInjective(stack)
    /\ lists \in [Tasks -> [Paths -> Codes]] /\ busy \in [Tasks -> BOOLEAN]
    /\ review \subseteq Paths \X Codes
    /\ updater.st # "idle" => Review \notin Range(stack)

FilesTyped == CopyTyped /\ JobsTyped /\ WindowsTyped

LEMMA FilesTypedStart == FilesInit => FilesTyped
<1> SUFFICES ASSUME FilesInit PROVE FilesTyped
    OBVIOUS
<1>1. \A p \in Paths : Checkout(p) \in Node
    BY DEF Checkout, Node, Schedules, Contents
<1>2. CopyTyped
  <2>1. server \in [Paths -> Contents] /\ node \in [Paths -> Node]
      BY <1>1 DEF FilesInit, Contents
  <2>2. stuck \in BOOLEAN /\ aside \subseteq Nat /\ hidden \subseteq {NameOf[p] : p \in Paths}
      BY DEF FilesInit
  <2>3. lastSave \in 0 .. MaxWork /\ owed \subseteq 1 .. lastSave
      BY WorkingFilesAssumption DEF FilesInit
  <2>4. QED BY <2>1, <2>2, <2>3 DEF CopyTyped
<1>3. JobsTyped
    BY DEF FilesInit, JobsTyped, ScanJob, UpdateJob, PublishJob, ResolveJob, ExportJob
<1>4. stack = << >> /\ IsInjective(<< >>) /\ << >> \in Seq(Tasks \cup {Review})
    BY DEF FilesInit, IsInjective
<1>5. updater.st = "idle"
    BY DEF FilesInit, Resting
<1>6. WindowsTyped
    BY <1>4, <1>5 DEF FilesInit, WindowsTyped, NoList, Codes
<1>7. QED BY <1>2, <1>3, <1>6 DEF FilesTyped

\* What svn does with a node leaves a node, and what it says of one is a code.
LEMMA NodesStayNodes ==
    ASSUME CopyTyped, NEW p \in Paths
    PROVE  /\ Updated(p) \in Node
           /\ Added(node[p]) \in Node /\ Committed(node[p]) \in Node
           /\ \A how \in Resolutions : Accepted(how, node[p]) \in Node
           /\ StatusCode(node[p]) \in Codes
<1>1. node[p] \in Node /\ server[p] \in Contents
    BY DEF CopyTyped
<1>2. PICK n \in Node, x \in Contents : n = node[p] /\ x = server[p]
    BY <1>1
<1>3. Updated(p) \in Node
  <2>1. \/ Updated(p) \in {n, Receive(n, p), Collide(n, p, "normal"), Collide(n, p, "replaced"),
                           Collide(n, p, "deleted")}
        \/ Updated(p) = [n EXCEPT !.base = x, !.conflict = "text"]
      BY <1>2 DEF Updated
  <2>2. Receive(n, p) \in Node
      BY <1>2 DEF Receive, Node, Schedules
  <2>3. \A s \in Schedules : Collide(n, p, s) \in Node
      BY <1>2 DEF Collide, Node
  <2>4. [n EXCEPT !.base = x, !.conflict = "text"] \in Node
      BY DEF Node
  <2>5. QED BY <2>1, <2>2, <2>3, <2>4 DEF Schedules
<1>4. Added(n) \in Node /\ Committed(n) \in Node
    BY DEF Added, Committed, Node, Schedules, Contents
<1>5. \A how \in Resolutions : Accepted(how, n) \in Node
    BY DEF Accepted, Node
<1>6. StatusCode(n) \in Codes
    BY DEF StatusCode, ItemCode, Codes
<1>7. QED BY <1>2, <1>3, <1>4, <1>5, <1>6

\* What people do to the working copy and to the server.
LEMMA PeopleKeepTheCopy ==
    ASSUME FilesTyped,
           \/ \E p \in Paths : \/ SaveContents(p) \/ PutFolder(p) \/ ColleaguePublishes(p)
                               \/ MovePathAside(p) \/ AddLocalIgnore(p)
           \/ CleanedByHand
    PROVE  CopyTyped'
<1>0. CopyTyped /\ 0 .. MaxWork \subseteq Nat
    BY WorkingFilesAssumption DEF FilesTyped
<1>1. CASE \E p \in Paths : SaveContents(p) \/ PutFolder(p)
  <2>1. PICK p \in Paths : SaveContents(p) \/ PutFolder(p)
      BY <1>1
  <2>2. /\ lastSave' = lastSave + 1 /\ lastSave' \in 0 .. MaxWork /\ lastSave' \in Contents
        /\ owed' \subseteq owed \cup {lastSave'} /\ UNCHANGED << server, stuck, aside, hidden >>
    <3>1. lastSave < MaxWork /\ lastSave' = lastSave + 1
        BY <2>1 DEF SaveContents, PutFolder
    <3>2. lastSave' \in 0 .. MaxWork /\ lastSave' \in Nat
        BY <1>0, <3>1, WorkingFilesAssumption DEF CopyTyped
    <3>3. owed' \subseteq owed \cup {lastSave'} /\ UNCHANGED << server, stuck, aside, hidden >>
        BY <2>1 DEF SaveContents, PutFolder
    <3>4. QED BY <3>1, <3>2, <3>3 DEF Contents
  <2>3. owed' \subseteq 1 .. lastSave'
      BY <1>0, <2>2 DEF CopyTyped
  <2>4. node' \in [Paths -> Node]
    <3>1. PICK b \in BOOLEAN : node' = [node EXCEPT ![p].disk = lastSave', ![p].folder = b]
      <4>1. CASE SaveContents(p)
        <5>1. node' = [node EXCEPT ![p].disk = lastSave'] /\ node[p] \in Node
            BY <1>0, <4>1 DEF SaveContents, CopyTyped
        <5>2. node' = [node EXCEPT ![p].disk = lastSave', ![p].folder = node[p].folder]
            BY <1>0, <5>1 DEF Node, CopyTyped
        <5>3. QED BY <5>1, <5>2 DEF Node
      <4>2. CASE PutFolder(p)
          BY <4>2 DEF PutFolder
      <4>3. QED BY <2>1, <4>1, <4>2
    <3>2. [node[p] EXCEPT !.disk = lastSave', !.folder = b] \in Node
        BY <1>0, <2>2 DEF Node, CopyTyped
    <3>3. QED BY <1>0, <3>1, <3>2 DEF CopyTyped
  <2>5. QED BY <1>0, <2>2, <2>3, <2>4 DEF CopyTyped
<1>2. CASE \E p \in Paths : ColleaguePublishes(p)
  <2>1. PICK p \in Paths : ColleaguePublishes(p)
      BY <1>2
  <2>2. /\ lastSave' = lastSave + 1 /\ lastSave' \in 0 .. MaxWork /\ lastSave' \in Contents
        /\ server' = [server EXCEPT ![p] = lastSave'] /\ UNCHANGED << node, owed, stuck, aside, hidden >>
    <3>1. lastSave < MaxWork /\ lastSave' = lastSave + 1
        BY <2>1 DEF ColleaguePublishes
    <3>2. lastSave' \in 0 .. MaxWork /\ lastSave' \in Nat
        BY <1>0, <3>1, WorkingFilesAssumption DEF CopyTyped
    <3>3. QED BY <2>1, <3>1, <3>2 DEF ColleaguePublishes, Contents
  <2>3. owed \subseteq 1 .. lastSave'
      BY <1>0, <2>2 DEF CopyTyped
  <2>4. QED BY <1>0, <2>2, <2>3 DEF CopyTyped
<1>3. CASE \E p \in Paths : MovePathAside(p)
  <2>1. PICK p \in Paths : MovePathAside(p)
      BY <1>3
  <2>2. /\ aside' = aside \cup {node[p].disk} /\ node[p].disk # NoFile
        /\ node' = [node EXCEPT ![p].disk = NoFile, ![p].folder = FALSE]
        /\ UNCHANGED << server, stuck, lastSave, owed, hidden >>
      BY <2>1 DEF MovePathAside, Present, KeptAside
  <2>3. node[p] \in Node /\ NoFile \in Contents
      BY <1>0 DEF CopyTyped, Contents
  <2>4. node[p].disk \in Nat /\ [node[p] EXCEPT !.disk = NoFile, !.folder = FALSE] \in Node
      BY <2>2, <2>3 DEF Node, Contents
  <2>5. QED BY <1>0, <2>2, <2>4 DEF CopyTyped
<1>4. CASE \E p \in Paths : AddLocalIgnore(p)
    BY <1>0, <1>4 DEF AddLocalIgnore, CopyTyped
<1>5. CASE CleanedByHand
    BY <1>0, <1>5 DEF CleanedByHand, CopyTyped
<1>6. QED BY <1>1, <1>2, <1>3, <1>4, <1>5

\* What the workers do to them.
LEMMA WorkersKeepTheCopy ==
    ASSUME FilesTyped, Pull \/ Add \/ Commit \/ Resolve \/ ExportRevision
    PROVE  CopyTyped'
<1>0. CopyTyped
    BY DEF FilesTyped
<1>1. CASE Pull
  <2>1. /\ UNCHANGED << server, lastSave, owed, aside, hidden >> /\ stuck' \in BOOLEAN
        /\ PullDone \/ PullKilled \/ PullRefused
      BY <1>0, <1>1 DEF Pull, PullDone, PullKilled, PullRefused, CopyTyped
  <2>2. node' \in [Paths -> Node]
    <3>1. CASE PullDone
        BY <1>0, <3>1, NodesStayNodes DEF PullDone
    <3>2. CASE PullKilled
        BY <1>0, <3>2, NodesStayNodes DEF PullKilled, CopyTyped
    <3>3. CASE PullRefused
        BY <1>0, <3>3 DEF PullRefused, CopyTyped
    <3>4. QED BY <2>1, <3>1, <3>2, <3>3
  <2>3. QED BY <1>0, <2>1, <2>2 DEF CopyTyped
<1>2. CASE Add
  <2>1. UNCHANGED << server, stuck, lastSave, owed, aside, hidden >> /\ (AddDone \/ AddStopped \/ AddRefused)
      BY <1>2 DEF Add
  <2>2. node' \in [Paths -> Node]
    <3>1. CASE AddDone
        BY <1>0, <3>1, NodesStayNodes DEF AddDone, CopyTyped
    <3>2. CASE AddStopped
        BY <1>0, <3>2, NodesStayNodes DEF AddStopped, CopyTyped
    <3>3. CASE AddRefused
        BY <1>0, <3>3 DEF AddRefused, CopyTyped
    <3>4. QED BY <2>1, <3>1, <3>2, <3>3
  <2>3. QED BY <1>0, <2>1, <2>2 DEF CopyTyped
<1>3. CASE Commit
  <2>1. UNCHANGED << lastSave, aside, hidden >> /\ stuck' \in BOOLEAN /\ owed' \subseteq owed
      BY <1>0, <1>3 DEF Commit, CommitDone, CommitKilled, CommitRefused, CopyTyped
  <2>2. server' \in [Paths -> Contents]
    <3>1. \A S : ServerAfter(S) \in [Paths -> Contents]
        BY <1>0 DEF ServerAfter, Sent, CopyTyped, Node, Contents
    <3>2. UNCHANGED server \/ \E S : server' = ServerAfter(S)
        BY <1>3 DEF Commit, CommitDone, CommitKilled, CommitRefused
    <3>3. QED BY <1>0, <3>1, <3>2 DEF CopyTyped
  <2>3. node' \in [Paths -> Node]
    <3>1. \/ UNCHANGED node
          \/ \E S : node' = [p \in Paths |-> IF p \in S THEN Committed(node[p]) ELSE node[p]]
        BY <1>3 DEF Commit, CommitDone, CommitKilled, CommitRefused
    <3>2. QED BY <1>0, <3>1, NodesStayNodes DEF CopyTyped
  <2>4. QED BY <1>0, <2>1, <2>2, <2>3 DEF CopyTyped
<1>4. CASE Resolve
  <2>1. /\ UNCHANGED << server, stuck, lastSave, aside, hidden >> /\ owed' \subseteq owed
        /\ UNCHANGED node \/ node' = [node EXCEPT ![resolver.path] = Accepted(resolver.how, node[resolver.path])]
      BY <1>4 DEF Resolve, Accept, ResolveDone, ResolveRefused
  <2>2. resolver.path \in Paths /\ resolver.how \in Resolutions
      BY <1>4 DEF Resolve, FilesTyped, JobsTyped, ResolveJob, Resting
  <2>3. node' \in [Paths -> Node]
      BY <1>0, <2>1, <2>2, NodesStayNodes DEF CopyTyped
  <2>4. QED BY <1>0, <2>1, <2>3 DEF CopyTyped
<1>5. CASE ExportRevision
  <2>1. /\ UNCHANGED << server, stuck, lastSave, owed, aside, hidden >>
        /\ \E x \in Contents : node' = Overwritten(x)
      BY <1>5 DEF ExportRevision, Contents
  <2>2. \A x \in Contents, p \in Paths : [node[p] EXCEPT !.disk = x] \in Node
      BY <1>0 DEF CopyTyped, Node
  <2>3. node' \in [Paths -> Node]
      BY <1>0, <2>1, <2>2 DEF Overwritten, CopyTyped
  <2>4. QED BY <1>0, <2>1, <2>3 DEF CopyTyped
<1>6. QED BY <1>1, <1>2, <1>3, <1>4, <1>5

LEMMA CopyStaysTyped ==
    ASSUME FilesTyped, [FilesNext]_workVars
    PROVE  CopyTyped'
<1>1. CASE UNCHANGED wcVars
    BY <1>1 DEF FilesTyped, CopyTyped, wcVars
<1>2. QED BY <1>1, PeopleKeepTheCopy, WorkersKeepTheCopy
          DEF FilesNext, FilesThreads, FilesSlots, workVars, CheckVcsChanges, PublishVcsChanges,
              ClosePublish, ResolveVcsConflict, UpdateVcs, RetryUpdate, CloseReview,
              ExportVcsRevision, Scan, CollectUpdateIssues, OnVcsChangesReady, OnVcsUpdateFinished,
              OnVcsPublishFinished, OnVcsConflictResolved, OnVcsExportFinished

\* The workers, each from its own steps and the answers that start it again.
LEMMA JobsStayTyped ==
    ASSUME FilesTyped, [FilesNext]_workVars
    PROVE  JobsTyped'
<1>0. CopyTyped /\ JobsTyped /\ WindowsTyped
    BY DEF FilesTyped
<1>1. scanner' \in ScanJob
  <2>1. \A t \in Tasks : ScanStarted(t) => scanner' \in ScanJob
      BY <1>0 DEF ScanStarted, JobsTyped, ScanJob
  <2>2. CASE UNCHANGED scanner \/ scanner' = Resting
      BY <1>0, <2>2 DEF JobsTyped, ScanJob
  <2>3. CASE \E t \in Tasks : CheckVcsChanges(t)
      BY <2>1, <2>3 DEF CheckVcsChanges
  <2>4. CASE Scan
    <3>1. scanner.task \in Tasks
        BY <1>0, <2>4 DEF Scan, JobsTyped, ScanJob, Resting
    <3>2. ScanList \in [Paths -> Codes]
        BY <1>0, NodesStayNodes DEF ScanList, Codes
    <3>3. QED BY <2>4, <3>1, <3>2 DEF Scan, ScanJob
  <2>5. CASE OnVcsUpdateFinished
    <3>1. FirstTask \in Tasks
        BY WorkingFilesAssumption
    <3>2. QED BY <2>1, <2>2, <2>5, <3>1 DEF OnVcsUpdateFinished
  <2>6. CASE OnVcsConflictResolved
    <3>1. resolver.task \in Tasks
        BY <1>0, <2>6 DEF OnVcsConflictResolved, JobsTyped, ResolveJob, Resting
    <3>2. QED BY <2>1, <2>2, <2>6, <3>1 DEF OnVcsConflictResolved
  <2>7. QED BY <2>2, <2>3, <2>4, <2>5, <2>6
            DEF FilesNext, FilesThreads, FilesSlots, workVars, jobVars, SaveContents, PutFolder,
                ColleaguePublishes, MovePathAside, AddLocalIgnore, CleanedByHand,
                PublishVcsChanges, ClosePublish, ResolveVcsConflict, UpdateVcs, RetryUpdate,
                CloseReview, ExportVcsRevision, Pull, CollectUpdateIssues, Add, Commit, Resolve,
                ExportRevision, OnVcsChangesReady, OnVcsPublishFinished, OnVcsExportFinished
<1>2. updater' \in UpdateJob
  <2>1. CASE UNCHANGED updater \/ updater' = Resting \/ updater' = Pulling
    <3>1. Pulling \in UpdateJob /\ Resting \in UpdateJob
        BY DEF UpdateJob, Pulling
    <3>2. QED BY <1>0, <2>1, <3>1 DEF JobsTyped
  <2>2. CASE Pull
    <3>1. updater.st = "pull" /\ updater \in [st : {"pull", "status", "out"}, ok : BOOLEAN, issues : SUBSET (Paths \X Codes)]
        BY <1>0, <2>2 DEF Pull, JobsTyped, UpdateJob, Resting
    <3>2. \E ok \in BOOLEAN : updater' = [updater EXCEPT !.st = "status", !.ok = ok]
      <4>1. [updater EXCEPT !.st = "status"] = [updater EXCEPT !.st = "status", !.ok = updater.ok]
          BY <3>1
      <4>2. updater.ok \in BOOLEAN
          BY <3>1
      <4>3. (\A p \in Paths : (StatusCode(node[p]))' \notin {"C", "~"}) \in BOOLEAN
          OBVIOUS
      <4>4. CASE PullDone
          BY <4>3, <4>4 DEF PullDone
      <4>5. CASE PullKilled \/ PullRefused
          BY <4>1, <4>2, <4>5 DEF PullKilled, PullRefused
      <4>6. QED BY <2>2, <4>4, <4>5 DEF Pull
    <3>3. QED BY <3>1, <3>2 DEF UpdateJob
  <2>3. CASE CollectUpdateIssues
    <3>1. Issues \subseteq Paths \X Codes
        BY <1>0, NodesStayNodes DEF Issues, Problems
    <3>2. (updater.ok /\ Issues = {}) \in BOOLEAN
        OBVIOUS
    <3>3. QED BY <2>3, <3>1, <3>2 DEF CollectUpdateIssues, UpdateJob
  <2>4. QED BY <2>1, <2>2, <2>3
            DEF FilesNext, FilesThreads, FilesSlots, workVars, jobVars, SaveContents, PutFolder,
                ColleaguePublishes, MovePathAside, AddLocalIgnore, CleanedByHand, CheckVcsChanges,
                PublishVcsChanges, ClosePublish, ResolveVcsConflict, UpdateVcs, RetryUpdate,
                CloseReview, ExportVcsRevision, Scan, Add, Commit, Resolve,
                ExportRevision, OnVcsChangesReady, OnVcsUpdateFinished, OnVcsPublishFinished,
                OnVcsConflictResolved, OnVcsExportFinished
<1>3. publisher' \in PublishJob
  <2> DEFINE Runs == [st : {"add", "commit", "out"}, task : Tasks, chosen : SUBSET Paths,
                      fresh : SUBSET Paths, ok : BOOLEAN]
  <2>1. CASE UNCHANGED publisher \/ publisher' = Resting
      BY <1>0, <2>1 DEF JobsTyped, PublishJob
  <2>2. CASE \E t \in Tasks : PublishVcsChanges(t)
    <3> DEFINE New(S, t) == {p \in S : lists[t][p] = "?"}
    <3>1. PICK t \in Tasks : PublishVcsChanges(t)
        BY <2>2
    <3>2. PICK S \in Ticked(t) :
               publisher' = [st |-> IF New(S, t) = {} THEN "commit" ELSE "add", task |-> t,
                             chosen |-> S, fresh |-> New(S, t), ok |-> FALSE]
        BY <3>1 DEF PublishVcsChanges
    <3>3. S \subseteq Paths /\ New(S, t) \subseteq Paths
        BY <3>2 DEF Ticked, Listed
    <3>4. publisher' \in Runs
      <4>1. (IF New(S, t) = {} THEN "commit" ELSE "add") \in {"add", "commit", "out"}
          OBVIOUS
      <4> HIDE DEF New
      <4>2. QED BY <3>2, <3>3, <4>1
    <3>5. QED BY <3>4 DEF PublishJob
  <2>3. CASE Add \/ Commit
    <3>1. publisher \in Runs
        BY <1>0, <2>3 DEF Add, Commit, JobsTyped, PublishJob, Resting
    <3>2. \/ \E st \in {"commit", "out"} : publisher' = [publisher EXCEPT !.st = st]
          \/ publisher' = [publisher EXCEPT !.st = "out", !.ok = TRUE]
        BY <2>3 DEF Add, AddDone, AddStopped, AddRefused, Commit, CommitDone, CommitKilled, CommitRefused
    <3>3. QED BY <3>1, <3>2 DEF PublishJob
  <2>4. QED BY <2>1, <2>2, <2>3
            DEF FilesNext, FilesThreads, FilesSlots, workVars, jobVars, SaveContents, PutFolder,
                ColleaguePublishes, MovePathAside, AddLocalIgnore, CleanedByHand, CheckVcsChanges,
                ClosePublish, ResolveVcsConflict, UpdateVcs, RetryUpdate, CloseReview,
                ExportVcsRevision, Scan, Pull, CollectUpdateIssues, Resolve,
                ExportRevision, OnVcsChangesReady, OnVcsUpdateFinished, OnVcsPublishFinished,
                OnVcsConflictResolved, OnVcsExportFinished
<1>4. resolver' \in ResolveJob
  <2>1. CASE UNCHANGED resolver \/ resolver' = Resting
      BY <1>0, <2>1 DEF JobsTyped, ResolveJob
  <2>2. CASE \E t \in Tasks, p \in Paths, how \in Resolutions : ResolveVcsConflict(t, p, how)
      BY <2>2 DEF ResolveVcsConflict, ResolveJob
  <2>3. CASE Resolve
    <3>1. resolver \in [st : {"run", "out"}, task : Tasks, path : Paths, how : Resolutions, ok : BOOLEAN]
        BY <1>0, <2>3 DEF Resolve, JobsTyped, ResolveJob, Resting
    <3>2. \/ resolver' = [resolver EXCEPT !.st = "out"]
          \/ resolver' = [resolver EXCEPT !.st = "out", !.ok = TRUE]
        BY <2>3 DEF Resolve, ResolveDone, ResolveRefused
    <3>3. QED BY <3>1, <3>2 DEF ResolveJob
  <2>4. QED BY <2>1, <2>2, <2>3
            DEF FilesNext, FilesThreads, FilesSlots, workVars, jobVars, SaveContents, PutFolder,
                ColleaguePublishes, MovePathAside, AddLocalIgnore, CleanedByHand, CheckVcsChanges,
                PublishVcsChanges, ClosePublish, UpdateVcs, RetryUpdate, CloseReview,
                ExportVcsRevision, Scan, Pull, CollectUpdateIssues, Add, Commit,
                ExportRevision, OnVcsChangesReady, OnVcsUpdateFinished, OnVcsPublishFinished,
                OnVcsConflictResolved, OnVcsExportFinished
<1>5. exporter' \in ExportJob
  <2>1. CASE UNCHANGED exporter \/ exporter' = Resting
      BY <1>0, <2>1 DEF JobsTyped, ExportJob
  <2>2. CASE \E to \in ExportTargets : ExportVcsRevision(to)
      BY <2>2 DEF ExportVcsRevision, ExportTargets, ExportJob
  <2>3. CASE ExportRevision
      BY <1>0, <2>3 DEF ExportRevision, JobsTyped, ExportJob, Resting
  <2>4. QED BY <2>1, <2>2, <2>3
            DEF FilesNext, FilesThreads, FilesSlots, workVars, jobVars, SaveContents, PutFolder,
                ColleaguePublishes, MovePathAside, AddLocalIgnore, CleanedByHand, CheckVcsChanges,
                PublishVcsChanges, ClosePublish, ResolveVcsConflict, UpdateVcs, RetryUpdate,
                CloseReview, Scan, Pull, CollectUpdateIssues, Add, Commit, Resolve,
                OnVcsChangesReady, OnVcsUpdateFinished, OnVcsPublishFinished,
                OnVcsConflictResolved, OnVcsExportFinished
<1>6. QED BY <1>1, <1>2, <1>3, <1>4, <1>5 DEF JobsTyped

\* A window that is taken out, or is given back.
LEMMA WindowsGo ==
    ASSUME WindowsTyped, NEW w
    PROVE  /\ Without(w) \in Seq(Tasks \cup {Review}) /\ IsInjective(Without(w))
           /\ Range(Without(w)) = Range(stack) \ {w}
BY TakenOut DEF WindowsTyped, Without

\* Windows open and close, one of each at most.
LEMMA WindowsStayOnce ==
    ASSUME FilesTyped, [FilesNext]_workVars
    PROVE  WindowsTyped'
<1>0. CopyTyped /\ JobsTyped /\ WindowsTyped
    BY DEF FilesTyped
<1>1. ASSUME lists' \in [Tasks -> [Paths -> Codes]], busy' \in [Tasks -> BOOLEAN],
             review' \subseteq Paths \X Codes,
             \/ stack' = stack
             \/ \E w : stack' = Without(w)
             \/ \E w \in Tasks : w \notin Range(stack) /\ stack' = Append(stack, w),
             updater'.st # "idle" => updater.st # "idle" \/ stack = << >>
      PROVE  WindowsTyped'
  <2>2. /\ stack' \in Seq(Tasks \cup {Review}) /\ IsInjective(stack')
        /\ Range(stack') \subseteq Range(stack) \cup Tasks
    <3>1. CASE UNCHANGED stack
        BY <1>0, <3>1 DEF WindowsTyped
    <3>2. ASSUME NEW w, stack' = Without(w)
          PROVE  /\ stack' \in Seq(Tasks \cup {Review}) /\ IsInjective(stack')
                 /\ Range(stack') \subseteq Range(stack) \cup Tasks
        BY <1>0, <3>2, WindowsGo
    <3>3. ASSUME NEW w \in Tasks, w \notin Range(stack), stack' = Append(stack, w)
          PROVE  /\ stack' \in Seq(Tasks \cup {Review}) /\ IsInjective(stack')
                 /\ Range(stack') \subseteq Range(stack) \cup Tasks
        BY <1>0, <3>3, PutInFront DEF WindowsTyped
    <3>4. QED BY <1>1, <3>1, <3>2, <3>3
  <2>3. Review \notin Tasks /\ Range(<< >>) = {}
      BY WorkingFilesAssumption DEF Range
  <2>4. updater'.st # "idle" => Review \notin Range(stack')
      BY <1>0, <1>1, <2>2, <2>3 DEF WindowsTyped
  <2>5. QED BY <1>1, <2>2, <2>4 DEF WindowsTyped
<1>t. /\ lists \in [Tasks -> [Paths -> Codes]] /\ busy \in [Tasks -> BOOLEAN]
      /\ review \subseteq Paths \X Codes
    BY <1>0 DEF WindowsTyped
<1>2. CASE UNCHANGED << updater, windowVars >>
    BY <1>1, <1>t, <1>2 DEF windowVars
<1>3. CASE OnVcsChangesReady
  <2>1. scanner.task \in Tasks /\ scanner.list \in [Paths -> Codes]
      BY <1>0, <1>3 DEF OnVcsChangesReady, JobsTyped, ScanJob, Resting
  <2>2. UNCHANGED << updater, review >>
      BY <1>3 DEF OnVcsChangesReady
  <2>3. CASE UNCHANGED << stack, lists, busy >>
      BY <1>1, <1>t, <2>2, <2>3
  <2>4. CASE ~ UNCHANGED << stack, lists, busy >>
    <3>1. /\ scanner.task \notin Range(stack) /\ stack' = Append(stack, scanner.task)
          /\ lists' = [lists EXCEPT ![scanner.task] = scanner.list]
          /\ busy' = [busy EXCEPT ![scanner.task] = FALSE]
        BY <1>3, <2>4 DEF OnVcsChangesReady, Open
    <3>2. lists' \in [Tasks -> [Paths -> Codes]] /\ busy' \in [Tasks -> BOOLEAN] /\ review' \subseteq Paths \X Codes
        BY <1>0, <2>1, <2>2, <3>1 DEF WindowsTyped
    <3>3. QED BY <1>1, <2>1, <2>2, <3>1, <3>2
  <2>5. QED BY <2>3, <2>4
<1>4. CASE UpdateVcs
    BY <1>1, <1>t, <1>4 DEF UpdateVcs, windowVars
<1>5. CASE Pull \/ CollectUpdateIssues
    BY <1>1, <1>t, <1>5 DEF Pull, CollectUpdateIssues, windowVars
<1>6. CASE OnVcsUpdateFinished
  <2>1. updater' = Resting /\ UNCHANGED << lists, busy >> /\ updater.st = "out"
      BY <1>6 DEF OnVcsUpdateFinished
  <2>2. updater'.st = "idle"
      BY <2>1 DEF Resting
  <2>3. CASE UNCHANGED << stack, review >>
      BY <1>1, <1>t, <2>1, <2>2, <2>3
  <2>4. CASE ~ UNCHANGED << stack, review >>
    <3>1. stack' = Append(stack, Review) /\ review' = updater.issues
        BY <1>6, <2>4 DEF OnVcsUpdateFinished
    <3>2. updater.issues \subseteq Paths \X Codes
        BY <1>0, <2>1 DEF JobsTyped, UpdateJob, Resting
    <3>3. Review \notin Range(stack)
        BY <1>0, <2>1 DEF WindowsTyped
    <3>4. stack' \in Seq(Tasks \cup {Review}) /\ IsInjective(stack')
        BY <1>0, <3>1, <3>3, PutInFront DEF WindowsTyped
    <3>5. QED BY <1>0, <2>1, <2>2, <3>1, <3>2, <3>4 DEF WindowsTyped
  <2>5. QED BY <2>3, <2>4
<1>7. CASE \E p \in Paths : MovePathAside(p)
  <2>1. review' \subseteq review /\ UNCHANGED << updater, stack, lists, busy >>
      BY <1>7 DEF MovePathAside, jobVars
  <2>2. QED BY <1>0, <1>1, <2>1 DEF WindowsTyped
<1>8. CASE RetryUpdate \/ CloseReview
  <2>1. stack' = Without(Review) /\ review' = {} /\ UNCHANGED << lists, busy >>
      BY <1>8 DEF RetryUpdate, CloseReview
  <2>2. Without(Review) \in Seq(Tasks \cup {Review}) /\ IsInjective(Without(Review)) /\ Review \notin Range(Without(Review))
      BY <1>0, WindowsGo
  <2>3. QED BY <1>0, <2>1, <2>2 DEF WindowsTyped
<1>9. CASE \E t \in Tasks : PublishVcsChanges(t) \/ \E p \in Paths, how \in Resolutions : ResolveVcsConflict(t, p, how)
  <2>1. PICK t \in Tasks : busy' = [busy EXCEPT ![t] = TRUE]
      BY <1>9 DEF PublishVcsChanges, ResolveVcsConflict
  <2>2. UNCHANGED << updater, stack, lists, review >>
      BY <1>9 DEF PublishVcsChanges, ResolveVcsConflict
  <2>3. busy' \in [Tasks -> BOOLEAN]
      BY <1>0, <2>1 DEF WindowsTyped
  <2>4. QED BY <1>0, <1>1, <2>2, <2>3 DEF WindowsTyped
<1>10. CASE OnVcsPublishFinished \/ OnVcsConflictResolved \/ \E t \in Tasks : ClosePublish(t)
  <2>1. /\ \E t : busy' = [busy EXCEPT ![t] = FALSE] /\ stack' \in {Without(t), stack}
        /\ UNCHANGED << updater, lists, review >>
      BY <1>10 DEF OnVcsPublishFinished, OnVcsConflictResolved, ClosePublish, Settled, jobVars
  <2>2. busy' \in [Tasks -> BOOLEAN]
      BY <1>0, <2>1 DEF WindowsTyped
  <2>3. QED BY <1>0, <1>1, <2>1, <2>2 DEF WindowsTyped
<1>11. QED BY <1>2, <1>3, <1>4, <1>5, <1>6, <1>7, <1>8, <1>9, <1>10
           DEF FilesNext, FilesThreads, FilesSlots, workVars, jobVars, SaveContents, PutFolder,
               ColleaguePublishes, AddLocalIgnore, CleanedByHand, CheckVcsChanges,
               ExportVcsRevision, Scan, Add, Commit, Resolve, ExportRevision, OnVcsExportFinished

\* The types of the working copy, its workers and windows, whatever is careless.
LEMMA FilesAreTyped == FilesInit /\ [][FilesNext]_workVars => []FilesTypeOK
<1>1. FilesTyped /\ [FilesNext]_workVars => FilesTyped'
    BY CopyStaysTyped, JobsStayTyped, WindowsStayOnce DEF FilesTyped
<1>2. FilesTyped => FilesTypeOK
    BY DEF FilesTyped, CopyTyped, JobsTyped, WindowsTyped, FilesTypeOK
<1>3. QED BY <1>1, <1>2, FilesTypedStart, PTL

(***************************************************************************)
(* The software vault: manifests whose archives are there.                 *)
(***************************************************************************)

Entries == [release : Releases, pinned : BOOLEAN]

\* What the manifest lst lists has its archive among the archives Z.
Backed(lst, Z) ==
    /\ IsManifest(lst)
    /\ \A v \in DOMAIN lst : \A t \in DOMAIN lst[v] : <<t, lst[v][t].release>> \in Z

LEMMA EmptyIsBacked == ASSUME NEW Z PROVE Backed(<< >>, Z)
<1>1. DOMAIN << >> = {}
    OBVIOUS
<1>2. QED BY <1>1 DEF Backed, IsManifest

LEMMA SeedIsBacked == ASSUME NEW Z PROVE Backed(Seeded, Z)
<1>1. DOMAIN Seeded = {SeedVersion} /\ DOMAIN Seeded[SeedVersion] = {}
    BY DEF Seeded
<1>2. QED BY <1>1, VaultAssumption DEF Backed, IsManifest

LEMMA BackedGrows ==
    ASSUME NEW lst, NEW Z, NEW Y, Backed(lst, Z), Z \subseteq Y
    PROVE  Backed(lst, Y)
BY DEF Backed

LEMMA VersionIsBacked ==
    ASSUME NEW d, NEW Z, Backed(d, Z), NEW v \in Versions
    PROVE  Backed(WithVersion(d, v), Z) /\ DOMAIN WithVersion(d, v) = DOMAIN d \cup {v}
<1> DEFINE w == WithVersion(d, v)
<1>1. DOMAIN w = DOMAIN d \cup {v}
    BY DEF WithVersion
<1>2. \A u \in DOMAIN w : w[u] = IF u \in DOMAIN d THEN d[u] ELSE << >>
    BY DEF WithVersion
<1>3. DOMAIN << >> = {}
    OBVIOUS
<1> HIDE DEF w
<1>4. Backed(w, Z)
    BY <1>1, <1>2, <1>3 DEF Backed, IsManifest
<1>5. QED BY <1>1, <1>4 DEF w

LEMMA EntryIsBacked ==
    ASSUME NEW d, NEW Z, Backed(d, Z), NEW v \in DOMAIN d, NEW t \in Tools, NEW e \in Entries,
           <<t, e.release>> \in Z
    PROVE  Backed(WithEntry(d, v, t, e), Z)
<1> DEFINE w == WithEntry(d, v, t, e)
           n == [u \in DOMAIN d[v] \cup {t} |-> IF u = t THEN e ELSE d[v][u]]
<1>1. w = [d EXCEPT ![v] = n]
    BY DEF WithEntry
<1>2. DOMAIN n = DOMAIN d[v] \cup {t} /\ \A u \in DOMAIN n : n[u] = IF u = t THEN e ELSE d[v][u]
    OBVIOUS
<1> HIDE DEF w, n
<1>3. DOMAIN w = DOMAIN d /\ w[v] = n /\ \A u \in DOMAIN d : u # v => w[u] = d[u]
    BY <1>1
<1>4. \A u \in DOMAIN n : n[u] \in Entries /\ <<u, n[u].release>> \in Z
    BY <1>2 DEF Backed, IsManifest, Entries
<1>5. DOMAIN n \subseteq Tools
    BY <1>2 DEF Backed, IsManifest
<1>6. Backed(w, Z)
    BY <1>3, <1>4, <1>5 DEF Backed, IsManifest, Entries
<1>7. QED BY <1>6 DEF w

LEMMA LessIsBacked ==
    ASSUME NEW d, NEW Z, Backed(d, Z), NEW S \in SUBSET DOMAIN d
    PROVE  Backed(Restrict(d, S), Z) /\ DOMAIN Restrict(d, S) = S
<1> DEFINE w == Restrict(d, S)
<1>1. DOMAIN w = S /\ \A v \in S : w[v] = d[v]
    BY DEF Restrict
<1> HIDE DEF w
<1>2. Backed(w, Z)
    BY <1>1 DEF Backed, IsManifest
<1>3. QED BY <1>1, <1>2 DEF w

LEMMA FetchedIsBacked ==
    ASSUME NEW d, NEW Z, Backed(d, Z), NEW a, NEW T \in SUBSET Tools,
           \A t \in T : <<t, Latest>> \in Z
    PROVE  Backed(Fetched(d, a, T), Z)
<1> SUFFICES ASSUME a \in DOMAIN d
             PROVE  Backed([d EXCEPT ![a] = Over([t \in T |-> Entry(Latest, FALSE)], @)], Z)
    BY DEF Fetched
<1> DEFINE f == [t \in T |-> Entry(Latest, FALSE)]
           n == Over(f, d[a])
           w == [d EXCEPT ![a] = n]
<1>1. Entry(Latest, FALSE) \in Entries /\ Entry(Latest, FALSE).release = Latest
    BY DEF Entry, Entries, Latest, Releases
<1>2. /\ DOMAIN n = T \cup DOMAIN d[a]
      /\ \A u \in DOMAIN n : n[u] = IF u \in T THEN Entry(Latest, FALSE) ELSE d[a][u]
    BY DEF Over
<1> HIDE DEF n, f
<1>3. DOMAIN w = DOMAIN d /\ w[a] = n /\ \A u \in DOMAIN d : u # a => w[u] = d[u]
    OBVIOUS
<1>4. \A u \in DOMAIN n : n[u] \in Entries /\ <<u, n[u].release>> \in Z
    BY <1>1, <1>2 DEF Backed, IsManifest, Entries
<1>5. DOMAIN n \subseteq Tools
    BY <1>2 DEF Backed, IsManifest
<1> HIDE DEF w
<1>6. Backed(w, Z)
    BY <1>3, <1>4, <1>5 DEF Backed, IsManifest, Entries
<1>7. QED BY <1>6 DEF w, n, f

LEMMA RegisteredIsBacked ==
    ASSUME NEW d, NEW Z, Backed(d, Z), NEW V \in SUBSET Versions
    PROVE  /\ Backed(Registered(d, V), Z)
           /\ DOMAIN Registered(d, V) = DOMAIN d \cup V
           /\ \A v \in DOMAIN d \cup V :
                  Registered(d, V)[v] = IF v \in DOMAIN d THEN d[v] ELSE << >>
<1> DEFINE w == Registered(d, V)
<1>1. /\ DOMAIN w = DOMAIN d \cup V
      /\ \A v \in DOMAIN w : w[v] = IF v \in DOMAIN d THEN d[v] ELSE << >>
    BY DEF Registered
<1>2. DOMAIN << >> = {}
    OBVIOUS
<1> HIDE DEF w
<1>3. Backed(w, Z)
    BY <1>1, <1>2 DEF Backed, IsManifest
<1>4. QED BY <1>1, <1>3 DEF w

\* The releases that the fixes F want for the tool t of the version v.
Wanted(F, v, t) == {f[3] : f \in {g \in F : g[1] = v /\ g[2] = t}}

LEMMA ReleasingAt ==
    ASSUME NEW d, NEW F
    PROVE  /\ DOMAIN Releasing(d, F) = DOMAIN d
           /\ \A v \in DOMAIN d :
                /\ DOMAIN Releasing(d, F)[v] = DOMAIN d[v]
                /\ \A t \in DOMAIN d[v] :
                     Releasing(d, F)[v][t] =
                         IF Wanted(F, v, t) = {} THEN d[v][t]
                         ELSE [d[v][t] EXCEPT !.release = CHOOSE r \in Wanted(F, v, t) : TRUE]
BY DEF Releasing, Wanted

LEMMA ReleasedIsBacked ==
    ASSUME NEW d, NEW Z \in SUBSET (Tools \X Releases), Backed(d, Z), NEW F,
           \A f \in F : <<f[2], f[3]>> \in Z
    PROVE  Backed(Releasing(d, F), Z)
<1> DEFINE w == Releasing(d, F)
           at(v, t) == IF Wanted(F, v, t) = {} THEN d[v][t]
                       ELSE [d[v][t] EXCEPT !.release = CHOOSE r \in Wanted(F, v, t) : TRUE]
<1>1. /\ DOMAIN w = DOMAIN d
      /\ \A v \in DOMAIN d : /\ DOMAIN w[v] = DOMAIN d[v]
                             /\ \A t \in DOMAIN d[v] : w[v][t] = at(v, t)
    BY ReleasingAt
<1>2. ASSUME NEW v \in DOMAIN d, NEW t \in DOMAIN d[v]
      PROVE  at(v, t) \in Entries /\ <<t, at(v, t).release>> \in Z
  <2>1. d[v][t] \in Entries /\ <<t, d[v][t].release>> \in Z
      BY DEF Backed, IsManifest, Entries
  <2>2. CASE Wanted(F, v, t) = {}
      BY <2>1, <2>2
  <2>3. CASE Wanted(F, v, t) # {}
    <3> DEFINE r == CHOOSE x \in Wanted(F, v, t) : TRUE
    <3>1. r \in Wanted(F, v, t)
        BY <2>3
    <3>2. <<t, r>> \in Z
        BY <3>1 DEF Wanted
    <3>3. r \in Releases
        BY <3>2
    <3>4. at(v, t) = [d[v][t] EXCEPT !.release = r]
        BY <2>3
    <3> HIDE DEF r, at
    <3>5. QED BY <2>1, <3>2, <3>3, <3>4 DEF Entries
  <2>4. QED BY <2>2, <2>3
<1> HIDE DEF w, at
<1>3. \A v \in DOMAIN d : DOMAIN d[v] \subseteq Tools
    BY DEF Backed, IsManifest
<1>4. DOMAIN d \subseteq Versions
    BY DEF Backed, IsManifest
<1>5. \A v \in DOMAIN w : /\ DOMAIN w[v] \subseteq Tools
                          /\ \A t \in DOMAIN w[v] : /\ w[v][t] \in Entries
                                                    /\ <<t, w[v][t].release>> \in Z
    BY <1>1, <1>2, <1>3
<1>6. Backed(w, Z)
    BY <1>1, <1>4, <1>5 DEF Backed, IsManifest, Entries
<1>7. QED BY <1>6 DEF w

(***************************************************************************)
(* What an entry is matched with, and what an audit finds.                 *)
(***************************************************************************)

LEMMA MinOfReleases ==
    ASSUME NEW S \in SUBSET Releases, S # {}
    PROVE  Min(S) \in S
<1>1. \E x \in S : \A y \in S : x <= y
  <2>1. CASE 1 \in S
      BY <2>1 DEF Releases
  <2>2. CASE 1 \notin S
    <3>1. \A y \in S : y = 2
        BY <2>2 DEF Releases
    <3>2. QED BY <3>1
  <2>3. QED BY <2>1, <2>2
<1>2. QED BY <1>1 DEF Min

LEMMA MatchedIsThere ==
    ASSUME zips \subseteq Tools \X Releases, NEW t, NEW e
    PROVE  /\ Matched(t, e) \subseteq ReleasesOf(t)
           /\ ReleasesOf(t) \subseteq Releases
           /\ \A r \in ReleasesOf(t) : <<t, r>> \in zips
<1>1. ReleasesOf(t) \subseteq Releases /\ \A r \in ReleasesOf(t) : <<t, r>> \in zips
    BY DEF ReleasesOf
<1>2. ReleasesOf(t) # {} => Min(ReleasesOf(t)) \in ReleasesOf(t)
    BY <1>1, MinOfReleases
<1>3. QED BY <1>1, <1>2 DEF Matched

\* An entry that takes the release it was matched with is matched with it.
LEMMA MatchedOnce ==
    ASSUME zips \subseteq Tools \X Releases, NEW t, NEW e \in Entries,
           NEW r \in Matched(t, e)
    PROVE  /\ Matched(t, e) = {r}
           /\ Matched(t, [e EXCEPT !.release = r]) = {r}
           /\ [e EXCEPT !.release = r].release = r
<1>1. r \in ReleasesOf(t)
    BY MatchedIsThere
<1>2. Matched(t, e) = {r}
    BY DEF Matched
<1> DEFINE k == [e EXCEPT !.release = r]
<1>3. k.release = r /\ k.pinned = e.pinned
    BY DEF Entries
<1> HIDE DEF k
<1>4. Matched(t, k) = {r}
  <2>1. CASE k.pinned
      BY <1>1, <1>3, <2>1 DEF Matched
  <2>2. CASE ~ k.pinned
      BY <1>1, <1>2, <1>3, <2>2 DEF Matched
  <2>3. QED BY <2>1, <2>2
<1>5. QED BY <1>2, <1>3, <1>4 DEF k

LEMMA AuditFinds ==
    ASSUME zips \subseteq Tools \X Releases, NEW d
    PROVE  \A f \in Mismatched(d) : <<f[2], f[3]>> \in zips
<1> SUFFICES ASSUME NEW f \in Mismatched(d) PROVE <<f[2], f[3]>> \in zips
    OBVIOUS
<1>1. PICK r \in Rows(d) :
        f \in {<<r[1], r[2], lst>> : lst \in Matched(r[2], d[r[1]][r[2]]) \ {d[r[1]][r[2]].release}}
    BY DEF Mismatched
<1>2. PICK x \in Matched(r[2], d[r[1]][r[2]]) : f = <<r[1], r[2], x>>
    BY <1>1
<1>3. f[2] = r[2] /\ f[3] = x
    BY <1>2
<1>4. <<r[2], x>> \in zips
    BY MatchedIsThere
<1>5. QED BY <1>3, <1>4

(***************************************************************************)
(* The vault's invariant.                                                  *)
(***************************************************************************)

ShelfShape ==
    /\ DOMAIN shelf \subseteq Versions /\ \A v \in DOMAIN shelf : shelf[v] \in {"whole", "bad"}
    /\ strays \subseteq Versions /\ zips \subseteq Tools \X Releases
    /\ loading \in [Loaders -> Versions \cup {""}] /\ edits \in 0 .. MaxEdits

PageShape ==
    /\ DOMAIN page = {"open", "data", "active", "fetching"}
    /\ page.open \in BOOLEAN /\ page.fetching \in BOOLEAN
    /\ page.active \in Versions \cup {""} /\ Backed(page.data, zips)
    /\ page.fetching <=> fetch.at # "idle"

FetchShape ==
    /\ DOMAIN fetch = {"at", "for", "held", "got"}
    /\ fetch.at # "idle" => fetch.for \in Versions
    /\ Backed(fetch.held, zips) /\ fetch.got \subseteq Tools
    /\ \A t \in fetch.got : <<t, Latest>> \in zips

ReportShape ==
    /\ DOMAIN report = {"known", "unregistered", "mismatched", "orphans", "misplaced", "seen"}
    /\ report.unregistered \subseteq Versions /\ report.misplaced \subseteq Versions
    /\ report.orphans \subseteq zips
    /\ \A f \in report.mismatched : <<f[2], f[3]>> \in zips

ManifestShape == manifest \in {NoManifest, TornManifest} \/ Backed(manifest, zips)

\* Whoever may read the manifest, the page or its thread, reads what is there.
PageReads == page.open \/ fetch.at # "idle" => Backed(Read(manifest), zips)

VaultInv == ShelfShape /\ PageShape /\ FetchShape /\ ReportShape /\ ManifestShape

\* Archives are only added, so what was found, fetched or listed stays there.
LEMMA ReportStays == ASSUME ReportShape, report' = report, zips \subseteq zips' PROVE ReportShape'
BY DEF ReportShape

LEMMA FetchStays == ASSUME FetchShape, fetch' = fetch, zips \subseteq zips' PROVE FetchShape'
BY BackedGrows DEF FetchShape, Latest

LEMMA ManifestStays ==
    ASSUME ManifestShape, manifest' = manifest, zips \subseteq zips'
    PROVE  ManifestShape'
BY BackedGrows DEF ManifestShape

LEMMA ShelfStays ==
    ASSUME ShelfShape, UNCHANGED << shelf, strays, zips, loading, edits >>
    PROVE  ShelfShape'
BY DEF ShelfShape, Loaders, Releases

\* The page's copy changes, and at most an archive is added.
LEMMA PageTurns ==
    ASSUME PageShape, NEW d, NEW a \in Versions \cup {""},
           page' = [page EXCEPT !.data = d, !.active = a], Backed(d, zips'),
           fetch'.at = fetch.at
    PROVE  PageShape'
BY DEF PageShape

LEMMA EditCounts ==
    ASSUME ShelfShape, OneEdit
    PROVE  edits' \in 0 .. MaxEdits
<1>1. edits \in 0 .. MaxEdits
    BY DEF ShelfShape
<1>2. edits < MaxEdits /\ edits' = edits + 1
    BY DEF OneEdit
<1>3. QED BY <1>1, <1>2, VaultAssumption

LEMMA ReadIsBacked ==
    ASSUME NEW lst, lst \in {NoManifest, TornManifest} \/ Backed(lst, zips), lst # NoManifest
    PROVE  Backed(Read(lst), zips)
<1>1. CASE lst = TornManifest
    BY <1>1, EmptyIsBacked DEF Read
<1>2. CASE lst # TornManifest
    BY <1>2 DEF Read
<1>3. QED BY <1>1, <1>2

LEMMA VaultStarts == VaultInit => VaultInv
<1> SUFFICES ASSUME VaultInit PROVE VaultInv
    OBVIOUS
<1>1. ShelfShape
  <2>1. DOMAIN shelf = {}
    <3>1. shelf = << >>
        BY DEF VaultInit
    <3>2. DOMAIN << >> = {}
        OBVIOUS
    <3>3. QED BY <3>1, <3>2
  <2>2. strays \subseteq Versions /\ zips \subseteq Tools \X Releases
    <3>1. {<<t, 1>> : t \in Tools} \subseteq Tools \X Releases
        BY DEF Releases
    <3>2. zips = {} \/ zips = {<<t, 1>> : t \in Tools}
        BY DEF VaultInit
    <3>3. strays \subseteq {SeedVersion}
        BY DEF VaultInit
    <3>4. QED BY <3>1, <3>2, <3>3, VaultAssumption
  <2>3. loading \in [Loaders -> Versions \cup {""}] /\ edits \in 0 .. MaxEdits
    <3>1. edits = 0 /\ loading = [l \in Loaders |-> ""]
        BY DEF VaultInit
    <3>2. 0 \in 0 .. MaxEdits
        BY VaultAssumption
    <3>3. [l \in Loaders |-> ""] \in [Loaders -> Versions \cup {""}]
        OBVIOUS
    <3>4. QED BY <3>1, <3>2, <3>3
  <2>4. QED BY <2>1, <2>2, <2>3 DEF ShelfShape
<1>2. page = Closed /\ fetch = NoFetch /\ report = Nothing /\ manifest = NoManifest
    BY DEF VaultInit
<1>3. PageShape
    BY <1>2, EmptyIsBacked DEF PageShape, Closed, NoFetch
<1>4. FetchShape
    BY <1>2, EmptyIsBacked DEF FetchShape, NoFetch
<1>5. ReportShape /\ ManifestShape
    BY <1>2 DEF ReportShape, Nothing, ManifestShape
<1>6. QED BY <1>1, <1>3, <1>4, <1>5 DEF VaultInv

(***************************************************************************)
(* The steps of the page.                                                  *)
(***************************************************************************)

LEMMA OpenReads ==
    ASSUME ManifestShape, OpenPage
    PROVE  Backed(Read(manifest'), zips') /\ ManifestShape'
<1>1. (manifest' = Seeded \/ (manifest' = manifest /\ manifest # NoManifest)) /\ zips' = zips
    BY DEF OpenPage
<1>2. CASE manifest' = Seeded
  <2>1. Backed(manifest', zips')
      BY <1>2, SeedIsBacked
  <2>2. Backed(Read(manifest'), zips')
      BY <2>1, EmptyIsBacked DEF Read
  <2>3. QED BY <2>1, <2>2 DEF ManifestShape
<1>3. CASE manifest' = manifest /\ manifest # NoManifest
  <2>1. Backed(Read(manifest'), zips')
      BY <1>1, <1>3, ReadIsBacked DEF ManifestShape
  <2>2. QED BY <1>1, <1>3, <2>1 DEF ManifestShape
<1>4. QED BY <1>1, <1>2, <1>3

LEMMA OpenIsBacked == ASSUME VaultInv, OpenPage PROVE VaultInv'
<1> USE DEF VaultInv
<1>1. UNCHANGED << shelf, strays, zips, fetch, loading, report, edits >>
    BY DEF OpenPage
<1>3. Backed(Read(manifest'), zips') /\ ManifestShape'
    BY OpenReads
<1> DEFINE d == Read(manifest')
           a == IF DOMAIN d = {} THEN "" ELSE CHOOSE v \in DOMAIN d : TRUE
<1>4. page' = [page EXCEPT !.open = TRUE, !.data = d, !.active = a]
    BY DEF OpenPage
<1>5. Backed(d, zips') /\ DOMAIN d \subseteq Versions
    BY <1>1, <1>3 DEF Backed, IsManifest
<1> HIDE DEF d
<1>6. a \in Versions \cup {""}
    BY <1>5
<1> HIDE DEF a
<1>7. PageShape'
    BY <1>1, <1>4, <1>5, <1>6 DEF PageShape
<1>8. QED BY <1>1, <1>3, <1>7, ShelfStays, FetchStays, ReportStays

LEMMA HubEndIsBacked == ASSUME VaultInv, HubEnds PROVE VaultInv'
<1> USE DEF VaultInv
<1>1. /\ UNCHANGED << shelf, strays, zips, manifest, edits >>
      /\ page' = Closed /\ fetch' = NoFetch /\ report' = Nothing
      /\ loading' = [l \in Loaders |-> ""]
    BY DEF HubEnds
<1>2. ShelfShape'
  <2>1. loading' \in [Loaders -> Versions \cup {""}]
      BY <1>1
  <2>2. QED BY <1>1, <2>1 DEF ShelfShape, Releases
<1>3. PageShape'
    BY <1>1, EmptyIsBacked DEF PageShape, Closed, NoFetch
<1>4. FetchShape'
    BY <1>1, EmptyIsBacked DEF FetchShape, NoFetch
<1>5. ReportShape'
    BY <1>1 DEF ReportShape, Nothing
<1>6. QED BY <1>1, <1>2, <1>3, <1>4, <1>5, ManifestStays

LEMMA SaveIsBacked == ASSUME VaultInv, SavePage PROVE VaultInv'
<1> USE DEF VaultInv
<1>1. UNCHANGED << shelf, strays, zips, fetch, loading, report >> /\ edits' \in 0 .. MaxEdits
    BY EditCounts DEF SavePage
<1>2. manifest' = page.data \/ manifest' = TornManifest
    BY DEF SavePage
<1>3. ManifestShape'
    BY <1>1, <1>2 DEF ManifestShape, PageShape
<1> DEFINE d == page.data
           a == IF DOMAIN d = {} THEN "" ELSE CHOOSE v \in DOMAIN d : TRUE
<1>4. page' = page \/ page' = [page EXCEPT !.active = a]
    BY DEF SavePage
<1>5. DOMAIN d \subseteq Versions
    BY DEF PageShape, Backed, IsManifest
<1> HIDE DEF d
<1>6. a \in Versions \cup {""}
    BY <1>5
<1> HIDE DEF a
<1>7. PageShape'
    BY <1>1, <1>4, <1>6 DEF PageShape
<1>8. ShelfShape'
    BY <1>1 DEF ShelfShape, Loaders, Releases
<1>9. QED BY <1>1, <1>3, <1>7, <1>8, FetchStays, ReportStays

\* The page's copy changes, and archives are only added.
LEMMA EditIsBacked ==
    ASSUME VaultInv, NEW d, NEW a \in Versions \cup {""}, Backed(d, zips'),
           page' = [page EXCEPT !.data = d, !.active = a],
           zips \subseteq zips', zips' \subseteq Tools \X Releases, edits' \in 0 .. MaxEdits,
           UNCHANGED << shelf, strays, manifest, fetch, loading, report >>
    PROVE  VaultInv'
<1> USE DEF VaultInv
<1>1. ShelfShape'
    BY DEF ShelfShape
<1>2. PageShape'
    BY PageTurns
<1>3. QED BY <1>1, <1>2, FetchStays, ReportStays, ManifestStays

LEMMA PageAsItIs ==
    ASSUME PageShape
    PROVE  /\ \A d : [page EXCEPT !.data = d] = [page EXCEPT !.data = d, !.active = page.active]
           /\ \A a : [page EXCEPT !.active = a] = [page EXCEPT !.data = page.data, !.active = a]
           /\ page.active \in Versions \cup {""} /\ Backed(page.data, zips)
           /\ DOMAIN page.data \subseteq Versions
BY DEF PageShape, Backed, IsManifest

LEMMA EditsAreBacked ==
    ASSUME VaultInv,
           SelectVersion \/ InjectZip \/ DeleteVersion \/ ApplyFixes \/ RegisterOrphans
    PROVE  VaultInv'
<1>1. /\ PageShape /\ ReportShape /\ zips \subseteq Tools \X Releases /\ edits \in 0 .. MaxEdits
      /\ Backed(page.data, zips) /\ DOMAIN page.data \subseteq Versions
      /\ page.active \in Versions \cup {""}
    BY PageAsItIs DEF VaultInv, ShelfShape
<1>2. CASE SelectVersion
  <2>1. PICK v \in DOMAIN page.data : page' = [page EXCEPT !.active = v]
      BY <1>2 DEF SelectVersion
  <2>2. page' = [page EXCEPT !.data = page.data, !.active = v]
      BY <1>1, <2>1, PageAsItIs
  <2>3. UNCHANGED << shelf, strays, zips, manifest, fetch, loading, report, edits >>
      BY <1>2 DEF SelectVersion
  <2>4. v \in Versions \cup {""} /\ Backed(page.data, zips')
      BY <1>1, <2>3
  <2>5. QED BY <1>1, <2>2, <2>3, <2>4, EditIsBacked
<1>3. CASE InjectZip
  <2>1. PICK t \in Tools, r \in Releases :
          /\ zips' = zips \union {<<t, r>>}
          /\ page' = [page EXCEPT !.data = WithEntry(@, page.active, t, Entry(r, FALSE))]
      BY <1>3 DEF InjectZip
  <2>2. page.active \in DOMAIN page.data /\ edits' \in 0 .. MaxEdits
        /\ UNCHANGED << shelf, strays, manifest, fetch, loading, report >>
      BY <1>3, EditCounts DEF InjectZip, VaultInv
  <2> DEFINE d == WithEntry(page.data, page.active, t, Entry(r, FALSE))
  <2>3. Entry(r, FALSE) \in Entries /\ Entry(r, FALSE).release = r
      BY DEF Entry, Entries
  <2>4. Backed(page.data, zips') /\ zips' \subseteq Tools \X Releases /\ zips \subseteq zips'
    <3>1. zips' = zips \union {<<t, r>>}
        BY <2>1
    <3>2. <<t, r>> \in Tools \X Releases
        OBVIOUS
    <3>3. zips \subseteq zips' /\ zips' \subseteq Tools \X Releases
        BY <1>1, <3>1, <3>2
    <3>4. QED BY <1>1, <3>3, BackedGrows
  <2>5. Backed(d, zips')
      BY <2>1, <2>2, <2>3, <2>4, EntryIsBacked
  <2>6. page' = [page EXCEPT !.data = d]
      BY <2>1
  <2> HIDE DEF d
  <2>7. page' = [page EXCEPT !.data = d, !.active = page.active]
      BY <1>1, <2>6, PageAsItIs
  <2>8. QED BY <1>1, <2>2, <2>4, <2>5, <2>7, EditIsBacked
<1>4. CASE DeleteVersion
  <2>1. PICK v \in DOMAIN page.data \ DOMAIN shelf :
          page' = [page EXCEPT !.data = Restrict(@, DOMAIN page.data \ {v}),
                      !.active = IF @ # v THEN @ ELSE IF DOMAIN page.data \ {v} = {} THEN ""
                                 ELSE CHOOSE u \in DOMAIN page.data \ {v} : TRUE]
      BY <1>4 DEF DeleteVersion
  <2> DEFINE S == DOMAIN page.data \ {v}
             d == Restrict(page.data, S)
             a == IF page.active # v THEN page.active ELSE IF S = {} THEN ""
                  ELSE CHOOSE u \in S : TRUE
  <2>2. page' = [page EXCEPT !.data = d, !.active = a]
      BY <2>1
  <2>3. S \in SUBSET DOMAIN page.data
      OBVIOUS
  <2> HIDE DEF S
  <2>4. Backed(d, zips)
      BY <1>1, <2>3, LessIsBacked
  <2>5. a \in Versions \cup {""}
      BY <1>1, <2>3
  <2>6. edits' \in 0 .. MaxEdits /\ UNCHANGED << shelf, strays, zips, manifest, fetch, loading, report >>
      BY <1>4, EditCounts DEF DeleteVersion, VaultInv
  <2> HIDE DEF d, a
  <2>7. QED BY <1>1, <2>2, <2>4, <2>5, <2>6, EditIsBacked
<1>5. CASE ApplyFixes
  <2> DEFINE e == Registered(page.data, report.unregistered)
             d == Releasing(e, report.mismatched)
  <2>1. page' = [page EXCEPT !.data = d]
      BY <1>5 DEF ApplyFixes
  <2>2. edits' \in 0 .. MaxEdits /\ UNCHANGED << shelf, strays, zips, manifest, fetch, loading, report >>
      BY <1>5, EditCounts DEF ApplyFixes, VaultInv
  <2>3. report.unregistered \subseteq Versions /\ \A f \in report.mismatched : <<f[2], f[3]>> \in zips
      BY <1>1 DEF ReportShape
  <2>4. Backed(e, zips)
      BY <1>1, <2>3, RegisteredIsBacked
  <2> HIDE DEF e
  <2>5. Backed(d, zips)
      BY <1>1, <2>3, <2>4, ReleasedIsBacked
  <2> HIDE DEF d
  <2>6. page' = [page EXCEPT !.data = d, !.active = page.active]
      BY <1>1, <2>1, PageAsItIs
  <2>7. QED BY <1>1, <2>2, <2>5, <2>6, EditIsBacked
<1>6. CASE RegisterOrphans
  <2>1. PICK z \in report.orphans :
          page' = [page EXCEPT !.data = WithEntry(@, page.active, z[1], Entry(z[2], TRUE))]
      BY <1>6 DEF RegisterOrphans
  <2>2. z \in zips /\ z[1] \in Tools /\ z[2] \in Releases /\ <<z[1], z[2]>> \in zips
    <3>1. z \in zips
        BY <1>1 DEF ReportShape
    <3>2. z \in Tools \X Releases
        BY <1>1, <3>1
    <3>3. z = <<z[1], z[2]>> /\ z[1] \in Tools /\ z[2] \in Releases
        BY <3>2
    <3>4. QED BY <3>1, <3>3
  <2> DEFINE d == WithEntry(page.data, page.active, z[1], Entry(z[2], TRUE))
  <2>3. Entry(z[2], TRUE) \in Entries /\ Entry(z[2], TRUE).release = z[2]
      BY <2>2 DEF Entry, Entries
  <2>4. page.active \in DOMAIN page.data
      BY <1>6 DEF RegisterOrphans
  <2>5. Backed(d, zips)
      BY <1>1, <2>2, <2>3, <2>4, EntryIsBacked
  <2>6. edits' \in 0 .. MaxEdits /\ UNCHANGED << shelf, strays, zips, manifest, fetch, loading, report >>
      BY <1>6, EditCounts DEF RegisterOrphans, VaultInv
  <2>7. page' = [page EXCEPT !.data = d]
      BY <2>1
  <2> HIDE DEF d
  <2>8. page' = [page EXCEPT !.data = d, !.active = page.active]
      BY <1>1, <2>7, PageAsItIs
  <2>9. QED BY <1>1, <2>5, <2>6, <2>8, EditIsBacked
<1>7. QED BY <1>2, <1>3, <1>4, <1>5, <1>6

LEMMA DownloadIsBacked ==
    ASSUME VaultInv, NEW l \in Loaders, StartDownload(l) \/ DownloadDone(l) \/ DownloadFails(l)
    PROVE  VaultInv'
<1> USE DEF VaultInv
<1>1. /\ loading \in [Loaders -> Versions \cup {""}]
      /\ DOMAIN shelf \subseteq Versions /\ \A v \in DOMAIN shelf : shelf[v] \in {"whole", "bad"}
      /\ strays \subseteq Versions /\ zips \subseteq Tools \X Releases /\ edits \in 0 .. MaxEdits
    BY DEF ShelfShape
<1>2. CASE StartDownload(l)
  <2>1. /\ UNCHANGED << shelf, strays, zips, manifest, page, fetch, report >>
        /\ edits' \in 0 .. MaxEdits
      BY <1>2, EditCounts DEF StartDownload
  <2>2. loading' \in [Loaders -> Versions \cup {""}]
      BY <1>1, <1>2 DEF StartDownload
  <2>3. ShelfShape'
      BY <1>1, <2>1, <2>2 DEF ShelfShape, Releases
  <2>4. PageShape'
      BY <2>1 DEF PageShape
  <2>5. QED BY <2>1, <2>3, <2>4, FetchStays, ReportStays, ManifestStays
<1>3. CASE DownloadFails(l)
  <2>1. UNCHANGED << shelf, strays, zips, manifest, page, fetch, report, edits >>
      BY <1>3 DEF DownloadFails
  <2>2. loading' \in [Loaders -> Versions \cup {""}]
      BY <1>1, <1>3 DEF DownloadFails
  <2>3. ShelfShape'
      BY <1>1, <2>1, <2>2 DEF ShelfShape, Releases
  <2>4. PageShape'
      BY <2>1 DEF PageShape
  <2>5. QED BY <2>1, <2>3, <2>4, FetchStays, ReportStays, ManifestStays
<1>4. CASE DownloadDone(l)
  <2> DEFINE v == loading[l]
  <2>1. UNCHANGED << strays, zips, manifest, fetch, report, edits >> /\ v \in Versions
      BY <1>1, <1>4 DEF DownloadDone
  <2>2. loading' \in [Loaders -> Versions \cup {""}]
      BY <1>1, <1>4 DEF DownloadDone
  <2>3. PICK a \in Arrived(l, v) :
            shelf' = [u \in DOMAIN shelf \union {v} |-> IF u = v THEN a ELSE shelf[u]]
      BY <1>4 DEF DownloadDone
  <2>4. a \in {"whole", "bad"}
      BY <1>1 DEF Arrived
  <2>5. ShelfShape'
    <3>1. DOMAIN shelf' \subseteq Versions /\ \A u \in DOMAIN shelf' : shelf'[u] \in {"whole", "bad"}
        BY <1>1, <2>1, <2>3, <2>4
    <3>2. QED BY <1>1, <2>1, <2>2, <3>1 DEF ShelfShape, Releases
  <2>6. PageShape'
    <3>1. CASE page' = page
        BY <2>1, <3>1 DEF PageShape
    <3>2. CASE page' = [page EXCEPT !.data = WithVersion(@, v), !.active = v]
      <4> DEFINE d == WithVersion(page.data, v)
      <4>1. Backed(d, zips')
          BY <2>1, PageAsItIs, VersionIsBacked
      <4>2. page' = [page EXCEPT !.data = d, !.active = v]
          BY <3>2
      <4> HIDE DEF d
      <4>3. v \in Versions \cup {""}
          BY <2>1
      <4> HIDE DEF v
      <4>4. QED BY <2>1, <4>1, <4>2, <4>3, PageTurns
    <3>3. QED BY <1>4, <3>1, <3>2 DEF DownloadDone
  <2>7. QED BY <2>1, <2>5, <2>6, FetchStays, ReportStays, ManifestStays
<1>5. QED BY <1>2, <1>3, <1>4

LEMMA AuditIsBacked ==
    ASSUME VaultInv, VerifyIntegrity \/ MoveMisplaced
    PROVE  VaultInv'
<1> USE DEF VaultInv
<1>1. /\ UNCHANGED << zips, manifest, page, fetch, loading, edits >>
      /\ zips \subseteq Tools \X Releases /\ strays \subseteq Versions
      /\ DOMAIN shelf \subseteq Versions /\ \A v \in DOMAIN shelf : shelf[v] \in {"whole", "bad"}
    BY DEF VerifyIntegrity, MoveMisplaced, ShelfShape
<1>2. /\ Mismatched(page.data) = Audit(page.data).mismatched
      /\ \A f \in Mismatched(page.data) : <<f[2], f[3]>> \in zips
    BY <1>1, AuditFinds DEF Audit
<1>3. /\ Audit(page.data).orphans \subseteq zips
      /\ Audit(page.data).unregistered \subseteq Versions /\ Audit(page.data).misplaced \subseteq Versions
      /\ DOMAIN Audit(page.data) = {"known", "unregistered", "mismatched", "orphans", "misplaced", "seen"}
    BY <1>1 DEF Audit, Orphans, Unregistered
<1> DEFINE A == Audit(page.data)
<1>4. PageShape'
    BY <1>1 DEF PageShape
<1>5. CASE VerifyIntegrity
  <2>1. report' = A /\ UNCHANGED << shelf, strays >>
      BY <1>5 DEF VerifyIntegrity
  <2> HIDE DEF A
  <2>2. ReportShape'
      BY <1>1, <1>2, <1>3, <2>1 DEF ReportShape, A
  <2>3. QED BY <1>1, <1>4, <2>1, <2>2, ShelfStays, FetchStays, ManifestStays
<1>6. CASE MoveMisplaced
  <2>1. /\ strays' = strays \ report.misplaced
        /\ shelf' = Over([v \in report.misplaced \intersect strays |-> "whole"], shelf)
        /\ report' = [A EXCEPT !.misplaced = strays', !.unregistered = DOMAIN shelf' \ DOMAIN page.data]
      BY <1>6 DEF MoveMisplaced
  <2>2. DOMAIN shelf' \subseteq Versions /\ \A v \in DOMAIN shelf' : shelf'[v] \in {"whole", "bad"}
      BY <1>1, <2>1 DEF Over
  <2>3. ShelfShape'
      BY <1>1, <2>1, <2>2 DEF ShelfShape, Loaders, Releases
  <2>4. strays' \subseteq Versions /\ DOMAIN shelf' \ DOMAIN page.data \subseteq Versions
      BY <1>1, <2>1, <2>2
  <2>5. /\ A.orphans \subseteq zips /\ \A f \in A.mismatched : <<f[2], f[3]>> \in zips
        /\ DOMAIN A = {"known", "unregistered", "mismatched", "orphans", "misplaced", "seen"}
      BY <1>2, <1>3
  <2> HIDE DEF A
  <2>6. ReportShape'
      BY <1>1, <2>1, <2>4, <2>5 DEF ReportShape
  <2>7. QED BY <1>1, <1>4, <2>3, <2>6, FetchStays, ManifestStays
<1>7. QED BY <1>5, <1>6

LEMMA FetchIsBacked ==
    ASSUME VaultInv, PageReads, FetchTools \/ FetchLoads \/ FetchDone \/ FetchFails
    PROVE  VaultInv'
<1> USE DEF VaultInv
<1>1. UNCHANGED << shelf, strays, zips, manifest, loading, report >>
    BY DEF FetchTools, FetchLoads, FetchDone, FetchFails
<1>2. edits' \in 0 .. MaxEdits
  <2>1. CASE FetchTools
      BY <2>1, EditCounts DEF FetchTools
  <2>2. CASE FetchLoads \/ FetchDone \/ FetchFails
      BY <2>2 DEF FetchLoads, FetchDone, FetchFails, ShelfShape
  <2>3. QED BY <2>1, <2>2
<1>3. ShelfShape'
    BY <1>1, <1>2 DEF ShelfShape, Loaders, Releases
<1>4. /\ DOMAIN page = {"open", "data", "active", "fetching"}
      /\ page.open \in BOOLEAN /\ page.fetching \in BOOLEAN
      /\ page.active \in Versions \cup {""} /\ Backed(page.data, zips)
      /\ page.fetching <=> fetch.at # "idle"
    BY DEF PageShape
<1>5. /\ DOMAIN fetch = {"at", "for", "held", "got"}
      /\ fetch.at # "idle" => fetch.for \in Versions
      /\ Backed(fetch.held, zips) /\ fetch.got \subseteq Tools
      /\ \A t \in fetch.got : <<t, Latest>> \in zips
    BY DEF FetchShape
<1>6. DOMAIN NoFetch = {"at", "for", "held", "got"} /\ NoFetch.at = "idle"
      /\ NoFetch.held = << >> /\ NoFetch.got = {}
    BY DEF NoFetch
<1>7. CASE FetchTools
  <2>1. /\ page' = [page EXCEPT !.fetching = TRUE] /\ page.active # ""
        /\ fetch' = [NoFetch EXCEPT !.at = "started", !.for = page.active]
      BY <1>7 DEF FetchTools
  <2>2. PageShape'
      BY <1>1, <1>4, <1>6, <2>1 DEF PageShape
  <2>3. FetchShape'
      BY <1>1, <1>4, <1>6, <2>1, EmptyIsBacked DEF FetchShape
  <2>4. QED BY <1>1, <1>3, <2>2, <2>3, ReportStays, ManifestStays
<1>8. CASE FetchLoads
  <2>1. /\ UNCHANGED page /\ fetch.at = "started"
        /\ fetch' = [fetch EXCEPT !.at = "packing", !.held = Read(manifest)]
      BY <1>8 DEF FetchLoads
  <2>2. PageShape'
      BY <1>1, <1>4, <1>5, <2>1 DEF PageShape
  <2>3. FetchShape'
    <3>1. Backed(Read(manifest), zips)
        BY <2>1 DEF PageReads
    <3>2. QED BY <1>1, <1>5, <2>1, <3>1 DEF FetchShape, Latest
  <2>4. QED BY <1>1, <1>3, <2>2, <2>3, ReportStays, ManifestStays
<1>9. CASE FetchDone
  <2> DEFINE d == Fetched(page.data, page.active, fetch.got)
  <2>1. page' = [page EXCEPT !.fetching = FALSE, !.data = d] /\ fetch' = NoFetch
      BY <1>9 DEF FetchDone
  <2>2. Backed(d, zips)
      BY <1>4, <1>5, FetchedIsBacked
  <2> HIDE DEF d
  <2>3. PageShape'
      BY <1>1, <1>4, <1>6, <2>1, <2>2 DEF PageShape
  <2>4. FetchShape'
      BY <1>6, <2>1, EmptyIsBacked DEF FetchShape
  <2>5. QED BY <1>1, <1>3, <2>3, <2>4, ReportStays, ManifestStays
<1>10. CASE FetchFails
  <2>1. page' = [page EXCEPT !.fetching = FALSE] /\ fetch' = NoFetch
      BY <1>10 DEF FetchFails
  <2>2. PageShape'
      BY <1>1, <1>4, <1>6, <2>1 DEF PageShape
  <2>3. FetchShape'
      BY <1>6, <2>1, EmptyIsBacked DEF FetchShape
  <2>4. QED BY <1>1, <1>3, <2>2, <2>3, ReportStays, ManifestStays
<1>11. QED BY <1>7, <1>8, <1>9, <1>10

LEMMA ToolIsBacked ==
    ASSUME VaultInv, NEW t \in Tools, RegisterIfCompatible(t)
    PROVE  VaultInv'
<1> USE DEF VaultInv
<1> DEFINE d == WithEntry(WithVersion(fetch.held, fetch.for), fetch.for, t, Entry(Latest, FALSE))
<1>1. /\ UNCHANGED << shelf, strays, page, loading, report, edits >>
      /\ zips' = zips \cup {<<t, Latest>>} /\ fetch.at = "packing"
    BY DEF RegisterIfCompatible
<1>2. fetch' = [fetch EXCEPT !.got = fetch.got \cup {t}, !.held = d]
    BY DEF RegisterIfCompatible
<1>3. <<t, Latest>> \in Tools \X Releases
    BY DEF Latest, Releases
<1>4. zips \subseteq zips' /\ zips' \subseteq Tools \X Releases /\ <<t, Latest>> \in zips'
    BY <1>1, <1>3 DEF ShelfShape
<1>5. Entry(Latest, FALSE) \in Entries /\ Entry(Latest, FALSE).release = Latest
    BY DEF Entry, Entries, Latest, Releases
<1>6. /\ DOMAIN fetch = {"at", "for", "held", "got"} /\ fetch.for \in Versions
      /\ Backed(fetch.held, zips) /\ fetch.got \subseteq Tools
      /\ \A u \in fetch.got : <<u, Latest>> \in zips
    BY <1>1 DEF FetchShape
<1>7. Backed(d, zips')
  <2>1. Backed(fetch.held, zips')
      BY <1>4, <1>6, BackedGrows
  <2>2. /\ Backed(WithVersion(fetch.held, fetch.for), zips')
        /\ fetch.for \in DOMAIN WithVersion(fetch.held, fetch.for)
      BY <1>6, <2>1, VersionIsBacked
  <2>3. QED BY <1>4, <1>5, <2>2, EntryIsBacked
<1>8. manifest' = fetch'.held
    BY DEF RegisterIfCompatible
<1> HIDE DEF d
<1>9. /\ DOMAIN fetch' = {"at", "for", "held", "got"} /\ fetch'.at = "packing"
      /\ fetch'.for = fetch.for /\ fetch'.held = d /\ fetch'.got = fetch.got \cup {t}
    BY <1>1, <1>2, <1>6
<1>10. FetchShape'
    BY <1>4, <1>6, <1>7, <1>9 DEF FetchShape, Latest
<1>11. PageShape'
    BY <1>1, <1>4, <1>9, BackedGrows DEF PageShape
<1>12. ShelfShape'
    BY <1>1, <1>4 DEF ShelfShape, Loaders
<1>13. ManifestShape'
    BY <1>7, <1>8, <1>9 DEF ManifestShape
<1>14. QED BY <1>1, <1>4, <1>10, <1>11, <1>12, <1>13, ReportStays

LEMMA VaultSteps == VaultInv /\ PageReads /\ [VaultNext]_vaultVars => VaultInv'
<1> SUFFICES ASSUME VaultInv, PageReads, [VaultNext]_vaultVars PROVE VaultInv'
    OBVIOUS
<1>1. CASE UNCHANGED vaultVars
  <2>1. UNCHANGED <<shelf, strays, zips, manifest, page, fetch, loading, report, edits>>
      BY <1>1 DEF vaultVars
  <2>2. PageShape'
      BY <2>1 DEF VaultInv, PageShape
  <2>3. QED BY <2>1, <2>2, ShelfStays, FetchStays, ReportStays, ManifestStays DEF VaultInv
<1>2. CASE OpenPage
    BY <1>2, OpenIsBacked
<1>3. CASE HubEnds
    BY <1>3, HubEndIsBacked
<1>4. CASE SavePage
    BY <1>4, SaveIsBacked
<1>5. CASE SelectVersion \/ InjectZip \/ DeleteVersion \/ ApplyFixes \/ RegisterOrphans
    BY <1>5, EditsAreBacked
<1>6. ASSUME NEW l \in Loaders, StartDownload(l) \/ DownloadDone(l) \/ DownloadFails(l)
      PROVE  VaultInv'
    BY <1>6, DownloadIsBacked
<1>7. CASE FetchTools \/ FetchLoads \/ FetchDone \/ FetchFails
    BY <1>7, FetchIsBacked
<1>8. ASSUME NEW t \in Tools, RegisterIfCompatible(t) PROVE VaultInv'
    BY <1>8, ToolIsBacked
<1>9. CASE VerifyIntegrity \/ MoveMisplaced
    BY <1>9, AuditIsBacked
<1>10. QED BY <1>1, <1>2, <1>3, <1>4, <1>5, <1>6, <1>7, <1>8, <1>9 DEF VaultNext

LEMMA PageStaysRead ==
    ASSUME VaultInv, VaultInv', PageReads, [VaultNext]_vaultVars
    PROVE  PageReads'
<1>1. DOMAIN page = {"open", "data", "active", "fetching"} /\ Backed(page.data, zips)
    BY DEF VaultInv, PageShape
<1>2. ASSUME manifest' = manifest, zips \subseteq zips',
             page'.open \/ fetch'.at # "idle" => page.open \/ fetch.at # "idle"
      PROVE  PageReads'
    BY <1>2, BackedGrows DEF PageReads
<1>3. CASE OpenPage
    BY <1>3, OpenReads DEF VaultInv, OpenPage, PageReads
<1>4. CASE HubEnds
    BY <1>4 DEF HubEnds, PageReads, Closed, NoFetch
<1>5. CASE SavePage
  <2>1. (manifest' = page.data \/ manifest' = TornManifest) /\ zips' = zips
      BY <1>5 DEF SavePage
  <2>2. QED BY <1>1, <2>1, EmptyIsBacked DEF Read, PageReads
<1>6. ASSUME NEW t \in Tools, RegisterIfCompatible(t) PROVE PageReads'
  <2>1. manifest' = fetch'.held /\ Backed(fetch'.held, zips')
      BY <1>6 DEF RegisterIfCompatible, VaultInv, FetchShape
  <2>2. QED BY <2>1, EmptyIsBacked DEF Read, PageReads
<1>7. ASSUME NEW l \in Loaders, StartDownload(l) \/ DownloadDone(l) \/ DownloadFails(l)
      PROVE  PageReads'
  <2>1. UNCHANGED << manifest, zips, fetch >>
      BY <1>7 DEF StartDownload, DownloadDone, DownloadFails
  <2>2. page'.open = page.open
      BY <1>1, <1>7 DEF StartDownload, DownloadDone, DownloadFails
  <2>3. QED BY <1>2, <2>1, <2>2
<1>8. CASE FetchTools \/ FetchLoads \/ FetchDone \/ FetchFails
  <2>1. UNCHANGED << manifest, zips >>
      BY <1>8 DEF FetchTools, FetchLoads, FetchDone, FetchFails
  <2>2. page'.open = page.open
      BY <1>1, <1>8 DEF FetchTools, FetchLoads, FetchDone, FetchFails
  <2>3. fetch'.at # "idle" => page.open \/ fetch.at # "idle"
      BY <1>8 DEF FetchTools, FetchLoads, FetchDone, FetchFails, NoFetch
  <2>4. QED BY <1>2, <2>1, <2>2, <2>3
<1>9. CASE SelectVersion \/ InjectZip \/ DeleteVersion \/ ApplyFixes \/ RegisterOrphans
  <2>1. UNCHANGED << manifest, fetch >> /\ zips \subseteq zips'
      BY <1>9 DEF SelectVersion, InjectZip, DeleteVersion, ApplyFixes, RegisterOrphans
  <2>2. page'.open = page.open
      BY <1>1, <1>9 DEF SelectVersion, InjectZip, DeleteVersion, ApplyFixes, RegisterOrphans
  <2>3. QED BY <1>2, <2>1, <2>2
<1>10. CASE VerifyIntegrity \/ MoveMisplaced
    BY <1>2, <1>10 DEF VerifyIntegrity, MoveMisplaced
<1>11. CASE UNCHANGED vaultVars
    BY <1>2, <1>11 DEF vaultVars
<1>12. QED BY <1>3, <1>4, <1>5, <1>6, <1>7, <1>8, <1>9, <1>10, <1>11 DEF VaultNext

LEMMA VaultInvariant == VaultSpec => [](VaultInv /\ PageReads)
<1>1. VaultInit => VaultInv /\ PageReads
  <2>1. ASSUME VaultInit PROVE PageReads
    <3>1. page.open = FALSE /\ fetch.at = "idle"
        BY <2>1 DEF VaultInit, Closed, NoFetch
    <3>2. QED BY <3>1 DEF PageReads
  <2>2. QED BY <2>1, VaultStarts
<1>2. VaultInv /\ PageReads /\ [VaultNext]_vaultVars => VaultInv' /\ PageReads'
    BY VaultSteps, PageStaysRead
<1>3. QED BY <1>1, <1>2, PTL DEF VaultSpec

(***************************************************************************)
(* Archives under their final names are whole.                             *)
(***************************************************************************)

\* No two downloads are of one archive, and what has its name is whole.
WholeInv ==
    /\ \A v \in DOMAIN shelf : shelf[v] = "whole"
    /\ \A k, l \in Loaders : k # l /\ loading[k] = loading[l] => loading[k] = ""

LEMMA ShelfStaysWhole ==
    ASSUME VaultFaults \cap {"shortRead", "sameFile"} = {}, VaultInv, WholeInv,
           [VaultNext]_vaultVars
    PROVE  WholeInv'
<1>1. loading \in [Loaders -> Versions \cup {""}]
    BY DEF VaultInv, ShelfShape
<1>2. CASE UNCHANGED << shelf, loading >>
    BY <1>2 DEF WholeInv
<1>3. CASE HubEnds
  <2>1. shelf' = shelf /\ \A l \in Loaders : loading'[l] = ""
      BY <1>3 DEF HubEnds
  <2>2. QED BY <2>1 DEF WholeInv
<1>4. ASSUME NEW l \in Loaders, StartDownload(l) PROVE WholeInv'
  <2>1. PICK v \in Versions : /\ \A k \in Loaders : loading[k] # v
                              /\ loading' = [loading EXCEPT ![l] = v] /\ shelf' = shelf
      BY <1>4 DEF StartDownload
  <2>2. \A k \in Loaders : loading'[k] = IF k = l THEN v ELSE loading[k]
      BY <1>1, <2>1
  <2>3. \A u \in DOMAIN shelf' : shelf'[u] = "whole"
      BY <2>1 DEF WholeInv
  <2>4. ASSUME NEW j \in Loaders, NEW k \in Loaders, k # j, loading'[k] = loading'[j]
        PROVE  loading'[k] = ""
    <3>1. k # l /\ j # l
        BY <2>1, <2>2, <2>4
    <3>2. loading'[k] = loading[k] /\ loading'[j] = loading[j]
        BY <2>2, <3>1
    <3>3. QED BY <2>4, <3>2 DEF WholeInv
  <2>5. QED BY <2>3, <2>4 DEF WholeInv
<1>5. ASSUME NEW l \in Loaders, DownloadFails(l) PROVE WholeInv'
  <2>1. \A k \in Loaders : loading'[k] = IF k = l THEN "" ELSE loading[k]
      BY <1>1, <1>5 DEF DownloadFails
  <2>2. shelf' = shelf
      BY <1>5 DEF DownloadFails
  <2>3. QED BY <2>1, <2>2 DEF WholeInv
<1>6. ASSUME NEW l \in Loaders, DownloadDone(l) PROVE WholeInv'
  <2>1. \A k \in Loaders : loading'[k] = IF k = l THEN "" ELSE loading[k]
      BY <1>1, <1>6 DEF DownloadDone
  <2> DEFINE v == loading[l]
  <2>2. v # ""
      BY <1>6 DEF DownloadDone
  <2>3. PICK a \in Arrived(l, v) :
            shelf' = [u \in DOMAIN shelf \union {v} |-> IF u = v THEN a ELSE shelf[u]]
      BY <1>6 DEF DownloadDone
  <2>4. ~ \E k \in Loaders \ {l} : loading[k] = v
      BY <2>2 DEF WholeInv
  <2>5. a = "whole"
      BY <2>4 DEF Arrived, WholeInv
  <2> HIDE DEF v
  <2>6. \A u \in DOMAIN shelf' : shelf'[u] = "whole"
      BY <2>3, <2>5 DEF WholeInv
  <2>7. QED BY <2>1, <2>6 DEF WholeInv
<1>7. CASE MoveMisplaced
  <2>1. /\ shelf' = Over([v \in report.misplaced \intersect strays |-> "whole"], shelf)
        /\ loading' = loading
      BY <1>7 DEF MoveMisplaced
  <2>2. \A u \in DOMAIN shelf' : shelf'[u] = "whole"
      BY <2>1 DEF Over, WholeInv
  <2>3. QED BY <2>1, <2>2 DEF WholeInv
<1>8. CASE OpenPage \/ SavePage \/ SelectVersion \/ FetchTools \/ FetchLoads \/ FetchDone
             \/ FetchFails \/ InjectZip \/ DeleteVersion \/ VerifyIntegrity \/ ApplyFixes
             \/ RegisterOrphans
    BY <1>2, <1>8 DEF OpenPage, SavePage, SelectVersion, FetchTools, FetchLoads, FetchDone,
             FetchFails, InjectZip, DeleteVersion, VerifyIntegrity, ApplyFixes, RegisterOrphans
<1>9. ASSUME NEW t \in Tools, RegisterIfCompatible(t) PROVE WholeInv'
    BY <1>2, <1>9 DEF RegisterIfCompatible
<1>10. CASE UNCHANGED vaultVars
    BY <1>2, <1>10 DEF vaultVars
<1>11. QED BY <1>3, <1>4, <1>5, <1>6, <1>7, <1>8, <1>9, <1>10 DEF VaultNext

LEMMA WholeStarts == VaultInit => WholeInv
<1> SUFFICES ASSUME VaultInit PROVE WholeInv
    OBVIOUS
<1>1. shelf = << >> /\ loading = [l \in Loaders |-> ""]
    BY DEF VaultInit
<1>2. DOMAIN << >> = {}
    OBVIOUS
<1>3. QED BY <1>1, <1>2 DEF WholeInv

LEMMA ListingIsBacked ==
    ASSUME VaultInv, WholeInv
    PROVE  ListedIsThere
<1> SUFFICES ASSUME NEW x \in ({manifest} \ {NoManifest, TornManifest}) \union {page.data, fetch.held},
                    NEW r \in Rows(x)
             PROVE  <<r[2], x[r[1]][r[2]].release>> \in zips
    BY DEF ListedIsThere, WholeInv
<1>1. Backed(x, zips)
    BY DEF VaultInv, ManifestShape, PageShape, FetchShape
<1>2. PICK v \in DOMAIN x : r \in {<<v, t>> : t \in DOMAIN x[v]}
    BY DEF Rows
<1>3. PICK t \in DOMAIN x[v] : r = <<v, t>>
    BY <1>2
<1>4. QED BY <1>1, <1>3 DEF Backed

\* What the manifest, the page's copy or the copy of a running fetch lists has
\* its archive in the vault, and an archive under its final name is whole, if
\* no answer ends early unnoticed and no two downloads share a temporary file.
THEOREM ListingsAreTrue ==
    ASSUME VaultFaults \cap {"shortRead", "sameFile"} = {}
    PROVE  VaultSpec => []ListedIsThere
<1>1. VaultInit => WholeInv
    BY WholeStarts
<1>2. VaultInv /\ WholeInv /\ [VaultNext]_vaultVars => WholeInv'
    BY ShelfStaysWhole
<1>3. VaultInv /\ WholeInv => ListedIsThere
    BY ListingIsBacked
<1>4. QED BY <1>1, <1>2, <1>3, VaultInvariant, PTL DEF VaultSpec

\* The vault, the page and its threads keep their shape, whatever downloads
\* and saves are broken off.
THEOREM VaultIsTyped == VaultSpec => []VaultTypeOK
<1>1. VaultInv => VaultTypeOK
    BY DEF VaultInv, ShelfShape, PageShape, FetchShape, ManifestShape, Backed, VaultTypeOK
<1>2. QED BY <1>1, VaultInvariant, PTL

(***************************************************************************)
(* The fixes of an audit.                                                  *)
(***************************************************************************)

LEMMA WantedIs ==
    ASSUME NEW d, NEW v \in DOMAIN d, NEW t \in DOMAIN d[v]
    PROVE  Wanted(Mismatched(d), v, t) = Matched(t, d[v][t]) \ {d[v][t].release}
<1> DEFINE found(r) == {<<r[1], r[2], x>> : x \in Matched(r[2], d[r[1]][r[2]]) \ {d[r[1]][r[2]].release}}
           M == Matched(t, d[v][t]) \ {d[v][t].release}
<1>1. \A f : f \in Mismatched(d) <=> \E r \in Rows(d) : f \in found(r)
    BY DEF Mismatched
<1>2. \A r : r \in Rows(d) => \E u \in DOMAIN d : \E s \in DOMAIN d[u] : r = <<u, s>>
    BY DEF Rows
<1>3. <<v, t>> \in Rows(d)
    BY DEF Rows
<1>4. ASSUME NEW x \in M PROVE x \in Wanted(Mismatched(d), v, t)
  <2>1. <<v, t>>[1] = v /\ <<v, t>>[2] = t
      OBVIOUS
  <2>2. <<v, t, x>> \in found(<<v, t>>)
      BY <2>1
  <2>3. <<v, t, x>> \in Mismatched(d)
      BY <1>1, <1>3, <2>2
  <2>4. <<v, t, x>>[1] = v /\ <<v, t, x>>[2] = t /\ <<v, t, x>>[3] = x
      OBVIOUS
  <2>5. QED BY <2>3, <2>4 DEF Wanted
<1>5. ASSUME NEW x \in Wanted(Mismatched(d), v, t) PROVE x \in M
  <2>1. PICK f \in Mismatched(d) : f[1] = v /\ f[2] = t /\ f[3] = x
      BY DEF Wanted
  <2>2. PICK r \in Rows(d) : f \in found(r)
      BY <1>1
  <2>3. PICK y \in Matched(r[2], d[r[1]][r[2]]) \ {d[r[1]][r[2]].release} : f = <<r[1], r[2], y>>
      BY <2>2
  <2>4. r[1] = v /\ r[2] = t /\ y = x
      BY <2>1, <2>3
  <2>5. QED BY <2>3, <2>4
<1>6. QED BY <1>4, <1>5

\* The fixes of an audit of the copy d leave nothing to fix.
LEMMA NothingLeftToFix ==
    ASSUME zips \subseteq Tools \X Releases, NEW d, Backed(d, zips), NEW U \in SUBSET Versions
    PROVE  LET w == Releasing(Registered(d, U), Mismatched(d))
           IN  Mismatched(w) = {} /\ U \subseteq DOMAIN w
<1> DEFINE e == Registered(d, U)
           F == Mismatched(d)
           w == Releasing(e, F)
<1>1. DOMAIN e = DOMAIN d \cup U /\ \A v \in DOMAIN e : e[v] = IF v \in DOMAIN d THEN d[v] ELSE << >>
    BY RegisteredIsBacked
<1>2. /\ DOMAIN w = DOMAIN e
      /\ \A v \in DOMAIN e : DOMAIN w[v] = DOMAIN e[v]
    BY ReleasingAt
<1>3. \A v \in DOMAIN e : \A t \in DOMAIN e[v] :
          w[v][t] = IF Wanted(F, v, t) = {} THEN e[v][t]
                    ELSE [e[v][t] EXCEPT !.release = CHOOSE r \in Wanted(F, v, t) : TRUE]
    BY ReleasingAt
<1>4. DOMAIN << >> = {}
    OBVIOUS
<1> HIDE DEF e, w
<1>5. ASSUME NEW v \in DOMAIN w, NEW t \in DOMAIN w[v]
      PROVE  Matched(t, w[v][t]) \ {w[v][t].release} = {}
  <2>1. v \in DOMAIN d /\ t \in DOMAIN d[v] /\ e[v] = d[v]
      BY <1>1, <1>2, <1>4
  <2>2. d[v][t] \in Entries
      BY <2>1 DEF Backed, IsManifest, Entries
  <2>3. Wanted(F, v, t) = Matched(t, d[v][t]) \ {d[v][t].release}
      BY <2>1, WantedIs
  <2> HIDE DEF F
  <2>4. CASE Wanted(F, v, t) = {}
      BY <1>2, <1>3, <2>1, <2>3, <2>4
  <2>5. CASE Wanted(F, v, t) # {}
    <3> DEFINE r == CHOOSE x \in Wanted(F, v, t) : TRUE
               k == [d[v][t] EXCEPT !.release = r]
    <3>1. r \in Wanted(F, v, t)
        BY <2>5
    <3>2. w[v][t] = k
        BY <1>2, <1>3, <2>1, <2>5
    <3> HIDE DEF r
    <3>3. r \in Matched(t, d[v][t])
        BY <2>3, <3>1
    <3>4. Matched(t, k) = {r} /\ k.release = r
        BY <2>2, <3>3, MatchedOnce
    <3>5. QED BY <3>2, <3>4
  <2>6. QED BY <2>4, <2>5
<1>6. \A r \in Rows(w) : r[1] \in DOMAIN w /\ r[2] \in DOMAIN w[r[1]]
    BY DEF Rows
<1>7. Mismatched(w) = {}
    BY <1>5, <1>6 DEF Mismatched
<1>8. QED BY <1>1, <1>2, <1>7 DEF e, w

\* Applying the fixes of an audit that nothing has overtaken leaves nothing to
\* fix, whatever is pinned, missing or listed for several versions.
THEOREM FixesAreComplete == VaultSpec => FixesHold
<1>1. ASSUME VaultInv
      PROVE  (report.known /\ report.seen = <<Rows(page.data), zips>>
                /\ report.mismatched = Mismatched(page.data) /\ page'.data # page.data
                /\ page'.data = Releasing(Registered(page.data, report.unregistered), report.mismatched))
              => Mismatched(page'.data) = {} /\ report.unregistered \subseteq DOMAIN page'.data
  <2>1. zips \subseteq Tools \X Releases /\ Backed(page.data, zips) /\ report.unregistered \in SUBSET Versions
      BY <1>1 DEF VaultInv, ShelfShape, PageShape, ReportShape
  <2>2. QED BY <2>1, NothingLeftToFix
<1>2. QED BY <1>1, VaultInvariant, PTL DEF FixesHold

(***************************************************************************)
(* The stores side by side.                                                *)
(***************************************************************************)

\* A behaviour of the composition is one of the migration, of the vault, of
\* the room and of the working copy.
LEMMA EachStoreRuns ==
    Spec => /\ MigrationSpec /\ VaultSpec
            /\ RoomInit /\ [][RoomNext]_roomVars
            /\ FilesInit /\ [][FilesNext]_workVars
<1>1. Init => MigrationInit /\ VaultInit /\ RoomInit /\ FilesInit
    BY DEF Init
<1>2. [Next]_stores => /\ [MigrationNext]_migrationVars /\ [VaultNext]_vaultVars
                       /\ [RoomNext]_roomVars /\ [FilesNext]_workVars
    BY DEF Next, stores
<1>3. QED BY <1>1, <1>2, PTL DEF Spec, MigrationSpec, VaultSpec

\* What a studio refrains from: it migrates one way, between servers that are
\* not one machine's, exports revisions to files outside the working copy, and
\* has whole answers and one download of an archive at a time.
Studio ==
    /\ OneWay
    /\ "exportOver" \notin Carelessness
    /\ VaultFaults \cap {"shortRead", "sameFile"} = {}

\* Side by side, too, every listing has its archives, no work leaves the
\* working copy unkept, no tree is made before its guards, the history of the
\* project and its commits outlive the migrations, and the working copy points
\* at a server that has them.
THEOREM StoresAreSound ==
    ASSUME Studio
    PROVE  Spec => [](/\ ListedIsThere /\ WorkKept /\ TreeIsGuarded
                      /\ HistoryPreserved /\ CommitsSurvive /\ WorkingCopyServed)
<1>1. VaultSpec => []ListedIsThere
    BY ListingsAreTrue DEF Studio
<1>2. MigrationSpec => []HistoryPreserved /\ []CommitsSurvive /\ []WorkingCopyServed
  <2>1. OneWay
      BY DEF Studio
  <2>2. QED BY <2>1, HistoryIsPreserved, NoCommitIsDestroyed, WorkingCopyStaysServed, PTL
<1>3. FilesInit /\ [][FilesNext]_workVars => []WorkKept
    BY WorkIsKept DEF Studio
<1>4. RoomInit /\ [][RoomNext]_roomVars => []TreeIsGuarded
  <2>1. RoomInv => TreeIsGuarded
      BY DEF RoomInv
  <2>2. QED BY <2>1, RoomInvariant, PTL
<1>5. QED BY <1>1, <1>2, <1>3, <1>4, EachStoreRuns, PTL

\* Whatever the servers and the faults of the other stores: through failures
\* and cancellations of a one-way migration the working copy points at a
\* server that has the project, and a cancelled migration moves nothing.
THEOREM ProjectIsServed ==
    ASSUME OneWay
    PROVE  Spec => []ProjectStaysServed
<1>1. MigrationSpec => []WorkingCopyServed
    BY WorkingCopyStaysServed
<1>2. WorkingCopyServed /\ CancelledNeverMoves => ProjectStaysServed
    BY DEF ProjectStaysServed
<1>3. QED BY <1>1, <1>2, CancellationHolds, EachStoreRuns, PTL

\* A publication changes nothing on the server but what was ticked, and an
\* administrator's step takes no lock and no row but those confirmed, in every
\* studio.
THEOREM NothingUnaskedGoes == Spec => OnlyWhatWasAsked
<1>1. OnlyTheChosen /\ OnlyWhatWasConfirmed => OnlyWhatWasAsked
    BY DEF OnlyWhatWasAsked
<1>2. QED BY <1>1, PublicationsAreAsked, ConfirmedGoes, EachStoreRuns, PTL

\* Whatever the servers, the files and the faults: each store keeps its types,
\* and in the working copy no dialog stands twice in the stack of windows.
THEOREM StoresAreTyped == Spec => []StoresTypeOK
<1> DEFINE Stores == {"vault", "working", "room", "migration"}
<1>1. Spec => [](part \in Stores)
  <2>1. Init => part \in Stores
      BY DEF Init
  <2>2. part \in Stores /\ [Next]_stores => (part \in Stores)'
      BY DEF Next, stores
  <2>3. QED BY <2>1, <2>2, PTL DEF Spec
<1>2. VaultTypeOK /\ FilesTypeOK /\ RoomTypeOK /\ MigrationTypeOK /\ part \in Stores => StoresTypeOK
    BY DEF StoresTypeOK
<1>3. RoomInit /\ [][RoomNext]_roomVars => []RoomTypeOK
    BY RoomTypes, RoomInvariant, PTL
<1>4. QED BY <1>1, <1>2, <1>3, VaultIsTyped, MigrationIsTyped, FilesAreTyped, EachStoreRuns, PTL
=============================================================================
