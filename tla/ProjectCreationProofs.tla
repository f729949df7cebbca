----------------------- MODULE ProjectCreationProofs -----------------------
(***************************************************************************)
(* What holds of the project creation saga for every number of Hubs, every *)
(* set of ids and every set of faults.                                     *)
(***************************************************************************)
EXTENDS ProjectCreation, TLAPS

LEMMA NewIdIsFree ==
    ASSUME NEW used, NEW id \in NewId(used)
    PROVE  id \in Ids /\ id \notin used
BY DEF NewId

(***************************************************************************)
(* Type correctness.                                                       *)
(***************************************************************************)

KitsuType == kitsu \in [id : Ids \cup {None}, by : Makers]

RepoType == repo \in [id : Ids \cup {None}, by : Makers, ready : BOOLEAN,
                      base : Makers \cup {None}]

Folder == [by : Makers \cup {None}, tree : BOOLEAN, manifest : Ids \cup {None},
           wc : Ids \cup {None}, conflict : BOOLEAN]

Context == [vcs : BOOLEAN, kid : Ids \cup {None}, done : SUBSET Steps, ok : BOOLEAN]

Places == Idle \cup Running \cup RollingBack \cup {"failed", "created"}

Typed ==
    /\ KitsuType /\ RepoType
    /\ folder \in [Roots -> Folder]
    /\ ctx \in [Hubs -> Context]
    /\ at \in [Hubs -> Places]
    /\ razed \in SUBSET Hubs

LEMMA TypedIsType == (Typed <=> TypeOK) /\ (Typed' <=> TypeOK')
BY DEF TypeOK, Typed, KitsuType, RepoType, Folder, Context, Places

LEMMA RootType == \A h \in Hubs : Root[h] \in Roots
BY CreationAssumption

LEMMA NothingTyped ==
    /\ NoProject \in [id : Ids \cup {None}, by : Makers]
    /\ NoRepo \in [id : Ids \cup {None}, by : Makers, ready : BOOLEAN,
                   base : Makers \cup {None}]
    /\ NoFolder \in Folder
    /\ Fresh \in Context
BY DEF NoProject, NoRepo, NoFolder, Folder, Fresh, Context, Makers

LEMMA WrittenTyped ==
    ASSUME folder \in [Roots -> Folder], NEW h \in Hubs
    PROVE  Written(h) \in Folder
BY RootType, NothingTyped DEF Written, Here, Folder, Makers

(* The ways a step ends. *)
LEMMA PassTyped ==
    ASSUME ctx \in [Hubs -> Context], at \in [Hubs -> Places],
           NEW h \in Hubs, NEW s \in Steps, Pass(h, s)
    PROVE  ctx' \in [Hubs -> Context] /\ at' \in [Hubs -> Places]
BY DEF Pass, Context, Places, Running, Steps

LEMMA FailTyped ==
    ASSUME ctx \in [Hubs -> Context], at \in [Hubs -> Places],
           NEW h \in Hubs, Fail(h)
    PROVE  ctx' \in [Hubs -> Context] /\ at' \in [Hubs -> Places]
BY DEF Fail, Places

LEMMA ReadyTyped ==
    ASSUME ctx \in [Hubs -> Context], at \in [Hubs -> Places],
           NEW h \in Hubs, NEW id \in Ids, KitsuReady(h, id)
    PROVE  ctx' \in [Hubs -> Context] /\ at' \in [Hubs -> Places]
<1>1. ctx[h] \in Context /\ ctx[h].done \cup {"kitsu"} \in SUBSET Steps
    BY DEF Context, Steps
<1>2. [ctx[h] EXCEPT !.kid = id, !.done = ctx[h].done \cup {"kitsu"}] \in Context
    BY <1>1 DEF Context
<1>3. ctx' = [ctx EXCEPT ![h] =
                [ctx[h] EXCEPT !.kid = id, !.done = ctx[h].done \cup {"kitsu"}]]
    BY <1>1 DEF KitsuReady, Context
<1>4. QED BY <1>2, <1>3 DEF KitsuReady

LEMMA OverTyped ==
    ASSUME ctx \in [Hubs -> Context], at \in [Hubs -> Places],
           NEW h \in Hubs, NEW d \in Idle, Over(h, d)
    PROVE  ctx' \in [Hubs -> Context] /\ at' \in [Hubs -> Places]
BY NothingTyped DEF Over, Places

LEMMA ReportsTyped ==
    ASSUME ctx \in [Hubs -> Context], at \in [Hubs -> Places],
           NEW h \in Hubs, NEW next \in RollingBack, NEW ok \in BOOLEAN,
           Reports(h, next, ok)
    PROVE  ctx' \in [Hubs -> Context] /\ at' \in [Hubs -> Places]
BY DEF Reports, Places, Context

LEMMA DialogTyped ==
    ASSUME Typed, NEW h \in Hubs, Dialog(h) \/ Crash(h)
    PROVE  Typed'
<1> USE DEF Typed
<1>1. CASE CreateProject(h)
  <2>1. KitsuType' /\ RepoType'
      BY <1>1 DEF CreateProject, Disowned, KitsuType, RepoType, Makers
  <2>2. ASSUME NEW r \in Roots PROVE Disowned(folder[r], h) \in Folder
      BY DEF Disowned, Folder, Makers
  <2>3. folder' \in [Roots -> Folder]
      BY <1>1, <2>2 DEF CreateProject
  <2>4. \A v \in BOOLEAN : [Fresh EXCEPT !.vcs = v] \in Context
      BY NothingTyped DEF Context
  <2>5. ctx' \in [Hubs -> Context] /\ at' \in [Hubs -> Places]
      BY <1>1, <2>4 DEF CreateProject, Places, Running
  <2>6. QED BY <1>1, <2>1, <2>3, <2>5 DEF CreateProject
<1>2. CASE CreationRefused(h)
    BY <1>2 DEF CreationRefused, vars, KitsuType, RepoType
<1>3. CASE Retry(h)
    BY <1>3 DEF Retry, world, KitsuType, RepoType, Places, Running
<1>4. CASE Back(h)
    BY <1>4, OverTyped DEF Back, world, KitsuType, RepoType, Idle
<1>5. CASE Rollback(h)
  <2>1. [ctx[h] EXCEPT !.ok = TRUE] \in Context
      BY DEF Context
  <2>2. QED
      BY <1>5, <2>1 DEF Rollback, world, KitsuType, RepoType, Places, RollingBack
<1>6. CASE Crash(h)
    BY <1>6, OverTyped DEF Crash, world, KitsuType, RepoType, Idle
<1>7. QED BY <1>1, <1>2, <1>3, <1>4, <1>5, <1>6 DEF Dialog

LEMMA SagaTyped ==
    ASSUME Typed, NEW h \in Hubs, Saga(h)
    PROVE  Typed'
<1> USE DEF Typed
<1>0. /\ Steps = {"preflight_kitsu", "preflight_vcs", "kitsu", "scaffold",
                  "manifests", "splash", "vfs_patch", "vcs"}
      /\ Root[h] \in Roots /\ Written(h) \in Folder
      /\ None \in Ids \cup {None} /\ h \in Makers
    BY RootType, WrittenTyped DEF Steps, Makers
<1>1. CASE PreflightKitsu(h)
    BY <1>0, <1>1, PassTyped, FailTyped
    DEF PreflightKitsu, world, KitsuType, RepoType
<1>2. CASE PreflightVcs(h)
    BY <1>0, <1>2, PassTyped, FailTyped
    DEF PreflightVcs, world, KitsuType, RepoType
<1>3. CASE StepKitsu(h)
  <2>1. KitsuType'
      BY <1>0, <1>3, NewIdIsFree DEF StepKitsu, KitsuType
  <2>2. ctx' \in [Hubs -> Context] /\ at' \in [Hubs -> Places]
    <3>1. kitsu.id # None => kitsu.id \in Ids
        BY DEF KitsuType
    <3>2. QED BY <1>3, <3>1, NewIdIsFree, ReadyTyped, FailTyped DEF StepKitsu
  <2>3. QED BY <1>3, <2>1, <2>2 DEF StepKitsu, RepoType
<1>4. CASE StepScaffold(h)
  <2>1. [Written(h) EXCEPT !.tree = TRUE] \in Folder
      BY <1>0 DEF Folder
  <2>2. folder' \in [Roots -> Folder]
      BY <1>0, <1>4, <2>1 DEF StepScaffold
  <2>3. ctx' \in [Hubs -> Context] /\ at' \in [Hubs -> Places]
      BY <1>0, <1>4, PassTyped, FailTyped DEF StepScaffold
  <2>4. QED BY <1>4, <2>2, <2>3 DEF StepScaffold, KitsuType, RepoType
<1>5. CASE StepManifests(h)
  <2>1. /\ [Written(h) EXCEPT !.manifest = ctx[h].kid] \in Folder
        /\ [Written(h) EXCEPT !.manifest = None] \in Folder
      BY <1>0 DEF Folder, Context
  <2>2. folder' \in [Roots -> Folder]
      BY <1>0, <1>5, <2>1 DEF StepManifests
  <2>3. ctx' \in [Hubs -> Context] /\ at' \in [Hubs -> Places]
      BY <1>0, <1>5, PassTyped, FailTyped DEF StepManifests
  <2>4. QED BY <1>5, <2>2, <2>3 DEF StepManifests, KitsuType, RepoType
<1>6. CASE StepSplash(h)
    BY <1>0, <1>6, PassTyped, FailTyped DEF StepSplash, world, KitsuType, RepoType
<1>7. CASE StepVfsPatch(h)
  <2>1. folder' \in [Roots -> Folder]
      BY <1>0, <1>7 DEF StepVfsPatch
  <2>2. ctx' \in [Hubs -> Context] /\ at' \in [Hubs -> Places]
      BY <1>0, <1>7, PassTyped, FailTyped DEF StepVfsPatch
  <2>3. QED BY <1>7, <2>1, <2>2 DEF StepVfsPatch, KitsuType, RepoType
<1>8. CASE SkipVcs(h)
    BY <1>0, <1>8, PassTyped DEF SkipVcs, world, KitsuType, RepoType
<1>9. CASE CreateRepository(h)
  <2>1. RepoType'
    <3>1. \A id \in Ids, b \in BOOLEAN :
            [id |-> id, by |-> h, ready |-> b, base |-> None]
                \in [id : Ids \cup {None}, by : Makers, ready : BOOLEAN,
                     base : Makers \cup {None}]
        BY <1>0
    <3>2. \A id \in NewId(RepoIds) : id \in Ids
        BY NewIdIsFree
    <3>3. QED BY <1>9, <3>1, <3>2 DEF CreateRepository, RepoType
  <2>2. ctx' \in [Hubs -> Context] /\ at' \in [Hubs -> Places]
      BY <1>9, FailTyped DEF CreateRepository, Places, Running
  <2>3. QED BY <1>9, <2>1, <2>2 DEF CreateRepository, KitsuType
<1>10. CASE Pull(h)
  <2>1. (Here(h).conflict \/ repo.base # None) \in BOOLEAN /\ repo.id \in Ids \cup {None}
      BY <1>0 DEF Here, Folder, RepoType
  <2>2. \A c \in BOOLEAN : [Written(h) EXCEPT !.wc = repo.id, !.conflict = c] \in Folder
      BY <1>0, <2>1 DEF Folder
  <2>3. folder' \in [Roots -> Folder]
      BY <1>0, <1>10, <2>1, <2>2 DEF Pull
  <2>4. ctx' \in [Hubs -> Context] /\ at' \in [Hubs -> Places]
      BY <1>10, FailTyped DEF Pull, Places, Running
  <2>5. QED BY <1>10, <2>3, <2>4 DEF Pull, KitsuType, RepoType
<1>11. CASE Commit(h)
  <2>1. RepoType'
    <3>1. [repo EXCEPT !.base = h] \in [id : Ids \cup {None}, by : Makers,
                            ready : BOOLEAN, base : Makers \cup {None}]
        BY <1>0 DEF RepoType
    <3>2. QED BY <1>11, <3>1 DEF Commit, RepoType
  <2>2. ctx' \in [Hubs -> Context] /\ at' \in [Hubs -> Places]
      BY <1>0, <1>11, PassTyped, FailTyped DEF Commit
  <2>3. QED BY <1>11, <2>1, <2>2 DEF Commit, KitsuType
<1>12. CASE Succeed(h)
    BY <1>12 DEF Succeed, world, KitsuType, RepoType, Places
<1>13. QED
    BY <1>1, <1>2, <1>3, <1>4, <1>5, <1>6, <1>7, <1>8, <1>9, <1>10, <1>11, <1>12
    DEF Saga

LEMMA DeletionTyped ==
    ASSUME Typed, NEW h \in Hubs, Deletion(h)
    PROVE  Typed'
<1> USE DEF Typed
<1>1. Others(h) \subseteq Hubs
    BY DEF Others
<1>2. CASE RollbackKitsu(h)
  <2>1. KitsuType'
      BY <1>2, NothingTyped DEF RollbackKitsu, KitsuType
  <2>2. ctx' \in [Hubs -> Context] /\ at' \in [Hubs -> Places]
      BY <1>2, ReportsTyped DEF RollbackKitsu, RollingBack
  <2>3. razed' \in SUBSET Hubs
      BY <1>1, <1>2 DEF RollbackKitsu
  <2>4. QED BY <1>2, <2>1, <2>2, <2>3 DEF RollbackKitsu, RepoType
<1>3. CASE RollbackRepo(h)
  <2>1. RepoType'
      BY <1>3, NothingTyped DEF RollbackRepo, RepoType
  <2>2. ctx' \in [Hubs -> Context] /\ at' \in [Hubs -> Places]
      BY <1>3, ReportsTyped DEF RollbackRepo, RollingBack
  <2>3. razed' \in SUBSET Hubs
      BY <1>1, <1>3 DEF RollbackRepo
  <2>4. QED BY <1>3, <2>1, <2>2, <2>3 DEF RollbackRepo, KitsuType
<1>4. CASE RollbackFolder(h)
  <2>1. [folder[Root[h]] EXCEPT !.tree = FALSE] \in Folder /\ Root[h] \in Roots
      BY RootType DEF Folder
  <2>2. folder' \in [Roots -> Folder]
      BY <1>4, <2>1, NothingTyped DEF RollbackFolder
  <2>3. ctx' \in [Hubs -> Context] /\ at' \in [Hubs -> Places]
      BY <1>4, OverTyped DEF RollbackFolder, Idle
  <2>4. razed' \in SUBSET Hubs
      BY <1>1, <1>4 DEF RollbackFolder
  <2>5. QED BY <1>4, <2>2, <2>3, <2>4 DEF RollbackFolder, KitsuType, RepoType
<1>5. QED BY <1>2, <1>3, <1>4 DEF Deletion

LEMMA InitTyped == Init => Typed
<1> SUFFICES ASSUME Init PROVE Typed
    OBVIOUS
<1>1. \A id \in NewId({}) : id \in Ids
    BY NewIdIsFree
<1>2. KitsuType
    BY <1>1, NothingTyped DEF Init, KitsuType, Makers
<1>3. RepoType
    BY <1>1, NothingTyped DEF Init, RepoType, Makers
<1>4. QED
    BY <1>2, <1>3, NothingTyped DEF Init, Typed, Places, Idle

LEMMA NextTyped == Typed /\ [Next]_vars => Typed'
<1> SUFFICES ASSUME Typed, [Next]_vars PROVE Typed'
    OBVIOUS
<1>1. CASE UNCHANGED vars
    BY <1>1 DEF Typed, vars, KitsuType, RepoType
<1>2. CASE Next
    BY <1>2, DialogTyped, SagaTyped, DeletionTyped DEF Next
<1>3. QED BY <1>1, <1>2

(* Every state of every studio has the type: no id, context or folder is ever
   half made (all the writes of the saga and of its rollback).               *)
THEOREM TypeCorrect == Spec => []TypeOK
BY InitTyped, NextTyped, TypedIsType, PTL DEF Spec

(***************************************************************************)
(* The inductive invariant, for Hubs whose workspace roots are apart.      *)
(***************************************************************************)

RootsApart == \A g, h \in Hubs : Root[g] = Root[h] => g = h

\* The creation of h has committed its blueprint.
Claim(h) == ctx[h].vcs /\ "vcs" \in ctx[h].done

\* The recorded steps are those the saga's order allows at this place.
Order(h) ==
    /\ "vcs" \in ctx[h].done => Asked(h) \subseteq ctx[h].done
    /\ "manifests" \in ctx[h].done => {"kitsu", "scaffold"} \subseteq ctx[h].done
    /\ at[h] \in {"pull", "commit"} =>
            ctx[h].vcs /\ Before["vcs"] \subseteq ctx[h].done
    /\ at[h] \notin {"running", "created"} => "vcs" \notin ctx[h].done
    /\ at[h] = "created" => Asked(h) \subseteq ctx[h].done

\* What the recorded steps have left in the folder of h.
OnDisk(h) ==
    /\ "kitsu" \in ctx[h].done => ctx[h].kid # None
    /\ "scaffold" \in ctx[h].done => Exists(h) /\ Here(h).tree
    /\ "manifests" \in ctx[h].done => Here(h).manifest = ctx[h].kid
    /\ (at[h] = "commit" \/ Claim(h)) => Here(h).wc # None /\ ~Here(h).conflict

\* While its repository exists it keeps the commit of the one Hub that has it;
\* no two Hubs have committed to one repository, not even to a deleted one.
Remote ==
    /\ repo.ready => repo.id # None
    /\ \A h \in Hubs : (Claim(h) /\ repo.id = Here(h).wc) => repo.base = h
    /\ \A g, h \in Hubs :
            (Claim(g) /\ Claim(h) /\ Here(g).wc = Here(h).wc) => g = h

\* Unless a rollback of another Hub took it away, what h made is there.
Untouched(h) ==
    /\ (at[h] \in Running \cup {"failed", "created"} /\ "kitsu" \in ctx[h].done)
            => kitsu.id = ctx[h].kid
    /\ Claim(h) => repo.id = Here(h).wc /\ repo.ready

IInv ==
    /\ Remote
    /\ \A h \in Hubs : Order(h) /\ OnDisk(h) /\ (h \in razed \/ Untouched(h))

(***************************************************************************)
(* A step of one Hub leaves the creation and the folder of the others.     *)
(***************************************************************************)

Same(g) ==
    /\ ctx'[g] = ctx[g] /\ at'[g] = at[g]
    /\ Exists(g)' <=> Exists(g)
    /\ Here(g)'.tree = Here(g).tree
    /\ Here(g)'.manifest = Here(g).manifest
    /\ Here(g)'.wc = Here(g).wc
    /\ Here(g)'.conflict = Here(g).conflict

LEMMA Elsewhere ==
    ASSUME Typed, RootsApart, NEW h \in Hubs, NEW g \in Hubs \ {h},
           Dialog(h) \/ Saga(h) \/ Deletion(h) \/ Crash(h)
    PROVE  Same(g)
<1>1. Root[g] \in Roots /\ Root[h] \in Roots /\ Root[g] # Root[h] /\ g # h
    BY RootType DEF RootsApart
<1>2. ASSUME ctx'[g] = ctx[g], at'[g] = at[g], folder'[Root[g]] = folder[Root[g]]
      PROVE  Same(g)
    BY <1>2 DEF Same, Exists, Here
<1>3. CASE Dialog(h) \/ Crash(h)
  <2>1. CASE CreateProject(h)
    <3>1. folder'[Root[g]] = Disowned(folder[Root[g]], h)
        BY <1>1, <2>1 DEF CreateProject
    <3>2. folder[Root[g]] \in Folder /\ Outside # None /\ h # None
        BY <1>1, CreationAssumption DEF Typed
    <3>3. ctx'[g] = ctx[g] /\ at'[g] = at[g]
        BY <1>1, <2>1 DEF CreateProject, Typed
    <3>4. QED BY <3>1, <3>2, <3>3 DEF Disowned, Folder, Same, Exists, Here
  <2>2. CASE CreationRefused(h) \/ Retry(h) \/ Back(h) \/ Rollback(h) \/ Crash(h)
      BY <1>1, <1>2, <2>2
      DEF CreationRefused, Retry, Back, Rollback, Crash, Over, vars, world, Typed
  <2>3. QED BY <1>3, <2>1, <2>2 DEF Dialog
<1>4. CASE Saga(h)
  <2>1. CASE PreflightKitsu(h) \/ PreflightVcs(h) \/ StepSplash(h) \/ SkipVcs(h)
             \/ Succeed(h)
      BY <1>1, <1>2, <2>1
      DEF PreflightKitsu, PreflightVcs, StepSplash, SkipVcs, Succeed, Pass, Fail,
          world, Typed
  <2>2. CASE StepKitsu(h) \/ CreateRepository(h) \/ Commit(h)
      BY <1>1, <1>2, <2>2
      DEF StepKitsu, CreateRepository, Commit, KitsuReady, Pass, Fail, Typed
  <2>3. CASE StepScaffold(h) \/ StepManifests(h) \/ StepVfsPatch(h)
      BY <1>1, <1>2, <2>3
      DEF StepScaffold, StepManifests, StepVfsPatch, Pass, Fail, Typed
  <2>4. CASE Pull(h)
      BY <1>1, <1>2, <2>4 DEF Pull, Fail, Typed
  <2>5. QED BY <1>4, <2>1, <2>2, <2>3, <2>4 DEF Saga
<1>5. CASE Deletion(h)
  <2>1. CASE RollbackKitsu(h) \/ RollbackRepo(h)
      BY <1>1, <1>2, <2>1 DEF RollbackKitsu, RollbackRepo, Reports, Typed
  <2>2. CASE RollbackFolder(h)
      BY <1>1, <1>2, <2>2 DEF RollbackFolder, Over, Typed
  <2>3. QED BY <1>5, <2>1, <2>2 DEF Deletion
<1>6. QED BY <1>3, <1>4, <1>5

LEMMA SameKeeps ==
    ASSUME NEW g, Same(g)
    PROVE  /\ Claim(g)' <=> Claim(g)
           /\ Order(g) => Order(g)'
           /\ OnDisk(g) => OnDisk(g)'
BY DEF Same, Claim, Order, OnDisk, Asked

(* What a step may do for the invariant to go on: it keeps the repository, and
   Kitsu unless that had no project; its own Hub gains no claim.               *)
LEMMA Quiet ==
    ASSUME Typed, IInv, RootsApart, NEW h \in Hubs,
           Dialog(h) \/ Saga(h) \/ Deletion(h) \/ Crash(h),
           kitsu'.id = kitsu.id \/ kitsu.id = None,
           repo'.id = repo.id, repo'.ready = repo.ready, repo'.base = repo.base,
           Claim(h)' => Claim(h) /\ Here(h)'.wc = Here(h).wc,
           Order(h)', OnDisk(h)',
           \A g \in razed : g \in razed' \/ at'[g] \in Idle,
           \/ h \in razed'
           \/ (at'[h] \in Running \cup {"failed", "created"} /\ "kitsu" \in ctx'[h].done)
                    => kitsu'.id = ctx'[h].kid
    PROVE  IInv'
<1>1. \A g \in Hubs \ {h} : Same(g)
    BY Elsewhere
<1>2. \A g \in Hubs : Order(g)' /\ OnDisk(g)'
    BY <1>1, SameKeeps DEF IInv
<1>3. \A g \in Hubs : Claim(g)' => Claim(g) /\ Here(g)'.wc = Here(g).wc
    BY <1>1, SameKeeps DEF Same
<1>4. Remote'
    BY <1>3 DEF IInv, Remote
<1>5. ASSUME NEW g \in Hubs, g \notin razed' PROVE Untouched(g)'
  <2>1. Claim(g)' => at'[g] \notin Idle
      BY <1>2, <1>5 DEF Order, Claim, Idle
  <2>2. CASE at'[g] \in Idle
      BY <2>1, <2>2 DEF Untouched, Idle, Running
  <2>3. CASE at'[g] \notin Idle
    <3>1. Untouched(g)
        BY <1>5, <2>3 DEF IInv
    <3>2. Claim(g)' => repo'.id = Here(g)'.wc /\ repo'.ready
        BY <1>3, <3>1 DEF Untouched
    <3>3. CASE g = h
        BY <1>5, <3>2, <3>3 DEF Untouched
    <3>4. CASE g # h
      <4>1. ctx'[g] = ctx[g] /\ at'[g] = at[g] /\ OnDisk(g)
          BY <1>1, <3>4 DEF Same, IInv
      <4>2. QED BY <3>1, <3>2, <4>1 DEF Untouched, OnDisk
    <3>5. QED BY <3>3, <3>4
  <2>4. QED BY <2>2, <2>3
<1>6. QED BY <1>2, <1>4, <1>5 DEF IInv

(***************************************************************************)
(* How a step of the saga ends.                                            *)
(***************************************************************************)

LEMMA DueMeans ==
    ASSUME NEW h \in Hubs, Order(h), NEW s \in Steps, Due(h, s)
    PROVE  /\ "vcs" \notin ctx[h].done /\ at[h] = "running"
           /\ s = "manifests" => {"kitsu", "scaffold"} \subseteq ctx[h].done
           /\ s = "vcs" => Asked(h) \ {"vcs"} \subseteq ctx[h].done
BY DEF Order, Due, Asked, Steps, Before

LEMMA PassOrder ==
    ASSUME Typed, NEW h \in Hubs, Order(h), NEW s \in Steps \ {"vcs"},
           Due(h, s), Pass(h, s)
    PROVE  Order(h)' /\ ~Claim(h)' /\ at'[h] = "running"
<1>1. /\ ctx'[h].done = ctx[h].done \cup {s} /\ at'[h] = "running"
      /\ ctx'[h].vcs = ctx[h].vcs
    BY DEF Typed, Pass, Context
<1>2. "vcs" \notin ctx'[h].done
    BY <1>1, DueMeans
<1>3. "manifests" \in ctx'[h].done => {"kitsu", "scaffold"} \subseteq ctx'[h].done
    BY <1>1, DueMeans DEF Order
<1>4. QED BY <1>1, <1>2, <1>3 DEF Order, Claim

LEMMA FailOrder ==
    ASSUME Typed, NEW h \in Hubs, Order(h), "vcs" \notin ctx[h].done, Fail(h)
    PROVE  Order(h)' /\ ~Claim(h)' /\ at'[h] = "failed" /\ ctx'[h] = ctx[h]
<1>1. at'[h] = "failed" /\ ctx'[h] = ctx[h]
    BY DEF Typed, Fail
<1>2. QED BY <1>1 DEF Order, Claim, Asked

LEMMA OverOrder ==
    ASSUME Typed, NEW h \in Hubs, NEW d \in Idle, Over(h, d)
    PROVE  /\ Order(h)' /\ OnDisk(h)' /\ ~Claim(h)'
           /\ at'[h] = d /\ ctx'[h] = Fresh
<1>1. at'[h] = d /\ ctx'[h] = Fresh /\ ctx'[h].done = {}
    BY DEF Typed, Over, Fresh
<1>2. QED BY <1>1 DEF Order, OnDisk, Claim, Idle

\* The folder keeps what it had.
Kept(h) ==
    /\ Exists(h) => Exists(h)'
    /\ Exists(h) => Here(h)'.tree = Here(h).tree
    /\ Exists(h) => Here(h)'.manifest = Here(h).manifest

LEMMA StillOnDisk ==
    ASSUME NEW h \in Hubs, Order(h), OnDisk(h), Kept(h), ~Claim(h)', at'[h] # "commit",
           ctx'[h].kid = ctx[h].kid,
           ctx'[h].done \cap {"kitsu", "scaffold", "manifests"} \subseteq ctx[h].done
    PROVE  OnDisk(h)'
BY DEF Order, OnDisk, Kept

(***************************************************************************)
(* The steps preserve the invariant: the dialog, and the loss of the Hub.  *)
(***************************************************************************)

LEMMA DialogKeeps ==
    ASSUME Typed, IInv, RootsApart, NEW h \in Hubs, Dialog(h) \/ Crash(h)
    PROVE  IInv'
<1>0. Order(h) /\ OnDisk(h)
    BY DEF IInv
<1>1. CASE CreateProject(h)
  <2>1. ctx'[h].done = {} /\ at'[h] = "running" /\ ctx'[h].kid = None
      BY <1>1 DEF CreateProject, Typed, Fresh
  <2>2. Order(h)' /\ OnDisk(h)' /\ ~Claim(h)'
      BY <2>1 DEF Order, OnDisk, Claim
  <2>3. kitsu'.id = kitsu.id /\ repo'.id = repo.id
        /\ repo'.ready = repo.ready /\ repo'.base = repo.base
      BY <1>1 DEF CreateProject, Disowned, Typed, KitsuType, RepoType
  <2>4. QED BY <1>1, <2>1, <2>2, <2>3, Quiet DEF CreateProject, Dialog
<1>2. CASE CreationRefused(h)
    BY <1>2 DEF CreationRefused, vars, IInv, Remote, Order, OnDisk, Untouched,
                Claim, Asked, Here, Exists
<1>3. CASE Retry(h)
  <2>1. at'[h] = "running" /\ at[h] = "failed" /\ ctx'[h] = ctx[h]
      BY <1>3 DEF Retry, Typed
  <2>2. Order(h)' /\ ~Claim(h)'
      BY <1>0, <2>1 DEF Order, Claim, Asked
  <2>3. OnDisk(h)'
      BY <1>0, <1>3, <2>1, <2>2, StillOnDisk DEF Retry, world, Kept, Exists, Here
  <2>4. h \in razed' \/ ("kitsu" \in ctx'[h].done => kitsu'.id = ctx'[h].kid)
      BY <1>3, <2>1 DEF Retry, world, IInv, Untouched
  <2>5. QED BY <1>3, <2>2, <2>3, <2>4, Quiet DEF Retry, world, Dialog
<1>4. CASE Back(h)
  <2>1. /\ Order(h)' /\ OnDisk(h)' /\ ~Claim(h)'
        /\ at'[h] = "form" /\ ctx'[h] = Fresh
      BY <1>4, OverOrder DEF Back, Idle
  <2>2. QED BY <1>4, <2>1, Quiet DEF Back, world, Dialog, Idle, Running
<1>5. CASE Rollback(h)
  <2>1. /\ at'[h] = "rb_kitsu" /\ at[h] = "failed" /\ ctx'[h].done = ctx[h].done
        /\ ctx'[h].vcs = ctx[h].vcs /\ ctx'[h].kid = ctx[h].kid
      BY <1>5 DEF Rollback, Typed, Context
  <2>2. Order(h)' /\ ~Claim(h)'
      BY <1>0, <2>1 DEF Order, Claim, Asked
  <2>3. OnDisk(h)'
      BY <1>0, <1>5, <2>1, <2>2, StillOnDisk DEF Rollback, world, Kept, Exists, Here
  <2>4. QED BY <1>5, <2>1, <2>2, <2>3, Quiet DEF Rollback, world, Dialog, Running
<1>6. CASE Crash(h)
  <2>1. /\ Order(h)' /\ OnDisk(h)' /\ ~Claim(h)'
        /\ at'[h] = "form" /\ ctx'[h] = Fresh
      BY <1>6, OverOrder DEF Crash, Idle
  <2>2. QED BY <1>6, <2>1, Quiet DEF Crash, world, Idle, Running
<1>7. QED BY <1>1, <1>2, <1>3, <1>4, <1>5, <1>6 DEF Dialog

(***************************************************************************)
(* The steps of the saga that leave the repository alone.                  *)
(***************************************************************************)

LEMMA PassKeeps ==
    ASSUME Typed, IInv, RootsApart, NEW h \in Hubs, Saga(h), Kept(h),
           NEW s \in Steps \ {"vcs", "kitsu", "scaffold", "manifests"},
           Due(h, s), Pass(h, s), UNCHANGED <<kitsu, repo, razed>>
    PROVE  IInv'
<1>0. Order(h) /\ OnDisk(h) /\ (h \in razed \/ Untouched(h))
    BY DEF IInv
<1>1. Order(h)' /\ ~Claim(h)' /\ at'[h] = "running" /\ at[h] = "running"
    BY <1>0, PassOrder, DueMeans
<1>2. ctx'[h].done = ctx[h].done \cup {s} /\ ctx'[h].kid = ctx[h].kid
    BY DEF Pass, Typed, Context
<1>3. OnDisk(h)'
    BY <1>0, <1>1, <1>2, StillOnDisk
<1>4. h \in razed' \/ ("kitsu" \in ctx'[h].done => kitsu'.id = ctx'[h].kid)
    BY <1>0, <1>1, <1>2 DEF Untouched, Running
<1>5. QED BY <1>1, <1>3, <1>4, Quiet

LEMMA FailKeeps ==
    ASSUME Typed, IInv, RootsApart, NEW h \in Hubs, Saga(h), Kept(h),
           "vcs" \notin ctx[h].done, at[h] \in Running, Fail(h),
           \/ kitsu' = kitsu
           \/ kitsu.id = None /\ "kitsu" \notin ctx[h].done,
           UNCHANGED <<repo, razed>>
    PROVE  IInv'
<1>0. Order(h) /\ OnDisk(h) /\ (h \in razed \/ Untouched(h))
    BY DEF IInv
<1>1. Order(h)' /\ ~Claim(h)' /\ at'[h] = "failed" /\ ctx'[h] = ctx[h]
    BY <1>0, FailOrder
<1>2. OnDisk(h)'
    BY <1>0, <1>1, StillOnDisk
<1>3. h \in razed' \/ ("kitsu" \in ctx'[h].done => kitsu'.id = ctx'[h].kid)
    BY <1>0, <1>1 DEF Untouched
<1>4. QED BY <1>1, <1>2, <1>3, Quiet

LEMMA WrittenKeeps ==
    ASSUME Typed, NEW h \in Hubs,
           \/ folder' = folder
           \/ folder' = [folder EXCEPT ![Root[h]] = Written(h)]
    PROVE  Kept(h)
<1>1. Exists(h) => Here(h)' = Here(h)
    BY RootType DEF Written, Exists, Here, Typed
<1>2. QED BY <1>1 DEF Kept, Exists

LEMMA StepKitsuKeeps ==
    ASSUME Typed, IInv, RootsApart, NEW h \in Hubs, StepKitsu(h)
    PROVE  IInv'
<1>0. /\ Order(h) /\ OnDisk(h) /\ (h \in razed \/ Untouched(h))
      /\ Saga(h) /\ "kitsu" \in Steps /\ Due(h, "kitsu")
    BY DEF IInv, Saga, Steps, StepKitsu
<1>1. /\ "vcs" \notin ctx[h].done /\ "kitsu" \notin ctx[h].done
      /\ at[h] = "running" /\ Kept(h)
    BY <1>0, DueMeans, WrittenKeeps DEF Due, StepKitsu
<1>2. ASSUME NEW id \in Ids, KitsuReady(h, id), kitsu'.id = id,
             kitsu'.id = kitsu.id \/ kitsu.id = None
      PROVE  IInv'
  <2>1. /\ ctx'[h].done = ctx[h].done \cup {"kitsu"} /\ ctx'[h].kid = id
        /\ ctx'[h].vcs = ctx[h].vcs /\ at'[h] = "running"
      BY <1>1, <1>2 DEF KitsuReady, Typed, Context
  <2>2. Order(h)' /\ ~Claim(h)'
      BY <1>0, <1>1, <2>1 DEF Order, Claim
  <2>3. "manifests" \notin ctx[h].done /\ id # None
      BY <1>0, <1>1, <1>2, CreationAssumption DEF Order
  <2>4. OnDisk(h)'
      BY <1>0, <1>1, <2>1, <2>2, <2>3 DEF OnDisk, Kept
  <2>5. QED BY <1>0, <1>2, <2>1, <2>2, <2>4, Quiet DEF StepKitsu
<1>3. CASE Fail(h)
  <2>1. kitsu' = kitsu \/ kitsu.id = None
      BY <1>3 DEF StepKitsu
  <2>2. QED BY <1>0, <1>1, <1>3, <2>1, FailKeeps DEF StepKitsu, Running
<1>4. CASE ~Fail(h)
  <2>1. \/ /\ kitsu.id = None
           /\ \E id \in NewId(ProjectIds) : kitsu' = [id |-> id, by |-> h] /\ KitsuReady(h, id)
        \/ kitsu.id # None /\ kitsu' = kitsu /\ KitsuReady(h, kitsu.id)
      BY <1>4 DEF StepKitsu
  <2>2. kitsu.id # None => kitsu.id \in Ids
      BY DEF Typed, KitsuType
  <2>3. QED BY <1>2, <2>1, <2>2, NewIdIsFree
<1>5. QED BY <1>3, <1>4

LEMMA StepScaffoldKeeps ==
    ASSUME Typed, IInv, RootsApart, NEW h \in Hubs, StepScaffold(h)
    PROVE  IInv'
<1>0. /\ Order(h) /\ OnDisk(h) /\ (h \in razed \/ Untouched(h))
      /\ Saga(h) /\ "scaffold" \in Steps /\ Due(h, "scaffold")
    BY DEF IInv, Saga, Steps, StepScaffold
<1>1. /\ "vcs" \notin ctx[h].done /\ "manifests" \notin ctx[h].done
      /\ "scaffold" \notin ctx[h].done /\ at[h] = "running"
    BY <1>0, DueMeans DEF Due, Order
<1>2. CASE Fail(h) /\ folder' \in {folder, [folder EXCEPT ![Root[h]] = Written(h)]}
    BY <1>0, <1>1, <1>2, WrittenKeeps, FailKeeps DEF StepScaffold, Running
<1>3. CASE /\ Pass(h, "scaffold")
           /\ folder' = [folder EXCEPT ![Root[h]] = [Written(h) EXCEPT !.tree = TRUE]]
  <2>1. Order(h)' /\ ~Claim(h)' /\ at'[h] = "running"
      BY <1>0, <1>3, PassOrder
  <2>2. ctx'[h].done = ctx[h].done \cup {"scaffold"} /\ ctx'[h].kid = ctx[h].kid
      BY <1>3 DEF Pass, Typed, Context
  <2>3. Exists(h)' /\ Here(h)'.tree
    <3>1. Written(h) \in Folder /\ Written(h).by # None /\ Root[h] \in Roots
        BY RootType, WrittenTyped, CreationAssumption
        DEF Written, Exists, Here, Typed, NoFolder
    <3>2. QED BY <1>3, <3>1 DEF Exists, Here, Typed, Folder
  <2>4. OnDisk(h)'
      BY <1>0, <1>1, <2>1, <2>2, <2>3 DEF OnDisk
  <2>5. h \in razed' \/ ("kitsu" \in ctx'[h].done => kitsu'.id = ctx'[h].kid)
      BY <1>0, <1>1, <2>2 DEF StepScaffold, Untouched, Running
  <2>6. QED BY <1>0, <2>1, <2>4, <2>5, Quiet DEF StepScaffold
<1>4. QED BY <1>2, <1>3 DEF StepScaffold

LEMMA StepManifestsKeeps ==
    ASSUME Typed, IInv, RootsApart, NEW h \in Hubs, StepManifests(h)
    PROVE  IInv'
<1>0. /\ Order(h) /\ OnDisk(h) /\ (h \in razed \/ Untouched(h))
      /\ Saga(h) /\ "manifests" \in Steps /\ Due(h, "manifests")
    BY DEF IInv, Saga, Steps, StepManifests
<1>1. /\ "vcs" \notin ctx[h].done /\ "manifests" \notin ctx[h].done
      /\ {"kitsu", "scaffold"} \subseteq ctx[h].done /\ at[h] = "running"
    BY <1>0, DueMeans DEF Due
<1>2. Exists(h) /\ Here(h).tree /\ Written(h) = Here(h) /\ Here(h) \in Folder
      /\ Root[h] \in Roots /\ Here(h)' = folder'[Root[h]]
    BY <1>0, <1>1, RootType DEF OnDisk, Written, Here, Typed
<1>3. ASSUME NEW i \in Ids \cup {None},
             folder' = [folder EXCEPT ![Root[h]] = [Written(h) EXCEPT !.manifest = i]]
      PROVE  Exists(h)' /\ Here(h)'.tree /\ Here(h)'.manifest = i
    BY <1>2, <1>3 DEF Exists, Here, Typed, Folder
<1>4. CASE /\ Pass(h, "manifests")
           /\ folder' = [folder EXCEPT ![Root[h]] =
                            [Written(h) EXCEPT !.manifest = ctx[h].kid]]
  <2>1. Order(h)' /\ ~Claim(h)' /\ at'[h] = "running"
      BY <1>0, <1>4, PassOrder
  <2>2. ctx'[h].done = ctx[h].done \cup {"manifests"} /\ ctx'[h].kid = ctx[h].kid
      BY <1>4 DEF Pass, Typed, Context
  <2>3. ctx[h].kid \in Ids \cup {None}
      BY DEF Typed, Context
  <2>4. Exists(h)' /\ Here(h)'.tree /\ Here(h)'.manifest = ctx[h].kid
      BY <1>3, <1>4, <2>3
  <2>5. OnDisk(h)'
      BY <1>0, <1>1, <2>1, <2>2, <2>4 DEF OnDisk
  <2>6. h \in razed' \/ ("kitsu" \in ctx'[h].done => kitsu'.id = ctx'[h].kid)
      BY <1>0, <1>1, <2>2 DEF StepManifests, Untouched, Running
  <2>7. QED BY <1>0, <2>1, <2>5, <2>6, Quiet DEF StepManifests
<1>5. CASE /\ Fail(h)
           /\ folder' \in {folder, [folder EXCEPT ![Root[h]] =
                                        [Written(h) EXCEPT !.manifest = None]]}
  <2>1. Order(h)' /\ ~Claim(h)' /\ at'[h] = "failed" /\ ctx'[h] = ctx[h]
      BY <1>0, <1>1, <1>5, FailOrder
  <2>2. Exists(h)' /\ Here(h)'.tree
      BY <1>2, <1>3, <1>5 DEF Exists, Here
  <2>3. OnDisk(h)'
      BY <1>0, <1>1, <2>1, <2>2 DEF OnDisk
  <2>4. h \in razed' \/ ("kitsu" \in ctx'[h].done => kitsu'.id = ctx'[h].kid)
      BY <1>0, <1>1, <2>1 DEF StepManifests, Untouched, Running
  <2>5. QED BY <1>0, <2>1, <2>3, <2>4, Quiet DEF StepManifests
<1>6. QED BY <1>4, <1>5 DEF StepManifests

(***************************************************************************)
(* The VCS step.                                                           *)
(***************************************************************************)

LEMMA SkipVcsKeeps ==
    ASSUME Typed, IInv, RootsApart, NEW h \in Hubs, SkipVcs(h)
    PROVE  IInv'
<1>0. /\ Order(h) /\ OnDisk(h) /\ (h \in razed \/ Untouched(h))
      /\ Saga(h) /\ "vcs" \in Steps /\ Due(h, "vcs")
    BY DEF IInv, Saga, Steps, SkipVcs
<1>1. /\ Asked(h) \ {"vcs"} \subseteq ctx[h].done /\ at[h] = "running"
      /\ ctx'[h].done = ctx[h].done \cup {"vcs"} /\ at'[h] = "running"
      /\ ctx'[h].kid = ctx[h].kid /\ ctx'[h].vcs = ctx[h].vcs /\ ~ctx[h].vcs
    BY <1>0, DueMeans DEF SkipVcs, Pass, Typed, Context
<1>2. Order(h)' /\ ~Claim(h)'
    BY <1>0, <1>1 DEF Order, Claim, Asked
<1>3. OnDisk(h)'
    BY <1>0, <1>1, <1>2, StillOnDisk DEF SkipVcs, world, Kept, Exists, Here
<1>4. h \in razed' \/ ("kitsu" \in ctx'[h].done => kitsu'.id = ctx'[h].kid)
    BY <1>0, <1>1 DEF SkipVcs, world, Untouched, Running
<1>5. QED BY <1>0, <1>1, <1>2, <1>3, <1>4, Quiet DEF SkipVcs, world

(* A repository has just been made, with an id that nothing refers to.      *)
LEMMA MadeKeeps ==
    ASSUME Typed, IInv, RootsApart, NEW h \in Hubs, Saga(h),
           repo.id = None, repo'.id \in Ids, repo'.id \notin RepoIds,
           Order(h)', OnDisk(h)', ~Claim(h)', UNCHANGED <<kitsu, folder, razed>>,
           h \in razed' \/ ("kitsu" \in ctx'[h].done => kitsu'.id = ctx'[h].kid)
    PROVE  IInv'
<1>1. \A g \in Hubs \ {h} : Same(g)
    BY Elsewhere
<1>2. \A g \in Hubs : Order(g)' /\ OnDisk(g)'
    BY <1>1, SameKeeps DEF IInv
<1>3. \A g \in Hubs : Claim(g)' => Claim(g) /\ g # h /\ Here(g)'.wc = Here(g).wc
    BY <1>1, SameKeeps DEF Same
<1>4. \A g \in Hubs : Here(g).wc # repo'.id
    BY RootType DEF RepoIds, Here
<1>5. Remote'
  <2>1. repo'.ready => repo'.id # None
      BY CreationAssumption
  <2>2. QED BY <1>3, <1>4, <2>1 DEF IInv, Remote
<1>6. ASSUME NEW g \in Hubs, g \notin razed' PROVE Untouched(g)'
  <2>1. ~Claim(g)
      BY <1>6 DEF IInv, Untouched, OnDisk
  <2>2. ~Claim(g)'
      BY <1>3, <2>1
  <2>3. g # h => Untouched(g) /\ ctx'[g] = ctx[g] /\ at'[g] = at[g]
      BY <1>1, <1>6 DEF IInv, Same
  <2>4. QED BY <1>6, <2>2, <2>3 DEF Untouched
<1>7. QED BY <1>2, <1>5, <1>6 DEF IInv

LEMMA CreateRepositoryKeeps ==
    ASSUME Typed, IInv, RootsApart, NEW h \in Hubs, CreateRepository(h)
    PROVE  IInv'
<1>0. /\ Order(h) /\ OnDisk(h) /\ (h \in razed \/ Untouched(h))
      /\ Saga(h) /\ "vcs" \in Steps /\ Due(h, "vcs")
    BY DEF IInv, Saga, Steps, CreateRepository
<1>1. "vcs" \notin ctx[h].done /\ at[h] = "running" /\ Kept(h)
    BY <1>0, DueMeans, WrittenKeeps DEF CreateRepository
<1>2. ASSUME at' = [at EXCEPT ![h] = "pull"], ctx' = ctx
      PROVE  /\ Order(h)' /\ OnDisk(h)' /\ ~Claim(h)'
             /\ at'[h] = "pull" /\ ctx'[h] = ctx[h]
  <2>1. at'[h] = "pull" /\ ctx'[h] = ctx[h]
      BY <1>2 DEF Typed
  <2>2. ctx[h].vcs /\ Before["vcs"] \subseteq ctx[h].done
      BY <1>0 DEF Due, CreateRepository
  <2>3. Order(h)' /\ ~Claim(h)'
      BY <1>0, <1>1, <2>1, <2>2 DEF Order, Claim, Asked
  <2>4. QED BY <1>0, <1>1, <2>1, <2>3, StillOnDisk
<1>3. h \in razed' \/ ("kitsu" \in ctx[h].done => kitsu'.id = ctx[h].kid)
    BY <1>0, <1>1 DEF CreateRepository, Untouched, Running
<1>4. CASE repo' = repo /\ at' = [at EXCEPT ![h] = "pull"] /\ ctx' = ctx
    BY <1>0, <1>2, <1>3, <1>4, Quiet DEF CreateRepository
<1>5. CASE repo' = repo /\ Fail(h)
    BY <1>0, <1>1, <1>5, FailKeeps DEF CreateRepository, Running
<1>6. CASE repo.id = None /\ \E id \in NewId(RepoIds), ready \in BOOLEAN :
                repo' = [id |-> id, by |-> h, ready |-> ready, base |-> None]
  <2>1. repo'.id \in Ids /\ repo'.id \notin RepoIds
      BY <1>6, NewIdIsFree
  <2>2. CASE at' = [at EXCEPT ![h] = "pull"] /\ ctx' = ctx
      BY <1>0, <1>2, <1>3, <1>6, <2>1, <2>2, MadeKeeps DEF CreateRepository
  <2>3. CASE Fail(h)
    <3>1. Order(h)' /\ ~Claim(h)' /\ at'[h] = "failed" /\ ctx'[h] = ctx[h]
        BY <1>0, <1>1, <2>3, FailOrder
    <3>2. OnDisk(h)'
        BY <1>0, <1>1, <3>1, StillOnDisk
    <3>3. QED BY <1>0, <1>3, <1>6, <2>1, <3>1, <3>2, MadeKeeps DEF CreateRepository
  <2>4. QED BY <2>2, <2>3 DEF CreateRepository
<1>7. QED BY <1>4, <1>5, <1>6 DEF CreateRepository

LEMMA PullKeeps ==
    ASSUME Typed, IInv, RootsApart, NEW h \in Hubs, Pull(h)
    PROVE  IInv'
<1>0. /\ Order(h) /\ OnDisk(h) /\ (h \in razed \/ Untouched(h)) /\ Remote
      /\ Saga(h) /\ at[h] = "pull" /\ "vcs" \notin ctx[h].done
    BY DEF IInv, Saga, Pull, Order
<1>1. CASE folder' = folder /\ Fail(h)
    BY <1>0, <1>1, FailKeeps, WrittenKeeps DEF Pull, Running
<1>2. CASE \E clash \in BOOLEAN :
            /\ repo.ready
            /\ folder' = [folder EXCEPT ![Root[h]] =
                    [Written(h) EXCEPT !.wc = repo.id, !.conflict = clash]]
            /\ \/ clash /\ Fail(h)
               \/ ~clash /\ at' = [at EXCEPT ![h] = "commit"] /\ ctx' = ctx
  <2>1. PICK clash \in BOOLEAN :
            /\ repo.ready
            /\ folder' = [folder EXCEPT ![Root[h]] =
                    [Written(h) EXCEPT !.wc = repo.id, !.conflict = clash]]
            /\ \/ clash /\ Fail(h)
               \/ ~clash /\ at' = [at EXCEPT ![h] = "commit"] /\ ctx' = ctx
      BY <1>2
  <2>2. Written(h) \in Folder /\ Root[h] \in Roots
      BY WrittenTyped, RootType DEF Typed
  <2>3. Here(h)' = [Written(h) EXCEPT !.wc = repo.id, !.conflict = clash]
      BY <2>1, <2>2 DEF Here, Typed
  <2>4. Kept(h)
      BY <2>2, <2>3 DEF Kept, Exists, Written, Folder
  <2>5. Here(h)'.wc = repo.id /\ Here(h)'.conflict = clash
      BY <2>2, <2>3 DEF Folder
  <2>6. /\ ctx'[h] = ctx[h] /\ at'[h] \in {"failed", "commit"}
        /\ (at'[h] = "commit" => ~clash)
      BY <2>1 DEF Fail, Typed
  <2>7. Order(h)' /\ ~Claim(h)'
      BY <1>0, <2>6 DEF Order, Claim, Asked
  <2>8. OnDisk(h)'
      BY <1>0, <2>1, <2>4, <2>5, <2>6, <2>7 DEF OnDisk, Kept, Remote, Order
  <2>9. h \in razed' \/ ("kitsu" \in ctx'[h].done => kitsu'.id = ctx'[h].kid)
      BY <1>0, <2>6 DEF Pull, Untouched, Running
  <2>10. QED BY <1>0, <2>6, <2>7, <2>8, <2>9, Quiet DEF Pull
<1>3. QED
  <2>1. (Here(h).conflict \/ repo.base # None) \in BOOLEAN
      BY RootType DEF Here, Typed, Folder
  <2>2. QED BY <1>1, <1>2, <2>1 DEF Pull

(* The first commit of the repository: its Hub is the only one with a claim *)
(* on it, since a claim of another would have left a commit behind.         *)
LEMMA CommitKeeps ==
    ASSUME Typed, IInv, RootsApart, NEW h \in Hubs, Commit(h)
    PROVE  IInv'
<1>0. /\ Order(h) /\ OnDisk(h) /\ (h \in razed \/ Untouched(h)) /\ Remote
      /\ Saga(h) /\ at[h] = "commit" /\ "vcs" \notin ctx[h].done
      /\ ctx[h].vcs /\ Before["vcs"] \subseteq ctx[h].done
      /\ Here(h).wc # None /\ ~Here(h).conflict
    BY DEF IInv, Saga, Commit, Order, OnDisk
<1>1. CASE repo' = repo /\ Fail(h)
    BY <1>0, <1>1, FailKeeps, WrittenKeeps DEF Commit, Running
<1>2. ASSUME Accepted(h), repo' = [repo EXCEPT !.base = h],
             Order(h)', OnDisk(h)',
             h \in razed' \/ ("kitsu" \in ctx'[h].done => kitsu'.id = ctx'[h].kid)
      PROVE  IInv'
  <2>1. /\ repo'.id = repo.id /\ repo'.ready = repo.ready /\ repo'.base = h
        /\ repo.id = Here(h).wc /\ repo.ready /\ repo.base = None
        /\ UNCHANGED <<kitsu, folder, razed>>
      BY <1>2 DEF Accepted, Typed, RepoType, Commit
  <2>2. \A g \in Hubs \ {h} : Same(g)
      BY <1>0, Elsewhere
  <2>3. \A g \in Hubs : Order(g)' /\ OnDisk(g)'
      BY <1>2, <2>2, SameKeeps DEF IInv
  <2>4. \A g \in Hubs : Here(g)' = Here(g)
      BY <2>1 DEF Here
  <2>5. \A g \in Hubs \ {h} : Claim(g)' <=> Claim(g)
      BY <2>2, SameKeeps
  <2>6. \A g \in Hubs \ {h} : Claim(g) => Here(g).wc # repo.id
      BY <1>0, <2>1, CreationAssumption DEF Remote
  <2>7. Remote'
    <3>1. \A g \in Hubs : (Claim(g)' /\ repo'.id = Here(g)'.wc) => repo'.base = g
        BY <2>1, <2>4, <2>5, <2>6
    <3>2. \A f, g \in Hubs :
            (Claim(f)' /\ Claim(g)' /\ Here(f)'.wc = Here(g)'.wc) => f = g
        BY <1>0, <2>1, <2>4, <2>5, <2>6 DEF Remote
    <3>3. QED BY <1>0, <2>1, <3>1, <3>2 DEF Remote
  <2>8. ASSUME NEW g \in Hubs, g \notin razed' PROVE Untouched(g)'
    <3>1. CASE g = h
        BY <1>2, <2>1, <2>4, <2>8, <3>1 DEF Untouched
    <3>2. CASE g # h
      <4>1. Untouched(g) /\ ctx'[g] = ctx[g] /\ at'[g] = at[g]
          BY <2>1, <2>2, <2>8, <3>2 DEF IInv, Same
      <4>2. QED BY <2>1, <2>4, <2>5, <3>2, <4>1 DEF Untouched
    <3>3. QED BY <3>1, <3>2
  <2>9. QED BY <2>3, <2>7, <2>8 DEF IInv
<1>3. CASE Accepted(h) /\ repo' = [repo EXCEPT !.base = h] /\ Pass(h, "vcs")
  <2>1. /\ ctx'[h].done = ctx[h].done \cup {"vcs"} /\ at'[h] = "running"
        /\ ctx'[h].kid = ctx[h].kid /\ ctx'[h].vcs = ctx[h].vcs
        /\ Here(h)' = Here(h)
      BY <1>3 DEF Pass, Typed, Context, Commit, Here
  <2>2. Order(h)'
      BY <1>0, <2>1 DEF Order, Asked, Before, Steps
  <2>3. OnDisk(h)'
      BY <1>0, <2>1 DEF OnDisk, Exists
  <2>4. h \in razed' \/ ("kitsu" \in ctx'[h].done => kitsu'.id = ctx'[h].kid)
      BY <1>0, <2>1 DEF Commit, Untouched, Running
  <2>5. QED BY <1>2, <1>3, <2>2, <2>3, <2>4
<1>4. CASE Accepted(h) /\ repo' = [repo EXCEPT !.base = h] /\ Fail(h)
  <2>1. Order(h)' /\ ~Claim(h)' /\ at'[h] = "failed" /\ ctx'[h] = ctx[h]
      BY <1>0, <1>4, FailOrder
  <2>2. OnDisk(h)'
      BY <1>0, <2>1, StillOnDisk DEF Commit, Kept, Exists, Here
  <2>3. h \in razed' \/ ("kitsu" \in ctx'[h].done => kitsu'.id = ctx'[h].kid)
      BY <1>0, <2>1 DEF Commit, Untouched, Running
  <2>4. QED BY <1>2, <1>4, <2>1, <2>2, <2>3
<1>5. QED BY <1>1, <1>3, <1>4 DEF Commit

LEMMA SucceedKeeps ==
    ASSUME Typed, IInv, RootsApart, NEW h \in Hubs, Succeed(h)
    PROVE  IInv'
<1>0. /\ Order(h) /\ OnDisk(h) /\ (h \in razed \/ Untouched(h)) /\ Saga(h)
    BY DEF IInv, Saga
<1>1. at[h] = "running" /\ at'[h] = "created" /\ ctx'[h] = ctx[h]
    BY DEF Succeed, Typed
<1>2. Order(h)'
    BY <1>0, <1>1 DEF Succeed, Order, Asked
<1>3. (Claim(h)' <=> Claim(h)) /\ Here(h)' = Here(h)
    BY <1>1 DEF Succeed, world, Claim, Here
<1>4. OnDisk(h)'
    BY <1>0, <1>1, <1>3 DEF OnDisk, Exists
<1>5. h \in razed' \/ ("kitsu" \in ctx'[h].done => kitsu'.id = ctx'[h].kid)
    BY <1>0, <1>1 DEF Succeed, world, Untouched, Running
<1>6. QED BY <1>0, <1>1, <1>2, <1>3, <1>4, <1>5, Quiet DEF Succeed, world

LEMMA SagaKeeps ==
    ASSUME Typed, IInv, RootsApart, NEW h \in Hubs, Saga(h)
    PROVE  IInv'
<1>0. Order(h) /\ Running = {"running", "pull", "commit"}
      /\ {"preflight_kitsu", "preflight_vcs", "splash", "vfs_patch"}
            \subseteq Steps \ {"vcs", "kitsu", "scaffold", "manifests"}
    BY DEF IInv, Running, Steps
<1>1. CASE PreflightKitsu(h)
  <2>1. "vcs" \notin ctx[h].done /\ at[h] = "running" /\ Kept(h)
      BY <1>0, <1>1, DueMeans, WrittenKeeps DEF PreflightKitsu, world
  <2>2. QED BY <1>0, <1>1, <2>1, PassKeeps, FailKeeps DEF PreflightKitsu, world
<1>2. CASE PreflightVcs(h)
  <2>1. "vcs" \notin ctx[h].done /\ at[h] = "running" /\ Kept(h)
      BY <1>0, <1>2, DueMeans, WrittenKeeps DEF PreflightVcs, world
  <2>2. QED BY <1>0, <1>2, <2>1, PassKeeps, FailKeeps DEF PreflightVcs, world
<1>3. CASE StepSplash(h)
  <2>1. "vcs" \notin ctx[h].done /\ at[h] = "running" /\ Kept(h)
      BY <1>0, <1>3, DueMeans, WrittenKeeps DEF StepSplash, world
  <2>2. QED BY <1>0, <1>3, <2>1, PassKeeps, FailKeeps DEF StepSplash, world
<1>4. CASE StepVfsPatch(h)
  <2>1. "vcs" \notin ctx[h].done /\ at[h] = "running" /\ Kept(h)
      BY <1>0, <1>4, DueMeans, WrittenKeeps DEF StepVfsPatch
  <2>2. QED BY <1>0, <1>4, <2>1, PassKeeps, FailKeeps DEF StepVfsPatch
<1>5. QED
    BY <1>1, <1>2, <1>3, <1>4, StepKitsuKeeps, StepScaffoldKeeps,
       StepManifestsKeeps, SkipVcsKeeps, CreateRepositoryKeeps, PullKeeps,
       CommitKeeps, SucceedKeeps DEF Saga

(***************************************************************************)
(* The deletion of what a failed creation made.                            *)
(***************************************************************************)

LEMMA ReportsOrder ==
    ASSUME Typed, NEW h \in Hubs, Order(h), at[h] \in RollingBack,
           NEW next \in RollingBack, NEW ok \in BOOLEAN, Reports(h, next, ok)
    PROVE  /\ Order(h)' /\ ~Claim(h)' /\ at'[h] = next
           /\ ctx'[h].done = ctx[h].done /\ ctx'[h].kid = ctx[h].kid
<1>1. /\ at'[h] = next /\ ctx'[h].done = ctx[h].done
      /\ ctx'[h].kid = ctx[h].kid /\ ctx'[h].vcs = ctx[h].vcs
    BY DEF Typed, Reports, Context
<1>2. QED BY <1>1 DEF Order, Claim, Asked, RollingBack

LEMMA OthersOf ==
    ASSUME NEW h \in Hubs, NEW g \in Hubs \ {h}, at[g] \notin Idle
    PROVE  g \in Others(h)
BY DEF Others

LEMMA RollbackKitsuKeeps ==
    ASSUME Typed, IInv, RootsApart, NEW h \in Hubs, RollbackKitsu(h)
    PROVE  IInv'
<1>0. Order(h) /\ OnDisk(h) /\ Deletion(h) /\ at[h] = "rb_kitsu"
    BY DEF IInv, Deletion, RollbackKitsu
<1>1. /\ Order(h)' /\ ~Claim(h)' /\ at'[h] = "rb_repo"
      /\ ctx'[h].done = ctx[h].done /\ ctx'[h].kid = ctx[h].kid
    BY <1>0, ReportsOrder DEF RollbackKitsu, RollingBack
<1>2. OnDisk(h)'
    BY <1>0, <1>1, StillOnDisk DEF RollbackKitsu, Kept, Exists, Here
<1>3. CASE kitsu' = kitsu
    BY <1>0, <1>1, <1>2, <1>3, Quiet DEF RollbackKitsu, Running
<1>4. CASE /\ ctx[h].kid # None /\ ctx[h].kid = kitsu.id /\ kitsu' = NoProject
           /\ razed' = razed \cup {g \in Others(h) : ctx[g].kid = kitsu.id}
  <2>1. \A g \in Hubs \ {h} : Same(g)
      BY <1>0, Elsewhere
  <2>2. \A g \in Hubs : Order(g)' /\ OnDisk(g)'
      BY <1>1, <1>2, <2>1, SameKeeps DEF IInv
  <2>3. \A g \in Hubs : Claim(g)' => Claim(g) /\ Here(g)'.wc = Here(g).wc
      BY <1>1, <2>1, SameKeeps DEF Same
  <2>4. Remote'
      BY <2>3 DEF RollbackKitsu, IInv, Remote
  <2>5. ASSUME NEW g \in Hubs, g \notin razed' PROVE Untouched(g)'
    <3>1. CASE g = h
        BY <1>1, <3>1 DEF Untouched, Running
    <3>2. CASE g # h
      <4>1. Untouched(g) /\ ctx'[g] = ctx[g] /\ at'[g] = at[g]
          BY <1>4, <2>1, <2>5, <3>2 DEF IInv, Same
      <4>2. at[g] \in Running \cup {"failed", "created"} => ctx[g].kid # kitsu.id
          BY <1>4, <2>5, <3>2, OthersOf DEF Running, Idle
      <4>3. Claim(g)' => repo'.id = Here(g)'.wc /\ repo'.ready
          BY <2>3, <4>1 DEF RollbackKitsu, Untouched
      <4>4. QED BY <4>1, <4>2, <4>3 DEF Untouched
    <3>3. QED BY <3>1, <3>2
  <2>6. QED BY <2>2, <2>4, <2>5 DEF IInv
<1>5. QED BY <1>3, <1>4 DEF RollbackKitsu

LEMMA RollbackRepoKeeps ==
    ASSUME Typed, IInv, RootsApart, NEW h \in Hubs, RollbackRepo(h)
    PROVE  IInv'
<1>0. Order(h) /\ OnDisk(h) /\ Deletion(h) /\ at[h] = "rb_repo"
    BY DEF IInv, Deletion, RollbackRepo
<1>1. /\ Order(h)' /\ ~Claim(h)' /\ at'[h] = "rb_folder"
      /\ ctx'[h].done = ctx[h].done /\ ctx'[h].kid = ctx[h].kid
    BY <1>0, ReportsOrder DEF RollbackRepo, RollingBack
<1>2. OnDisk(h)'
    BY <1>0, <1>1, StillOnDisk DEF RollbackRepo, Kept, Exists, Here
<1>3. CASE repo' = repo
  <2>1. \A g \in razed : g \in razed'
      BY DEF RollbackRepo
  <2>2. QED BY <1>0, <1>1, <1>2, <1>3, <2>1, Quiet DEF RollbackRepo, Running
<1>4. CASE /\ repo' = NoRepo
           /\ razed' = razed \cup {g \in Others(h) :
                                    repo.id # None /\ Here(g).wc = repo.id}
  <2>1. \A g \in Hubs \ {h} : Same(g)
      BY <1>0, Elsewhere
  <2>2. \A g \in Hubs : Order(g)' /\ OnDisk(g)'
      BY <1>1, <1>2, <2>1, SameKeeps DEF IInv
  <2>3. \A g \in Hubs : Claim(g)' =>
            g # h /\ Claim(g) /\ Here(g)'.wc = Here(g).wc /\ Here(g).wc # None
      BY <1>1, <2>1, SameKeeps DEF Same, IInv, OnDisk
  <2>4. repo'.id = None /\ ~repo'.ready
      BY <1>4 DEF NoRepo
  <2>5. Remote'
      BY <2>3, <2>4 DEF IInv, Remote
  <2>6. ASSUME NEW g \in Hubs, g \notin razed' PROVE Untouched(g)'
    <3>1. g # h => Untouched(g) /\ ctx'[g] = ctx[g] /\ at'[g] = at[g]
        BY <1>4, <2>1, <2>6 DEF IInv, Same
    <3>2. ~Claim(g)'
      <4>1. SUFFICES ASSUME Claim(g)' PROVE FALSE
          OBVIOUS
      <4>2. g # h /\ Claim(g) /\ at[g] \notin Idle
          BY <2>3, <4>1 DEF IInv, Order, Claim, Idle
      <4>3. repo.id = Here(g).wc /\ repo.id # None
          BY <2>3, <3>1, <4>1, <4>2 DEF Untouched
      <4>4. QED BY <1>4, <2>6, <4>2, <4>3, OthersOf
    <3>3. QED BY <1>1, <3>1, <3>2 DEF RollbackRepo, Untouched, Running
  <2>7. QED BY <2>2, <2>5, <2>6 DEF IInv
<1>5. QED BY <1>3, <1>4 DEF RollbackRepo

LEMMA RollbackFolderKeeps ==
    ASSUME Typed, IInv, RootsApart, NEW h \in Hubs, RollbackFolder(h)
    PROVE  IInv'
<1>1. /\ Order(h)' /\ OnDisk(h)' /\ ~Claim(h)'
      /\ at'[h] \in Idle /\ ctx'[h] = Fresh
    BY OverOrder DEF RollbackFolder, Idle
<1>2. \A g \in Hubs \ {h} : at'[g] = at[g]
    BY DEF RollbackFolder, Over, Typed
<1>3. \A g \in razed : g \in razed' \/ at'[g] \in Idle
    BY <1>1, <1>2, OthersOf DEF RollbackFolder, Typed
<1>4. QED BY <1>1, <1>3, Quiet DEF RollbackFolder, Deletion, Idle, Running

LEMMA InitIInv == Init => IInv
<1> SUFFICES ASSUME Init PROVE IInv
    OBVIOUS
<1>1. \A h \in Hubs : ctx[h].done = {} /\ at[h] = "form"
    BY DEF Init, Fresh
<1>2. \A h \in Hubs : Order(h) /\ OnDisk(h) /\ Untouched(h) /\ ~Claim(h)
    BY <1>1 DEF Order, OnDisk, Untouched, Claim, Running
<1>3. repo.ready => repo.id # None
  <2>1. \A id \in NewId({}) : id \in Ids
      BY NewIdIsFree
  <2>2. CASE repo = NoRepo
      BY <2>2 DEF NoRepo
  <2>3. CASE repo \in [id : NewId({}), by : {Outside}, ready : {TRUE}, base : {Outside}]
    <3>1. repo.id \in NewId({})
        BY <2>3
    <3>2. QED BY <2>1, <3>1, CreationAssumption
  <2>4. QED BY <2>2, <2>3 DEF Init
<1>4. QED BY <1>2, <1>3 DEF IInv, Remote

LEMMA NextIInv == Typed /\ IInv /\ RootsApart /\ [Next]_vars => IInv'
<1> SUFFICES ASSUME Typed, IInv, RootsApart, [Next]_vars PROVE IInv'
    OBVIOUS
<1>1. CASE UNCHANGED vars
    BY <1>1 DEF vars, IInv, Remote, Order, OnDisk, Untouched, Claim, Asked, Here, Exists
<1>2. CASE Next
  <2>1. PICK h \in Hubs : Dialog(h) \/ Saga(h) \/ Deletion(h) \/ Crash(h)
      BY <1>2 DEF Next
  <2>2. QED
      BY <2>1, DialogKeeps, SagaKeeps, RollbackKitsuKeeps, RollbackRepoKeeps,
         RollbackFolderKeeps DEF Deletion
<1>3. QED BY <1>1, <1>2

THEOREM InductiveInvariant ==
    ASSUME RootsApart
    PROVE  Spec => []IInv
<1>1. Typed /\ IInv /\ [Next]_vars => Typed' /\ IInv'
    BY NextTyped, NextIInv
<1>2. Init => Typed /\ IInv
    BY InitTyped, InitIInv
<1>3. QED BY <1>1, <1>2, PTL DEF Spec

(* Among Hubs with workspace roots of their own, however many there are and
   whatever fails: two creations never both succeed on one repository
   (initialize_and_commit and the rollbacks that come in between).           *)
THEOREM OneWinnerAlways ==
    ASSUME RootsApart
    PROVE  Spec => []OneWinner
<1>1. IInv => OneWinner
    BY DEF IInv, Remote, Order, OneWinner, Claim, Asked, Steps
<1>2. QED BY <1>1, InductiveInvariant, PTL

(* Among such Hubs, a creation that reported success is complete until the
   rollback of another one takes something away (the steps of _run).         *)
THEOREM SuccessIsCompleteAlways ==
    ASSUME RootsApart
    PROVE  Spec => []SuccessIsComplete
<1>1. IInv => SuccessIsComplete
  <2>1. SUFFICES ASSUME IInv, NEW h \in Hubs, at[h] = "created", h \notin razed
                 PROVE  /\ ctx[h].kid # None /\ kitsu.id = ctx[h].kid
                        /\ Here(h).tree /\ Here(h).manifest = ctx[h].kid
                        /\ ctx[h].vcs =>
                            /\ repo.ready /\ repo.base = h
                            /\ Here(h).wc = repo.id /\ ~Here(h).conflict
      BY DEF SuccessIsComplete
  <2>2. Order(h) /\ OnDisk(h) /\ Untouched(h) /\ Remote
      BY <2>1 DEF IInv
  <2>3. /\ {"kitsu", "scaffold", "manifests", "vcs"} \subseteq ctx[h].done
        /\ ctx[h].vcs => Claim(h)
      BY <2>1, <2>2 DEF Order, Asked, Steps, Claim
  <2>4. ctx[h].kid # None /\ kitsu.id = ctx[h].kid
      BY <2>1, <2>2, <2>3 DEF OnDisk, Untouched
  <2>5. Here(h).tree /\ Here(h).manifest = ctx[h].kid
      BY <2>2, <2>3 DEF OnDisk
  <2>6. ASSUME ctx[h].vcs
        PROVE  /\ repo.ready /\ repo.base = h
               /\ Here(h).wc = repo.id /\ ~Here(h).conflict
      BY <2>2, <2>3, <2>6 DEF OnDisk, Untouched, Remote
  <2>7. QED BY <2>4, <2>5, <2>6
<1>2. QED BY <1>1, InductiveInvariant, PTL

(***************************************************************************)
(* Who made what, on roots shared or not: a creation that goes on or has   *)
(* failed knows of everything that bears its mark.                         *)
(***************************************************************************)

Going == Running \cup {"failed", "created", "rb_kitsu"}

Owned(h) ==
    /\ "kitsu" \in ctx[h].done => ctx[h].kid # None
    /\ HasSideEffects(h) => "kitsu" \in ctx[h].done
    /\ at[h] \in {"pull", "commit", "rb_kitsu"} => "kitsu" \in ctx[h].done
    /\ \A r \in Roots : folder[r].by = h => r = Root[h]
    /\ at[h] \in Going =>
        /\ (kitsu.by = h /\ "kitsuLost" \notin Faults) => "kitsu" \in ctx[h].done
        /\ \A r \in Roots : folder[r].by = h => "kitsu" \in ctx[h].done
    /\ at[h] \in Going \cup {"rb_repo"} =>
        (repo.by = h => "kitsu" \in ctx[h].done /\ ctx[h].vcs)
    /\ (at[h] \in {"rb_repo", "rb_folder"} /\ ctx[h].ok) => kitsu.by # h
    /\ (at[h] = "rb_folder" /\ ctx[h].ok) => repo.by # h
    /\ at[h] = "deleted" =>
        /\ kitsu.by # h /\ repo.by # h
        /\ "nasBusy" \notin Faults => \A r \in Roots : folder[r].by # h

OInv == \A h \in Hubs : Owned(h)

\* Nothing gets the mark of g, and what bears it already keeps it at most.
NoNewMark(g) ==
    /\ kitsu'.by = g => kitsu.by = g
    /\ repo'.by = g => repo.by = g
    /\ \A r \in Roots : folder'[r].by = g => folder[r].by = g

(* A step of one Hub makes nothing in the name of another.                  *)
LEMMA MarksElsewhere ==
    ASSUME Typed, NEW h \in Hubs, NEW g \in Hubs \ {h},
           Dialog(h) \/ Saga(h) \/ Deletion(h) \/ Crash(h)
    PROVE  NoNewMark(g) /\ ctx'[g] = ctx[g] /\ at'[g] = at[g]
<1>1. /\ g # Outside /\ g # None /\ g # h /\ Root[h] \in Roots
      /\ NoProject.by # g /\ NoRepo.by # g /\ NoFolder.by # g
      /\ (Written(h).by = g => folder[Root[h]].by = g) /\ Written(h) \in Folder
    BY RootType, WrittenTyped, CreationAssumption
    DEF NoProject, NoRepo, NoFolder, Written, Exists, Here, Typed
<1>2. CASE Dialog(h) \/ Crash(h)
  <2>1. CASE CreateProject(h)
    <3>1. \A r \in Roots : folder'[r] = Disowned(folder[r], h) /\ folder[r] \in Folder
        BY <2>1 DEF CreateProject, Typed
    <3>2. \A r \in Roots : folder'[r].by = g => folder[r].by = g
        BY <1>1, <3>1 DEF Disowned, Folder
    <3>3. (kitsu'.by = g => kitsu.by = g) /\ (repo'.by = g => repo.by = g)
        BY <1>1, <2>1 DEF CreateProject, Disowned, Typed, KitsuType, RepoType
    <3>4. ctx'[g] = ctx[g] /\ at'[g] = at[g]
        BY <1>1, <2>1 DEF CreateProject, Typed
    <3>5. QED BY <3>2, <3>3, <3>4 DEF NoNewMark
  <2>2. CASE CreationRefused(h) \/ Retry(h) \/ Back(h) \/ Rollback(h) \/ Crash(h)
      BY <1>1, <2>2
      DEF CreationRefused, Retry, Back, Rollback, Crash, Over, vars, world, Typed, NoNewMark
  <2>3. QED BY <1>2, <2>1, <2>2 DEF Dialog
<1>3. CASE Saga(h)
  <2>1. CASE PreflightKitsu(h) \/ PreflightVcs(h) \/ StepSplash(h) \/ SkipVcs(h)
             \/ Succeed(h)
      BY <1>1, <2>1
      DEF PreflightKitsu, PreflightVcs, StepSplash, SkipVcs, Succeed, Pass, Fail,
          world, Typed, NoNewMark
  <2>2. CASE StepKitsu(h) \/ CreateRepository(h)
    <3>1. (kitsu'.by = g => kitsu.by = g) /\ (repo'.by = g => repo.by = g)
        BY <1>1, <2>2 DEF StepKitsu, CreateRepository
    <3>2. ctx'[g] = ctx[g] /\ at'[g] = at[g]
        BY <1>1, <2>2 DEF StepKitsu, CreateRepository, KitsuReady, Fail, Typed
    <3>3. QED BY <2>2, <3>1, <3>2 DEF StepKitsu, CreateRepository, NoNewMark
  <2>3. CASE Commit(h)
      BY <1>1, <2>3 DEF Commit, Pass, Fail, Typed, RepoType, NoNewMark
  <2>4. ASSUME folder' = folder \/
               \E x \in Folder : /\ x.by = Written(h).by
                                 /\ folder' = [folder EXCEPT ![Root[h]] = x]
        PROVE  \A r \in Roots : folder'[r].by = g => folder[r].by = g
      BY <1>1, <2>4 DEF Typed
  <2>5. CASE StepScaffold(h) \/ StepVfsPatch(h)
    <3>1. /\ [Written(h) EXCEPT !.tree = TRUE] \in Folder
          /\ [Written(h) EXCEPT !.tree = TRUE].by = Written(h).by
        BY <1>1 DEF Folder
    <3>2. \A r \in Roots : folder'[r].by = g => folder[r].by = g
        BY <1>1, <2>4, <2>5, <3>1 DEF StepScaffold, StepVfsPatch
    <3>3. QED
        BY <1>1, <2>5, <3>2
        DEF StepScaffold, StepVfsPatch, Pass, Fail, Typed, NoNewMark
  <2>6. CASE StepManifests(h)
    <3>1. \A i \in Ids \cup {None} :
            /\ [Written(h) EXCEPT !.manifest = i] \in Folder
            /\ [Written(h) EXCEPT !.manifest = i].by = Written(h).by
        BY <1>1 DEF Folder
    <3>2. ctx[h].kid \in Ids \cup {None}
        BY DEF Typed, Context
    <3>3. \A r \in Roots : folder'[r].by = g => folder[r].by = g
        BY <2>4, <2>6, <3>1, <3>2 DEF StepManifests
    <3>4. QED
        BY <1>1, <2>6, <3>3 DEF StepManifests, Pass, Fail, Typed, NoNewMark
  <2>7. CASE Pull(h)
    <3>1. \A c \in BOOLEAN :
            /\ [Written(h) EXCEPT !.wc = repo.id, !.conflict = c] \in Folder
            /\ [Written(h) EXCEPT !.wc = repo.id, !.conflict = c].by = Written(h).by
        BY <1>1 DEF Folder, Typed, RepoType
    <3>2. (Here(h).conflict \/ repo.base # None) \in BOOLEAN
        BY <1>1 DEF Here, Folder, Typed
    <3>3. \A r \in Roots : folder'[r].by = g => folder[r].by = g
        BY <2>4, <2>7, <3>1, <3>2 DEF Pull
    <3>4. QED
        BY <1>1, <2>7, <3>3 DEF Pull, Fail, Typed, NoNewMark
  <2>8. QED BY <1>3, <2>1, <2>2, <2>3, <2>5, <2>6, <2>7 DEF Saga
<1>4. CASE Deletion(h)
  <2>1. CASE RollbackKitsu(h) \/ RollbackRepo(h)
      BY <1>1, <2>1 DEF RollbackKitsu, RollbackRepo, Reports, Typed, NoNewMark
  <2>2. CASE RollbackFolder(h)
      BY <1>1, <2>2 DEF RollbackFolder, Over, Typed, Folder, NoNewMark
  <2>3. QED BY <1>4, <2>1, <2>2 DEF Deletion
<1>5. QED BY <1>2, <1>3, <1>4

LEMMA OwnedElsewhere ==
    ASSUME NEW g, Owned(g), NoNewMark(g), ctx'[g] = ctx[g], at'[g] = at[g]
    PROVE  Owned(g)'
BY DEF Owned, NoNewMark, HasSideEffects

LEMMA OwnedDialog ==
    ASSUME Typed, NEW h \in Hubs, Owned(h), Dialog(h) \/ Crash(h)
    PROVE  Owned(h)'
<1>0. h # Outside /\ h # None /\ Outside # None
    BY CreationAssumption
<1>1. CASE CreateProject(h)
  <2>1. ctx'[h].done = {} /\ at'[h] = "running"
      BY <1>1 DEF CreateProject, Typed, Fresh
  <2>2. kitsu'.by # h /\ repo'.by # h
      BY <1>0, <1>1 DEF CreateProject, Disowned, Typed, KitsuType, RepoType
  <2>3. ASSUME NEW r \in Roots PROVE folder'[r].by # h
    <3>1. folder'[r] = Disowned(folder[r], h) /\ folder[r] \in Folder
        BY <1>1 DEF CreateProject, Typed
    <3>2. QED BY <1>0, <3>1 DEF Disowned, Folder
  <2>4. QED BY <2>1, <2>2, <2>3 DEF Owned, HasSideEffects
<1>2. CASE CreationRefused(h)
    BY <1>2 DEF CreationRefused, vars, Owned, HasSideEffects
<1>3. CASE Retry(h)
  <2>1. at'[h] = "running" /\ at[h] = "failed" /\ UNCHANGED <<world, ctx>>
      BY <1>3 DEF Retry, Typed
  <2>2. QED BY <2>1 DEF world, Owned, HasSideEffects, Going, Running
<1>4. CASE Back(h) \/ Crash(h)
  <2>1. at'[h] = "form" /\ ctx'[h].done = {} /\ UNCHANGED world
      BY <1>4 DEF Back, Crash, Over, Typed, Fresh
  <2>2. QED BY <2>1 DEF world, Owned, HasSideEffects, Going, Running
<1>5. CASE Rollback(h)
  <2>1. /\ at'[h] = "rb_kitsu" /\ at[h] = "failed" /\ UNCHANGED world
        /\ ctx'[h].done = ctx[h].done /\ ctx'[h].kid = ctx[h].kid
        /\ ctx'[h].vcs = ctx[h].vcs /\ HasSideEffects(h)
      BY <1>5 DEF Rollback, CanRollback, Typed, Context
  <2>2. QED BY <2>1 DEF world, Owned, HasSideEffects, Going, Running
<1>6. QED BY <1>1, <1>2, <1>3, <1>4, <1>5 DEF Dialog

(* A saga step after the Kitsu one may mark anything: the context tells.    *)
LEMMA OwnedLate ==
    ASSUME NEW h \in Hubs, Owned(h), "kitsu" \in ctx[h].done,
           at[h] \in Running, at'[h] \in Running \cup {"failed", "created"},
           ctx'[h].vcs = ctx[h].vcs, ctx'[h].kid = ctx[h].kid,
           ctx[h].done \subseteq ctx'[h].done,
           \A r \in Roots : folder'[r].by = h => r = Root[h],
           repo'.by = h => repo.by = h \/ ctx[h].vcs
    PROVE  Owned(h)'
BY DEF Owned, HasSideEffects, Going, Running

LEMMA OwnedSaga ==
    ASSUME Typed, NEW h \in Hubs, Owned(h), Saga(h)
    PROVE  Owned(h)'
<1>0. Root[h] \in Roots /\ Running = {"running", "pull", "commit"}
    BY RootType DEF Running
<1>1. CASE PreflightKitsu(h) \/ PreflightVcs(h)
  <2>1. /\ at[h] = "running" /\ at'[h] \in {"running", "failed"} /\ UNCHANGED world
        /\ ctx'[h].vcs = ctx[h].vcs /\ ctx'[h].kid = ctx[h].kid
        /\ ctx'[h].done \cap SideEffectSteps = ctx[h].done \cap SideEffectSteps
      BY <1>1
      DEF PreflightKitsu, PreflightVcs, Due, Pass, Fail, Typed, Context, SideEffectSteps
  <2>2. "kitsu" \in ctx'[h].done <=> "kitsu" \in ctx[h].done
      BY <2>1 DEF SideEffectSteps, Steps
  <2>3. QED BY <1>0, <2>1, <2>2 DEF world, Owned, HasSideEffects, Going
<1>2. CASE StepKitsu(h)
  <2>1. at[h] = "running" /\ UNCHANGED <<repo, folder>>
      BY <1>2 DEF StepKitsu, Due
  <2>2. CASE (kitsu' = kitsu \/ "kitsuLost" \in Faults) /\ Fail(h)
    <3>1. at'[h] = "failed" /\ ctx' = ctx
        BY <2>2 DEF Fail, Typed
    <3>2. QED BY <1>0, <2>1, <2>2, <3>1 DEF Owned, HasSideEffects, Going
  <2>3. CASE \E id \in Ids : KitsuReady(h, id)
    <3>1. /\ "kitsu" \in ctx'[h].done /\ ctx'[h].kid # None
          /\ at'[h] = "running" /\ ctx'[h].vcs = ctx[h].vcs
        BY <2>1, <2>3, CreationAssumption DEF KitsuReady, Typed, Context
    <3>2. QED BY <1>0, <2>1, <3>1 DEF Owned, HasSideEffects, Going
  <2>4. kitsu.id # None => kitsu.id \in Ids
      BY DEF Typed, KitsuType
  <2>5. QED BY <1>2, <2>2, <2>3, <2>4, NewIdIsFree DEF StepKitsu, Goes
<1>3. CASE StepScaffold(h) \/ StepManifests(h) \/ StepVfsPatch(h)
  <2>1. /\ at[h] = "running" /\ at'[h] \in {"running", "failed"} /\ repo' = repo
        /\ ctx'[h].vcs = ctx[h].vcs /\ ctx'[h].kid = ctx[h].kid
        /\ ctx[h].done \subseteq ctx'[h].done
      BY <1>3 DEF StepScaffold, StepManifests, StepVfsPatch, Due, Pass, Fail, Typed, Context
  <2>2. "kitsu" \in ctx[h].done
      BY <1>3 DEF StepScaffold, StepManifests, StepVfsPatch, Due, Before, Steps
  <2>3. \A r \in Roots \ {Root[h]} : folder'[r] = folder[r]
      BY <1>0, <1>3 DEF StepScaffold, StepManifests, StepVfsPatch, Typed
  <2>4. QED BY <1>0, <2>1, <2>2, <2>3, OwnedLate DEF Owned
<1>4. CASE StepSplash(h) \/ SkipVcs(h) \/ Succeed(h)
  <2>1. /\ at[h] = "running" /\ at'[h] \in {"running", "failed", "created"}
        /\ UNCHANGED world
        /\ ctx'[h].vcs = ctx[h].vcs /\ ctx'[h].kid = ctx[h].kid
        /\ ctx[h].done \subseteq ctx'[h].done
      BY <1>4 DEF StepSplash, SkipVcs, Succeed, Due, Pass, Fail, Typed, Context
  <2>2. "kitsu" \in ctx[h].done
      BY <1>4 DEF StepSplash, SkipVcs, Succeed, Due, Asked, Before, Steps
  <2>3. QED BY <1>0, <2>1, <2>2, OwnedLate DEF world, Owned
<1>5. CASE CreateRepository(h)
  <2>1. /\ at[h] = "running" /\ at'[h] \in {"pull", "failed"} /\ folder' = folder
        /\ ctx' = ctx /\ ctx[h].vcs
      BY <1>5 DEF CreateRepository, Due, Fail, Typed
  <2>2. "kitsu" \in ctx[h].done
      BY <1>5 DEF CreateRepository, Due, Before, Steps
  <2>3. QED BY <1>0, <2>1, <2>2, OwnedLate DEF Owned
<1>6. CASE Pull(h)
  <2>1. /\ at[h] = "pull" /\ at'[h] \in {"commit", "failed"} /\ ctx' = ctx /\ repo' = repo
      BY <1>6 DEF Pull, Fail, Typed
  <2>2. "kitsu" \in ctx[h].done
      BY <2>1 DEF Owned
  <2>3. \A r \in Roots \ {Root[h]} : folder'[r] = folder[r]
      BY <1>0, <1>6 DEF Pull, Typed
  <2>4. QED BY <1>0, <2>1, <2>2, <2>3, OwnedLate DEF Owned
<1>7. CASE Commit(h)
  <2>1. /\ at[h] = "commit" /\ at'[h] \in {"running", "failed"} /\ folder' = folder
        /\ ctx'[h].vcs = ctx[h].vcs /\ ctx'[h].kid = ctx[h].kid
        /\ ctx[h].done \subseteq ctx'[h].done
      BY <1>7 DEF Commit, Pass, Fail, Typed, Context
  <2>2. repo'.by = repo.by
      BY <1>7 DEF Commit, Typed, RepoType
  <2>3. "kitsu" \in ctx[h].done
      BY <2>1 DEF Owned
  <2>4. QED BY <1>0, <2>1, <2>2, <2>3, OwnedLate DEF Owned
<1>8. QED BY <1>1, <1>2, <1>3, <1>4, <1>5, <1>6, <1>7 DEF Saga

LEMMA OwnedDeletion ==
    ASSUME Typed, NEW h \in Hubs, Owned(h), Deletion(h)
    PROVE  Owned(h)'
<1>0. Root[h] \in Roots /\ h # Outside /\ h # None
    BY RootType, CreationAssumption
<1>1. CASE RollbackKitsu(h)
  <2>1. /\ at[h] = "rb_kitsu" /\ at'[h] = "rb_repo" /\ UNCHANGED <<repo, folder>>
        /\ ctx'[h].vcs = ctx[h].vcs /\ ctx'[h].kid = ctx[h].kid
        /\ ctx'[h].done = ctx[h].done
      BY <1>1 DEF RollbackKitsu, Reports, Typed, Context
  <2>2. ctx'[h].ok => kitsu'.by # h
    <3>1. CASE ctx[h].kid = None
        BY <1>1, <2>1, <3>1 DEF RollbackKitsu, Owned, Going
    <3>2. CASE kitsu' = NoProject
        BY <1>0, <3>2 DEF NoProject
    <3>3. CASE Reports(h, "rb_repo", FALSE)
      <4>1. ~ctx'[h].ok
          BY <3>3 DEF Reports, Typed, Context
      <4>2. QED BY <4>1
    <3>4. QED BY <1>1, <3>1, <3>2, <3>3 DEF RollbackKitsu
  <2>3. QED BY <2>1, <2>2 DEF Owned, HasSideEffects, Going, Running
<1>2. CASE RollbackRepo(h)
  <2>1. /\ at[h] = "rb_repo" /\ at'[h] = "rb_folder" /\ UNCHANGED <<kitsu, folder>>
        /\ ctx'[h].vcs = ctx[h].vcs /\ ctx'[h].kid = ctx[h].kid
        /\ ctx'[h].done = ctx[h].done /\ (ctx'[h].ok => ctx[h].ok)
      BY <1>2 DEF RollbackRepo, Reports, Typed, Context
  <2>2. ctx'[h].ok => repo'.by # h
    <3>1. CASE ~ctx[h].vcs
        BY <1>2, <2>1, <3>1 DEF RollbackRepo, Owned
    <3>2. CASE repo' = NoRepo
        BY <1>0, <3>2 DEF NoRepo
    <3>3. CASE Reports(h, "rb_folder", FALSE)
      <4>1. ~ctx'[h].ok
          BY <3>3 DEF Reports, Typed, Context
      <4>2. QED BY <4>1
    <3>4. QED BY <1>2, <3>1, <3>2, <3>3 DEF RollbackRepo
  <2>3. QED BY <2>1, <2>2 DEF Owned, HasSideEffects, Going, Running
<1>3. CASE RollbackFolder(h)
  <2>1. /\ at[h] = "rb_folder" /\ UNCHANGED <<kitsu, repo>>
        /\ at'[h] = (IF ctx[h].ok THEN "deleted" ELSE "not_deleted")
        /\ ctx'[h].done = {}
      BY <1>3 DEF RollbackFolder, Over, Typed, Fresh
  <2>2. "nasBusy" \notin Faults => \A r \in Roots : folder'[r].by # h
    <3>1. "nasBusy" \notin Faults => folder' = [folder EXCEPT ![Root[h]] = NoFolder]
        BY <1>3 DEF RollbackFolder, Goes
    <3>2. QED BY <1>0, <3>1 DEF Owned, Typed, NoFolder
  <2>3. \A r \in Roots : folder'[r].by = h => folder[r].by = h
      BY <1>0, <1>3 DEF RollbackFolder, Typed, Folder, NoFolder
  <2>4. QED BY <2>1, <2>2, <2>3 DEF Owned, HasSideEffects, Going, Running
<1>4. QED BY <1>1, <1>2, <1>3 DEF Deletion

LEMMA InitOwned == Init => OInv
<1> SUFFICES ASSUME Init, NEW h \in Hubs PROVE Owned(h)
    BY DEF OInv
<1>1. h # Outside /\ h # None
    BY CreationAssumption
<1>2. at[h] = "form" /\ ctx[h].done = {} /\ \A r \in Roots : folder[r].by # h
    BY <1>1 DEF Init, Fresh, NoFolder
<1>3. QED BY <1>2 DEF Owned, HasSideEffects, Going, Running

LEMMA NextOwned ==
    ASSUME Typed, OInv, [Next]_vars
    PROVE  OInv'
<1>1. CASE UNCHANGED vars
    BY <1>1 DEF vars, OInv, Owned, HasSideEffects
<1>2. CASE Next
  <2>1. PICK h \in Hubs : Dialog(h) \/ Saga(h) \/ Deletion(h) \/ Crash(h)
      BY <1>2 DEF Next
  <2>2. Owned(h)'
      BY <2>1, OwnedDialog, OwnedSaga, OwnedDeletion DEF OInv
  <2>3. ASSUME NEW g \in Hubs \ {h} PROVE Owned(g)'
    <3>1. NoNewMark(g) /\ ctx'[g] = ctx[g] /\ at'[g] = at[g]
        BY <2>1, MarksElsewhere
    <3>2. QED BY <3>1, OwnedElsewhere DEF OInv
  <2>4. QED BY <2>2, <2>3 DEF OInv
<1>3. QED BY <1>1, <1>2

THEOREM Ownership == Spec => []OInv
<1>1. Typed /\ OInv /\ [Next]_vars => Typed' /\ OInv'
    BY NextTyped, NextOwned
<1>2. Init => Typed /\ OInv
    BY InitTyped, InitOwned
<1>3. QED BY <1>1, <1>2, PTL DEF Spec

(* However many Hubs create the project, on shared roots or not: a failed
   creation whose dialog offers no deletion has left nothing behind, unless
   Kitsu made a project and lost its answer (has_side_effects, can_rollback). *)
THEOREM FailureOwnsUpAlways ==
    ASSUME "kitsuLost" \notin Faults
    PROVE  Spec => []FailureOwnsUp
<1>1. OInv => FailureOwnsUp
  <2>1. SUFFICES ASSUME OInv, NEW h \in Hubs, at[h] = "failed", ~CanRollback(h)
                 PROVE  /\ kitsu.by # h /\ repo.by # h
                        /\ \A r \in Roots : folder[r].by # h
      BY DEF FailureOwnsUp
  <2>2. Owned(h)
      BY <2>1 DEF OInv
  <2>3. "kitsu" \notin ctx[h].done
      BY <2>1, <2>2 DEF CanRollback, HasSideEffects, SideEffectSteps, Steps, Owned
  <2>4. QED BY <2>1, <2>2, <2>3 DEF Owned, Going
<1>2. QED BY <1>1, Ownership, PTL

(* However many Hubs create the project, on shared roots or not: a rollback
   that reports success has left nothing that the creation made, unless a busy
   file was passed over (rollback, destroy_project, delete_project_folder).  *)
THEOREM DeletedMeansGoneAlways ==
    ASSUME "nasBusy" \notin Faults
    PROVE  Spec => []DeletedMeansGone
<1>1. OInv => DeletedMeansGone
    BY DEF OInv, Owned, DeletedMeansGone
<1>2. QED BY <1>1, Ownership, PTL
=============================================================================
