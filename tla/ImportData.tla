------------------------------ MODULE ImportData ----------------------------
(* What an import makes in Kitsu of the production in an archive, step after  *)
(* step: each item is looked up by name or made, an item whose call fails is  *)
(* left out with a warning, and the maps from the archive's items to those of *)
(* the studio carry what the later steps may hang on the earlier ones.  Shots *)
(* stand for all that hangs in something by name: assets in types, episodes.  *)
EXTENDS Naturals, FiniteSets, Functions, Lists

CONSTANTS
    Scenes,       \* << names >> of the sequences in the archive
    Shots,        \* << [name, in] >>
    TaskList,     \* << [on, status] >>, on the number of a shot
    Discussions,      \* the comment lists tried: << [on, parent, at] >>, parent 0 if none
    Listed,       \* statuses in the archive's studio folder
    Known,        \* statuses the studio has at the start
    MaxLost       \* bound on the calls that fail

Default == "default"
Statuses == {TaskList[t].status : t \in DOMAIN TaskList}
ASSUME DataAssumption ==
    /\ Default \notin Listed \cup Known \cup Statuses
    /\ \A i \in DOMAIN Shots : Shots[i] = [name |-> Shots[i].name, in |-> Shots[i].in]
    /\ \A d \in Discussions : d \in Seq([on : Nat, parent : Nat, at : Nat])
    /\ MaxLost \in Nat

VARIABLES
    step,       \* the step that is next, "done" or "failed"
    sameServer, \* the archive was made on this Kitsu server
    admin,      \* the importing user is an administrator
    rights,     \* role of the importing user in the production
    thread,     \* comments of the archive
    statuses,   \* of the studio
    links,      \* statuses of the production
    made,       \* sequences and shots of the production
    context,    \* maps: statuses that are resolved, sequences, shot -> <<sequence, name>>
    tasks,      \* task -> [on, status, file]
    comments,   \* << [id, under] >>, under 0 at the top
    records,    \* tasks whose work files and hours are recorded
    lost        \* the items whose calls have failed

dataVars == <<step, sameServer, admin, rights, thread, statuses, links, made, context,
              tasks, comments, records, lost>>

NoContext == [statuses |-> {}, sequences |-> {}, shots |-> << >>]

\* The production is new, or one that was there and whose look-up had failed.
DataInit ==
    /\ step = "manager"
    /\ sameServer \in BOOLEAN /\ admin \in BOOLEAN /\ rights \in {"none", "user"}
    /\ thread \in Discussions
    /\ statuses = Known /\ links = {}
    /\ made \in {[sequences |-> {}, shots |-> {}],
                 [sequences |-> {Shots[1].in}, shots |-> {<<Shots[1].in, Shots[1].name>>}]}
    /\ context = NoContext /\ tasks = << >> /\ comments = << >> /\ records = {}
    /\ lost = {}

Then(from, to) == step = from /\ step' = to

\* The calls for these items fail.
Losing(kind, items) ==
    /\ lost' = lost \cup {<<kind, i>> : i \in items}
    /\ Cardinality(lost') <= MaxLost

CanWrite == admin \/ rights = "manager"

-----------------------------------------------------------------------------
(* People and studio                                                         *)

\* The member's role is updated, or the user added as a manager.
EnsureManager ==
    /\ Then("manager", "statuses")
    /\ \E fails \in SUBSET {"grant"} :
          /\ Losing("rights", fails)
          /\ rights' = IF fails = {} THEN "manager" ELSE rights
    /\ UNCHANGED <<sameServer, admin, thread, statuses, links, made, context, tasks, comments, records>>

\* Statuses of the archive, by name; one that the studio does not have is made.
CreateOrGetStatuses ==
    /\ Then("statuses", "links")
    /\ \E fails \in SUBSET (Listed \ statuses) :
          /\ Losing("status", fails)
          /\ context' = [context EXCEPT !.statuses = Listed \ fails]
          /\ statuses' = statuses \cup (Listed \ fails)
    /\ UNCHANGED <<sameServer, admin, rights, thread, links, made, tasks, comments, records>>

\* Those that tasks name and the folder does not have are looked up by their id, which
\* is known on the server the archive comes from; all are linked to the production.
LinkStatuses ==
    /\ Then("links", "scenes")
    /\ LET resolved == context.statuses \cup (IF sameServer THEN Statuses \cap statuses ELSE {})
       IN \E fails \in SUBSET resolved :
             /\ Losing("link", fails)
             /\ context' = [context EXCEPT !.statuses = resolved]
             /\ links' = links \cup (resolved \ fails)
    /\ UNCHANGED <<sameServer, admin, rights, thread, statuses, made, tasks, comments, records>>

-----------------------------------------------------------------------------
(* Entities, tasks                                                           *)

SceneNames == {Scenes[q] : q \in DOMAIN Scenes}

CreateScenes ==
    /\ Then("scenes", "shots")
    /\ \E fails \in SUBSET SceneNames :
          LET mapped == SceneNames \ fails
          IN /\ Losing("scene", fails)
             /\ context' = [context EXCEPT !.sequences = mapped]
             /\ made' = [made EXCEPT !.sequences = @ \cup mapped]
    /\ UNCHANGED <<sameServer, admin, rights, thread, statuses, links, tasks, comments, records>>

\* The sequence of a shot, or the first there is.
HomeOf(shot) ==
    IF shot.in \in context.sequences THEN shot.in
    ELSE Head(Kept(Scenes, context.sequences))

\* The shot of that name in that sequence, which is made if it is not there.
TargetOf(i) == <<HomeOf(Shots[i]), Shots[i].name>>

\* Without any sequence the shots are passed over.
CreateShots ==
    /\ Then("shots", "tasks")
    /\ \E fails \in SUBSET DOMAIN Shots :
          LET mapped == IF context.sequences = {} THEN {} ELSE DOMAIN Shots \ fails
          IN /\ Losing("shot", fails)
             /\ context' = [context EXCEPT !.shots = [i \in mapped |-> TargetOf(i)]]
             /\ made' = [made EXCEPT !.shots = @ \cup {TargetOf(i) : i \in mapped}]
    /\ UNCHANGED <<sameServer, admin, rights, thread, statuses, links, tasks, comments, records>>

\* Status and data, the path of the task's file among them, go in a single update.
Created(t, fails) ==
    [on |-> context.shots[TaskList[t].on],
     status |-> IF TaskList[t].status \in context.statuses THEN TaskList[t].status ELSE Default,
     file |-> CanWrite /\ t \notin fails]

\* A task whose shot is not mapped is passed over.
CreateTasks ==
    /\ Then("tasks", "comments")
    /\ \E missed, fails \in SUBSET DOMAIN TaskList :
          LET new == {t \in DOMAIN TaskList : TaskList[t].on \in DOMAIN context.shots} \ missed
          IN /\ fails \subseteq new
             /\ lost' = lost \cup {<<"task", t>> : t \in missed} \cup {<<"update", t>> : t \in fails}
             /\ Cardinality(lost') <= MaxLost
             /\ tasks' = [t \in new |-> Created(t, fails)]
    /\ UNCHANGED <<sameServer, admin, rights, thread, statuses, links, made, context, comments, records>>

-----------------------------------------------------------------------------
(* Comments                                                                  *)

Parent(c) == thread[c].parent
IsReply(c) == Parent(c) \in DOMAIN thread \ {c}
\* Comments that answer each other in a circle.
Circular == \E S \in SUBSET DOMAIN thread : S # {} /\ \A c \in S : IsReply(c) /\ Parent(c) \in S

\* The place of a comment is the number of those that are before it.
Before(c) == {d \in DOMAIN thread : \/ thread[d].at < thread[c].at
                                   \/ (thread[d].at = thread[c].at /\ d < c)}
ByDate == [n \in DOMAIN thread |-> CHOOSE c \in DOMAIN thread : Cardinality(Before(c)) = n - 1]

\* What is there after a comment: what it answers comes before it.
Visit(ordered) ==
    LET visited[c \in DOMAIN thread] ==
            IF c \in Range(ordered) THEN ordered
            ELSE Append(IF IsReply(c) THEN visited[Parent(c)] ELSE ordered, c)
    IN  visited

\* Each comment in the order of its date, after those above it that are not yet there.
SortComments ==
    LET sorted[n \in 0..Len(thread)] == IF n = 0 THEN << >> ELSE Visit(sorted[n - 1])[ByDate[n]]
    IN  sorted[Len(thread)]

\* A comment is a reply if what it answers was made before it.
CreateComments ==
    /\ step = "comments"
    /\ IF Circular THEN step' = "failed" /\ UNCHANGED <<comments, lost>>
       ELSE \E fails \in SUBSET DOMAIN thread :
              LET posted == Kept(SortComments, {c \in DOMAIN thread \ fails : thread[c].on \in DOMAIN tasks})
                  Under(k) == IF Parent(posted[k]) \in Range(SubSeq(posted, 1, k - 1)) THEN Parent(posted[k]) ELSE 0
              IN /\ step' = "records"
                 /\ Losing("comment", fails)
                 /\ comments' = [k \in DOMAIN posted |-> [id |-> posted[k], under |-> Under(k)]]
    /\ UNCHANGED <<sameServer, admin, rights, thread, statuses, links, made, context, tasks, records>>

\* Work files and hours of the tasks that were made.
CreateRecords ==
    /\ Then("records", "team")
    /\ \E fails \in SUBSET DOMAIN tasks :
          Losing("record", fails) /\ records' = DOMAIN tasks \ fails
    /\ UNCHANGED <<sameServer, admin, rights, thread, statuses, links, made, context, tasks, comments>>

\* The importing user may be among those who join, and then joins as a manager, or with
\* a studio role like anybody when the look-up of who is importing fails.
AddTeam ==
    /\ Then("team", "done")
    /\ \E fails \in SUBSET {"whoami", "member"} :
          /\ Losing("team", fails)
          /\ rights' \in {rights} \cup
                 (IF "member" \in fails THEN {} ELSE {"manager"}) \cup
                 (IF fails = {"whoami"} THEN {"user"} ELSE {})
    /\ UNCHANGED <<sameServer, admin, thread, statuses, links, made, context, tasks, comments, records>>

DataNext ==
    \/ EnsureManager \/ CreateOrGetStatuses \/ LinkStatuses
    \/ CreateScenes \/ CreateShots \/ CreateTasks
    \/ CreateComments \/ CreateRecords \/ AddTeam

DataSpec == DataInit /\ [][DataNext]_dataVars

-----------------------------------------------------------------------------
(* Properties                                                                *)

DataTypeOK ==
    /\ links \subseteq statuses
    /\ context.statuses \subseteq statuses /\ context.sequences \subseteq made.sequences
    /\ DOMAIN context.shots \subseteq DOMAIN Shots /\ Range(context.shots) \subseteq made.shots
    /\ \A t \in DOMAIN tasks : tasks[t].on \in made.shots
    /\ records \subseteq DOMAIN tasks /\ Cardinality(lost) <= MaxLost

\* Two shots of the archive become one only when the sequence of one could not be made.
ShotsStayApart ==
    \A i, j \in DOMAIN context.shots :
        context.shots[i] = context.shots[j]
            => \/ Shots[i] = Shots[j]
               \/ <<"scene", Shots[i].in>> \in lost \/ <<"scene", Shots[j].in>> \in lost

\* "migrated productions do not end up with zero project_task_status_link entries": the
\* status of a task is one of the production's, unless linking it failed.
StatusesAreLinked ==
    \A t \in DOMAIN tasks :
        tasks[t].status \in links \cup {Default} \/ <<"link", tasks[t].status>> \in lost

\* A task loses the path of its file only if its update failed or the importing user
\* could not be made a manager, and who is a manager stays one ("The importing user must
\* keep manager rights to write task data") unless the look-up of who is importing failed
\* when the team was added: then the studio role is put in place of the manager's.
FilesAreKept ==
    /\ \A t \in DOMAIN tasks :
          tasks[t].file \/ <<"update", t>> \in lost \/ <<"rights", "grant">> \in lost
    /\ step \notin {"manager", "failed"} =>
          \/ rights = "manager" \/ <<"rights", "grant">> \in lost
          \/ step = "done" /\ <<"team", "whoami">> \in lost

\* "Parents before replies" (_sort_comments): a comment is a reply to what it answers
\* whenever both were made.
ThreadsAreKept ==
    \A k \in DOMAIN comments :
        LET parent == Parent(comments[k].id)
        IN IsReply(comments[k].id) /\ parent \in {comments[l].id : l \in DOMAIN comments}
              => comments[k].under = parent

\* What the import says it has made is the production of the archive, but for what failed.
ImportIsFaithful == ShotsStayApart /\ StatusesAreLinked /\ FilesAreKept /\ ThreadsAreKept
=============================================================================
