----------------------------- MODULE MCTaskTools ----------------------------
(* What people do with tasks, in one run: the comments of a task, the files   *)
(* of the tasks, the board and the desk.  `part` says which of them a         *)
(* behaviour is about; the others stay where they start.                      *)
EXTENDS TaskComments, TaskFiles, TaskBoard

VARIABLE part

\* Two tasks of one asset, and one of an asset whose name begins like its.
AssetsSmall == [t \in FileTasks |-> IF t = "other" THEN "ball_red" ELSE "ball"]
NameBegins == {<<"other", "model">>}

\* One task in each of two productions.
HomesSmall == [t \in BoardTasks |-> IF t = "f1" THEN "f" ELSE "s"]

tools == <<part, page, threadVars, fileVars, boardVars>>

Init ==
    /\ part \in {"comments", "files", "board"}
    /\ CommentsInit /\ FilesTaskInit /\ BoardInit
    /\ part # "board" => page = "desk" /\ onTask = [t \in BoardTasks |-> {Me}]

Next ==
    /\ UNCHANGED <<part, page>>
    /\ \/ part = "comments" /\ CommentsNext /\ UNCHANGED <<fileVars, boardVars>>
       \/ part = "files" /\ TaskFilesNext /\ UNCHANGED <<threadVars, boardVars>>
       \/ part = "board" /\ BoardNext /\ UNCHANGED <<threadVars, fileVars>>

Spec == Init /\ [][Next]_tools /\ CommentsFairness /\ TaskFilesFairness
             /\ BoardFairness

-----------------------------------------------------------------------------
\* Every part keeps its types.
TasksTypeOK ==
    CASE part = "comments" -> CommentsTypeOK
      [] part = "files"    -> TaskFilesTypeOK
      [] part = "board"    -> BoardTypeOK

\* A comment is posted where it was written, and not again once Kitsu answered
\* for it; a thread counts as seen up to what was fetched of it.
ShownAsItIs == PostedOnceWhereWritten /\ SeenWasFetched

\* An answer never takes away what somebody has: the last responsible of a task
\* that is handed over, the work in a file the worker could see, the badge of a
\* card.
NothingTaken == SomebodyStays /\ NeverEmptied /\ BadgesSurvive

\* What waits is answered: a comment drawer and a link dialog by their workers,
\* and the board shows in the end the production that was selected last.
TasksAnswer == DrawerAnswers /\ LinkIsAnswered /\ BoardFollows
=============================================================================
