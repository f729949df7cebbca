------------------------------- MODULE TaskBoard -------------------------------
(* Two pages that list tasks: the board of a project manager, with its        *)
(* project combo, task rows, comment counts and dialog of responsibles, and   *)
(* the desk of an artist, with its cards and filters. Each page is a view     *)
(* model with one worker per key, and they share the Kitsu server.            *)
(*                                                                            *)
(* Most look-ups answer a failure with an empty list. A worker's end is       *)
(* handled together with its result.                                          *)
EXTENDS Naturals, FiniteSets

CONSTANTS
    Boards,         \* productions
    OpenBoards,     \* those the combo offers; the project grid offers all
    BoardTasks, HomeOf,     \* tasks and the production of each
    Finished,       \* tasks that Kitsu lists as done
    People, Me,     \* persons, and the artist of the desk
    MaxClicks, MaxOutages, MaxColleagues,   \* bounds
    NoBoard, AnyBoard

ASSUME TaskBoardAssumption ==
    /\ OpenBoards \subseteq Boards /\ Finished \subseteq BoardTasks /\ Me \in People
    /\ HomeOf \in [BoardTasks -> Boards]
    /\ NoBoard \notin Boards /\ AnyBoard \notin Boards

VARIABLES
    page,           \* what this Hub shows, as its user's role has it
    onTask,     \* server: the persons of each task
    combo,      \* the productions of the board's combo, and the one it points at
    selected,   \* _current_project_id
    rows,       \* _tasks: of which production, and the responsibles each row shows
    boardWorker, boardNext,     \* the load of the rows, and _pending_tasks_project_id
    crew, crewWorker,           \* _persons and their load
    countWorker, counted,       \* the count of comments; whose badges the rows have
    dialog,     \* the dialog of responsibles
    assigner,   \* the worker that applies it
    cards,      \* the desk's cards: task -> its badge of pending changes
    deskWorker, deskLoading,    \* the load of the cards, and _tasks_loading
    choice, filter,             \* the desk's project filter; whose statuses it lists
    statusWorker, statusCache,
    clicks, outages, colleagues

crewVars == <<crew, crewWorker>>
rowVars == <<combo, selected, rows, boardWorker, boardNext, countWorker, counted>>
deskVars == <<cards, deskWorker, deskLoading, choice, filter, statusWorker, statusCache>>
boundVars == <<clicks, outages, colleagues>>
boardVars == <<onTask, rowVars, crewVars, dialog, assigner, deskVars, boundVars>>

AtRest == [at |-> "rest"]
Click == clicks < MaxClicks /\ clicks' = clicks + 1
Outage == outages < MaxOutages /\ outages' = outages + 1
NoRows == [t \in {} |-> {}]
RowsOf(p) == [t \in {u \in BoardTasks : HomeOf[u] = p} |-> onTask[t]]
MyTasks == {t \in BoardTasks : Me \in onTask[t]}
ShownOf(job) == IF job.at = "rest" THEN NoBoard ELSE job.of

-----------------------------------------------------------------------------
BoardInit ==
    /\ page \in {"board", "desk"} /\ onTask \in [BoardTasks -> {{q} : q \in People}]
    /\ combo = [lists |-> {}, at |-> NoBoard, waits |-> NoBoard,
                job |-> IF page = "board" THEN "asked" ELSE "done"]
    /\ selected = NoBoard /\ rows = [of |-> NoBoard, who |-> NoRows]
    /\ boardWorker = AtRest /\ boardNext = NoBoard
    /\ crew = {} /\ crewWorker = AtRest
    /\ countWorker = AtRest /\ counted = NoBoard
    /\ dialog = AtRest /\ assigner = AtRest
    /\ cards = [t \in {} |-> 0] /\ deskWorker = AtRest /\ deskLoading = FALSE
    /\ choice = AnyBoard /\ filter = NoBoard
    /\ statusWorker = AtRest /\ statusCache = [p \in {} |-> ""]
    /\ clicks = 0 /\ outages = 0 /\ colleagues = 0

(* Somebody else gives the task to a person or takes it away.                 *)
ColleagueEdits(t, q) ==
    /\ colleagues < MaxColleagues /\ colleagues' = colleagues + 1
    /\ onTask' = [onTask EXCEPT ![t] = IF q \in @ THEN @ \ {q} ELSE @ \union {q}]
    /\ assigner' = IF ShownOf(assigner) = t THEN [assigner EXCEPT !.alone = FALSE] ELSE assigner
    /\ UNCHANGED <<rowVars, crewVars, dialog, deskVars, clicks, outages>>

-----------------------------------------------------------------------------
(* The board: productions, rows and counts.                                   *)

(* A load that finds another running waits; the last one to wait is kept.     *)
LoadTasks(p) ==
    IF boardWorker.at = "rest"
    THEN boardWorker' = [at |-> "asked", of |-> p] /\ UNCHANGED boardNext
    ELSE boardNext' = p /\ UNCHANGED boardWorker

(* Persons are loaded until a load brings some, and then never again.         *)
LoadPersons ==
    /\ crewWorker' = IF crew # {} THEN crewWorker ELSE [at |-> "asked"]
    /\ UNCHANGED crew

SelectProject(p) == selected' = p /\ LoadTasks(p) /\ LoadPersons

(* The page can be opened on any production of the grid, the combo follows    *)
(* when it lists it, and otherwise its list is awaited.                       *)
OpenBoard(p) ==
    /\ dialog.at = "rest" /\ Click /\ SelectProject(p)
    /\ combo' = IF p \in combo.lists THEN [combo EXCEPT !.at = p] ELSE [combo EXCEPT !.waits = p]
    /\ UNCHANGED <<onTask, rows, countWorker, counted, dialog, assigner, deskVars, outages, colleagues>>

(* The list of productions comes once; a failure leaves the combo empty.      *)
ProjectsLoaded ==
    /\ combo.job = "asked"
    /\ \E lists \in {OpenBoards, {}}, first \in OpenBoards :
          LET known == IF combo.waits # NoBoard THEN combo.waits ELSE selected
              target == IF known = NoBoard /\ lists # {} THEN first ELSE known
          IN /\ IF lists = {} THEN Outage ELSE UNCHANGED outages
             /\ combo' = [lists |-> lists, job |-> "done",
                          at |-> IF target \in lists THEN target
                                 ELSE IF lists = {} THEN NoBoard ELSE first,
                          waits |-> IF target = NoBoard THEN combo.waits ELSE NoBoard]
             /\ IF target # selected THEN SelectProject(target)
                ELSE UNCHANGED <<selected, boardWorker, boardNext, crewVars>>
    /\ UNCHANGED <<onTask, rows, countWorker, counted, dialog, assigner, deskVars, clicks, colleagues>>

ProjectChanged(p) ==
    /\ dialog.at = "rest" /\ p \in combo.lists \ {combo.at} /\ Click
    /\ combo' = [combo EXCEPT !.at = p] /\ SelectProject(p)
    /\ UNCHANGED <<onTask, rows, countWorker, counted, dialog, assigner, deskVars, outages, colleagues>>

Refresh ==
    /\ dialog.at = "rest" /\ selected # NoBoard /\ Click /\ LoadTasks(selected)
    /\ UNCHANGED <<onTask, combo, selected, rows, countWorker, counted, crewVars, dialog,
                   assigner, deskVars, outages, colleagues>>

(* The rows are read in one go. A failing task query answers no rows; failing *)
(* look-ups of persons, names, types or statuses leave labels empty.          *)
BoardRead ==
    /\ boardWorker.at = "asked"
    /\ \/ boardWorker' = [at |-> "read", of |-> boardWorker.of, who |-> RowsOf(boardWorker.of)]
          /\ UNCHANGED outages
       \/ boardWorker' = [at |-> "read", of |-> boardWorker.of, who |-> NoRows] /\ Outage
    /\ UNCHANGED <<onTask, combo, selected, rows, boardNext, countWorker, counted, crewVars, dialog,
                   assigner, deskVars, clicks, colleagues>>

(* (a slip of DrainTasks: the load that waited is forgotten)                  *)
DrainNoTasks == boardWorker' = AtRest /\ boardNext' = NoBoard

DrainTasks ==
    /\ boardWorker' = IF boardNext = NoBoard THEN AtRest ELSE [at |-> "asked", of |-> boardNext]
    /\ boardNext' = NoBoard

(* New rows replace the row a dialog was opened on: it keeps the old one.     *)
Detached(d) == IF d.at = "rest" \/ d.old THEN d
               ELSE [d EXCEPT !.old = TRUE, !.row = rows.who[d.of]]

(* A count that finds another running is dropped.                             *)
LoadCounts(p) ==
    countWorker' = IF countWorker.at = "rest" THEN [at |-> "asked", of |-> p] ELSE countWorker

(* (a slip of Wanted: rows that come late are shown, too)                     *)
WantedOrLate(p) == p # NoBoard

(* What comes for a production that is not selected any more is dropped.      *)
Wanted(p) == p = selected

TasksLoaded ==
    /\ boardWorker.at = "read" /\ DrainTasks
    /\ IF ~Wanted(boardWorker.of) THEN UNCHANGED <<rows, dialog, countWorker, counted>>
       ELSE /\ rows' = [of |-> selected, who |-> boardWorker.who]
            /\ dialog' = Detached(dialog) /\ counted' = NoBoard /\ LoadCounts(selected)
    /\ UNCHANGED <<onTask, combo, selected, crewVars, assigner, deskVars, boundVars>>

CountsLoaded ==
    /\ countWorker.at = "asked" /\ countWorker' = AtRest
    /\ counted' = IF Wanted(countWorker.of) THEN selected ELSE counted
    /\ UNCHANGED <<onTask, combo, selected, rows, boardWorker, boardNext, crewVars, dialog, assigner,
                   deskVars, boundVars>>

PersonsLoaded ==
    /\ crewWorker.at = "asked" /\ crewWorker' = AtRest
    /\ \/ crew' = People /\ UNCHANGED outages
       \/ crew' = {} /\ Outage
    /\ UNCHANGED <<onTask, rowVars, dialog, assigner, deskVars, clicks, colleagues>>

-----------------------------------------------------------------------------
(* Responsibles. The dialog lists the persons that are loaded and checks      *)
(* those of the row; what is applied is the difference between its checks and *)
(* the row as it is when the dialog closes.                                   *)

EditAssignees(t) ==
    /\ dialog.at = "rest" /\ t \in DOMAIN rows.who /\ Click
    /\ dialog' = [at |-> "open", of |-> t, lists |-> crew, marks |-> rows.who[t] \intersect crew,
                  old |-> FALSE, row |-> {}]
    /\ UNCHANGED <<onTask, rowVars, crewVars, assigner, deskVars, outages, colleagues>>

(* While another assignment runs the new one is dropped without a word.       *)
ApplyAssignees ==
    /\ dialog.at = "open" /\ dialog' = AtRest
    /\ \E chosen \in SUBSET dialog.lists :
          LET current == IF dialog.old THEN dialog.row ELSE rows.who[dialog.of]
          IN assigner' = IF assigner.at # "rest" THEN assigner
                         ELSE [at |-> "asked", of |-> dialog.of, chosen |-> chosen,
                               add |-> chosen \ current, remove |-> current \ chosen,
                               adds |-> chosen \ current # {}, alone |-> TRUE,
                               unchecked |-> dialog.marks \ chosen]
    /\ UNCHANGED <<onTask, rowVars, crewVars, deskVars, boundVars>>

CancelAssignees ==
    /\ dialog.at = "open" /\ dialog' = AtRest
    /\ UNCHANGED <<onTask, rowVars, crewVars, assigner, deskVars, boundVars>>

AssignOne ==
    /\ assigner.at = "asked"
    /\ \E q \in assigner.add : /\ onTask' = [onTask EXCEPT ![assigner.of] = @ \union {q}]
                               /\ assigner' = [assigner EXCEPT !.add = @ \ {q}]
    /\ UNCHANGED <<rowVars, crewVars, dialog, deskVars, boundVars>>

(* (a slip of ClearOne: removals do not wait for the additions)               *)
ClearOneAtOnce ==
    /\ assigner.at = "asked"
    /\ \E q \in assigner.remove : /\ onTask' = [onTask EXCEPT ![assigner.of] = @ \ {q}]
                                  /\ assigner' = [assigner EXCEPT !.remove = @ \ {q}]
    /\ UNCHANGED <<rowVars, crewVars, dialog, deskVars, boundVars>>

ClearOne ==
    /\ assigner.at = "asked" /\ assigner.add = {}
    /\ \E q \in assigner.remove : /\ onTask' = [onTask EXCEPT ![assigner.of] = @ \ {q}]
                                  /\ assigner' = [assigner EXCEPT !.remove = @ \ {q}]
    /\ UNCHANGED <<rowVars, crewVars, dialog, deskVars, boundVars>>

(* Any call may fail, and what was done before it stays done.                 *)
AssignBreaks ==
    /\ assigner.at = "asked" /\ assigner.add \union assigner.remove # {} /\ Outage
    /\ assigner' = [assigner EXCEPT !.at = "failed"]
    /\ UNCHANGED <<onTask, rowVars, crewVars, dialog, deskVars, clicks, colleagues>>

(* The answer is the task as it is now, or as it should be when that fails.   *)
AssignEnds ==
    /\ assigner.at = "asked" /\ assigner.add \union assigner.remove = {}
    /\ \/ assigner' = [assigner EXCEPT !.at = "done", !.chosen = onTask[assigner.of]]
          /\ UNCHANGED outages
       \/ assigner' = [assigner EXCEPT !.at = "done"] /\ Outage
    /\ UNCHANGED <<onTask, rowVars, crewVars, dialog, deskVars, clicks, colleagues>>

(* The row with that id gets the answer, whichever load it came with; a       *)
(* failure leaves it as it was.                                               *)
AssignmentFinished ==
    /\ assigner.at \in {"done", "failed"} /\ assigner' = AtRest
    /\ rows' = IF assigner.at = "done" /\ assigner.of \in DOMAIN rows.who
               THEN [rows EXCEPT !.who[assigner.of] = assigner.chosen] ELSE rows
    /\ UNCHANGED <<onTask, combo, selected, boardWorker, boardNext, countWorker, counted, crewVars,
                   dialog, deskVars, boundVars>>

-----------------------------------------------------------------------------
(* The desk: cards and the two filters.                                       *)

LoadDesk ==
    /\ ~deskLoading /\ Click
    /\ deskLoading' = TRUE /\ deskWorker' = [at |-> "asked"]
    /\ UNCHANGED <<onTask, rowVars, crewVars, dialog, assigner, cards, choice, filter, statusWorker,
                   statusCache, outages, colleagues>>

(* Open and done tasks are two queries: without the first there are no tasks, *)
(* without the second only those that are not done.                           *)
DeskReads ==
    /\ deskWorker.at = "asked"
    /\ \/ deskWorker' = [at |-> "read", got |-> MyTasks] /\ UNCHANGED outages
       \/ \E got \in {{}, MyTasks \ Finished} : deskWorker' = [at |-> "read", got |-> got] /\ Outage
    /\ UNCHANGED <<onTask, rowVars, crewVars, dialog, assigner, cards, deskLoading, choice, filter,
                   statusWorker, statusCache, clicks, colleagues>>

(* A production's statuses come from the cache, or from a load if none runs.  *)
LoadStatuses(p) ==
    /\ filter' = IF p \in DOMAIN statusCache THEN p ELSE filter
    /\ statusWorker' = IF p \in DOMAIN statusCache \/ statusWorker.at # "rest" THEN statusWorker
                       ELSE [at |-> "asked", of |-> p]

CarriedOver(got) == [t \in got |-> IF t \in DOMAIN cards THEN cards[t] ELSE 0]

(* Cards keep their badges, and the combo its production if a card is left.   *)
TasksFetched ==
    /\ deskWorker.at = "read" /\ deskWorker' = AtRest
    /\ deskLoading' = FALSE /\ cards' = CarriedOver(deskWorker.got)
    /\ choice' = IF choice \in {HomeOf[t] : t \in deskWorker.got} THEN choice ELSE AnyBoard
    /\ LoadStatuses(choice')
    /\ UNCHANGED <<onTask, rowVars, crewVars, dialog, assigner, statusCache, boundVars>>

(* A check of the working copy puts the number of changes on the card.        *)
BadgeSet(t) ==
    /\ t \in DOMAIN cards /\ cards[t] = 0 /\ Click /\ cards' = [cards EXCEPT ![t] = 1]
    /\ UNCHANGED <<onTask, rowVars, crewVars, dialog, assigner, deskWorker, deskLoading, choice, filter,
                   statusWorker, statusCache, outages, colleagues>>

(* The combo, or a production's card, narrows the desk.                       *)
ChooseProject(p) ==
    /\ p \in {HomeOf[t] : t \in DOMAIN cards} \union {AnyBoard} /\ p # choice /\ Click
    /\ choice' = p /\ LoadStatuses(p)
    /\ UNCHANGED <<onTask, rowVars, crewVars, dialog, assigner, cards, deskWorker, deskLoading,
                   statusCache, outages, colleagues>>

(* Failing look-ups answer no statuses, and that is cached like any answer.   *)
(* The combo of statuses takes only those of the chosen production.           *)
StatusesLoaded ==
    /\ statusWorker.at = "asked" /\ statusWorker' = AtRest
    /\ \/ UNCHANGED outages /\ statusCache' = [p \in DOMAIN statusCache \union {statusWorker.of} |->
                                 IF p = statusWorker.of THEN "full" ELSE statusCache[p]]
       \/ Outage /\ statusCache' = [p \in DOMAIN statusCache \union {statusWorker.of} |->
                                 IF p = statusWorker.of THEN "empty" ELSE statusCache[p]]
    /\ filter' = IF statusWorker.of = choice THEN choice ELSE filter
    /\ UNCHANGED <<onTask, rowVars, crewVars, dialog, assigner, cards, deskWorker, deskLoading, choice,
                   clicks, colleagues>>

-----------------------------------------------------------------------------
BoardAnswers ==
    \/ ProjectsLoaded \/ BoardRead \/ TasksLoaded \/ CountsLoaded \/ PersonsLoaded
    \/ AssignOne \/ ClearOne \/ AssignBreaks \/ AssignEnds \/ AssignmentFinished
    \/ DeskReads \/ TasksFetched \/ StatusesLoaded

ManagerClicks ==
    \/ \E p \in Boards : OpenBoard(p) \/ ProjectChanged(p)
    \/ Refresh \/ ApplyAssignees \/ CancelAssignees
    \/ \E t \in BoardTasks : EditAssignees(t)

ArtistClicks ==
    \/ LoadDesk
    \/ \E t \in BoardTasks : BadgeSet(t)
    \/ \E p \in Boards \union {AnyBoard} : ChooseProject(p)

BoardNext ==
    /\ UNCHANGED page
    /\ \/ BoardAnswers
       \/ page = "board" /\ ManagerClicks
       \/ page = "desk" /\ ArtistClicks
       \/ \E t \in BoardTasks, q \in People : ColleagueEdits(t, q)

(* Workers end; nothing is asked of the persons at the keyboard.              *)
BoardFairness ==
    /\ WF_boardVars(BoardRead \/ TasksLoaded) /\ WF_boardVars(DeskReads \/ TasksFetched)

BoardSpec == BoardInit /\ [][BoardNext]_<<page, boardVars>> /\ BoardFairness

-----------------------------------------------------------------------------
BoardTypeOK ==
    /\ page \in {"board", "desk"} /\ onTask \in [BoardTasks -> SUBSET People]
    /\ combo \in [lists : {{}, OpenBoards}, at : Boards \union {NoBoard}, job : {"asked", "done"},
                  waits : Boards \union {NoBoard}]
    /\ {selected, rows.of, boardNext, counted} \subseteq Boards \union {NoBoard}
    /\ \A t \in DOMAIN rows.who : HomeOf[t] = rows.of /\ rows.who[t] \subseteq People
    /\ boardWorker.at \in {"rest", "asked", "read"} /\ crewWorker.at \in {"rest", "asked"}
    /\ crew \in {{}, People} /\ countWorker.at \in {"rest", "asked"}
    /\ dialog.at \in {"rest", "open"} /\ assigner.at \in {"rest", "asked", "done", "failed"}
    /\ DOMAIN cards \subseteq BoardTasks /\ deskLoading \in BOOLEAN
    /\ deskWorker.at \in {"rest", "asked", "read"} /\ statusWorker.at \in {"rest", "asked"}
    /\ choice \in Boards \union {AnyBoard} /\ filter \in Boards \union {AnyBoard, NoBoard}
    /\ DOMAIN statusCache \subseteq Boards \union {AnyBoard}

(* An assignment that gives the task to somebody new never takes its last     *)
(* person away, however often its calls fail, unless a colleague edits the    *)
(* task meanwhile: additions come before removals (apply_task_assignees).     *)
SomebodyStays ==
    [][\A t \in BoardTasks :
          onTask[t] # {} /\ onTask'[t] = {} /\ UNCHANGED colleagues
            => ~(assigner.adds /\ assigner.alone)]_boardVars

(* The rows end up being those of the production that was selected last, and  *)
(* a refresh of the desk always ends: loads that wait are drained, and every  *)
(* answer resets the flag (_drain_pending_tasks, _on_tasks_fetched).          *)
BoardFollows ==
    /\ []<>(selected = NoBoard \/ rows.of = selected)
    /\ deskLoading ~> ~deskLoading

(* A card that is on the desk before and after a refresh keeps the badge of   *)
(* its pending changes (_on_tasks_fetched).                                   *)
BadgesSurvive ==
    [][\A t \in DOMAIN cards \intersect DOMAIN cards' : cards'[t] >= cards[t]]_boardVars

(* The guide says that Apply "removes the unchecked ones": whoever loses the  *)
(* task had been unchecked. The dialog may list nobody, when the persons are  *)
(* not loaded, or a row may change behind it (_edit_assignees).               *)
OnlyTheUnchecked ==
    [][\A t \in BoardTasks :
          onTask[t] \subseteq onTask'[t] \/ colleagues' # colleagues
            \/ onTask[t] \ onTask'[t] \subseteq assigner.unchecked]_boardVars

(* The status filter ends up listing the statuses of the chosen production.   *)
(* It does not: a load that finds another running is dropped                  *)
(* (load_task_statuses).                                                      *)
FilterFollows == []<>(filter \in {NoBoard, choice})
=============================================================================
