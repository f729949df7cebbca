----------------------------- MODULE StoryDesk -----------------------------
(* The first steps of the batch desk: the gate before a workspace that is not *)
(* installed, the list of sequences with or without a storyboard, and the     *)
(* master file of the edit.  BlendBatch has the steps that follow.            *)
EXTENDS Naturals

CONSTANTS
    Shows,       \* projects
    Scripts,     \* names of sequences
    MaxForges,   \* bound on batches
    MaxStrolls,  \* bound on what else the manager does
    MaxBreaks,   \* bound on steps that fail and on what the studio does meanwhile
    NoShow

ASSUME StoryAssumption == NoShow \notin Shows

VARIABLES
    chosen,      \* the current project
    installed,   \* projects whose workspace passes the verification
    installing,  \* the project of the install worker, or NoShow
    view,        \* the page: "blank", "gate", "boards", "edit" or "entities"
    sheet,       \* the list of sequences: of which project it was read, its rows
    lookups,     \* worker -> the project it reads, or NoShow
    mode,        \* what the button of the edit does, and whose audit says so
    boards,      \* project -> sequence -> its storyboard: "none", "empty" or "drawn"
    known,       \* project -> sequences that Kitsu has
    master,      \* project -> the master of its edit: "none", "empty" or "cut"
    forge,       \* the spawn worker
    notice,      \* its window: "closed", "open", "success" or "failure"
    forges, strolls, breaks

storyVars == <<chosen, installed, installing, view, sheet, lookups, mode, boards, known,
               master, forge, notice, forges, strolls, breaks>>

Lists == {"sequences", "edit"}
NoForge == [kind |-> "none", in |-> NoShow, todo |-> {}, shown |-> {}, outcome |-> "idle"]

StoryInit ==
    /\ chosen = NoShow /\ installing = NoShow /\ view = "blank"
    /\ \E s \in SUBSET Shows : installed = s
    /\ sheet = [of |-> NoShow, pending |-> {}, present |-> {}]
    /\ lookups = [l \in Lists |-> NoShow]
    /\ mode = [does |-> "SPAWN", of |-> NoShow]
    /\ boards = [p \in Shows |-> [n \in Scripts |-> "none"]]
    /\ known = [p \in Shows |-> {}]
    /\ master = [p \in Shows |-> "none"]
    /\ forge = NoForge /\ notice = "closed"
    /\ forges = 0 /\ strolls = 0 /\ breaks = 0

\* The window of a batch is application-modal.
Free == notice = "closed"
Stroll == Free /\ strolls < MaxStrolls /\ strolls' = strolls + 1
Break == breaks < MaxBreaks /\ breaks' = breaks + 1

\* A look-up that runs is not started again, whatever project it is for.
WithLookup(l, p) == IF lookups[l] = NoShow THEN [lookups EXCEPT ![l] = p] ELSE lookups

\* The page of a step, unless the workspace is not there.
PageOf(step, p) == IF p \in installed THEN step ELSE "gate"

-----------------------------------------------------------------------------
(* The manager                                                               *)

\* The page of the first step, and its list, if the workspace is there.
ChooseShow(p) ==
    /\ Stroll
    /\ chosen' = p
    /\ view' = PageOf("boards", p)
    /\ lookups' = IF p \in installed THEN WithLookup("sequences", p) ELSE lookups
    /\ UNCHANGED <<installed, installing, sheet, mode, boards, known, master, forge, notice,
                   forges, breaks>>

\* The catalogue has come back without any project: the page stays.
NothingOpen ==
    /\ Stroll
    /\ chosen' = NoShow
    /\ UNCHANGED <<installed, installing, view, sheet, lookups, mode, boards, known, master,
                   forge, notice, forges, breaks>>

ToStep(step) ==
    /\ chosen # NoShow
    /\ view' = PageOf(step, chosen)
    /\ lookups' = IF step = "edit" /\ chosen \in installed THEN WithLookup("edit", chosen)
                                                           ELSE lookups

GoToStep(step) ==
    /\ Stroll
    /\ ToStep(step)
    /\ UNCHANGED <<chosen, installed, installing, sheet, mode, boards, known, master, forge,
                   notice, forges, breaks>>

\* A name that the list has already is not added.
AddSequence(n) ==
    /\ Stroll
    /\ view = "boards" /\ n \notin sheet.pending \cup sheet.present
    /\ sheet' = [sheet EXCEPT !.pending = @ \cup {n}]
    /\ UNCHANGED <<chosen, installed, installing, view, lookups, mode, boards, known, master,
                   forge, notice, forges, breaks>>

\* One installation at a time; the credentials may be refused.
Install ==
    /\ Stroll
    /\ view = "gate" /\ chosen # NoShow /\ installing = NoShow
    /\ installing' = chosen
    /\ UNCHANGED <<chosen, installed, view, sheet, lookups, mode, boards, known, master, forge,
                   notice, forges, breaks>>

\* What was shown as existing when the batch was asked for, in the same project.
Listed == IF sheet.of = chosen THEN sheet.present ELSE {}

\* The window is shown before the credentials are asked for: a refusal leaves it
\* waiting for a batch that never was.
Start(kind, todo) ==
    /\ Free /\ forge = NoForge
    /\ forges < MaxForges /\ forges' = forges + 1
    /\ notice' = "open"
    /\ \/ forge' = [kind |-> kind, in |-> chosen, todo |-> todo, shown |-> Listed,
                    outcome |-> "forging"]
       \/ UNCHANGED forge

\* Every name without a file, as the list has them, in the project of now; a
\* workspace that is not there sends the manager to the gate.
SpawnStoryboards ==
    /\ Free /\ view = "boards" /\ chosen # NoShow
    /\ chosen \in installed /\ sheet.pending # {}
    /\ Start("boards", sheet.pending)
    /\ UNCHANGED <<chosen, installed, installing, view, sheet, lookups, mode, boards, known,
                   master, strolls, breaks>>

SpawnMaster ==
    /\ Free /\ view = "edit" /\ chosen # NoShow
    /\ chosen \in installed /\ mode.does = "SPAWN"
    /\ Start("master", {})
    /\ UNCHANGED <<chosen, installed, installing, view, sheet, lookups, mode, boards, known,
                   master, strolls, breaks>>

\* Cancel and the cross close the window; a batch goes on without it.
CloseNotice ==
    /\ notice # "closed"
    /\ notice' = "closed"
    /\ UNCHANGED <<chosen, installed, installing, view, sheet, lookups, mode, boards, known,
                   master, forge, forges, strolls, breaks>>

-----------------------------------------------------------------------------
(* Workers and their slots                                                   *)

\* The rows of Kitsu's sequences, as the disk has them; dropped if the project was left.
SequencesRead ==
    LET p == lookups["sequences"]
        has == {n \in known[p] : boards[p][n] # "none"}
    IN /\ p # NoShow
       /\ lookups' = [lookups EXCEPT !["sequences"] = NoShow]
       /\ sheet' = IF p = chosen
                     THEN [of |-> p, pending |-> known[p] \ has, present |-> has] ELSE sheet
       /\ UNCHANGED <<chosen, installed, installing, view, mode, boards, known, master, forge,
                      notice, forges, strolls, breaks>>

\* The button assigns an editor to a master that is there, and spawns one that is not.
EditButton(p) == [does |-> IF master[p] = "none" THEN "SPAWN" ELSE "ASSIGN", of |-> p]

\* The audit of the edit has answered.
EditAudited ==
    LET p == lookups["edit"] IN
    /\ p # NoShow
    /\ lookups' = [lookups EXCEPT !["edit"] = NoShow]
    /\ IF p # chosen THEN UNCHANGED <<view, mode>>
       ELSE IF p \notin installed THEN view' = "gate" /\ UNCHANGED mode
       ELSE /\ mode' = EditButton(p)
            /\ UNCHANGED view
    /\ UNCHANGED <<chosen, installed, installing, sheet, boards, known, master, forge, notice,
                   forges, strolls, breaks>>

LookupFails(l) ==
    /\ Break
    /\ lookups[l] # NoShow
    /\ lookups' = [lookups EXCEPT ![l] = NoShow]
    /\ UNCHANGED <<chosen, installed, installing, view, sheet, mode, boards, known, master,
                   forge, notice, forges, strolls>>

\* The page is chosen anew, for the project of now.
InstallFinished ==
    /\ installing # NoShow
    /\ installing' = NoShow
    /\ \/ /\ installed' = installed \cup {installing}
          /\ view' = IF chosen = NoShow THEN view
                     ELSE IF chosen \in installed' THEN "boards" ELSE "gate"
          /\ lookups' = IF chosen = NoShow THEN lookups ELSE WithLookup("sequences", chosen)
          /\ UNCHANGED breaks
       \/ Break /\ UNCHANGED <<installed, view, lookups>>
    /\ UNCHANGED <<chosen, sheet, mode, boards, known, master, forge, notice, forges, strolls>>

\* The sequence is looked up in Kitsu, or made there with its task.
Registered(p, n) == [known EXCEPT ![p] = @ \cup {n}]
\* The empty storyboard is saved under its name, over whatever is there.
Saved(p, n) == [boards EXCEPT ![p][n] = "empty"]

\* One sequence: registered or not, saved or not; what goes wrong is only logged.
ForgeStoryboard(n) ==
    /\ forge.kind = "boards" /\ forge.outcome = "forging" /\ n \in forge.todo
    /\ forge' = [forge EXCEPT !.todo = @ \ {n}]
    /\ \/ /\ known' = Registered(forge.in, n) /\ boards' = Saved(forge.in, n)
          /\ UNCHANGED breaks
       \/ /\ Break
          /\ known' \in {known, Registered(forge.in, n)}
          /\ boards' \in {boards, Saved(forge.in, n)}
    /\ UNCHANGED <<chosen, installed, installing, view, sheet, lookups, mode, master, notice,
                   forges, strolls>>

StoryboardsDone ==
    /\ forge.kind = "boards" /\ forge.outcome = "forging" /\ forge.todo = {}
    /\ forge' = [forge EXCEPT !.outcome = "success"]
    /\ UNCHANGED <<chosen, installed, installing, view, sheet, lookups, mode, boards, known,
                   master, notice, forges, strolls, breaks>>

\* Saved over a master that is there; the builder's own verdict counts, and it
\* says so only of a file that it finds after saving.
ForgeMaster ==
    /\ forge.kind = "master" /\ forge.outcome = "forging"
    /\ \/ /\ master' = [master EXCEPT ![forge.in] = "empty"]
          /\ forge' = [forge EXCEPT !.outcome = "success"] /\ UNCHANGED breaks
       \/ Break /\ forge' = [forge EXCEPT !.outcome = "failure"]
          /\ master' \in {master, [master EXCEPT ![forge.in] = "empty"]}
    /\ UNCHANGED <<chosen, installed, installing, view, sheet, lookups, mode, boards, known,
                   notice, forges, strolls>>

\* An exception ends either worker.
ForgeCrashes ==
    /\ forge.outcome = "forging" /\ Break
    /\ forge' = [forge EXCEPT !.outcome = "failure"]
    /\ UNCHANGED <<chosen, installed, installing, view, sheet, lookups, mode, boards, known,
                   master, notice, forges, strolls>>

\* The next step follows a success; after a failure the list stays as it was.
ForgeFinished ==
    /\ forge.outcome \in {"success", "failure"}
    /\ notice' = IF notice = "open" THEN forge.outcome ELSE notice
    /\ forge' = NoForge
    /\ IF forge.outcome = "success" /\ chosen # NoShow
         THEN LET step == IF forge.kind = "boards" THEN "edit" ELSE "entities"
                  edit == IF step = "edit" /\ chosen \in installed
                            THEN WithLookup("edit", chosen) ELSE lookups
              IN /\ view' = PageOf(step, chosen)
                 /\ lookups' = IF forge.kind = "boards" /\ edit["sequences"] = NoShow
                                 THEN [edit EXCEPT !["sequences"] = chosen] ELSE edit
         ELSE UNCHANGED <<view, lookups>>
    /\ UNCHANGED <<chosen, installed, installing, sheet, mode, boards, known, master, forges,
                   strolls, breaks>>

-----------------------------------------------------------------------------
(* The studio                                                                *)

\* Artists draw in a storyboard, the editor cuts.
Draw(p, n) ==
    /\ Break
    /\ boards[p][n] = "empty"
    /\ boards' = [boards EXCEPT ![p][n] = "drawn"]
    /\ UNCHANGED <<chosen, installed, installing, view, sheet, lookups, mode, known, master,
                   forge, notice, forges, strolls>>

Cut(p) ==
    /\ Break
    /\ master[p] = "empty"
    /\ master' = [master EXCEPT ![p] = "cut"]
    /\ UNCHANGED <<chosen, installed, installing, view, sheet, lookups, mode, boards, known,
                   forge, notice, forges, strolls>>

ForgeWork ==
    \/ \E n \in Scripts : ForgeStoryboard(n)
    \/ StoryboardsDone
    \/ ForgeMaster
    \/ ForgeCrashes
    \/ ForgeFinished

StoryNext ==
    \/ \E p \in Shows : ChooseShow(p)
    \/ NothingOpen
    \/ \E step \in {"boards", "edit", "entities"} : GoToStep(step)
    \/ \E n \in Scripts : AddSequence(n)
    \/ Install
    \/ SpawnStoryboards
    \/ SpawnMaster
    \/ CloseNotice
    \/ SequencesRead
    \/ EditAudited
    \/ \E l \in Lists : LookupFails(l)
    \/ InstallFinished
    \/ ForgeWork
    \/ \E p \in Shows, n \in Scripts : Draw(p, n)
    \/ \E p \in Shows : Cut(p)

\* The threads run, and their signals are delivered.
StoryFairness == WF_storyVars(ForgeWork) /\ WF_storyVars(InstallFinished)

StorySpec == StoryInit /\ [][StoryNext]_storyVars /\ StoryFairness

-----------------------------------------------------------------------------
(* Properties                                                                *)

StoryTypeOK ==
    /\ chosen \in Shows \cup {NoShow} /\ installing \in Shows \cup {NoShow}
    /\ installed \subseteq Shows
    /\ view \in {"blank", "gate", "boards", "edit", "entities"}
    /\ sheet \in [of : Shows \cup {NoShow}, pending : SUBSET Scripts, present : SUBSET Scripts]
    /\ lookups \in [Lists -> Shows \cup {NoShow}]
    /\ mode \in [does : {"SPAWN", "ASSIGN"}, of : Shows \cup {NoShow}]
    /\ boards \in [Shows -> [Scripts -> {"none", "empty", "drawn"}]]
    /\ known \in [Shows -> SUBSET Scripts]
    /\ master \in [Shows -> {"none", "empty", "cut"}]
    /\ forge.kind \in {"none", "boards", "master"} /\ forge.in \in Shows \cup {NoShow}
    /\ forge.todo \subseteq Scripts
    /\ forge.outcome \in {"idle", "forging", "success", "failure"}
    /\ notice \in {"closed", "open", "success", "failure"}

\* "must be installed on your disk ... before assets can be generated": no step is on
\* the screen of a project without a workspace, and nothing is forged in one, however
\* projects, installations and batches end in between.
GateHolds ==
    /\ view \in {"boards", "edit", "entities"} => chosen \in installed \cup {NoShow}
    /\ forge # NoForge => forge.in \in installed

\* The list and the button change to what was read of the project that is chosen then.
DeskIsCurrent ==
    [][/\ sheet'.of # sheet.of \/ sheet'.present # sheet.present => sheet'.of = chosen
       /\ mode' # mode => mode'.of = chosen]_storyVars

\* A storyboard that the list showed as existing is never forged over, typed names
\* included; one that the list did not know of may be.
ListedBoardsKept ==
    [][\A n \in Scripts : ForgeStoryboard(n) => n \notin forge.shown]_storyVars

\* A window that reports a master has one on the disk.
MasterIsForged ==
    forge.kind = "master" /\ forge.outcome = "success" => master[forge.in] # "none"

\* A batch ends, its window is told, and an installation lets go of its button.
ForgeIsAnswered ==
    /\ (forge # NoForge) ~> (notice # "open")
    /\ (installing # NoShow) ~> (installing = NoShow)

\* A storyboard in which somebody has drawn is never forged over.
DrawnBoardsKept ==
    [][\A p \in Shows, n \in Scripts :
          boards[p][n] = "drawn" => boards'[p][n] = "drawn"]_storyVars
=============================================================================
