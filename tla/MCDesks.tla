-------------------------------- MODULE MCDesks -----------------------------
(* The desks of the Hub, in one run: `part` says which of them a behaviour    *)
(* is about, and the others stay where they start.                            *)
EXTENDS BlendBatch, StoryDesk, ProjectGrid, ExportDesk

VARIABLE part

Unread == [t \in Titles |-> "ready"]

desks == <<part, batchVars, storyVars, gridVars, exportVars>>

Init ==
    /\ part \in {"batch", "story", "grid", "export"}
    /\ BatchInit
    /\ StoryInit /\ (part # "story" => installed = {})
    /\ GridFrom(part = "grid") /\ (part # "grid" => nas = Unread)
    /\ ExportInit /\ (part # "export" => unsaved = {})

Next ==
    /\ UNCHANGED part
    /\ \/ part = "batch" /\ BatchNext /\ UNCHANGED <<storyVars, gridVars, exportVars>>
       \/ part = "story" /\ StoryNext /\ UNCHANGED <<batchVars, gridVars, exportVars>>
       \/ part = "grid" /\ GridNext /\ UNCHANGED <<batchVars, storyVars, exportVars>>
       \/ part = "export" /\ ExportNext /\ UNCHANGED <<batchVars, storyVars, gridVars>>

Spec == Init /\ [][Next]_desks /\ BatchFairness /\ StoryFairness /\ GridFairness /\ ExportFairness

-----------------------------------------------------------------------------
\* Every desk keeps its types.
DesksTypeOK ==
    CASE part = "batch"  -> BatchTypeOK
      [] part = "story"  -> StoryTypeOK
      [] part = "grid"   -> GridTypeOK
      [] part = "export" -> ExportTypeOK

\* What a desk shows or leaves behind is what it says: a spawned file is the
\* forge's, nothing is forged where no workspace is, a reported master exists, a
\* card and a repair list are those of the last look, and a bundle under its name
\* is whole and holds a dump that was checked.
DesksAreSound ==
    /\ SuccessIsForged /\ GateHolds /\ MasterIsForged /\ StaleResultsDropped /\ RepairListIsShown
    /\ DumpIsChecked /\ BundlesAreWhole

\* A result reaches the project, the dialog and the window it was asked from, no
\* storyboard that the desk lists is forged over, and no export takes the name of a
\* bundle that is there.
ResultsReachTheirAsker ==
    /\ NoCrossFire /\ RowsAreCurrent /\ DeskIsCurrent /\ ListedBoardsKept
    /\ RepairReportsToItsDialog /\ SuccessIsOwn /\ BundlesKept

\* What waits is answered and the grid ends up showing what is.
DesksSettle == SpawnIsAnswered /\ ForgeIsAnswered /\ GridConverges /\ WindowAnswered
=============================================================================
