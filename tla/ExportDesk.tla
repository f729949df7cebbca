------------------------------ MODULE ExportDesk ----------------------------
(* Exports of a production: the window that asks for one, the scan for files *)
(* the embedded dump would miss, their publication, and the bundle, which is *)
(* packed beside its name, moved there, and taken away again when cancelled. *)
EXTENDS Naturals

CONSTANTS
    Films,         \* projects
    Names,         \* names a bundle can take in the destination folder, 1..n
    MaxExports,    \* bound on requests
    MaxDisturbed,  \* bound on files saved meanwhile, and on bundles of other Hubs
    ExportHabits,  \* subset of {"escapes"}: closes a busy window with Escape
    RacingHubs     \* TRUE: another Hub may take a name while this one packs for it

NoFilm == 0
ASSUME ExportAssumption ==
    NoFilm \notin Films /\ Names \subseteq Nat \ {0} /\ ExportHabits \subseteq {"escapes"}

VARIABLES
    unsaved,    \* films with files that are not committed
    window,     \* the export window
    pendingOf,  \* _pending_export
    precheck,   \* film that is scanned, or NoFilm
    question,   \* film the user is asked about, or NoFilm
    prepublish, \* film whose files are published, or NoFilm
    okayed,     \* film last scanned clean, published or waived
    export,     \* the export thread
    bundles,    \* name -> bundle, or None
    exports, disturbed

exportVars == <<unsaved, window, pendingOf, precheck, question, prepublish, okayed,
                export, bundles, exports, disturbed>>

Parts == {"kitsu", "media", "files", "dump"}
None == [of |-> NoFilm, has |-> {}, listed |-> {}, by |-> 0]
NoWindow == [of |-> NoFilm, dump |-> FALSE, state |-> "none"]
NoExport == [of |-> NoFilm, dump |-> FALSE, pc |-> "idle", cancelled |-> FALSE, name |-> 0,
             has |-> {}, listed |-> {}, ok |-> FALSE, checked |-> FALSE, put |-> FALSE]

ExportInit ==
    /\ unsaved \in SUBSET Films
    /\ window = NoWindow /\ pendingOf = NoFilm
    /\ precheck = NoFilm /\ question = NoFilm /\ prepublish = NoFilm /\ okayed = NoFilm
    /\ export = NoExport
    /\ bundles = [n \in Names |-> None]
    /\ exports = 0 /\ disturbed = 0

Quiet == precheck = NoFilm /\ question = NoFilm /\ prepublish = NoFilm /\ export.pc = "idle"

\* The first name that is free.
UniquePath == CHOOSE n \in Names : bundles[n] = None /\ \A m \in Names : m < n => bundles[m] # None

-----------------------------------------------------------------------------
(* The window and the check                                                  *)

OpenExport(f) ==
    /\ window = NoWindow /\ question = NoFilm
    /\ exports < MaxExports /\ exports' = exports + 1
    /\ \E dump \in BOOLEAN : window' = [of |-> f, dump |-> dump, state |-> "setup"]
    /\ UNCHANGED <<unsaved, pendingOf, precheck, question, prepublish, okayed, export, bundles, disturbed>>

\* export_project: refused while an export runs.
ExportProject(f, dump) ==
    export' = IF export.pc # "idle" THEN export
              ELSE [NoExport EXCEPT !.of = f, !.dump = dump, !.pc = "name",
                                    !.checked = ~dump \/ okayed' = f]

\* Without a dump the export starts; a scan that runs is not started again.
RequestExport ==
    /\ window.state = "setup" /\ question = NoFilm
    /\ window' = [window EXCEPT !.state = "running"]
    /\ IF ~window.dump
         THEN ExportProject(window.of, FALSE) /\ UNCHANGED <<pendingOf, precheck, okayed>>
         ELSE /\ IF precheck # NoFilm THEN UNCHANGED <<pendingOf, precheck, okayed>>
                 ELSE pendingOf' = window.of /\ precheck' = window.of /\ okayed' = NoFilm
              /\ UNCHANGED export
    /\ UNCHANGED <<unsaved, question, prepublish, bundles, exports, disturbed>>

StartPending ==
    /\ pendingOf' = NoFilm
    /\ IF pendingOf = NoFilm THEN UNCHANGED export ELSE ExportProject(pendingOf, TRUE)

\* A scan that fails counts as a scan that found nothing.
Prechecked ==
    /\ precheck # NoFilm /\ question = NoFilm /\ precheck' = NoFilm
    /\ \E found \in BOOLEAN :
         /\ found => precheck \in unsaved
         /\ IF pendingOf = NoFilm THEN UNCHANGED <<pendingOf, question, okayed, export>>
            ELSE IF found THEN question' = pendingOf /\ UNCHANGED <<pendingOf, okayed, export>>
            ELSE okayed' = precheck /\ StartPending /\ UNCHANGED question
    /\ UNCHANGED <<unsaved, window, prepublish, bundles, exports, disturbed>>

\* The box waits for the answer: export as it is.
ExportAnyway ==
    /\ question # NoFilm /\ question' = NoFilm
    /\ okayed' = question
    /\ StartPending
    /\ UNCHANGED <<unsaved, window, precheck, prepublish, bundles, exports, disturbed>>

\* Or publish first, unless the credentials are refused: then nothing goes on.
PublishThenExport ==
    /\ question # NoFilm /\ question' = NoFilm
    /\ \/ prepublish' = pendingOf
       \/ UNCHANGED prepublish
    /\ UNCHANGED <<unsaved, window, pendingOf, precheck, okayed, export, bundles, exports, disturbed>>

\* A publication that fails ends the matter, and the window is not told.
PublishedBefore ==
    /\ prepublish # NoFilm /\ question = NoFilm /\ prepublish' = NoFilm
    /\ \/ /\ unsaved' = unsaved \ {prepublish} /\ okayed' = prepublish
          /\ StartPending
       \/ UNCHANGED <<unsaved, okayed, pendingOf, export>>
    /\ UNCHANGED <<window, precheck, question, bundles, exports, disturbed>>

\* Cancel sets a flag, which the export clears when it starts.
CancelExport ==
    /\ window.state = "running" /\ question = NoFilm
    /\ window' = [window EXCEPT !.state = "cancelling"]
    /\ export' = [export EXCEPT !.cancelled = export.pc # "idle"]
    /\ UNCHANGED <<unsaved, pendingOf, precheck, question, prepublish, okayed, bundles, exports, disturbed>>

\* A busy window cannot be closed, only escaped from; one that nothing answers must be.
CloseExport ==
    /\ window # NoWindow /\ question = NoFilm
    /\ window.state \in {"running", "cancelling"} => Quiet \/ "escapes" \in ExportHabits
    /\ window' = NoWindow
    /\ UNCHANGED <<unsaved, pendingOf, precheck, question, prepublish, okayed, export, bundles, exports, disturbed>>

-----------------------------------------------------------------------------
(* The export thread                                                         *)

Step(from, to) == export.pc = from /\ export' = [export EXCEPT !.pc = to]
OnlyThread == UNCHANGED <<unsaved, window, pendingOf, precheck, question, prepublish, okayed, exports, disturbed>>

\* A folder without a free name stands for none of the code: names never run out.
\* A destination that cannot be made fails the export before there is a name.
NameBundle ==
    /\ export.pc = "name"
    /\ \/ /\ \E n \in Names : bundles[n] = None
          /\ export' = [export EXCEPT !.pc = "gather", !.cancelled = FALSE, !.name = UniquePath]
       \/ export' = [export EXCEPT !.pc = "report", !.cancelled = FALSE]
    /\ UNCHANGED bundles /\ OnlyThread

\* Queries that fail count as empty, except that of the project itself.
Gather ==
    /\ Step("gather", "pack") \/ Step("gather", "report")
    /\ UNCHANGED bundles /\ OnlyThread

AddPart(p) ==
    export' = [export EXCEPT !.has = @ \cup {p}, !.listed = @ \cup {p}]

WriteMetadata ==
    /\ export.pc = "pack" /\ "kitsu" \notin export.has
    /\ AddPart("kitsu")
    /\ UNCHANGED bundles /\ OnlyThread

\* A download that breaks leaves an entry that is not listed; a cancelled one none.
WriteMedia ==
    /\ export.pc = "pack" /\ "kitsu" \in export.has /\ "files" \notin export.has /\ "media" \notin export.has
    /\ AddPart("media") \/ export' = [export EXCEPT !.has = @ \cup {"media"}]
    /\ UNCHANGED bundles /\ OnlyThread

WriteFiles ==
    /\ export.pc = "pack" /\ "kitsu" \in export.has /\ "files" \notin export.has
    /\ AddPart("files")
    /\ UNCHANGED bundles /\ OnlyThread

\* A dump that fails is left out.
WriteDump ==
    /\ export.pc = "pack" /\ export.dump /\ "files" \in export.has /\ "dump" \notin export.has
    /\ ~export.cancelled
    /\ AddPart("dump")
    /\ UNCHANGED bundles /\ OnlyThread

\* Mutant: entries are written under the name of the bundle.
CommitEarly ==
    /\ export.pc = "pack" /\ "kitsu" \in export.has
    /\ bundles' = [bundles EXCEPT ![export.name] = [of |-> export.of, has |-> export.has,
                                                    listed |-> export.listed, by |-> 0]]
    /\ export' = [export EXCEPT !.put = TRUE, !.pc = IF "files" \in export.has THEN "decide" ELSE "pack"]
    /\ OnlyThread

\* The manifest lists what was added; the bundle is moved to its name.
CommitBundle ==
    /\ export.pc = "pack" /\ "files" \in export.has
    /\ bundles' = [bundles EXCEPT ![export.name] = [of |-> export.of, has |-> export.has,
                                                    listed |-> export.listed, by |-> 0]]
    /\ export' = [export EXCEPT !.pc = "decide", !.put = TRUE]
    /\ OnlyThread

Decide ==
    /\ export.pc = "decide"
    /\ export' = [export EXCEPT !.pc = "report", !.ok = ~export.cancelled]
    /\ bundles' = IF export.cancelled THEN [bundles EXCEPT ![export.name] = None] ELSE bundles
    /\ OnlyThread

\* An exception: what is at the name is removed, whoever put it there.
ExportCrashes ==
    /\ export.pc \in {"gather", "pack", "decide"}
    /\ export' = [export EXCEPT !.pc = "report", !.ok = FALSE]
    /\ bundles' = [bundles EXCEPT ![export.name] = None]
    /\ OnlyThread

\* The window that is open is told, whichever project it was opened for.
ExportFinished ==
    /\ export.pc = "report" /\ question = NoFilm
    /\ window' = IF window = NoWindow THEN window
                 ELSE [window EXCEPT !.state = IF export.ok THEN "success" ELSE "failure"]
    /\ export' = NoExport
    /\ UNCHANGED <<unsaved, pendingOf, precheck, question, prepublish, okayed, bundles, exports, disturbed>>

-----------------------------------------------------------------------------
(* Others                                                                    *)

FileSaved(f) ==
    /\ f \notin unsaved /\ disturbed < MaxDisturbed /\ disturbed' = disturbed + 1
    /\ unsaved' = unsaved \cup {f}
    /\ UNCHANGED <<window, pendingOf, precheck, question, prepublish, okayed, export, bundles, exports>>

OtherHubExports(f, n) ==
    /\ RacingHubs \/ export.pc \in {"idle", "name"}
    /\ disturbed < MaxDisturbed /\ disturbed' = disturbed + 1
    /\ bundles[n] = None
    /\ bundles' = [bundles EXCEPT ![n] = [of |-> f, has |-> {"kitsu", "files"}, listed |-> {"kitsu", "files"}, by |-> 1]]
    /\ UNCHANGED <<unsaved, window, pendingOf, precheck, question, prepublish, okayed, export, exports>>

ExportThread ==
    \/ NameBundle \/ Gather \/ WriteMetadata \/ WriteMedia \/ WriteFiles \/ WriteDump
    \/ CommitBundle \/ Decide \/ ExportCrashes \/ ExportFinished

ExportNext ==
    \/ \E f \in Films : OpenExport(f)
    \/ RequestExport \/ Prechecked \/ ExportAnyway \/ PublishThenExport \/ PublishedBefore
    \/ CancelExport \/ CloseExport
    \/ ExportThread
    \/ \E f \in Films : FileSaved(f)
    \/ \E f \in Films, n \in Names : OtherHubExports(f, n)

ExportFairness == WF_exportVars(ExportThread)
ExportSpec == ExportInit /\ [][ExportNext]_exportVars /\ ExportFairness

-----------------------------------------------------------------------------
(* Properties                                                                *)

ExportTypeOK ==
    /\ unsaved \subseteq Films
    /\ window.state \in {"none", "setup", "running", "cancelling", "success", "failure"}
    /\ {pendingOf, precheck, question, prepublish, okayed} \subseteq Films \cup {NoFilm}
    /\ question # NoFilm => question = pendingOf
    /\ export.listed \subseteq export.has /\ export.has \subseteq Parts
    /\ \A n \in Names : bundles[n].listed \subseteq bundles[n].has

\* "Uncommitted local files would be silently missing" from the dump (request_export):
\* an export with a dump runs for a project whose own scan, publication or waiver came
\* before it.
DumpIsChecked == export.pc # "idle" => export.checked

\* A bundle under its final name has all that its manifest must list, at every moment.
BundlesAreWhole ==
    \A n \in Names : bundles[n] # None => {"kitsu", "files"} \subseteq bundles[n].listed

\* "Return ``path`` if free" (unique_path): no export removes or replaces a bundle that
\* it has not put there itself.
BundlesKept ==
    [][\A n \in Names :
         bundles[n] # None /\ bundles'[n] # bundles[n] => export.put /\ export.name = n]_exportVars

\* A window that reports success was opened for the project whose bundle is now there.
SuccessIsOwn ==
    [][window'.state = "success" /\ window.state # "success" =>
          export.of = window.of /\ bundles[export.name].of = window.of]_exportVars

\* A window that waits for an export that runs is told how it ended.
WindowAnswered ==
    window.state \in {"running", "cancelling"} /\ export.pc # "idle"
        ~> window.state \notin {"running", "cancelling"}
=============================================================================
