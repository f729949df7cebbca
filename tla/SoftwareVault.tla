---------------------------- MODULE SoftwareVault ---------------------------
(* The software vault: archives of Blender and of add-ons on the share, the   *)
(* manifest that lists them for each Blender version, and the settings page   *)
(* that edits a copy of the manifest while downloads, the fetch of the studio *)
(* tools and the integrity audit run beside it.                               *)
EXTENDS Naturals, FiniteSets, FiniteSetsExt, Functions

CONSTANTS
    Versions, SeedVersion,  \* Blender versions, and the one of an empty vault
    Tools, Fits,            \* add-ons, and the pairs <<tool, version>> that are compatible
    VaultFaults,            \* subset of {"shortRead", "sameFile", "torn"}
    MaxEdits,               \* bound: edits, fetches, downloads and saves
    NoManifest, TornManifest

ASSUME VaultAssumption == SeedVersion \in Versions /\ MaxEdits \in Nat

Releases == 1..2
Latest == 2                 \* what a fetch of the tools brings
Loaders == {"explorer", "repair"}

VARIABLES
    shelf,      \* Blender archives under their final names: version -> "whole" or "bad"
    strays,     \* archives that lie in the vault's root: versions
    zips,       \* add-on archives: <<tool, release>>
    manifest,   \* the manifest file
    page,       \* the page: open, its copy of the manifest, the selected version
    fetch,      \* the thread that fetches the tools and the manifest it loaded
    loading,    \* loader -> the version it downloads, if any
    report,     \* what the last audit found, and what it looked at
    edits

vaultVars == <<shelf, strays, zips, manifest, page, fetch, loading, report, edits>>

NoOne == {}
Seeded == [v \in {SeedVersion} |-> << >>]
Closed == [open |-> FALSE, data |-> << >>, active |-> "", fetching |-> FALSE]
NoFetch == [at |-> "idle", for |-> "", held |-> << >>, got |-> {}]
Nothing == [known |-> FALSE, unregistered |-> {}, mismatched |-> {}, orphans |-> {},
            misplaced |-> {}, seen |-> <<NoOne, NoOne>>]

Over(f, g) == [x \in DOMAIN f \union DOMAIN g |-> IF x \in DOMAIN f THEN f[x] ELSE g[x]]

OneEdit == edits < MaxEdits /\ edits' = edits + 1

-----------------------------------------------------------------------------
(* Manifests: version -> tool -> [release, pinned]; a pinned entry names its  *)
(* archive, any other is matched with the first archive of the tool.          *)

Entry(r, pinned) == [release |-> r, pinned |-> pinned]
WithEntry(d, v, t, e) ==
    [d EXCEPT ![v] = [u \in DOMAIN @ \union {t} |-> IF u = t THEN e ELSE @[u]]]
WithVersion(d, v) ==
    [u \in DOMAIN d \union {v} |-> IF u \in DOMAIN d THEN d[u] ELSE << >>]
Read(m) == IF m = TornManifest THEN << >> ELSE m

(* The releases of a tool among the archives, and the one an entry stands for. *)
ReleasesOf(t) == {z[2] : z \in {y \in zips : y[1] = t}}
Matched(t, e) ==
    IF e.pinned /\ e.release \in ReleasesOf(t) THEN {e.release}
    ELSE IF ReleasesOf(t) = {} THEN {} ELSE {Min(ReleasesOf(t))}

Rows(d) == UNION {{<<v, t>> : t \in DOMAIN d[v]} : v \in DOMAIN d}

Unregistered(d) == DOMAIN shelf \ DOMAIN d
Mismatched(d) ==
    UNION {{<<r[1], r[2], m>> : m \in Matched(r[2], d[r[1]][r[2]]) \ {d[r[1]][r[2]].release}} :
              r \in Rows(d)}
Orphans(d) ==
    {z \in zips : \A r \in Rows(d) : r[2] = z[1] => z[2] \notin Matched(z[1], d[r[1]][r[2]])}

Audit(d) == [known |-> TRUE, unregistered |-> Unregistered(d), mismatched |-> Mismatched(d),
             orphans |-> Orphans(d), misplaced |-> strays, seen |-> <<Rows(d), zips>>]

-----------------------------------------------------------------------------
VaultInit ==
    /\ shelf = << >> /\ strays \in SUBSET {SeedVersion}
    /\ zips \in {{}, {<<t, 1>> : t \in Tools}}
    /\ manifest = NoManifest /\ page = Closed /\ fetch = NoFetch
    /\ loading = [l \in Loaders |-> ""] /\ report = Nothing /\ edits = 0

(* The page loads the manifest, writes the seed of an empty vault, and takes a torn file for an empty one. *)
OpenPage ==
    /\ ~page.open
    /\ manifest' = IF manifest = NoManifest THEN Seeded ELSE manifest
    /\ LET d == Read(manifest') IN
       page' = [page EXCEPT !.open = TRUE, !.data = d,
                            !.active = IF DOMAIN d = {} THEN "" ELSE CHOOSE v \in DOMAIN d : TRUE]
    /\ UNCHANGED <<shelf, strays, zips, fetch, loading, report, edits>>

(* The Hub ends: the page and its threads with it. What a download had        *)
(* written stays under a temporary name.                                      *)
HubEnds ==
    /\ page.open \/ fetch.at # "idle"
    /\ page' = Closed /\ fetch' = NoFetch /\ report' = Nothing
    /\ loading' = [l \in Loaders |-> ""]
    /\ UNCHANGED <<shelf, strays, zips, manifest, edits>>

(* The whole copy goes over the file, and what was written is loaded again.   *)
SavePage ==
    /\ page.open /\ OneEdit
    /\ manifest' \in {page.data} \union (IF "torn" \in VaultFaults THEN {TornManifest} ELSE {})
    /\ page' = IF manifest' = TornManifest THEN page
               ELSE [page EXCEPT !.active = IF DOMAIN page.data = {} THEN ""
                                            ELSE CHOOSE v \in DOMAIN page.data : TRUE]
    /\ UNCHANGED <<shelf, strays, zips, fetch, loading, report>>

SelectVersion ==
    /\ page.open /\ \E v \in DOMAIN page.data : page' = [page EXCEPT !.active = v]
    /\ UNCHANGED <<shelf, strays, zips, manifest, fetch, loading, report, edits>>

-----------------------------------------------------------------------------
(* Downloads: the explorer has one at a time; the audit's dialog starts its   *)
(* own. An archive that is there already is not loaded again.                 *)

StartDownload(l) ==
    /\ page.open /\ loading[l] = "" /\ OneEdit
    /\ \E v \in Versions :
          /\ "sameFile" \in VaultFaults \/ \A k \in Loaders : loading[k] # v
          /\ l = "repair" => report.known
          /\ loading' = [loading EXCEPT ![l] = v]
    /\ UNCHANGED <<shelf, strays, zips, manifest, page, fetch, report>>

(* Blocks go to a temporary file that is renamed at the end of the answer,    *)
(* wherever that was; two downloads of one archive share the temporary file.  *)
Arrived(l, v) ==
    IF v \in DOMAIN shelf THEN {shelf[v]}
    ELSE {IF \E k \in Loaders \ {l} : loading[k] = v THEN "bad" ELSE "whole"}
           \union (IF "shortRead" \in VaultFaults THEN {"bad"} ELSE {})

(* The explorer's version is added to the page's copy and selected.           *)
DownloadDone(l) ==
    LET v == loading[l] IN
    /\ v # ""
    /\ \E a \in Arrived(l, v) :
          shelf' = [u \in DOMAIN shelf \union {v} |-> IF u = v THEN a ELSE shelf[u]]
    /\ page' = IF l # "explorer" THEN page
               ELSE [page EXCEPT !.data = WithVersion(@, v), !.active = v]
    /\ loading' = [loading EXCEPT ![l] = ""]
    /\ UNCHANGED <<strays, zips, manifest, fetch, report, edits>>

DownloadFails(l) ==
    /\ loading[l] # "" /\ loading' = [loading EXCEPT ![l] = ""]
    /\ UNCHANGED <<shelf, strays, zips, manifest, page, fetch, report, edits>>

-----------------------------------------------------------------------------
(* The fetch of the tools runs for the version selected when it starts, on    *)
(* its own copy of the manifest.                                              *)

FetchTools ==
    /\ page.open /\ ~page.fetching /\ page.active # "" /\ OneEdit
    /\ page' = [page EXCEPT !.fetching = TRUE]
    /\ fetch' = [NoFetch EXCEPT !.at = "started", !.for = page.active]
    /\ UNCHANGED <<shelf, strays, zips, manifest, loading, report>>

FetchLoads ==
    /\ fetch.at = "started"
    /\ fetch' = [fetch EXCEPT !.at = "packing", !.held = Read(manifest)]
    /\ UNCHANGED <<shelf, strays, zips, manifest, page, loading, report, edits>>

(* A valid tool that fits is copied to the vault and written to the manifest. *)
RegisterIfCompatible(t) ==
    /\ fetch.at = "packing" /\ t \notin fetch.got /\ <<t, fetch.for>> \in Fits
    /\ zips' = zips \union {<<t, Latest>>}
    /\ fetch' = [fetch EXCEPT !.got = @ \union {t},
                    !.held = WithEntry(WithVersion(@, fetch.for), fetch.for, t, Entry(Latest, FALSE))]
    /\ manifest' = fetch'.held
    /\ UNCHANGED <<shelf, strays, page, loading, report, edits>>

Fetched(d, v, got) ==
    IF v \notin DOMAIN d THEN d
    ELSE [d EXCEPT ![v] = Over([t \in got |-> Entry(Latest, FALSE)], @)]

(* The page adds what was registered to the version it shows by then.         *)
FetchDone ==
    /\ fetch.at = "packing"
    /\ \A t \in Tools : <<t, fetch.for>> \in Fits => t \in fetch.got
    /\ page' = [page EXCEPT !.fetching = FALSE, !.data = Fetched(@, page.active, fetch.got)]
    /\ fetch' = NoFetch
    /\ UNCHANGED <<shelf, strays, zips, manifest, loading, report, edits>>

FetchFails ==
    /\ fetch.at # "idle" /\ fetch' = NoFetch /\ page' = [page EXCEPT !.fetching = FALSE]
    /\ UNCHANGED <<shelf, strays, zips, manifest, loading, report, edits>>

-----------------------------------------------------------------------------
(* (a slip of InjectZip: the archive is listed and not copied)                *)
ListWithoutCopy ==
    /\ page.open /\ page.active \in DOMAIN page.data /\ OneEdit
    /\ \E t \in Tools, r \in Releases :
          page' = [page EXCEPT !.data = WithEntry(@, page.active, t, Entry(r, FALSE))]
    /\ UNCHANGED <<shelf, strays, zips, manifest, fetch, loading, report>>

(* An add-on of the user's, or the toolkit of the Hub itself, is copied and   *)
(* listed for the selected version, fitting or not.                           *)
InjectZip ==
    /\ page.open /\ page.active \in DOMAIN page.data /\ OneEdit
    /\ \E t \in Tools, r \in Releases :
          /\ zips' = zips \union {<<t, r>>}
          /\ page' = [page EXCEPT !.data = WithEntry(@, page.active, t, Entry(r, FALSE))]
    /\ UNCHANGED <<shelf, strays, manifest, fetch, loading, report>>

DeleteVersion ==
    /\ page.open /\ report.known /\ OneEdit
    /\ \E v \in DOMAIN page.data \ DOMAIN shelf :
          LET left == DOMAIN page.data \ {v} IN
          page' = [page EXCEPT !.data = Restrict(@, left),
                      !.active = IF @ # v THEN @ ELSE IF left = {} THEN "" ELSE CHOOSE u \in left : TRUE]
    /\ UNCHANGED <<shelf, strays, zips, manifest, fetch, loading, report>>

(* The audit reads the vault and the page's copy; its dialog then offers what *)
(* it found, while other threads may still end.                               *)
VerifyIntegrity ==
    /\ page.open /\ report' = Audit(page.data)
    /\ UNCHANGED <<shelf, strays, zips, manifest, page, fetch, loading, edits>>

Registered(d, versions) ==
    [v \in DOMAIN d \union versions |-> IF v \in DOMAIN d THEN d[v] ELSE << >>]

(* (a slip of Releasing: a fix goes to every add-on of its version)           *)
ReleasingByVersion(d, fixes) ==
    [v \in DOMAIN d |-> [t \in DOMAIN d[v] |->
        LET to == {f[3] : f \in {g \in fixes : g[1] = v}}
        IN  IF to = {} THEN d[v][t] ELSE [d[v][t] EXCEPT !.release = CHOOSE r \in to : TRUE]]]

Releasing(d, fixes) ==
    [v \in DOMAIN d |-> [t \in DOMAIN d[v] |->
        LET to == {f[3] : f \in {g \in fixes : g[1] = v /\ g[2] = t}}
        IN  IF to = {} THEN d[v][t] ELSE [d[v][t] EXCEPT !.release = CHOOSE r \in to : TRUE]]]

ApplyFixes ==
    /\ page.open /\ report.known /\ OneEdit
    /\ page' = [page EXCEPT !.data = Releasing(Registered(@, report.unregistered), report.mismatched)]
    /\ UNCHANGED <<shelf, strays, zips, manifest, fetch, loading, report>>

RegisterOrphans ==
    /\ page.open /\ report.known /\ page.active \in DOMAIN page.data /\ OneEdit
    /\ \E z \in report.orphans :
          page' = [page EXCEPT !.data = WithEntry(@, page.active, z[1], Entry(z[2], TRUE))]
    /\ UNCHANGED <<shelf, strays, zips, manifest, fetch, loading, report>>

(* Archives in the root move to their folder, over what is there, and the     *)
(* audit runs again.                                                          *)
MoveMisplaced ==
    /\ page.open /\ report.known /\ report.misplaced \intersect strays # {}
    /\ strays' = strays \ report.misplaced
    /\ shelf' = Over([v \in report.misplaced \intersect strays |-> "whole"], shelf)
    /\ report' = [Audit(page.data) EXCEPT !.misplaced = strays',
                     !.unregistered = DOMAIN shelf' \ DOMAIN page.data]
    /\ UNCHANGED <<zips, manifest, page, fetch, loading, edits>>

VaultNext ==
    \/ OpenPage \/ HubEnds \/ SavePage \/ SelectVersion
    \/ \E l \in Loaders : StartDownload(l) \/ DownloadDone(l) \/ DownloadFails(l)
    \/ FetchTools \/ FetchLoads \/ FetchDone \/ FetchFails
    \/ \E t \in Tools : RegisterIfCompatible(t)
    \/ InjectZip \/ DeleteVersion \/ VerifyIntegrity \/ ApplyFixes \/ RegisterOrphans
    \/ MoveMisplaced

VaultSpec == VaultInit /\ [][VaultNext]_vaultVars
-----------------------------------------------------------------------------
IsManifest(m) ==
    /\ DOMAIN m \subseteq Versions
    /\ \A v \in DOMAIN m : /\ DOMAIN m[v] \subseteq Tools
                           /\ \A t \in DOMAIN m[v] : m[v][t] \in [release : Releases, pinned : BOOLEAN]

(* The vault, the page and its threads keep their shape; the page's button is *)
(* disabled exactly while its fetch runs.                                     *)
VaultTypeOK ==
    /\ DOMAIN shelf \subseteq Versions /\ \A v \in DOMAIN shelf : shelf[v] \in {"whole", "bad"}
    /\ strays \subseteq Versions /\ zips \subseteq Tools \X Releases
    /\ manifest \in {NoManifest, TornManifest} \/ IsManifest(manifest)
    /\ page.open \in BOOLEAN /\ IsManifest(page.data) /\ page.active \in Versions \union {""}
    /\ page.fetching <=> fetch.at # "idle"
    /\ IsManifest(fetch.held) /\ fetch.got \subseteq Tools
    /\ loading \in [Loaders -> Versions \union {""}] /\ edits \in 0..MaxEdits

(* Whatever is listed, in the file, in the page's copy or in the copy of a    *)
(* running fetch, has its archive of that very release in the vault, and an   *)
(* archive under its final name is whole however its download ended.          *)
ListedIsThere ==
    /\ \A m \in ({manifest} \ {NoManifest, TornManifest}) \union {page.data, fetch.held} :
          \A r \in Rows(m) : <<r[2], m[r[1]][r[2]].release>> \in zips
    /\ \A v \in DOMAIN shelf : shelf[v] = "whole"

(* Applying the fixes of an audit that nothing has overtaken leaves nothing   *)
(* to fix: the versions on the shelf are listed and every entry has the       *)
(* release of the archive it is matched with.                                 *)
FixesHold ==
    [][ (report.known /\ report.seen = <<Rows(page.data), zips>>
            /\ report.mismatched = Mismatched(page.data) /\ page'.data # page.data
            /\ page'.data = Releasing(Registered(page.data, report.unregistered), report.mismatched))
          => Mismatched(page'.data) = {} /\ report.unregistered \subseteq DOMAIN page'.data ]_vaultVars

(* A tool that the fetch judged and registered is listed by the page only for *)
(* versions it is compatible with.                                            *)
FetchedToolsFit ==
    [][ (page.fetching /\ ~page'.fetching /\ page'.open)
          => \A v \in DOMAIN page.data : \A t \in DOMAIN page'.data[v] :
                t \in DOMAIN page.data[v] \/ <<t, v>> \in Fits ]_vaultVars
=============================================================================
