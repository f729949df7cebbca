------------------------------- MODULE HubShell ------------------------------
(* The shell of the Hub: the account that is signed in, the dashboard it is  *)
(* shown, the workers dashboards start under their keys, the credentials     *)
(* asked for on the way, the count of Blender sessions, and what must be     *)
(* over before the profile changes, the account leaves or the window closes. *)
EXTENDS Naturals, Sequences

CONSTANTS
    Logins,      \* roles of the people at this machine
    Hosts,       \* VCS servers
    HostOf,      \* the projects on the cards, with the server each is bound to
    MaxWork,     \* bound on the workers ever started
    MaxMoves,    \* bound on logins, switches and launches
    ShellHabits  \* subset of {"escapes"}: leaves the window of an export with Escape

ASSUME ShellAssumption ==
    /\ Logins \subseteq {"td", "manager", "artist", "supervisor"}
    /\ HostOf \in [DOMAIN HostOf -> Hosts]
    /\ ShellHabits \subseteq {"escapes"}

VARIABLES
    screen,     \* "login", the profile of the dashboard, or "closed"
    account,    \* role of who is signed in, or "none"
    signing,    \* role of who is signing in, or "none"
    dashboards, \* how many dashboards there were; the last one is shown
    works,      \* every worker: [key, board, as, pc]
    slots,      \* key -> worker the manager of this dashboard holds, or 0
    vaulted,    \* servers whose credentials are in the vault
    ask,        \* << >>, or what waits for the credentials dialog
    sessions,   \* Blender programs: [watched, ended, loose]
    instances,  \* blender_instances
    moves

shellVars == <<screen, account, signing, dashboards, works, slots, vaulted, ask,
               sessions, instances, moves>>

Gated == {"install", "reset", "backfill", "migrate", "publish"}
Open == {"policy", "breakLock", "cleanup"}
\* What changes Kitsu or a file, too, and is not started as critical.
Aside == {"comment", "checklist", "assign", "taskFile", "person"}
Keys == Gated \cup Open \cup Aside \cup {"spawn", "precheck", "export"}
Critical(w) == w.key \notin Aside \cup {"precheck"}

Profiles(role) ==
    CASE role = "td"      -> {"td", "manager", "artist"}
      [] role = "manager" -> {"manager", "artist"}
      [] role = "artist"  -> {"artist"}
      [] OTHER            -> {}

\* A manager with the lead position, the editor, starts as an artist.
DefaultProfiles(role) == IF role = "manager" THEN {"manager", "artist"} ELSE {role}

ShellInit ==
    /\ screen = "login" /\ account = "none" /\ signing = "none"
    /\ dashboards = 0 /\ works = << >> /\ slots = [k \in Keys |-> 0]
    /\ vaulted = {} /\ ask = << >>
    /\ sessions = [watched |-> 0, ended |-> 0, loose |-> 0] /\ instances = 0
    /\ moves = 0

Shows(profiles) == screen \in profiles /\ ask = << >>
Dashboard == Shows({"td", "manager", "artist"})
Runs(i) == works[i].pc = "runs"
Busy(k) == slots[k] # 0 /\ Runs(slots[k])
CriticalRuns == \E i \in DOMAIN works : Runs(i) /\ Critical(works[i])
Move == moves < MaxMoves /\ moves' = moves + 1

\* The export window keeps the user until the export is over, but for Escape.
ExportWindow == \E i \in DOMAIN works : works[i].key \in {"precheck", "export"} /\ works[i].pc # "over"
                                           /\ works[i].board = dashboards
Free == ExportWindow => "escapes" \in ShellHabits

\* A dashboard with view models, and so worker managers, of its own.
NewDashboard(p) ==
    screen' = p /\ dashboards' = dashboards + 1 /\ slots' = [k \in Keys |-> 0]

-----------------------------------------------------------------------------
(* The account and the dashboard                                             *)

SignIn(role) ==
    /\ screen = "login" /\ signing = "none" /\ Move
    /\ signing' = role
    /\ UNCHANGED <<screen, account, dashboards, works, slots, vaulted, ask, sessions, instances>>

\* A role without access is logged out again at once.
SignedIn ==
    /\ screen = "login" /\ signing # "none" /\ signing' = "none"
    /\ \/ /\ Profiles(signing) # {}
          /\ account' = signing
          /\ \E p \in DefaultProfiles(signing) : NewDashboard(p)
       \/ UNCHANGED <<screen, account, dashboards, slots>>
    /\ UNCHANGED <<works, vaulted, ask, sessions, instances, moves>>

\* Another dashboard, with view models of its own; the one that leaves is kept.
ChangeProfile(p) ==
    /\ Dashboard /\ Free /\ Move
    /\ p \in Profiles(account) \ {screen}
    /\ instances = 0 /\ ~CriticalRuns
    /\ NewDashboard(p)
    /\ UNCHANGED <<account, signing, works, vaulted, ask, sessions, instances>>

LogOut ==
    /\ Dashboard /\ Free
    /\ instances = 0 /\ ~CriticalRuns
    /\ screen' = "login" /\ account' = "none" /\ vaulted' = {}
    /\ UNCHANGED <<signing, dashboards, works, slots, ask, sessions, instances, moves>>

\* The window closes, and the program ends with what still runs.
CloseHub ==
    /\ screen # "closed" /\ ask = << >> /\ Free
    /\ instances = 0 /\ ~CriticalRuns
    /\ screen' = "closed" /\ account' = "none" /\ vaulted' = {} /\ signing' = "none"
    /\ UNCHANGED <<dashboards, works, slots, ask, sessions, instances, moves>>

-----------------------------------------------------------------------------
(* Blender sessions                                                          *)

\* A task is opened by the artist's dashboard, which watches the program.
OpenSession ==
    /\ Shows({"artist"}) /\ Move
    /\ sessions' = [sessions EXCEPT !.watched = @ + 1]
    /\ instances' = instances + 1
    /\ UNCHANGED <<screen, account, signing, dashboards, works, slots, vaulted, ask>>

SessionEnds ==
    /\ sessions.watched > 0
    /\ sessions' = [sessions EXCEPT !.watched = @ - 1, !.ended = @ + 1]
    /\ UNCHANGED <<screen, account, signing, dashboards, works, slots, vaulted, ask, instances, moves>>

SessionReported ==
    /\ sessions.ended > 0 /\ screen # "closed"
    /\ sessions' = [sessions EXCEPT !.ended = @ - 1]
    /\ instances' = IF instances = 0 THEN 0 ELSE instances - 1
    /\ UNCHANGED <<screen, account, signing, dashboards, works, slots, vaulted, ask, moves>>

\* The button of a card: Blender is started and counted, and nobody watches it.
LaunchProject ==
    /\ Shows({"td", "manager"}) /\ Move
    /\ sessions' = [sessions EXCEPT !.loose = @ + 1]
    /\ instances' = instances + 1
    /\ UNCHANGED <<screen, account, signing, dashboards, works, slots, vaulted, ask>>

LooseSessionEnds ==
    /\ sessions.loose > 0
    /\ sessions' = [sessions EXCEPT !.loose = @ - 1]
    /\ UNCHANGED <<screen, account, signing, dashboards, works, slots, vaulted, ask, instances, moves>>

-----------------------------------------------------------------------------
(* Workers                                                                   *)

\* start() under a key whose worker runs does nothing, unless it is a batch.
Start(k) ==
    IF Busy(k) /\ k # "spawn" THEN UNCHANGED <<works, slots>>
    ELSE /\ works' = Append(works, [key |-> k, board |-> dashboards, as |-> account, pc |-> "runs"])
         /\ slots' = [slots EXCEPT ![k] = Len(works')]

\* The credentials of the project's server, from the vault or from the user.
Gate(k, p) ==
    IF HostOf[p] \in vaulted THEN Start(k) /\ UNCHANGED ask
    ELSE ask' = <<[key |-> k, host |-> HostOf[p]]>> /\ UNCHANGED <<works, slots>>

Command(k, profiles) ==
    /\ Shows(profiles) /\ ~ExportWindow /\ ~Busy(k) /\ Len(works) < MaxWork
    /\ UNCHANGED <<screen, account, signing, dashboards, vaulted, sessions, instances, moves>>

InstallProject(p) == Command("install", {"td", "manager", "artist"}) /\ Gate("install", p)
ResetWorkingCopy(p) == Command("reset", {"td", "manager"}) /\ Gate("reset", p)
BackfillSpawnedFiles(p) == Command("backfill", {"td"}) /\ Gate("backfill", p)
PublishChanges(p) == Command("publish", {"td", "manager", "artist"}) /\ Gate("publish", p)
MigrateProject(p) == Command("migrate", {"td"}) /\ Gate("migrate", p)
ApplyVcsPolicy == Command("policy", {"td"}) /\ Start("policy") /\ UNCHANGED ask
BreakVcsLock == Command("breakLock", {"td"}) /\ Start("breakLock") /\ UNCHANGED ask
CleanupLocalRepository == Command("cleanup", {"td"}) /\ Start("cleanup") /\ UNCHANGED ask
SpawnBatch(p) == Command("spawn", {"manager"}) /\ Gate("spawn", p)
PrecheckExport == Command("precheck", {"td", "manager"}) /\ Start("precheck") /\ UNCHANGED ask

\* Begun without a word to the shell: a comment and a checklist of the drawer, the
\* responsibles of the task board, the file of the link dialog, a person of the import.
PostComment == Command("comment", {"td", "manager", "artist"}) /\ Start("comment") /\ UNCHANGED ask
ToggleEntry == Command("checklist", {"td", "manager", "artist"}) /\ Start("checklist") /\ UNCHANGED ask
ChangeResponsibles == Command("assign", {"manager"}) /\ Start("assign") /\ UNCHANGED ask
WriteTaskFile == Command("taskFile", {"manager"}) /\ Start("taskFile") /\ UNCHANGED ask
CreatePerson == Command("person", {"td"}) /\ Start("person") /\ UNCHANGED ask

\* The dialog runs an event loop of its own; cancelled, nothing is started.
AnswerPrompt ==
    /\ ask # << >> /\ ask' = << >>
    /\ \/ /\ vaulted' = vaulted \cup {ask[1].host}
          /\ Start(ask[1].key)
       \/ UNCHANGED <<vaulted, works, slots>>
    /\ UNCHANGED <<screen, account, signing, dashboards, sessions, instances, moves>>

ThreadEnds(i) ==
    /\ Runs(i)
    /\ works' = [works EXCEPT ![i].pc = "ended"]
    /\ UNCHANGED <<screen, account, signing, dashboards, slots, vaulted, ask, sessions, instances, moves>>

\* What the end of a worker starts: the check before an export, the export, whatever
\* dashboard is shown by then.
Follow(i) ==
    LET done == [works EXCEPT ![i].pc = "over"]
    IN works' = IF works[i].key = "precheck" /\ ~(works[i].board = dashboards /\ Busy("export"))
                  THEN Append(done, [key |-> "export", board |-> works[i].board, as |-> account, pc |-> "runs"])
                  ELSE done

Followed(i) == IF works[i].board = dashboards /\ Len(works') > Len(works)
                 THEN [slots EXCEPT !["export"] = Len(works')] ELSE slots

\* Mutant: the slot is emptied, whoever is in it by now.
ReleaseSlot(i) ==
    /\ works[i].pc = "ended" /\ screen # "closed"
    /\ Follow(i)
    /\ slots' = IF works[i].board = dashboards THEN [Followed(i) EXCEPT ![works[i].key] = 0] ELSE slots
    /\ UNCHANGED <<screen, account, signing, dashboards, vaulted, ask, sessions, instances, moves>>

\* The manager empties the slot of the worker that has ended, if it still holds it.
WorkFinished(i) ==
    /\ works[i].pc = "ended" /\ screen # "closed"
    /\ Follow(i)
    /\ slots' = LET k == works[i].key
                IN IF works[i].board = dashboards /\ slots[k] = i THEN [Followed(i) EXCEPT ![k] = 0]
                   ELSE Followed(i)
    /\ UNCHANGED <<screen, account, signing, dashboards, vaulted, ask, sessions, instances, moves>>

Signals == SessionReported \/ \E i \in DOMAIN works : WorkFinished(i)
Threads == \E i \in DOMAIN works : ThreadEnds(i)

ShellNext ==
    \/ \E role \in Logins : SignIn(role)
    \/ SignedIn
    \/ \E p \in {"td", "manager", "artist"} : ChangeProfile(p)
    \/ LogOut \/ CloseHub
    \/ OpenSession \/ SessionEnds \/ LaunchProject \/ LooseSessionEnds
    \/ \E p \in DOMAIN HostOf :
          \/ InstallProject(p) \/ ResetWorkingCopy(p) \/ BackfillSpawnedFiles(p)
          \/ PublishChanges(p) \/ MigrateProject(p) \/ SpawnBatch(p)
    \/ ApplyVcsPolicy \/ BreakVcsLock \/ CleanupLocalRepository \/ PrecheckExport
    \/ PostComment \/ ToggleEntry \/ ChangeResponsibles \/ WriteTaskFile \/ CreatePerson
    \/ AnswerPrompt
    \/ Threads \/ Signals

ShellSpec == ShellInit /\ [][ShellNext]_shellVars

-----------------------------------------------------------------------------
(* Properties                                                                *)

ShellTypeOK ==
    /\ screen \in {"login", "td", "manager", "artist", "closed"}
    /\ account \in Logins \cup {"none"}
    /\ screen \in {"td", "manager", "artist"} => screen \in Profiles(account)
    /\ \A k \in Keys : slots[k] \in 0..Len(works) /\ (slots[k] # 0 => works[slots[k]].key = k)
    /\ vaulted \subseteq Hosts /\ Len(ask) <= 1
    /\ ask # << >> => ask[1].host \notin vaulted

\* "so workers and locked files are not interrupted" (access-profiles): whatever is
\* started as critical runs for the dashboard that is shown and for the account that
\* started it.  What is begun aside changes data, too, and may outlive all of them.
WorkStaysOnBoard ==
    \A i \in DOMAIN works : Runs(i) /\ Critical(works[i]) =>
        /\ works[i].board = dashboards /\ works[i].as = account
        /\ screen \notin {"login", "closed"}

\* closeEvent: no program that the Hub has opened is open when the window is gone,
\* neither a login screen under it.
SessionsOutlived ==
    sessions.watched > 0 => screen = "artist"

\* start() "optionally refuses to start a new worker while the previous one is running":
\* two workers of one dashboard never run under one key.
OneWorkerPerKey ==
    \A i, j \in DOMAIN works :
        Runs(i) /\ Runs(j) /\ i # j /\ works[i].board = works[j].board
            => works[i].key # works[j].key \/ works[i].key = "spawn"

\* "You have {0} 3D environment session(s) open" (closeEvent): the sessions that are
\* counted are open, or their end is on its way.
CountIsOpen == instances <= sessions.watched + sessions.ended + sessions.loose
=============================================================================
