----------------------------- MODULE ProjectGrid ----------------------------
(* The grid of project cards: the catalogue is fetched, every card audited by *)
(* the one audit worker of the Hub, which outlives the dashboard that asked;  *)
(* damaged projects are listed for repair, one repair at a time, while the    *)
(* studio goes on and the share comes and goes.                               *)
EXTENDS Naturals, Sequences, FiniteSets, SequencesExt

CONSTANTS
    Titles,       \* the studio's projects
    MaxGridTurns, \* bound on what users do
    MaxMishaps,   \* bound on what the studio does, and on failures
    MaxBoards     \* bound on dashboards

VARIABLES
    kitsu,     \* projects open in Kitsu
    nas,       \* project -> condition of its folder
    mounted,   \* the share is connected
    board,     \* how many dashboards there were; one is alive
    render,    \* renders of the dashboard: _audit_generation
    cards,     \* the cards shown: project -> [shows, asked]
    damaged,   \* _corrupted_projects
    fetch,     \* the worker that fetches the catalogue
    audit,     \* the audit worker
    queued,    \* the one request that waits for it
    dialogs,   \* repair dialogs, the last one in front
    repair,    \* the repair worker
    fresh,     \* nothing has changed or failed since the last refresh
    gridTurns, mishaps

gridVars == <<kitsu, nas, mounted, board, render, cards, damaged, fetch, audit, queued,
              dialogs, repair, fresh, gridTurns, mishaps>>
worldVars == <<kitsu, nas, mounted>>
boardVars == <<board, render, cards, damaged>>
auditVars == <<audit, queued>>
repairVars == <<dialogs, repair>>

Conditions == {"absent", "missing", "invalid", "valid", "ready", "outdated"}
Whole == {"valid", "ready", "outdated"}
Damage == {"ghost", "orphan", "missing", "invalid"}

NoFetch == [pc |-> "idle", list |-> {}, pending |-> FALSE]
NoAudit == [on |-> FALSE, token |-> 0, by |-> 0, todo |-> {}, found |-> << >>]
NoRepair == [pc |-> "idle", title |-> "", code |-> ""]

OnShare(t) == IF mounted THEN nas[t] ELSE "absent"

\* What a card shows: the audit's findings, and whether an update is due when it is drawn.
Status(there, condition, now) ==
    IF condition # "absent" /\ ~there THEN "ghost"
    ELSE IF condition = "absent" /\ there THEN "orphan"
    ELSE IF condition \in {"missing", "invalid", "ready"} THEN condition
    ELSE IF now = "outdated" THEN "outdated" ELSE "cloudOnly"
Truth(t) == Status(t \in kitsu, OnShare(t), OnShare(t))

\* A dashboard that is shown asks for its projects at once.
GridFrom(shown) ==
    /\ kitsu = Titles
    /\ nas \in [Titles -> {"absent", "missing", "ready"}]
    /\ mounted = TRUE
    /\ board = 1 /\ render = 0 /\ cards = << >> /\ damaged = {}
    /\ fetch = IF shown THEN [NoFetch EXCEPT !.pc = "asked"] ELSE NoFetch
    /\ audit = NoAudit /\ queued = << >>
    /\ dialogs = << >> /\ repair = NoRepair
    /\ fresh = shown /\ gridTurns = 0 /\ mishaps = 0

GridInit == GridFrom(TRUE)

UserActs == gridTurns < MaxGridTurns /\ gridTurns' = gridTurns + 1
Mishap == mishaps < MaxMishaps /\ mishaps' = mishaps + 1 /\ fresh' = FALSE

\* Mutant: a refresh during a refresh is ignored.
AskedOnce(f) == IF f.pc = "idle" THEN [NoFetch EXCEPT !.pc = "asked"] ELSE f

\* refresh(): asked for while the worker runs, it runs again at its end.
Asked(f) == IF f.pc = "idle" THEN [NoFetch EXCEPT !.pc = "asked"] ELSE [f EXCEPT !.pending = TRUE]

-----------------------------------------------------------------------------
(* The grid                                                                  *)

Refresh ==
    /\ dialogs = << >> /\ UserActs
    /\ fetch' = Asked(fetch) /\ fresh' = TRUE
    /\ UNCHANGED <<worldVars, boardVars, auditVars, repairVars, mishaps>>

\* Another profile: a new dashboard with a grid and a view model of its own, and the
\* audit view model of the old one.  Refused while a repair runs.
SwitchProfile ==
    /\ dialogs = << >> /\ repair.pc = "idle"
    /\ board < MaxBoards /\ board' = board + 1
    /\ render' = 0 /\ cards' = << >> /\ damaged' = {}
    /\ fetch' = [NoFetch EXCEPT !.pc = "asked"] /\ fresh' = TRUE
    /\ UNCHANGED <<worldVars, auditVars, repairVars, gridTurns, mishaps>>

ListProjects ==
    /\ fetch.pc = "asked"
    /\ \/ fetch' = [fetch EXCEPT !.pc = "listed", !.list = kitsu] /\ UNCHANGED <<fresh, mishaps>>
       \/ fetch' = [fetch EXCEPT !.pc = "listed"] /\ Mishap   \* no answer: an empty list
    /\ UNCHANGED <<worldVars, boardVars, auditVars, repairVars, gridTurns>>

\* One request waits: the newest.
AuditProjects(titles, token) ==
    IF audit.on
      THEN /\ queued' = <<[token |-> token, by |-> board, todo |-> titles]>>
           /\ UNCHANGED audit
      ELSE /\ audit' = [on |-> TRUE, token |-> token, by |-> board, todo |-> titles, found |-> << >>]
           /\ UNCHANGED queued

RenderProjects ==
    /\ fetch.pc = "listed"
    /\ render' = render + 1
    /\ cards' = [t \in fetch.list |-> [shows |-> "checking", asked |-> board, token |-> 0]]
    /\ damaged' = {}
    /\ AuditProjects(fetch.list, render')
    /\ fetch' = IF fetch.pending THEN [NoFetch EXCEPT !.pc = "asked"] ELSE NoFetch
    /\ UNCHANGED <<worldVars, board, repairVars, fresh, gridTurns, mishaps>>

-----------------------------------------------------------------------------
(* The audit                                                                 *)

\* Kitsu is asked first, then the share; an exception skips the project.
AuditProject(t) ==
    /\ audit.on /\ t \in audit.todo /\ audit.found = << >>
    /\ \/ /\ audit' = [audit EXCEPT !.todo = @ \ {t},
                                    !.found = <<[title |-> t, there |-> t \in kitsu, nas |-> OnShare(t)]>>]
          /\ UNCHANGED <<fresh, mishaps>>
       \/ audit' = [audit EXCEPT !.todo = @ \ {t}] /\ Mishap
    /\ UNCHANGED <<worldVars, boardVars, fetch, queued, repairVars, gridTurns>>

Shown(t, status) ==
    /\ cards' = [cards EXCEPT ![t] = [shows |-> status, asked |-> audit.by, token |-> audit.token]]
    /\ damaged' = IF status \in Damage THEN damaged \cup {[title |-> t, code |-> status]} ELSE damaged

\* The token tells the renders of one grid apart: every grid counts from one.
ProjectAudited ==
    /\ audit.found # << >>
    /\ LET r == audit.found[1]
       IN IF audit.token = render /\ r.title \in DOMAIN cards
            THEN Shown(r.title, Status(r.there, r.nas, OnShare(r.title)))
            ELSE UNCHANGED <<cards, damaged>>
    /\ audit' = [audit EXCEPT !.found = << >>]
    /\ UNCHANGED <<worldVars, board, render, fetch, queued, repairVars, fresh, gridTurns, mishaps>>

AuditFinished ==
    /\ audit.on /\ audit.todo = {} /\ audit.found = << >>
    /\ audit' = IF queued = << >> THEN NoAudit
                ELSE [on |-> TRUE, token |-> queued[1].token, by |-> queued[1].by,
                      todo |-> queued[1].todo, found |-> << >>]
    /\ queued' = << >>
    /\ UNCHANGED <<worldVars, boardVars, fetch, repairVars, fresh, gridTurns, mishaps>>

-----------------------------------------------------------------------------
(* Repairs                                                                   *)

\* Every project chosen from the list gets a dialog, each in front of the one before.
OpenRepairs(d, e) ==
    /\ dialogs = << >> /\ UserActs
    /\ d \in damaged /\ e \in damaged
    /\ dialogs' = LET Dialog(x) == [title |-> x.title, code |-> x.code, listens |-> FALSE]
                  IN IF d = e THEN <<Dialog(d)>> ELSE <<Dialog(d), Dialog(e)>>
    /\ UNCHANGED <<worldVars, boardVars, fetch, auditVars, repair, fresh, mishaps>>

Foremost == Last(dialogs)
Listening == [dialogs EXCEPT ![Len(dialogs)].listens = TRUE]

\* An orphan's repair asks for credentials: refused, its dialog listens for nothing.
ExecuteRepair ==
    /\ dialogs # << >> /\ ~Foremost.listens /\ repair.pc = "idle"
    /\ dialogs' = Listening
    /\ \/ repair' = [pc |-> "asked", title |-> Foremost.title, code |-> Foremost.code]
       \/ Foremost.code = "orphan" /\ UNCHANGED repair
    /\ UNCHANGED <<worldVars, boardVars, fetch, auditVars, fresh, gridTurns, mishaps>>

\* Closing a dialog does not stop its repair.
CloseRepair ==
    /\ dialogs # << >>
    /\ dialogs' = SubSeq(dialogs, 1, Len(dialogs) - 1)
    /\ UNCHANGED <<worldVars, boardVars, fetch, auditVars, repair, fresh, gridTurns, mishaps>>

\* The production is made anew, and the blueprint relinked to it: a step that may fail.
FixGhost(t) ==
    /\ OnShare(t) # "absent" /\ t \notin kitsu
    /\ kitsu' = kitsu \cup {t}
    /\ \/ /\ nas' = [nas EXCEPT ![t] = IF @ = "ready" THEN "outdated" ELSE IF @ \in Whole THEN @ ELSE "valid"]
          /\ repair' = [repair EXCEPT !.pc = "done"]
       \/ UNCHANGED nas /\ repair' = [repair EXCEPT !.pc = "failed"]

\* A blueprint made in the dialog is written, whatever there is by now; an orphan's
\* repository may fail after that.
Rebuild(t) ==
    /\ mounted
    /\ nas' = [nas EXCEPT ![t] = "valid"] /\ UNCHANGED kitsu
    /\ \E pc \in IF repair.code = "orphan" THEN {"done", "failed"} ELSE {"done"} :
          repair' = [repair EXCEPT !.pc = pc]

RunRepair ==
    /\ repair.pc = "asked"
    /\ \/ repair.code = "ghost" /\ FixGhost(repair.title) /\ fresh' = FALSE
       \/ repair.code # "ghost" /\ Rebuild(repair.title) /\ fresh' = FALSE
       \/ repair' = [repair EXCEPT !.pc = "failed"] /\ UNCHANGED <<kitsu, nas, fresh>>
    /\ UNCHANGED <<mounted, boardVars, fetch, auditVars, dialogs, gridTurns, mishaps>>

\* The dialog that listens is told (never two do); success closes it and refreshes
\* the grid.
RepairFinished ==
    /\ repair.pc \in {"done", "failed"} /\ repair' = NoRepair
    /\ IF repair.pc = "done" /\ \E i \in DOMAIN dialogs : dialogs[i].listens
         THEN /\ \E i \in DOMAIN dialogs : dialogs[i].listens /\ dialogs' = RemoveAt(dialogs, i)
              /\ fetch' = Asked(fetch) /\ fresh' = TRUE
         ELSE /\ dialogs' = [i \in DOMAIN dialogs |-> [dialogs[i] EXCEPT !.listens = FALSE]]
              /\ UNCHANGED <<fetch, fresh>>
    /\ UNCHANGED <<worldVars, boardVars, auditVars, gridTurns, mishaps>>

-----------------------------------------------------------------------------
(* The studio                                                                *)

\* Another Hub repairs a project, or creates one.
RepairedElsewhere(t) ==
    /\ mounted /\ Mishap
    /\ nas' = [nas EXCEPT ![t] = "valid"] /\ kitsu' = kitsu \cup {t}
    /\ UNCHANGED <<mounted, boardVars, fetch, auditVars, repairVars, gridTurns>>

\* A production is closed or deleted in Kitsu.
ProductionCloses(t) ==
    /\ t \in kitsu /\ Mishap
    /\ kitsu' = kitsu \ {t}
    /\ UNCHANGED <<nas, mounted, boardVars, fetch, auditVars, repairVars, gridTurns>>

ShareComesAndGoes ==
    /\ Mishap /\ mounted' = ~mounted
    /\ UNCHANGED <<kitsu, nas, boardVars, fetch, auditVars, repairVars, gridTurns>>

GridWork == \/ ListProjects \/ RenderProjects
            \/ \E t \in Titles : AuditProject(t)
            \/ ProjectAudited \/ AuditFinished

GridNext ==
    \/ GridWork
    \/ Refresh \/ SwitchProfile
    \/ \E d, e \in damaged : OpenRepairs(d, e)
    \/ ExecuteRepair \/ CloseRepair \/ RunRepair \/ RepairFinished
    \/ \E t \in Titles : RepairedElsewhere(t)
    \/ \E t \in Titles : ProductionCloses(t)
    \/ ShareComesAndGoes

\* The workers run and their signals are delivered.
GridFairness == WF_gridVars(GridWork)

GridSpec == GridInit /\ [][GridNext]_gridVars /\ GridFairness

-----------------------------------------------------------------------------
(* Properties                                                                *)

GridTypeOK ==
    /\ kitsu \subseteq Titles /\ nas \in [Titles -> Conditions] /\ mounted \in BOOLEAN
    /\ DOMAIN cards \subseteq Titles
    /\ \A t \in DOMAIN cards : cards[t].shows \in Damage \cup {"checking", "ready", "outdated", "cloudOnly"}
    /\ damaged \subseteq [title : Titles, code : Damage]
    /\ fetch.pc \in {"idle", "asked", "listed"} /\ fetch.list \subseteq Titles
    /\ audit.todo \subseteq Titles /\ Len(audit.found) <= 1 /\ Len(queued) <= 1
    /\ queued # << >> => audit.on
    /\ audit.found # << >> => audit.on
    /\ Len(dialogs) <= 2 /\ Cardinality({i \in DOMAIN dialogs : dialogs[i].listens}) <= 1
    /\ repair.pc \in {"idle", "asked", "done", "failed"}
    /\ repair.pc # "idle" => repair.title \in Titles /\ repair.code \in Damage

\* "A new render invalidates any in-flight audit ... stale results are discarded"
\* (_render_projects): what a card shows was asked for by the render that drew the
\* card, unless another dashboard asked.
StaleResultsDropped ==
    \A t \in DOMAIN cards :
        cards[t].asked = board => cards[t].token \in {0, render}

\* The repair list offers what some card of the grid shows or has shown, and on the
\* first dashboard exactly the damage that is shown.
RepairListIsShown ==
    /\ \A d \in damaged : d.title \in DOMAIN cards
    /\ \A t \in DOMAIN cards : cards[t].shows \in Damage => [title |-> t, code |-> cards[t].shows] \in damaged
    /\ board = 1 => damaged = {[title |-> t, code |-> cards[t].shows] :
                                 t \in {u \in DOMAIN cards : cards[u].shows \in Damage}}

\* A dialog of the batch that reports success is the one whose repair has ended.
RepairReportsToItsDialog ==
    [][RepairFinished /\ Len(dialogs') < Len(dialogs) =>
          Foremost.title = repair.title /\ Foremost.code = repair.code]_gridVars

\* "Regenerate the lost or corrupted ``project_init.json`` blueprint" (fix_blueprint): a
\* blueprint that is whole by now is not written over by a repair.
RepairKeepsBlueprints ==
    [][RunRepair /\ repair.code # "ghost" /\ nas[repair.title] \in Whole
          => UNCHANGED nas /\ repair'.pc = "failed"]_gridVars

\* Once the studio is quiet and the last refresh came after its last change, every open
\* project has a card and every card shows what is true.
GridConverges ==
    <>[]fresh => <>[](DOMAIN cards = kitsu /\ \A t \in kitsu : cards[t].shows = Truth(t))
=============================================================================
