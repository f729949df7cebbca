---------------------------- MODULE Notifications ----------------------------
(***************************************************************************)
(* The notification centre of one Hub.  Every svn and administration       *)
(* command of the machine, whoever is logged in, appends to one audit log; *)
(* a timer of the UI thread reads the end of that log and turns failures   *)
(* into notifications of the account that is logged in.  Each account has  *)
(* a state file; the service keeps the state of one account in memory and  *)
(* notices at its next call that another one has logged in.                *)
(*                                                                         *)
(* An event is its position in the log.  Texts are left out, and so are    *)
(* fingerprints: two events never have the same.  The login screen polls   *)
(* too, for the account "default"; nothing ever shows that account's list, *)
(* so that it is not kept here.                                            *)
(***************************************************************************)
EXTENDS Integers, Sequences, FiniteSets, SequencesExt

CONSTANTS
    Users, Tds,     \* people of this machine, and those who are TDs
    Nobody,         \* the account "default" of the login screen
    Window,         \* events the poll reads                       (200)
    MaxItems,       \* notifications in the list                   (100)
    MaxArchived,    \* dismissed ones that are remembered          (500)
    MaxSeen,        \* fingerprints a state file keeps             (500)
    Kinds,          \* of events: "quiet" is a success, or the unlock of a file
                    \* that is not locked; "client" and "admin" are failures,
                    \* "admin" of repository administration
    SlowLogin,      \* whether the timer may fire between log-in and dashboard
    MaxEvents       \* bound of the model: length of the log

ASSUME AccountsAssumption ==
    /\ Tds \subseteq Users /\ Nobody \notin Users
    /\ Kinds \subseteq {"quiet", "client", "admin"} /\ SlowLogin \in BOOLEAN

(* The sizes the code chooses satisfy both with little to spare. *)
ASSUME SizesAssumption ==
    /\ Window \in Nat \ {0} /\ MaxItems \in Nat \ {0} /\ MaxEvents \in Nat
    /\ MaxArchived \in Nat /\ MaxArchived >= 2 * (Window - 1) + MaxItems
    /\ MaxSeen \in Nat /\ MaxSeen >= 2 * Window - 1

(* Dashboard profiles, as far as notifications tell them apart. *)
Profiles == {"td", "other"}

VARIABLES
    log,        \* the audit log, its rotated part included
    legible,    \* events the file still holds, those beyond Window not counted
    who,        \* AuthService.current_user
    opening,    \* logged in, the dashboard not shown yet
    profile,    \* AppContext.active_profile_role
    user,       \* NotificationService._user_id
    mem,        \* the state of that account in memory
    file        \* the state file of every account

(* History, never read by the code's actions. *)
VARIABLES
    shown,      \* events that were in an account's list
    gone,       \* events the account dismissed
    since       \* length of the log at the account's first look, or -1

hub == <<who, opening, profile>>
past == <<shown, gone, since>>
centreVars == <<log, legible, who, opening, profile, user, mem, file, shown, gone, since>>

Events == 1 .. MaxEvents

\* One account's state: list, read marks, archive, fingerprints, baseline.
Blank == [items |-> <<>>, read |-> {}, archive |-> <<>>, seen |-> {}, baselined |-> FALSE]

(***************************************************************************)
(* The service.                                                            *)
(***************************************************************************)

Least(m, n) == IF m < n THEN m ELSE n

(* _ensure_loaded(): the state the next call works on. *)
Loaded == IF who = user THEN mem ELSE IF who = Nobody THEN Blank ELSE file[who]

(* read_recent(200) *)
Recent == Len(log) - legible + 1 .. Len(log)

(* _is_visible_to_current_role *)
Visible(e, p) == p = "td" \/ log[e] # "admin"

(* list(self._seen)[-500:]: a set has no order, so which fingerprints are  *)
(* dropped is anybody's choice.                                            *)
Kept(seen) ==
    IF Cardinality(seen) <= MaxSeen THEN {seen}
    ELSE {s \in SUBSET seen : Cardinality(s) = MaxSeen}

\* Mutant: the fingerprints are not written with the rest.
SaveStaleSeen(m) == file' = [file EXCEPT ![who] = [m EXCEPT !.seen = file[who].seen]]

(* _save() *)
Save(m) ==
    \E s \in Kept(m.seen) : file' = [file EXCEPT ![who] = [m EXCEPT !.seen = s]]

(* del list[limit:] *)
Cut(seq, limit) == SubSeq(seq, 1, Least(Len(seq), limit))

\* Mutant: what was dismissed may be announced again.
FreshUnarchived(m, p) ==
    {e \in Recent \ m.seen :
        log[e] # "quiet" /\ e \notin ToSet(m.items) /\ Visible(e, p)}

(* Failures of the window that are to be announced, oldest first. *)
Fresh(m, p) ==
    {e \in Recent \ m.seen :
        /\ log[e] # "quiet"
        /\ e \notin ToSet(m.archive) \cup ToSet(m.items)
        /\ Visible(e, p)}

(* The batch is inserted newest first, each at the top, so the oldest of   *)
(* it ends on top.                                                         *)
OldestFirst(batch) ==
    CHOOSE s \in [1 .. Cardinality(batch) -> batch] :
        \A i, j \in DOMAIN s : i < j => s[i] < s[j]

WithBatch(m, batch) ==
    LET items == Cut(OldestFirst(batch) \o m.items, MaxItems)
    IN  [m EXCEPT !.items = items, !.read = @ \cap ToSet(items), !.seen = @ \cup Recent]

(* The first look of an account: everything so far counts as seen. *)
Baseline(m) == [m EXCEPT !.seen = @ \cup Recent, !.baselined = TRUE]

(* refresh_from_audit(), at the login screen and under profile p *)
PollForNobody ==
    /\ user' = Nobody /\ mem' = Blank
    /\ UNCHANGED <<log, legible, file, past>>

Poll(p) ==
    /\ user' = who
    /\ IF ~Loaded.baselined
       THEN /\ mem' = Baseline(Loaded)
            /\ Save(Baseline(Loaded))
            /\ since' = [since EXCEPT ![who] = Len(log)]
            /\ UNCHANGED shown
       ELSE LET batch == Fresh(Loaded, p)
                m == WithBatch(Loaded, batch)
            IN  /\ mem' = m
                /\ IF batch = {} THEN UNCHANGED file ELSE Save(m)
                /\ shown' = [shown EXCEPT ![who] = @ \cup ToSet(m.items)]
                /\ UNCHANGED since
    /\ UNCHANGED <<log, legible, gone>>

(***************************************************************************)
(* Steps.                                                                  *)
(***************************************************************************)

(* VcsAuditLogger.log(), rotating the file first when it is full. *)
LogEvent(kind, rotates) ==
    /\ Len(log) < MaxEvents
    /\ log' = Append(log, kind)
    /\ legible' = IF rotates THEN 1 ELSE Least(legible + 1, Window)
    /\ UNCHANGED <<hub, user, mem, file, past>>

(* The timer, and the bell. *)
Refresh ==
    /\ opening => SlowLogin
    /\ IF who = Nobody THEN PollForNobody ELSE Poll(profile)
    /\ UNCHANGED hub

(* LoginWorker, on its thread: the account changes before the dashboard,   *)
(* and with it the profile, does.                                          *)
LogIn(u) ==
    /\ who = Nobody
    /\ who' = u /\ opening' = TRUE
    /\ UNCHANGED <<log, legible, profile, user, mem, file, past>>

(* show_dashboard(): the top bar of the new dashboard polls at once. *)
ShowDashboard(p) ==
    /\ p = "td" => who \in Tds
    /\ profile' = p /\ opening' = FALSE
    /\ Poll(p)
    /\ UNCHANGED who

OpenDashboard ==
    opening /\ ShowDashboard(IF who \in Tds THEN "td" ELSE "other")

SwitchProfile(p) == who \in Users /\ ~opening /\ ShowDashboard(p)

(* ejecutar_logout(): the profile stays. *)
LogOut ==
    /\ who \in Users /\ ~opening
    /\ who' = Nobody
    /\ UNCHANGED <<log, legible, opening, profile, user, mem, file, past>>

(* The Hub ends in any way and starts again, with nobody logged in. *)
Restart ==
    /\ who' = Nobody /\ opening' = FALSE /\ profile' = "other"
    /\ user' = Nobody /\ mem' = Blank
    /\ UNCHANGED <<log, legible, file, past>>

(* A call of the panel that changes the list of the account in front. *)
Edit(m, dismissed) ==
    /\ user' = who /\ mem' = m /\ Save(m)
    /\ gone' = [gone EXCEPT ![who] = @ \cup dismissed]
    /\ UNCHANGED <<log, legible, hub, shown, since>>

InFront == who \in Users /\ ~opening

MarkRead(e) ==
    /\ InFront /\ e \in ToSet(Loaded.items) \ Loaded.read
    /\ Edit([Loaded EXCEPT !.read = @ \cup {e}], {})

MarkAllRead ==
    /\ InFront /\ ToSet(Loaded.items) # Loaded.read
    /\ Edit([Loaded EXCEPT !.read = ToSet(Loaded.items)], {})

\* Mutant: one dismissal fewer is remembered.
ArchivedShort(m, es) == Cut(es \o m.archive, MaxArchived - 1)

Archived(m, es) == Cut(es \o m.archive, MaxArchived)

(* Nothing is in a list twice, so that leaving out one is leaving out all. *)
Dismiss(e) ==
    /\ InFront
    /\ \E i \in DOMAIN Loaded.items :
        /\ Loaded.items[i] = e
        /\ Edit([Loaded EXCEPT !.items = RemoveAt(@, i),
                               !.read = @ \ {e},
                               !.archive = Archived(Loaded, <<e>>)], {e})

DismissAll ==
    /\ InFront /\ Loaded.items # <<>>
    /\ Edit([Loaded EXCEPT !.items = <<>>, !.read = {},
                           !.archive = Archived(Loaded, Loaded.items)],
            ToSet(Loaded.items))

CentreInit ==
    /\ log = <<>> /\ legible = 0
    /\ who = Nobody /\ opening = FALSE /\ profile = "other"
    /\ user = Nobody /\ mem = Blank
    /\ file = [a \in Users |-> Blank]
    /\ shown = [a \in Users |-> {}]
    /\ gone = [a \in Users |-> {}]
    /\ since = [a \in Users |-> -1]

CentreNext ==
    \/ \E kind \in Kinds, rotates \in BOOLEAN : LogEvent(kind, rotates)
    \/ Refresh
    \/ \E u \in Users : LogIn(u)
    \/ OpenDashboard
    \/ \E p \in Profiles : SwitchProfile(p)
    \/ LogOut
    \/ Restart
    \/ \E e \in Events : MarkRead(e) \/ Dismiss(e)
    \/ MarkAllRead
    \/ DismissAll

CentreSpec == CentreInit /\ [][CentreNext]_centreVars

(***************************************************************************)
(* Properties.                                                             *)
(***************************************************************************)

States ==
    [items : Seq(Events), read : SUBSET Events, archive : Seq(Events),
     seen : SUBSET Events, baselined : BOOLEAN]

(* The list and the archive are bounded, repeat nothing and share nothing. *)
WellFormed(m) ==
    /\ m \in States
    /\ IsInjective(m.items \o m.archive)
    /\ Len(m.items) <= MaxItems /\ Len(m.archive) <= MaxArchived
    /\ m.read \subseteq ToSet(m.items)

(* Types; and whatever was truncated, merged or reloaded, no notification  *)
(* stands twice in a list, or in the list and in the archive.              *)
CentreTypeOK ==
    /\ log \in Seq(Kinds) /\ Len(log) <= MaxEvents /\ legible \in 0 .. Window /\ legible <= Len(log)
    /\ who \in Users \cup {Nobody} /\ opening \in BOOLEAN /\ profile \in Profiles
    /\ user \in Users \cup {Nobody}
    /\ WellFormed(mem) /\ \A a \in Users : WellFormed(file[a])
    /\ shown \in [Users -> SUBSET Events]
    /\ gone \in [Users -> SUBSET Events]
    /\ since \in [Users -> -1 .. MaxEvents]

(* What an account would be shown: memory, or the file it is loaded from. *)
StateOf(a) == IF a = user THEN mem ELSE file[a]

Barred(a, e) == e <= since[a]

LifeOf(a, e) ==
    IF e \in StateOf(a).read THEN "read"
    ELSE IF e \in ToSet(StateOf(a).items) THEN "unread"
    ELSE IF e \in gone[a] THEN "gone"
    ELSE IF Barred(a, e) THEN "barred"
    ELSE IF e \in shown[a] THEN "out"
    ELSE "new"

Lives == [a \in Users |-> [e \in Events |-> LifeOf(a, e)]]

(* A dismissed notification never reappears (CHANGELOG.md:118), although   *)
(* the archive and the fingerprints are both cut; what failed before an    *)
(* account's first look is never announced to it (vcs-client.md:205); the  *)
(* lists of accounts do not mix; what was read is not unread again.        *)
I == INSTANCE Inbox WITH Accounts <- Users, life <- Lives
Lifecycle == I!Spec

(* A notification that newer ones have pushed out of the list is announced *)
(* a second time only once the account has seen more events than its file  *)
(* keeps fingerprints of: not because of a restart, a change of account or *)
(* of profile.                                                             *)
NothingReturnsEarly ==
    [][\A a \in Users, e \in Events :
          LifeOf(a, e) = "out" /\ LifeOf(a, e)' = "unread"
            => Len(log) - since[a] + Least(since[a], Window) > MaxSeen]_centreVars
=============================================================================
