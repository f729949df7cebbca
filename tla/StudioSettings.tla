---------------------------- MODULE StudioSettings --------------------------
(* The settings of one machine: the file a studio's seed fills at the initial *)
(* setup, the register of VCS servers in it, and the dialog that binds a      *)
(* project to one of them by what its blueprint says. The whole configuration *)
(* is kept in memory, changed there first and then written over the file.     *)
EXTENDS Naturals, Sequences, Lists

CONSTANTS
    ServerIds, Urls,    \* names of servers and addresses they may have
    Seeds,              \* payloads of seeds: what another machine's settings held
    SettingsFaults,     \* subset of {"openFails", "torn", "otherHub"}
    MaxSettings,        \* bound: writes of the settings, and moves by other Hubs
    Absent, TornFile    \* a settings file that is not there, or not whole

Nobody == [id |-> "", url |-> "", key |-> ""]

VARIABLES
    memory,     \* ConfigFactory._config
    file,       \* the settings file: a configuration, Absent or TornFile
    running,    \* the Hub runs
    wizard,     \* the setup wizard: open, resuming an applied seed, chosen seed
    binding,    \* the server the project's blueprint names, and its address
    home,       \* where the project's repository really is
    dialog,     \* the configuration dialog: bound and chosen server, last probe
    healthy,    \* servers found healthy while the dialog was open
    writes      \* settings writes and moves so far

settingsVars == <<memory, file, running, wizard, binding, home, dialog, healthy, writes>>

(* A path is empty, of this machine ("mine") or of another one ("other").     *)
Empty == [seeded |-> FALSE, list |-> <<>>, default |-> "", root |-> "", cli |-> ""]
NoSeed == Empty

Servers == [id : ServerIds, url : Urls, key : {"", "mine", "other"}]
Configs == [seeded : BOOLEAN, list : Seq(Servers), default : ServerIds \union {""},
            root : {"", "mine", "other"}, cli : {"", "mine", "other"}]

(* No two servers of a register have one name.                                *)
OneNameEach(list) == \A i, j \in DOMAIN list : list[i].id = list[j].id => i = j

(* Seeds are made of the settings of another machine, which are as sound as these. *)
ASSUME SettingsAssumption ==
    /\ MaxSettings \in Nat
    /\ \A s \in Seeds : s \in Configs /\ OneNameEach(s.list)

NoWizard == [open |-> FALSE, resume |-> FALSE, seed |-> NoSeed]
NoDialog == [open |-> FALSE, bound |-> "", chosen |-> "", ok |-> FALSE, probed |-> ""]

-----------------------------------------------------------------------------
(* The register of servers, in the order they are kept.                       *)

Entries(list) == {list[i] : i \in DOMAIN list}
Registered(list, id) == \E i \in DOMAIN list : list[i].id = id
ServerOf(list, id) == list[CHOOSE i \in DOMAIN list : list[i].id = id]

DefaultServer(c) ==
    IF Registered(c.list, c.default) THEN ServerOf(c.list, c.default)
    ELSE IF c.list # <<>> THEN c.list[1] ELSE Nobody

(* A project's server: by the name in its blueprint, else by its address, else the default. *)
Resolve(c, b) ==
    LET at == {i \in DOMAIN c.list : b.url # "" /\ c.list[i].url = b.url}
    IN  CASE Registered(c.list, b.id) -> ServerOf(c.list, b.id)
          [] ~Registered(c.list, b.id) /\ at # {} -> c.list[CHOOSE i \in at : \A j \in at : i <= j]
          [] OTHER -> DefaultServer(c)

Others(list, id) == Kept(list, {t \in Entries(list) : t.id # id})

WithServer(c, s) ==
    [c EXCEPT !.list = Append(Others(@, s.id), s), !.default = IF @ = "" THEN s.id ELSE @]

WithoutServer(c, id) ==
    LET left == Others(c.list, id)
    IN  [c EXCEPT !.list = left,
                  !.default = IF @ # id THEN @ ELSE IF left = <<>> THEN "" ELSE left[1].id]

(* A register that is read names one of its servers as the default.           *)
Repaired(c) == [c EXCEPT !.default = DefaultServer(c).id]

(* A key that this machine does not have gives way to its own, and the server *)
(* moves to the end of the register.                                          *)
LocalKeys(c) ==
    LET own == {t \in Entries(c.list) : t.key = "mine"}
        changed == Kept(c.list, Entries(c.list) \ own)
    IN  [c EXCEPT !.list = Kept(@, own) \o [i \in DOMAIN changed |-> [changed[i] EXCEPT !.key = "mine"]]]

(* A seed without the paths of the machine that exported it. The projects     *)
(* folders of the other machine stay in it.                                   *)
Sanitize(seed) ==
    [seed EXCEPT !.cli = "", !.list = [i \in DOMAIN @ |-> [@[i] EXCEPT !.key = ""]]]

NeedsSetup(c) == ~c.seeded \/ c.root = "" \/ (c.list # <<>> /\ c.cli = "")
SetupWizard(c) == [open |-> TRUE, resume |-> c.seeded /\ c.root # "", seed |-> NoSeed]
SvnRequired(c) == c.list # <<>>

-----------------------------------------------------------------------------
SettingsInit ==
    /\ memory = Empty /\ file = Absent /\ running = FALSE /\ wizard = NoWizard
    /\ home \in Urls
    /\ binding \in {[id |-> i, url |-> home] : i \in ServerIds} \union {[id |-> "", url |-> ""]}
    /\ dialog = NoDialog /\ healthy = {} /\ writes = 0

(* The file is cut to nothing, written and read back. When it cannot be       *)
(* opened the memory stays changed; a full disk, or the end of the Hub in the *)
(* middle (StopHub right after it), leaves a part that reads as no settings.  *)
Persist(c) ==
    /\ writes < MaxSettings /\ writes' = writes + 1
    /\ memory' = c
    /\ file' \in {c} \union (IF "openFails" \in SettingsFaults THEN {file} ELSE {})
                     \union (IF "torn" \in SettingsFaults THEN {TornFile} ELSE {})
    /\ UNCHANGED running
Persisted == file' = memory'

Idle == running /\ ~wizard.open /\ ~dialog.open
ProjectKept == UNCHANGED <<binding, home, dialog, healthy>>

(* The paths of another machine are replaced as the file is read; the login   *)
(* view opens the wizard when the machine needs it.                           *)
StartHub ==
    LET read == IF file \in {Absent, TornFile} THEN Empty ELSE file IN
    /\ ~running /\ running' = TRUE
    /\ memory' = LocalKeys(read)
    /\ file' = IF memory' # read THEN memory' ELSE file
    /\ wizard' = IF NeedsSetup(memory') THEN SetupWizard(memory') ELSE NoWizard
    /\ UNCHANGED <<binding, home, dialog, healthy, writes>>

StopHub ==
    /\ running /\ running' = FALSE /\ memory' = Empty
    /\ wizard' = NoWizard /\ dialog' = NoDialog
    /\ UNCHANGED <<healthy, file, binding, home, writes>>

OpenWizard ==
    /\ Idle /\ NeedsSetup(memory)
    /\ wizard' = SetupWizard(memory)
    /\ UNCHANGED <<memory, file, running, writes>> /\ ProjectKept

CloseWizard ==
    /\ wizard.open /\ wizard' = NoWizard
    /\ UNCHANGED <<memory, file, running, writes>> /\ ProjectKept

(* A readable seed replaces the chosen one and ends the resumption; an unreadable one clears it. *)
ValidateSeed ==
    /\ wizard.open
    /\ \/ \E s \in Seeds : wizard' = [wizard EXCEPT !.seed = s, !.resume = FALSE]
       \/ wizard' = [wizard EXCEPT !.seed = NoSeed]
    /\ UNCHANGED <<memory, file, running, writes>> /\ ProjectKept

(* The last page can be left when a machine that has its seed, or a chosen    *)
(* seed, is there and the client was found if a server needs it.              *)
CanFinish(found) ==
    /\ wizard.open /\ (wizard.resume \/ wizard.seed # NoSeed)
    /\ SvnRequired(IF wizard.resume THEN memory ELSE wizard.seed) => found

ApplyLocalPaths(found) ==
    Persist([memory EXCEPT !.root = "mine", !.cli = IF found THEN "mine" ELSE @])

(* The seed without foreign paths, and this machine's paths, in one write.    *)
ApplyInitialSetup(found) ==
    LET clean == Sanitize(wizard.seed)
        cli == IF found THEN "mine" ELSE IF clean.cli # "" THEN clean.cli ELSE memory.cli
    IN  Persist(LocalKeys(Repaired([clean EXCEPT !.root = "mine", !.cli = cli])))

FinishWizard ==
    /\ \E found \in BOOLEAN :
          /\ CanFinish(found)
          /\ IF wizard.resume THEN ApplyLocalPaths(found) ELSE ApplyInitialSetup(found)
    /\ wizard' = IF Persisted THEN NoWizard ELSE wizard
    /\ ProjectKept

(* The login's settings dialog.                                               *)
Purge ==
    /\ Idle /\ file' = Absent /\ memory' = Empty
    /\ UNCHANGED <<running, wizard, writes>> /\ ProjectKept

(* The settings page takes the register as it stands and the folder typed.    *)
SaveSettings ==
    /\ Idle /\ \E root \in {"", "mine"} : Persist(Repaired([memory EXCEPT !.root = root]))
    /\ UNCHANGED wizard /\ ProjectKept

SaveServer ==
    /\ Idle
    /\ \E id \in ServerIds, u \in Urls :
          Persist(WithServer(memory, [id |-> id, url |-> u, key |-> "mine"]))
    /\ UNCHANGED wizard /\ ProjectKept

RemoveServer ==
    /\ Idle
    /\ \E i \in DOMAIN memory.list : Persist(WithoutServer(memory, memory.list[i].id))
    /\ UNCHANGED wizard /\ ProjectKept

SetDefault ==
    /\ Idle
    /\ \E i \in DOMAIN memory.list : Persist([memory EXCEPT !.default = memory.list[i].id])
    /\ UNCHANGED wizard /\ ProjectKept

-----------------------------------------------------------------------------
(* The project's configuration dialog works on what it read when it opened.   *)

SettingsKept == UNCHANGED <<memory, file, running, wizard>>

OpenConfig ==
    LET s == Resolve(memory, binding).id IN
    /\ Idle
    /\ dialog' = [NoDialog EXCEPT !.open = TRUE, !.bound = s, !.chosen = s]
    /\ healthy' = {}
    /\ SettingsKept /\ UNCHANGED <<binding, home, writes>>

ChooseServer ==
    /\ dialog.open
    /\ \E id \in {memory.list[i].id : i \in DOMAIN memory.list} \union {""} :
          dialog' = [dialog EXCEPT !.chosen = id]
    /\ SettingsKept /\ UNCHANGED <<binding, home, healthy, writes>>

(* The probe: the server answers and has the project's repository with its folder. *)
Probe(d, reached) ==
    IF d.chosen = "" THEN [d EXCEPT !.ok = TRUE, !.probed = ""]
    ELSE LET ok == reached /\ ServerOf(memory.list, d.chosen).url = home
         IN  [d EXCEPT !.ok = ok, !.probed = IF ok THEN d.chosen ELSE ""]

Found(d) == IF d.ok THEN {d.probed} \ {""} ELSE {}

CheckVcs ==
    /\ dialog.open
    /\ \E reached \in BOOLEAN : dialog' = Probe(dialog, reached)
    /\ healthy' = healthy \union Found(dialog')
    /\ SettingsKept /\ UNCHANGED <<binding, home, writes>>

VouchedForAny(d) == d.ok    \* deviation: a good probe of any server will do
Vouched(d) == d.ok /\ d.probed = d.chosen

Bound(id) == IF id = "" THEN [id |-> "", url |-> ""]
             ELSE [id |-> id, url |-> ServerOf(memory.list, id).url]

(* Save: a server other than the one shown as bound is probed unless its own  *)
(* probe was good, and the question answered; the blueprint is written then.  *)
SaveConfig ==
    /\ dialog.open
    /\ \E reached, yes \in BOOLEAN :
          LET asked == dialog.chosen # dialog.bound /\ dialog.chosen # ""
              d == IF asked /\ ~Vouched(dialog) THEN Probe(dialog, reached) ELSE dialog
          IN
          /\ IF asked /\ ~(Vouched(d) /\ yes)
             THEN dialog' = d /\ UNCHANGED binding
             ELSE /\ binding' = Bound(d.chosen)
                  /\ dialog' = NoDialog
          /\ healthy' = healthy \union (IF d # dialog THEN Found(d) ELSE {})
    /\ SettingsKept /\ UNCHANGED <<home, writes>>

CancelConfig ==
    /\ dialog.open /\ dialog' = NoDialog
    /\ SettingsKept /\ UNCHANGED <<binding, home, healthy, writes>>

(* Another machine migrates the project; its register may name servers otherwise. *)
OtherHubMoves ==
    /\ "otherHub" \in SettingsFaults
    /\ writes < MaxSettings /\ writes' = writes + 1
    /\ home' \in Urls \ {home}
    /\ \E id \in ServerIds : binding' = [id |-> id, url |-> home']
    /\ SettingsKept /\ UNCHANGED <<dialog, healthy>>

SettingsNext ==
    \/ StartHub \/ StopHub \/ OpenWizard \/ CloseWizard \/ ValidateSeed \/ FinishWizard
    \/ Purge \/ SaveSettings \/ SaveServer \/ RemoveServer \/ SetDefault
    \/ OpenConfig \/ ChooseServer \/ CheckVcs \/ SaveConfig \/ CancelConfig
    \/ OtherHubMoves

SettingsSpec == SettingsInit /\ [][SettingsNext]_settingsVars

-----------------------------------------------------------------------------
(* The settings in memory and in the file, the wizard, the project and its    *)
(* dialog keep their shape; a wizard that resumes has the seed it resumes.    *)
SettingsTypeOK ==
    /\ memory \in Configs /\ file \in Configs \union {Absent, TornFile} /\ running \in BOOLEAN
    /\ wizard.open \in BOOLEAN /\ wizard.resume \in BOOLEAN /\ wizard.seed \in Seeds \union {NoSeed}
    /\ wizard.resume => memory.seeded /\ memory.root # "" /\ wizard.seed = NoSeed
    /\ binding.id \in ServerIds \union {""} /\ binding.url \in Urls \union {""} /\ home \in Urls
    /\ dialog \in [open : BOOLEAN, ok : BOOLEAN, bound : ServerIds \union {""},
                    chosen : ServerIds \union {""}, probed : ServerIds \union {""}]
    /\ dialog.open => ~wizard.open /\ running
    /\ healthy \subseteq ServerIds /\ writes \in 0..MaxSettings

(* The register never has two servers of one name, its default is one of      *)
(* them, and no path of another machine is in the settings, whether they came *)
(* with a seed, from a file or from the pages that edit them.                 *)
SettingsSound ==
    \A c \in {memory, file} \ {Absent, TornFile} :
        /\ OneNameEach(c.list)
        /\ IF c.list = <<>> THEN c.default = "" ELSE Registered(c.list, c.default)
        /\ "other" \notin {c.root, c.cli} \union {c.list[i].key : i \in DOMAIN c.list}

(* The dialog never binds a project to a server other than the one it showed  *)
(* unless the project's repository was found on that very server while the    *)
(* dialog was open: a probe of another server, or of none, does not count.    *)
BindingFollowsProbe ==
    [][ (dialog.open /\ ~dialog'.open /\ binding' # binding)
          => dialog.chosen \in healthy' \union {"", dialog.bound} ]_settingsVars

(* Settings are in the file whole or not at all.                              *)
FileIsWhole == file # TornFile

=============================================================================
