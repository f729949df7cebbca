---------------------------- MODULE Installation ----------------------------
(* One installed workspace of one project: the blueprint it is made from     *)
(* (project_init.json), the studio's vault of add-on archives, what has been *)
(* extracted below it, the local configuration written last, and the         *)
(* processes that change these: installations and resets of the working      *)
(* copy, the TD's configuration dialog, edits that arrive from elsewhere,    *)
(* launches, and the vault.                                                  *)
EXTENDS Naturals

CONSTANTS
    Addons,        \* add-ons a blueprint may ask for
    Packages,      \* archives of an add-on the vault may hold, as numbers
    VersionOf,     \* package -> version: two builds may carry one version
    Blueprints,    \* what a TD may declare: [blender, addons, enabled]
    Installers,    \* workers that install into the workspace
    InstallFaults, \* what may go wrong besides a step that fails cleanly
    MaxChanges,    \* bound on the changes of blueprint and vault
    Missing,       \* no file
    Torn           \* a file that was truncated and not written

Blenders == {b.blender : b \in Blueprints}
Configurations == [blender : Blenders, addons : SUBSET Addons, flag : BOOLEAN]

ASSUME InstallAssumption ==
    /\ Packages \subseteq Nat \ {0} /\ 1 \in Packages
    /\ VersionOf \in [Packages -> Nat \ {0}]
    /\ \A b \in Blueprints : b.addons \subseteq Addons /\ b.enabled \subseteq b.addons
    /\ Missing \notin Blueprints \cup Addons \cup Configurations
    /\ Torn \notin Configurations \cup {Missing}
    /\ InstallFaults \subseteq {"halfExtract", "halfRemove", "tornConfig"} /\ MaxChanges \in Nat

VARIABLES
    blueprint,  \* project_init.json, or Missing
    manifest,   \* add-on -> package the vault's manifest declares
    archives,   \* add-on -> packages whose archive is in the vault
    built,      \* Blender version -> "none", "part" (a folder without all files) or "full"
    ext,        \* add-on -> [pkg, mark, whole]; pkg and mark 0: none
    scripts,    \* add-ons with a generated start-up script
    checkedOut, \* the working copy exists
    conf,       \* project_config.json: Missing, Torn or a record
    inst,       \* installer -> where it is
    saving,     \* the configuration dialog has still to mirror this, or Missing
    changes,    \* how often blueprint or vault have changed
    clean,      \* history: installers nothing has interfered with since they read
    met,        \* history: two installations have run at the same time
    damage      \* history: the kind of fault that has happened, at most one

installVars == <<blueprint, manifest, archives, built, ext, scripts, checkedOut,
                 conf, inst, saving, changes, clean, met, damage>>

NoAddon == [pkg |-> 0, mark |-> 0, whole |-> TRUE]
NothingToDo == [pc |-> "idle", bp |-> Missing, want |-> [a \in {} |-> 0],
                addon |-> Missing, skipped |-> {}]
AtRest == {"idle", "done", "failed"}

InstallInit ==
    /\ blueprint \in Blueprints
    /\ manifest = [a \in Addons |-> 1]
    /\ archives \in [Addons -> {{1}, {p \in Packages : VersionOf[p] = VersionOf[1]}}]
    /\ built = [b \in Blenders |-> "none"]
    /\ ext = [a \in Addons |-> NoAddon]
    /\ scripts = {}
    /\ checkedOut = FALSE
    /\ conf = Missing
    /\ inst = [i \in Installers |-> NothingToDo]
    /\ saving = Missing
    /\ changes = 0
    /\ clean = {}
    /\ met = FALSE
    /\ damage = {}

-----------------------------------------------------------------------------
(* What is asked of a workspace                                              *)

\* The archives of an add-on that have the version its manifest entry declares.
Fitting(a) == {p \in archives[a] : VersionOf[p] = VersionOf[manifest[a]]}

\* What the vault offers for an add-on now: the archive its entry names or, if this is
\* gone, another one that fits, the newest whichever that is; 0 is "not available".
Available(a) ==
    IF manifest[a] \in archives[a] THEN manifest[a]
    ELSE IF Fitting(a) = {} THEN 0
    ELSE CHOOSE p \in Fitting(a) : TRUE

\* An add-on directory passes for package p.
UpToDate(a, p) ==
    /\ ext[a].pkg # 0
    /\ VersionOf[ext[a].pkg] = VersionOf[p]
    /\ ext[a].mark = p

AddonsNeedUpdate ==
    \E a \in conf.addons : Available(a) = 0 \/ ~UpToDate(a, Available(a))

WorkspaceNeedsUpdate ==
    /\ conf \notin {Missing, Torn}
    /\ \/ conf.flag
       \/ /\ blueprint # Missing
          /\ \/ conf.blender # blueprint.blender
             \/ AddonsNeedUpdate

\* A torn configuration is an empty one: the blueprint says which Blender.
VerifyInstallation ==
    /\ conf # Missing
    /\ checkedOut
    /\ ~WorkspaceNeedsUpdate
    /\ IF conf = Torn
         THEN \/ blueprint # Missing /\ built[blueprint.blender] # "none"
              \/ blueprint = Missing /\ \E b \in Blenders : built[b] # "none"
         ELSE built[conf.blender] # "none"

\* What generate() leaves: enabled scripts written, disabled ones removed,
\* those of add-ons the configuration does not name left alone.
Generated(b) == (scripts \ b.addons) \cup b.enabled

-----------------------------------------------------------------------------
(* Installing                                                                *)

Stage(i, pc) == inst[i].pc = pc
GoOn(i, pc) == inst' = [inst EXCEPT ![i].pc = pc]
Fault(kind) == kind \in InstallFaults /\ damage \subseteq {kind} /\ damage' = {kind}
NoOtherInstaller(i) == \A j \in Installers \ {i} : inst[j].pc \in AtRest

\* Mutant: an installation without a blueprint goes on.
StartInstallBlindly(i, reset) ==
    /\ inst[i].pc \in AtRest
    /\ checkedOut' = (checkedOut /\ ~reset)
    /\ inst' = [inst EXCEPT ![i] = [NothingToDo EXCEPT !.pc = "vcs", !.bp = blueprint]]
    /\ clean' = IF NoOtherInstaller(i) THEN {i} ELSE {}
    /\ met' = (met \/ ~NoOtherInstaller(i))
    /\ UNCHANGED <<blueprint, manifest, archives, built, ext, scripts, conf, saving, changes, damage>>

\* Read the blueprint, once.  A reset removes the working copy before.
StartInstall(i, reset) ==
    /\ inst[i].pc \in AtRest
    /\ checkedOut' = (checkedOut /\ ~reset)
    /\ inst' = [inst EXCEPT ![i] =
                  [NothingToDo EXCEPT !.pc = IF blueprint = Missing THEN "failed" ELSE "vcs",
                                      !.bp = blueprint]]
    /\ clean' = IF NoOtherInstaller(i) THEN {i} ELSE {}
    /\ met' = (met \/ ~NoOtherInstaller(i))
    /\ UNCHANGED <<blueprint, manifest, archives, built, ext, scripts, conf, saving, changes, damage>>

\* The full pull.
Synchronise(i) ==
    /\ Stage(i, "vcs") /\ GoOn(i, "blender")
    /\ checkedOut' = TRUE
    /\ UNCHANGED <<blueprint, manifest, archives, built, ext, scripts, conf, saving, changes, clean, met, damage>>

\* A folder that is there passes for an extracted Blender.
InstallBlender(i) ==
    /\ Stage(i, "blender")
    /\ GoOn(i, IF built[inst[i].bp.blender] = "none" THEN "unpack" ELSE "resolve")
    /\ UNCHANGED <<blueprint, manifest, archives, built, ext, scripts, checkedOut, conf, saving,
                   changes, clean, met, damage>>

Extracting(i, b) == Stage(i, "extract") /\ inst[i].bp.blender = b

\* The archive is extracted in place, over what may be there: for minutes the folder
\* is there, and not all of its files.
StartExtracting(i) ==
    /\ Stage(i, "unpack") /\ GoOn(i, "extract")
    /\ built' = [built EXCEPT ![inst[i].bp.blender] = "part"]
    /\ UNCHANGED <<blueprint, manifest, archives, ext, scripts, checkedOut, conf, saving, changes, clean, met, damage>>

\* The last one that extracts leaves every file, unless one that died tore some.
FinishExtracting(i) ==
    /\ Stage(i, "extract") /\ GoOn(i, "resolve")
    /\ LET b == inst[i].bp.blender
           last == \A j \in Installers \ {i} : ~Extracting(j, b)
       IN  \E left \in {"part", "full"} :
              /\ left = "full" => last
              /\ left = "part" => ~last \/ "halfExtract" \in damage
              /\ built' = [built EXCEPT ![b] = left]
    /\ UNCHANGED <<blueprint, manifest, archives, ext, scripts, checkedOut, conf, saving, changes, clean, met, damage>>

\* The archives of all add-ons are looked up once; what is not there is skipped.
ResolveDesiredAddons(i) ==
    /\ Stage(i, "resolve")
    /\ LET found == {a \in inst[i].bp.addons : Available(a) # 0} IN
         inst' = [inst EXCEPT ![i].pc = "addons",
                              ![i].want = [a \in found |-> Available(a)],
                              ![i].skipped = inst[i].bp.addons \ found]
    /\ UNCHANGED <<blueprint, manifest, archives, built, ext, scripts, checkedOut, conf, saving,
                   changes, clean, met, damage>>

\* Installer i turns to add-on a, whose archive is still in the vault.
TurnsTo(i, a) ==
    /\ Stage(i, "addons")
    /\ a \in DOMAIN inst[i].want
    /\ inst[i].want[a] \in archives[a]

Without(i, a) == [x \in DOMAIN inst[i].want \ {a} |-> inst[i].want[x]]

SkipCurrentAddon(i, a) ==
    /\ TurnsTo(i, a) /\ UpToDate(a, inst[i].want[a])
    /\ inst' = [inst EXCEPT ![i].want = Without(i, a)]
    /\ UNCHANGED <<blueprint, manifest, archives, built, ext, scripts, checkedOut, conf, saving,
                   changes, clean, met, damage>>

\* Extracted beside its place, its predecessor removed.
RemoveAddon(i, a) ==
    /\ TurnsTo(i, a) /\ ~UpToDate(a, inst[i].want[a])
    /\ inst' = [inst EXCEPT ![i].pc = "move", ![i].addon = a]
    /\ ext' = [ext EXCEPT ![a] = NoAddon]
    /\ UNCHANGED <<blueprint, manifest, archives, built, scripts, checkedOut, conf, saving,
                   changes, clean, met, damage>>

\* Moved in: or, when another installer was quicker, into the directory below.
MoveAddon(i) ==
    /\ Stage(i, "move") /\ GoOn(i, "mark")
    /\ LET a == inst[i].addon IN
         ext' = [ext EXCEPT ![a].pkg = IF @ = 0 THEN inst[i].want[a] ELSE @]
    /\ UNCHANGED <<blueprint, manifest, archives, built, scripts, checkedOut, conf, saving,
                   changes, clean, met, damage>>

\* The marker is the digest of the archive as it is now.
MarkAddon(i) ==
    /\ Stage(i, "mark")
    /\ LET a == inst[i].addon IN
         /\ inst[i].want[a] \in archives[a]
         /\ ext' = [ext EXCEPT ![a].mark = inst[i].want[a]]
         /\ inst' = [inst EXCEPT ![i].pc = "addons", ![i].want = Without(i, a)]
    /\ UNCHANGED <<blueprint, manifest, archives, built, scripts, checkedOut, conf, saving,
                   changes, clean, met, damage>>

\* An add-on that cannot be installed is reported, and the installation goes on.
GiveUpAddon(i, a) ==
    /\ \/ TurnsTo(i, a) /\ ~UpToDate(a, inst[i].want[a])
          /\ \/ UNCHANGED <<ext, damage>>
             \/ /\ Fault("halfRemove") /\ ext[a].pkg # 0
                /\ ext' = [ext EXCEPT ![a].whole = FALSE]
       \/ inst[i].pc \in {"move", "mark"} /\ a = inst[i].addon /\ UNCHANGED <<ext, damage>>
    /\ inst' = [inst EXCEPT ![i].pc = "addons", ![i].want = Without(i, a),
                            ![i].skipped = @ \cup {a}]
    /\ UNCHANGED <<blueprint, manifest, archives, built, scripts, checkedOut, conf, saving,
                   changes, clean, met>>

\* generate(), for the blueprint read at the start.
GenerateScripts(i) ==
    /\ Stage(i, "addons") /\ DOMAIN inst[i].want = {}
    /\ GoOn(i, "config")
    /\ scripts' = Generated(inst[i].bp)
    /\ UNCHANGED <<blueprint, manifest, archives, built, ext, checkedOut, conf, saving,
                   changes, clean, met, damage>>

\* Mutant: the configuration is updated in place, and the flag survives.
UpdateLocalConfig(i) ==
    /\ Stage(i, "config") /\ GoOn(i, "done")
    /\ conf' = [blender |-> inst[i].bp.blender, addons |-> inst[i].bp.addons,
                flag |-> IF conf \in {Missing, Torn} THEN FALSE ELSE conf.flag]
    /\ UNCHANGED <<blueprint, manifest, archives, built, ext, scripts, checkedOut, saving,
                   changes, clean, met, damage>>

\* The configuration is written last and knows of no earlier one.
WriteLocalConfig(i) ==
    /\ Stage(i, "config") /\ GoOn(i, "done")
    /\ conf' = [blender |-> inst[i].bp.blender, addons |-> inst[i].bp.addons, flag |-> FALSE]
    /\ UNCHANGED <<blueprint, manifest, archives, built, ext, scripts, checkedOut, saving,
                   changes, clean, met, damage>>

\* Any step may raise, or the process die; what it had done stays, half a Blender
\* and a torn configuration too.
InstallFails(i) ==
    /\ inst[i].pc \notin AtRest /\ GoOn(i, "failed")
    /\ \/ ~Stage(i, "extract") /\ UNCHANGED <<conf, damage>>
       \/ Stage(i, "extract") /\ Fault("halfExtract") /\ UNCHANGED conf
       \/ Stage(i, "config") /\ Fault("tornConfig") /\ conf' = Torn
    /\ UNCHANGED <<blueprint, manifest, archives, built, ext, scripts, checkedOut, saving, changes,
                   clean, met>>

-----------------------------------------------------------------------------
(* Everybody else                                                            *)

Changing == changes < MaxChanges /\ changes' = changes + 1 /\ clean' = {} /\ UNCHANGED <<met, damage>>

\* The configuration dialog writes the blueprint first ...
SaveBlueprint(b) ==
    /\ Changing
    /\ blueprint \notin {Missing, b} /\ saving = Missing
    /\ blueprint' = b
    /\ saving' = b
    /\ UNCHANGED <<manifest, archives, built, ext, scripts, checkedOut, conf, inst>>

\* ... and then its copy, with the flag, and the scripts.
MirrorConfig ==
    /\ saving # Missing
    /\ conf' = IF conf \in {Missing, Torn} THEN conf
               ELSE [blender |-> saving.blender, addons |-> saving.addons, flag |-> TRUE]
    /\ scripts' = Generated(saving)
    /\ saving' = Missing
    /\ clean' = {}
    /\ UNCHANGED <<blueprint, manifest, archives, built, ext, checkedOut, inst, changes, met, damage>>

\* An edit by hand, another machine's dialog, or a repair of a blueprint that is
\* missing: this workspace's copy is not touched.
ReplaceBlueprint(b) ==
    /\ Changing
    /\ b # blueprint
    /\ blueprint' = b
    /\ UNCHANGED <<manifest, archives, built, ext, scripts, checkedOut, conf, inst, saving>>

FixBlueprint(b) ==
    /\ Changing
    /\ blueprint = Missing
    /\ blueprint' = b
    /\ scripts' = Generated(b)
    /\ UNCHANGED <<manifest, archives, built, ext, checkedOut, conf, inst, saving>>

\* The vault declares a package, whose archive arrives with it.
PublishPackage(a, p) ==
    /\ Changing
    /\ p # manifest[a]
    /\ manifest' = [manifest EXCEPT ![a] = p]
    /\ archives' = [archives EXCEPT ![a] = @ \cup {p}]
    /\ UNCHANGED <<blueprint, built, ext, scripts, checkedOut, conf, inst, saving>>

RemoveArchive(a, p) ==
    /\ Changing
    /\ p \in archives[a]
    /\ archives' = [archives EXCEPT ![a] = @ \ {p}]
    /\ UNCHANGED <<blueprint, manifest, built, ext, scripts, checkedOut, conf, inst, saving>>

\* A launch is refused, or refreshes the scripts and starts Blender.
Launch ==
    /\ conf \notin {Missing, Torn}
    /\ ~conf.flag
    /\ blueprint # Missing => blueprint.blender = conf.blender
    /\ built[conf.blender] # "none"
    /\ scripts' = IF blueprint = Missing THEN scripts ELSE Generated(blueprint)
    /\ UNCHANGED <<blueprint, manifest, archives, built, ext, checkedOut, conf, inst, saving,
                   changes, clean, met, damage>>

InstallNext ==
    \/ \E i \in Installers, reset \in BOOLEAN : StartInstall(i, reset)
    \/ \E i \in Installers : Synchronise(i)
    \/ \E i \in Installers : InstallBlender(i)
    \/ \E i \in Installers : StartExtracting(i)
    \/ \E i \in Installers : FinishExtracting(i)
    \/ \E i \in Installers : ResolveDesiredAddons(i)
    \/ \E i \in Installers, a \in Addons : SkipCurrentAddon(i, a)
    \/ \E i \in Installers, a \in Addons : RemoveAddon(i, a)
    \/ \E i \in Installers : MoveAddon(i)
    \/ \E i \in Installers : MarkAddon(i)
    \/ \E i \in Installers, a \in Addons : GiveUpAddon(i, a)
    \/ \E i \in Installers : GenerateScripts(i)
    \/ \E i \in Installers : WriteLocalConfig(i)
    \/ \E i \in Installers : InstallFails(i)
    \/ \E b \in Blueprints : SaveBlueprint(b)
    \/ MirrorConfig
    \/ \E b \in Blueprints \cup {Missing} : ReplaceBlueprint(b)
    \/ \E b \in Blueprints : FixBlueprint(b)
    \/ \E a \in Addons, p \in Packages : PublishPackage(a, p)
    \/ \E a \in Addons, p \in Packages : RemoveArchive(a, p)
    \/ Launch

InstallSpec == InstallInit /\ [][InstallNext]_installVars

-----------------------------------------------------------------------------
(* Properties                                                                *)

InstallTypeOK ==
    /\ blueprint \in Blueprints \cup {Missing}
    /\ manifest \in [Addons -> Packages]
    /\ archives \in [Addons -> SUBSET Packages]
    /\ built \in [Blenders -> {"none", "part", "full"}]
    /\ ext \in [Addons -> [pkg : Packages \cup {0}, mark : Packages \cup {0}, whole : BOOLEAN]]
    /\ scripts \subseteq Addons
    /\ checkedOut \in BOOLEAN
    /\ conf \in {Missing, Torn} \cup Configurations
    /\ \A i \in Installers : /\ inst[i].bp \in Blueprints \cup {Missing}
                             /\ inst[i].bp = Missing => inst[i].pc \in AtRest
                             /\ inst[i].skipped \subseteq Addons
                             /\ DOMAIN inst[i].want \subseteq Addons
    /\ saving \in Blueprints \cup {Missing}
    /\ changes \in 0..MaxChanges
    /\ clean \subseteq Installers /\ met \in BOOLEAN
    /\ damage \subseteq InstallFaults

\* An installation that says it succeeded, with nothing changed since it read the
\* blueprint and nobody else at work, leaves what the blueprint says: the copy, a
\* complete Blender, every add-on it did not report as skipped (in the build the
\* vault offers, unless two installations have ever met here), the scripts of enabled
\* add-ons and of no disabled one; and when nothing was skipped the Hub offers no update.
SuccessIsCurrent ==
    \A i \in clean : Stage(i, "done") =>
        LET b == inst[i].bp IN
        /\ conf = [blender |-> b.blender, addons |-> b.addons, flag |-> FALSE]
        /\ checkedOut
        /\ "halfExtract" \notin damage => built[b.blender] = "full"
        /\ \A a \in b.addons \ inst[i].skipped : /\ "halfRemove" \notin damage => ext[a].whole
                                                 /\ ~met => ext[a].pkg = Available(a)
        /\ scripts \cap b.addons = b.enabled
        /\ inst[i].skipped = {} => VerifyInstallation

\* A workspace that passes for installed has a complete Blender, unless somebody is
\* extracting it at this very moment (a second installation takes the folder for a
\* Blender and succeeds over it), and, if its blueprint can be read, a complete copy of
\* each of its add-ons in the version the vault declares: however many installations
\* have died in it, run at once or given up an add-on half-way.
VerifiedIsWhole ==
    damage = {} /\ VerifyInstallation =>
        /\ conf # Torn
        /\ built[conf.blender] = "full" \/ \E i \in Installers : Extracting(i, conf.blender)
        /\ blueprint # Missing => \A a \in conf.addons :
              /\ ext[a].pkg # 0 /\ ext[a].whole
              /\ VersionOf[ext[a].pkg] = VersionOf[manifest[a]]
=============================================================================
