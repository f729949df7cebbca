-------------------------------- MODULE MCParts -----------------------------
(* Parts of the Hub that keep state of their own, in one run: `part` says     *)
(* which of them a behaviour is about, and the others stay where they start.  *)
EXTENDS Installation, ProjectImport, HubShell, KitsuSession, ImportData, StudioSettings, TLC

VARIABLE part

CONSTANTS a1, i1, i2, aE, aR, w1, w2

Versions == <<1, 1, 2>>
Declared == {[blender |-> "4.2", addons |-> {a1}, enabled |-> {}],
             [blender |-> "4.5", addons |-> {a1}, enabled |-> {a1}]}
Repos == [a \in {aE, aR} |->
            IF a = aE THEN [there |-> FALSE, src |-> "none", tgt |-> "none", dump |-> "none"]
                      ELSE [there |-> TRUE, src |-> "files", tgt |-> "empty", dump |-> "none"]]
HostOfProjects == [p \in {"p"} |-> "h"]
Symmetric == Permutations({i1, i2})

(* Two shots of one name in two sequences, a status the studio has and one it *)
(* has not, and threads with a reply before its parent, a cycle and a lost parent. *)
TwoScenes == <<"A", "B">>
Namesakes == <<[name |-> "1", in |-> "A"], [name |-> "1", in |-> "B"]>>
TwoTasks == <<[on |-> 1, status |-> "wip"], [on |-> 2, status |-> "done"]>>
Comment(on, parent, at) == [on |-> on, parent |-> parent, at |-> at]
SomeThreads == {<<Comment(1, 0, 3), Comment(1, 1, 2), Comment(1, 2, 1)>>,
                <<Comment(1, 3, 1), Comment(2, 0, 1), Comment(1, 3, 2)>>,
                <<Comment(1, 2, 1), Comment(1, 1, 2)>>}

(* A seed with the paths of its machine in it, and one without servers.       *)
Server(id, url, key) == [id |-> id, url |-> url, key |-> key]
TwoSeeds == {[seeded |-> TRUE, default |-> "t", root |-> "other", cli |-> "other",
              list |-> <<Server("s", "u", "other"), Server("t", "v", "")>>],
             [seeded |-> TRUE, default |-> "s", root |-> "", cli |-> "other", list |-> <<>>]}

vars == <<part, installVars, importVars, shellVars, sessionVars, dataVars, settingsVars>>

Init ==
    /\ part \in {"installation", "import", "shell", "session", "data", "settings"}
    /\ InstallInit /\ (part # "installation" => /\ blueprint = CHOOSE b \in Declared : TRUE
                                               /\ archives = [a \in Addons |-> {1}])
    /\ ImportInit
    /\ ShellInit
    /\ SessionInit /\ (part # "session" => inMemory)
    /\ DataInit /\ (part # "data" => /\ thread = (CHOOSE t \in Discussions : TRUE)
                                   /\ sameServer /\ admin /\ rights = "none" /\ made.shots = {})
    /\ SettingsInit /\ (part # "settings" => binding.id = "" /\ home = CHOOSE u \in Urls : TRUE)

Next ==
    /\ UNCHANGED part
    /\ \/ part = "installation" /\ InstallNext
          /\ UNCHANGED <<importVars, shellVars, sessionVars, dataVars, settingsVars>>
       \/ part = "import" /\ ImportNext
          /\ UNCHANGED <<installVars, shellVars, sessionVars, dataVars, settingsVars>>
       \/ part = "shell" /\ ShellNext
          /\ UNCHANGED <<installVars, importVars, sessionVars, dataVars, settingsVars>>
       \/ part = "session" /\ SessionNext
          /\ UNCHANGED <<installVars, importVars, shellVars, dataVars, settingsVars>>
       \/ part = "data" /\ DataNext
          /\ UNCHANGED <<installVars, importVars, shellVars, sessionVars, settingsVars>>
       \/ part = "settings" /\ SettingsNext
          /\ UNCHANGED <<installVars, importVars, shellVars, sessionVars, dataVars>>

Spec == Init /\ [][Next]_vars

-----------------------------------------------------------------------------
\* Every part keeps its types.
PartsTypeOK ==
    CASE part = "installation" -> InstallTypeOK
      [] part = "import"       -> ImportTypeOK
      [] part = "shell"        -> ShellTypeOK
      [] part = "session"      -> SessionTypeOK
      [] part = "data"         -> DataTypeOK
      [] part = "settings"     -> SettingsTypeOK

\* An installation that was reported done is the blueprint's, and a workspace
\* that is taken for installed has every file of it.
WorkspacesAreWhole == SuccessIsCurrent /\ VerifiedIsWhole

\* An import touches no production but its own, says "no checkout" only of a
\* repository that it has loaded, leaves committed files alone, and hangs every
\* shot, task and comment on what it hung on in the archive.
ImportIsSound ==
    /\ OthersProductionsKept /\ NoCheckoutMeansLoaded /\ CommittedFilesKept
    /\ ImportIsFaithful

\* What is critical ends before its dashboard, its login and its Hub do, and goes on
\* under the account and at the Kitsu it was begun with; a worker of a key runs once at
\* a time on its dashboard; the desk is one account's wherever that is written down, and
\* the seeding of test accounts stays at this machine's Kitsu and gives the host back.
NothingOutlivesItsDesk ==
    /\ WorkStaysOnBoard /\ SessionsOutlived /\ OneWorkerPerKey
    /\ WorkIsOwn /\ DeskIsOwn /\ SeedsLocally /\ HostComesBack

\* The register of servers stays right, and a project is bound to a server only
\* on a probe of this very server.
RegisterStaysRight == []SettingsSound /\ BindingFollowsProbe
=============================================================================
