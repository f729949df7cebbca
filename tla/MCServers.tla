------------------------------ MODULE MCServers -----------------------------
(* What the Hub keeps on disks and servers, in one run: the software vault,   *)
(* an artist's working copy, the room with the svn servers and the migration  *)
(* of a project between servers.  `part` says which of them a behaviour is    *)
(* about; the others stay where they start.                                   *)
EXTENDS SoftwareVault, WorkingFiles, ServerRoom, VcsMigration

CONSTANTS s1, s2, s3, docker

VARIABLE part

\* One tool has two versions, the other fits one of them.
FitPairs == {<<"a", "v1">>, <<"a", "v2">>, <<"b", "v1">>}

\* Two textures of the same name in two folders.
SameName == [p \in Paths |-> "tex"]

\* s1 is the local sandbox; the others are containers of different machines.
OneEach == [s \in Servers |-> IF s = s1 THEN docker ELSE s]

stores == <<part, vaultVars, workVars, roomVars, migrationVars>>

Init ==
    /\ part \in {"vault", "working", "room", "migration"}
    /\ VaultInit /\ (part # "vault" => strays = {} /\ zips = {})
    /\ RoomInit /\ (part # "room" => strategy = "local")
    /\ FilesInit /\ MigrationInit

Next ==
    /\ UNCHANGED part
    /\ \/ /\ part = "vault" /\ VaultNext
          /\ UNCHANGED <<workVars, roomVars, migrationVars>>
       \/ /\ part = "working" /\ FilesNext
          /\ UNCHANGED <<vaultVars, roomVars, migrationVars>>
       \/ /\ part = "room" /\ RoomNext
          /\ UNCHANGED <<vaultVars, workVars, migrationVars>>
       \/ /\ part = "migration" /\ MigrationNext
          /\ UNCHANGED <<vaultVars, workVars, roomVars>>

Spec == Init /\ [][Next]_stores

-----------------------------------------------------------------------------
\* Every part keeps its types.
StoresTypeOK ==
    CASE part = "vault"     -> VaultTypeOK
      [] part = "working"   -> FilesTypeOK
      [] part = "room"      -> RoomTypeOK
      [] part = "migration" -> MigrationTypeOK

\* A publication sends what was ticked, and an administrator's step takes the
\* lock and the row that were confirmed.
OnlyWhatWasAsked == OnlyTheChosen /\ OnlyWhatWasConfirmed

\* Through failures and cancellations of a migration the Hub's working copy
\* points at a server that has the project.
ProjectStaysServed == WorkingCopyServed /\ CancelledNeverMoves
=============================================================================
