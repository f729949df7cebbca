---------------------------- MODULE SvnWorkspace ----------------------------
(***************************************************************************)
(* One Subversion repository and the working copies the Hub drives with   *)
(* the svn client (src/infrastructure/vcs/svn_adapter.py).  Only the task  *)
(* files (.blend, svn:needs-lock) are modelled.  What the server and the   *)
(* svn command do is external; what the adapter asks of them, in which     *)
(* order and on which reading, is the code's.                              *)
(***************************************************************************)
EXTENDS Naturals

CONSTANTS Users,    \* account names: svn users and Kitsu e-mails
          WCs,      \* working copies (one per machine, or a shared one)
          Files,    \* versioned task files, each carrying svn:needs-lock
          None,     \* "no owner", "no token", "no task"
          MaxRev    \* bound: revisions of one file

ASSUME NoneFresh == /\ None \notin Users
                    /\ None \notin Users \X WCs
                    /\ None \notin Files
ASSUME MaxRevNat == MaxRev \in Nat

VARIABLES slock,   \* server: the lock of a file, <<owner, working copy>>
          head,    \* server: last revision of a file
          token,   \* working copy: owner of the lock token it stores
          base,    \* working copy: revision it was last updated to
          local    \* working copy: what svn status says of the file

svnVars == <<slock, head, token, base, local>>

LocalStates == {"clean", "modified", "conflicted"}

SvnTypeOK ==
    /\ slock \in [Files -> (Users \X WCs) \cup {None}]
    /\ head  \in [Files -> Nat]
    /\ token \in [WCs -> [Files -> Users \cup {None}]]
    /\ base  \in [WCs -> [Files -> Nat]]
    /\ local \in [WCs -> [Files -> LocalStates]]

SvnInit ==
    /\ slock = [f \in Files |-> None]
    /\ head  = [f \in Files |-> 0]
    /\ token = [w \in WCs |-> [f \in Files |-> None]]
    /\ base  = [w \in WCs |-> [f \in Files |-> 0]]
    /\ local = [w \in WCs |-> [f \in Files |-> "clean"]]

-----------------------------------------------------------------------------
(* Readings.                                                               *)

\* `svn info PATH`: the token the working copy stores.  The server is not asked.
LockInfo(w, f) == token[w][f]

\* The stored token is the one the server still honours.
Live(w, f) == token[w][f] # None /\ slock[f] = <<token[w][f], w>>

\* svn:needs-lock keeps a file read-only until the working copy has a token.
Writable(w, f) == token[w][f] # None

\* `svn status`: modified and conflicted paths.
StatusChanges(w) == {f \in Files : local[w][f] # "clean"}

-----------------------------------------------------------------------------
(* `svn lock PATH`.  Refused when the path is locked or out of date.       *)

\* A bug: `svn lock --force` takes the lock whoever has it.
LockableForced(w, f) == base[w][f] = head[f]

SvnLockable(w, f) == slock[f] = None /\ base[w][f] = head[f]

SvnLock(u, w, f) ==
    /\ SvnLockable(w, f)
    /\ slock' = [slock EXCEPT ![f] = <<u, w>>]
    /\ token' = [token EXCEPT ![w][f] = u]
    /\ UNCHANGED <<head, base, local>>

(* Adapter.unlock: nothing is sent when the working copy has no token.     *)
(* Without --force the server wants this token and this user; with --force *)
(* it removes whatever lock the path has.  The client drops its token      *)
(* unless the lock's owner is somebody else.                               *)

OwnerMismatch(u, w, f) == token[w][f] # u

\* A bug: the server is asked although the working copy has no token.
NeverSkipped(w, f) == FALSE

UnlockSkipped(w, f) == LockInfo(w, f) = None

UnlockRefused(u, w, f, force) ==
    ~UnlockSkipped(w, f) /\ ~force /\ OwnerMismatch(u, w, f)

\* A bug: the lock is removed on the server, the working copy keeps its token.
UnlockServerOnly(u, w, f, force) ==
    IF UnlockSkipped(w, f) \/ UnlockRefused(u, w, f, force)
    THEN UNCHANGED svnVars
    ELSE /\ slock' = [slock EXCEPT ![f] = IF force \/ Live(w, f) THEN None ELSE @]
         /\ UNCHANGED <<head, token, base, local>>

SvnUnlock(u, w, f, force) ==
    IF UnlockSkipped(w, f) \/ UnlockRefused(u, w, f, force)
    THEN UNCHANGED svnVars
    ELSE /\ slock' = [slock EXCEPT ![f] = IF force \/ Live(w, f) THEN None ELSE @]
         /\ token' = [token EXCEPT ![w][f] = None]
         /\ UNCHANGED <<head, base, local>>

-----------------------------------------------------------------------------
(* `svn commit PATHS`: refused as a whole when a path is conflicted, out   *)
(* of date or locked elsewhere or by another account; releases the locks   *)
(* of its paths.                                                           *)

ToCommit(w, S) == {f \in S : local[w][f] = "modified"}

CommitAccepted(u, w, S) ==
    /\ \A f \in S : local[w][f] # "conflicted"
    /\ \A f \in ToCommit(w, S) :
          /\ base[w][f] = head[f]
          /\ slock[f] \in {None, <<u, w>>}
          /\ head[f] < MaxRev

CommitOnServer(u, w, S) ==
    /\ head' = [f \in Files |-> IF f \in ToCommit(w, S) THEN head[f] + 1 ELSE head[f]]
    /\ slock' = [f \in Files |-> IF f \in S /\ slock[f] = <<u, w>> THEN None ELSE slock[f]]

CommitInWC(u, w, S) ==
    /\ base' = [base EXCEPT ![w] =
           [f \in Files |-> IF f \in ToCommit(w, S) THEN head[f] + 1 ELSE @[f]]]
    /\ local' = [local EXCEPT ![w] =
           [f \in Files |-> IF f \in ToCommit(w, S) THEN "clean" ELSE @[f]]]
    /\ token' = [token EXCEPT ![w] = [f \in Files |->
           IF f \in S /\ token[w][f] = u THEN None ELSE @[f]]]

SvnCommit(u, w, S) ==
    /\ CommitAccepted(u, w, S)
    /\ IF ToCommit(w, S) = {} THEN UNCHANGED svnVars
       ELSE CommitOnServer(u, w, S) /\ CommitInWC(u, w, S)

\* The client is killed (timeout, crash) after the server made the revision.
SvnCommitKilled(u, w, S) ==
    /\ CommitAccepted(u, w, S)
    /\ ToCommit(w, S) # {}
    /\ CommitOnServer(u, w, S)
    /\ UNCHANGED <<token, base, local>>

-----------------------------------------------------------------------------
(* `svn update`: newer revisions come in, a modified file that has one     *)
(* conflicts, and tokens the server no longer honours are dropped.         *)

Behind(w, f) == base[w][f] < head[f]

SvnUpdate(w) ==
    /\ base'  = [base EXCEPT ![w] = head]
    /\ local' = [local EXCEPT ![w] = [f \in Files |->
           IF Behind(w, f) /\ local[w][f] = "modified" THEN "conflicted" ELSE @[f]]]
    /\ token' = [token EXCEPT ![w] = [f \in Files |->
           IF Live(w, f) THEN @[f] ELSE None]]
    /\ UNCHANGED <<slock, head>>

\* `svn resolve --accept=STRATEGY PATH`
SvnResolve(w, f, strategy) ==
    /\ local' = [local EXCEPT ![w][f] =
           IF @ = "conflicted"
           THEN IF strategy = "theirs-full" THEN "clean" ELSE "modified"
           ELSE @]
    /\ UNCHANGED <<slock, head, token, base>>

\* `svnadmin rmlocks`: the server forgets the lock, no working copy is told.
SvnRmLock(f) ==
    /\ slock[f] # None
    /\ slock' = [slock EXCEPT ![f] = None]
    /\ UNCHANGED <<head, token, base, local>>
=============================================================================
