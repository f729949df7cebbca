----------------------------- MODULE MCTaskLock -----------------------------
(* Small studios for TLC: two artists, each with a working copy or both on *)
(* one, the same or different names on svn and Kitsu.                      *)
EXTENDS TaskLock, TLC

CONSTANTS a1, a2, w1, w2, f1, f2

OneWc == a1 :> w1
OwnWc == (a1 :> w1) @@ (a2 :> w2)
SharedWc == (a1 :> w1) @@ (a2 :> w1)
SameName == [a \in Artists |-> a]
EveryHub == [a \in Artists |-> TRUE]
\* a2's Hub is set up without version control.
FirstHub == [a \in Artists |-> a = a1]
=============================================================================
