-------------------------------- MODULE Inbox --------------------------------
(***************************************************************************)
(* What the notification centre promises of one event to one account,      *)
(* whatever is polled, restarted or switched in between: the life of a     *)
(* notification.  Notifications implements it.                             *)
(***************************************************************************)
CONSTANTS Accounts, Events

\* life[a][e]: what account a has seen become of event e.
VARIABLE life

(* new     not notified (yet, or because it is no failure that a may see)  *)
(* barred  older than the first look of the account                        *)
(* unread, read                                     in the list            *)
(* out     pushed out of the list by newer ones                            *)
(* gone    dismissed                                                       *)
Stages == {"new", "barred", "unread", "read", "out", "gone"}

(* What is barred or dismissed stays so; what was read is not unread again *)
(* while it is in the list.  A notification that was pushed out may come   *)
(* back: Notifications!NothingReturnsEarly says when.                      *)
Follows(s, t) ==
    \/ s = t
    \/ s = "new" /\ t \in {"barred", "unread"}
    \/ s = "unread" /\ t \in {"read", "out", "gone"}
    \/ s = "read" /\ t \in {"out", "gone"}
    \/ s = "out" /\ t = "unread"

Init == life = [a \in Accounts |-> [e \in Events |-> "new"]]

(* One account looks, reads or dismisses; the lists of others stay. *)
Advance(a) ==
    /\ life' \in [Accounts -> [Events -> Stages]]
    /\ \A e \in Events : Follows(life[a][e], life'[a][e])
    /\ \A b \in Accounts \ {a} : life'[b] = life[b]

Next == \E a \in Accounts : Advance(a)

Spec == Init /\ [][Next]_life
=============================================================================
