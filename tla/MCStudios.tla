------------------------------ MODULE MCStudios ------------------------------
(* Two studios in one run of TLC, told apart by the initial state: two      *)
(* artists with a card for the same file, and one artist with two cards.    *)
(* An artist launches, scans and updates only what there is a card for.     *)
EXTENDS MCTaskLock

VARIABLE cards    \* the task files each artist has a card for

Colleagues == [a \in Artists |-> {f1}]
Alone == [a \in Artists |-> IF a = a1 THEN {f1, f2} ELSE {}]

CardsOnly(a) ==
    /\ ui'[a].task \in cards[a] \cup {None}
    /\ \A f \in Files \ cards[a] : ~CheckChanges(a, f)
    /\ cards[a] = {} => ~UpdateStart(a)

StudiosSpec ==
    /\ Init /\ cards \in {Colleagues, Alone}
    /\ [][Next /\ (\A a \in Artists : CardsOnly(a)) /\ UNCHANGED cards]_<<vars, cards>>
    /\ Fairness
=============================================================================
