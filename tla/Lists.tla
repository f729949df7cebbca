------------------------------- MODULE Lists --------------------------------
(* What the Python code does to lists, in a form that can be reasoned about.  *)
EXTENDS Naturals, Sequences

(* [x for x in list if x in S]                                                *)
Kept(list, S) ==
    LET kept[i \in 0..Len(list)] ==
            IF i = 0 THEN <<>>
            ELSE IF list[i] \in S THEN Append(kept[i - 1], list[i]) ELSE kept[i - 1]
    IN  kept[Len(list)]
=============================================================================
