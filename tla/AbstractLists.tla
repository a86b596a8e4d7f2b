---------------------------- MODULE AbstractLists ----------------------------
(* What a LinkedList promises: sequences of items, each item in one place. *)
EXTENDS SequencesExt

CONSTANTS Lists, Items

VARIABLE content    \* the items of each list, in order

Free == Items \ UNION {ToSet(content[l]) : l \in Lists}

Init == content = [l \in Lists |-> <<>>]

Push(l, i) ==
    /\ i \in Free
    /\ \/ content' = [content EXCEPT ![l] = <<i>> \o @]
       \/ content' = [content EXCEPT ![l] = Append(@, i)]

TakeOut(l, i) == \E n \in DOMAIN content[l] :
    /\ content[l][n] = i
    /\ content' = [content EXCEPT ![l] = RemoveAt(@, n)]

Next == \E l \in Lists, i \in Items : Push(l, i) \/ TakeOut(l, i)

Spec == Init /\ [][Next]_content
=============================================================================
