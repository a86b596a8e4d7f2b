----------------------------- MODULE LinkedLists -----------------------------
(***************************************************************************)
(* Containers/LinkedList.h: rings of items that carry their own links, an  *)
(* owner each, and foreach, whose callbacks push and remove items.         *)
(***************************************************************************)
EXTENDS Naturals, FiniteSets, Sequences

CONSTANTS
    Lists,      \* the lists; each stands for its own _head as well
    Items,      \* the items
    Null        \* the null pointer

(* What is assumed of the constants.                                       *)
NodesAssumption == Lists \cap Items = {} /\ Null \notin Lists \cup Items

VARIABLES
    next,       \* next of every item and head
    previous,   \* previous of every item and head
    owner,      \* owner of every item
    size,       \* _size of every list
    current,    \* current of the foreach in progress, Null outside of one
    iterated,   \* the list it goes over
    stayed,     \* the items that have been in that list since it began
    calls       \* how often its functor was called with each item, up to 2

linkVars == <<next, previous, owner, size>>
foreachVars == <<current, iterated, stayed, calls>>
vars == <<linkVars, foreachVars>>

Init ==
    /\ next = [n \in Lists \cup Items |-> IF n \in Lists THEN n ELSE Null]
    /\ previous = next
    /\ owner = [i \in Items |-> Null]
    /\ size = [l \in Lists |-> 0]
    /\ current = Null
    /\ iterated \in Lists
    /\ stayed = {}
    /\ calls = [i \in Items |-> 0]

-----------------------------------------------------------------------------
(* Both pushes refuse an item that a list owns.                            *)
PushFrontOneWay(l, i) ==
    /\ owner[i] = Null
    /\ owner' = [owner EXCEPT ![i] = l]
    /\ next' = [next EXCEPT ![i] = next[l], ![l] = i]
    /\ previous' = [previous EXCEPT ![i] = l]
    /\ size' = [size EXCEPT ![l] = @ + 1]
    /\ UNCHANGED foreachVars

PushFront(l, i) ==
    /\ owner[i] = Null
    /\ owner' = [owner EXCEPT ![i] = l]
    /\ next' = [next EXCEPT ![i] = next[l], ![l] = i]
    /\ previous' = [previous EXCEPT ![i] = l, ![next[l]] = i]
    /\ size' = [size EXCEPT ![l] = @ + 1]
    /\ UNCHANGED foreachVars

PushBack(l, i) ==
    /\ owner[i] = Null
    /\ owner' = [owner EXCEPT ![i] = l]
    /\ previous' = [previous EXCEPT ![i] = previous[l], ![l] = i]
    /\ next' = [next EXCEPT ![i] = l, ![previous[l]] = i]
    /\ size' = [size EXCEPT ![l] = @ + 1]
    /\ UNCHANGED foreachVars

(* remove leaves the item of another list alone.  A callback may remove any*)
(* item but the one it is called with: foreach would go on from its null   *)
(* next.                                                                   *)
Remove(l, i) ==
    /\ owner[i] = l
    /\ current # i
    /\ next' = [next EXCEPT ![previous[i]] = next[i], ![i] = Null]
    /\ previous' = [previous EXCEPT ![next[i]] = previous[i], ![i] = Null]
    /\ size' = [size EXCEPT ![l] = @ - 1]
    /\ owner' = [owner EXCEPT ![i] = Null]
    /\ stayed' = stayed \ {i}
    /\ UNCHANGED <<current, iterated, calls>>

(* foreach reads the next item only after the callback.                    *)
CallWith(n) ==
    calls' = [i \in Items |-> IF i = n /\ calls[i] < 2 THEN calls[i] + 1 ELSE calls[i]]

Begin(l) ==
    /\ current = Null
    /\ iterated' = l
    /\ stayed' = {i \in Items : owner[i] = l}
    /\ current' = next[l]
    /\ calls' = [i \in Items |-> IF i = next[l] THEN 1 ELSE 0]
    /\ UNCHANGED linkVars

AdvanceTwice ==
    /\ current \in Items
    /\ current' = next[next[current]]
    /\ CallWith(next[next[current]])
    /\ UNCHANGED <<linkVars, iterated, stayed>>

Advance ==
    /\ current \in Items
    /\ current' = next[current]
    /\ CallWith(next[current])
    /\ UNCHANGED <<linkVars, iterated, stayed>>

Finish ==
    /\ current \in Lists
    /\ current' = Null
    /\ stayed' = {}
    /\ calls' = [i \in Items |-> 0]
    /\ UNCHANGED <<linkVars, iterated>>

Next ==
    \/ \E l \in Lists, i \in Items : PushFront(l, i) \/ PushBack(l, i) \/ Remove(l, i)
    \/ \E l \in Lists : Begin(l)
    \/ Advance \/ Finish

Spec == Init /\ [][Next]_vars

-----------------------------------------------------------------------------
(* A list implements a sequence: its items from the head on are followed   *)
(* and preceded as they were pushed, they own it, and there are _size.     *)
Ring(l) == LET at[n \in 0 .. size[l]] == IF n = 0 \/ at[n - 1] = Null THEN next[l] ELSE next[at[n - 1]]
           IN  [n \in 1 .. size[l] |-> at[n - 1]]
IsRing(l) == LET ring == Ring(l) IN
    /\ \A n \in DOMAIN ring :
          /\ ring[n] \in Items /\ owner[ring[n]] = l
          /\ previous[ring[n]] = IF n = 1 THEN l ELSE ring[n - 1]
    /\ previous[l] = IF ring = <<>> THEN l ELSE ring[size[l]]
    /\ next[previous[l]] = l
Contents == [l \in Lists |-> IF IsRing(l) THEN Ring(l) ELSE <<Null>>]

Abstract == INSTANCE AbstractLists WITH content <- Contents
ImplementsSequences == Abstract!Spec

(* foreach calls its functor once with every item that is in the list from *)
(* its beginning to its end, whatever its callbacks push and remove.       *)
CallsWhatStays == current = iterated => \A i \in stayed : calls[i] = 1
=============================================================================
