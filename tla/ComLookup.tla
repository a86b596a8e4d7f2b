------------------------------ MODULE ComLookup ------------------------------
(***************************************************************************)
(* How an object of COM/ComObject.h finds the interfaces it implements: a  *)
(* ring of remaps, one for every interface of every ComImplement it        *)
(* derives from, which the constructors fill and queryInterface walks.     *)
(*                                                                         *)
(* A remap is its place in the order of registration; the head is 0.       *)
(***************************************************************************)
EXTENDS Naturals, Sequences, SequencesExt

CONSTANTS
    Interfaces,     \* the interfaces, IUnknown apart
    IUnknown,
    Base,           \* the interface each of them derives from
    MaxLayers,      \* how many ComImplement a class derives from
    MaxListed       \* how many interfaces each of them lists

(* What is assumed of the constants: no interface derives from itself.     *)
BaseAssumption ==
    /\ Base \in [Interfaces -> Interfaces \cup {IUnknown}]
    /\ \A some \in (SUBSET Interfaces) \ {{}} : \E i \in some : Base[i] \notin some
    /\ MaxLayers \in Nat /\ MaxListed \in Nat \ {0}

VARIABLES
    layers,         \* the interface lists of the class, the base's list first
    remaps,         \* of each registered remap, its list and its place there
    next,           \* next of each remap and of the head
    asked,          \* the interface queryInterface looks for
    at,             \* whether it walks, and what it found
    current         \* the remap it is at

vars == <<layers, remaps, next, asked, at, current>>

(* A class names an interface once: it would be a base of it twice.        *)
Lists == {l \in UNION {[1 .. n -> Interfaces] : n \in 1 .. MaxListed} : IsInjective(l)}

(* ComObject() makes the head its own successor.                           *)
Init ==
    /\ layers \in UNION {[1 .. n -> Lists] : n \in 1 .. MaxLayers}
    /\ remaps = <<>>
    /\ next = <<0>>
    /\ asked = IUnknown
    /\ at = "idle"
    /\ current = 0

(* next is a sequence that begins with the head's.                         *)
NextOf(k) == next[k + 1]

-----------------------------------------------------------------------------
(* ComImplement and ComRemapList construct their bases first: a class's    *)
(* own list comes after its base's, and each list from its end.            *)
RegistrationOrder == FlattenSeq([i \in DOMAIN layers |->
    Reverse([j \in DOMAIN layers[i] |-> <<i, j>>])])

RegisterLast ==
    /\ at = "idle"
    /\ Len(remaps) < Len(RegistrationOrder)
    /\ remaps' = Append(remaps, RegistrationOrder[Len(remaps) + 1])
    /\ next' = Append([next EXCEPT ![Len(next)] = Len(remaps')], 0)
    /\ UNCHANGED <<layers, asked, at, current>>

(* registerRemap: right behind the head.                                   *)
Register ==
    /\ at = "idle"
    /\ Len(remaps) < Len(RegistrationOrder)
    /\ remaps' = Append(remaps, RegistrationOrder[Len(remaps) + 1])
    /\ next' = Append([next EXCEPT ![1] = Len(remaps')], NextOf(0))
    /\ UNCHANGED <<layers, asked, at, current>>

(* InterfaceAbiInterfaceSupported: the interface or one it derives from.   *)
Abi[i \in Interfaces \cup {IUnknown}] ==
    IF i = IUnknown THEN {IUnknown} ELSE {i} \cup Abi[Base[i]]

InterfaceOf(k) == IF k = 0 THEN IUnknown ELSE layers[remaps[k][1]][remaps[k][2]]
IsSupported(k, id) == id \in Abi[InterfaceOf(k)]

QueryInterface(id) ==
    /\ at = "idle"
    /\ asked' = id
    /\ at' = "walking"
    /\ current' = 0
    /\ UNCHANGED <<layers, remaps, next>>

(* findInterface tests the head, then follows next until it is there again.*)
FindInterface ==
    /\ at = "walking"
    /\ \/ IsSupported(current, asked) /\ at' = "found" /\ UNCHANGED current
       \/ /\ ~IsSupported(current, asked)
          /\ current' = NextOf(current)
          /\ at' = IF current' = 0 THEN "none" ELSE "walking"
    /\ UNCHANGED <<layers, remaps, next, asked>>

(* The constructors go on after a query of their own.                      *)
Return ==
    /\ at \in {"found", "none"}
    /\ at' = "idle"
    /\ asked' = IUnknown /\ current' = 0
    /\ UNCHANGED <<layers, remaps, next>>

Next ==
    \/ Register \/ FindInterface \/ Return
    \/ \E id \in Interfaces \cup {IUnknown} : QueryInterface(id)

Spec == Init /\ [][Next]_vars

-----------------------------------------------------------------------------
(* IsInterfaceSupported: what the compiler holds the class to implement.   *)
IsInterfaceSupported(id) ==
    \E i \in DOMAIN layers : \E j \in DOMAIN layers[i] : id \in Abi[layers[i][j]]

(* An object answers for IUnknown with its head at all times; once it is   *)
(* constructed it finds exactly the interfaces the compiler holds it to    *)
(* implement, in the most derived class that lists one, and there in the   *)
(* first interface of the list that serves.                                *)
Serving(i) == {j \in DOMAIN layers[i] : asked \in Abi[layers[i][j]]}
FindsTheOverride ==
    /\ at = "none" => asked # IUnknown
    /\ at = "found" => (asked = IUnknown <=> current = 0)
    /\ at \in {"found", "none"} /\ Len(remaps) = Len(RegistrationOrder) =>
          /\ at = "found" <=> IsInterfaceSupported(asked)
          /\ current # 0 =>
                LET i == remaps[current][1] IN
                /\ remaps[current][2] \in Serving(i)
                /\ \A j \in Serving(i) : remaps[current][2] <= j
                /\ \A derived \in i + 1 .. Len(layers) : Serving(derived) = {}
=============================================================================
