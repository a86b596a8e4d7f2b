---------------------------- MODULE MCLifetimes -----------------------------
(***************************************************************************)
(* What lives as long as somebody holds it, for TLC: the objects of ComPtr,*)
(* and the descriptors and interfaces of a device that is opened           *)
(* (UsbDeviceOpen); with them, how a COM object finds its interfaces       *)
(* (ComLookup).  A behaviour is of one part.                               *)
(***************************************************************************)
EXTENDS ComPtr, TLC

CONSTANTS
    Devices, Numbers, Unused, Contents, Isochronous, EpollFails,
    Interfaces, IUnknown, Base, MaxLayers, MaxListed,
    t1, t2, p1, p2, p3, IA, IB, IC      \* model values

TwoAndOne == [p \in {p1, p2, p3} |-> IF p = p3 THEN t2 ELSE t1]

(* IB derives from IA.                                                     *)
Bases == [i \in {IA, IB, IC} |-> IF i = IB THEN IA ELSE IUnknown]

(* Two devices plugged in one after the other: the first with an OUT and   *)
(* an IN endpoint on two interfaces, the second with an isochronous one.   *)
TwoDevices == <<[i \in {0, 1} |-> IF i = 0 THEN {2} ELSE {129}], [i \in {0} |-> {131}]>>

VARIABLES
    part,
    plugged, plugs, table, obj,
    layers, remaps, next, asked, at, current

Opened == INSTANCE UsbDeviceOpen WITH Objects <- Devices
Lookup == INSTANCE ComLookup

ASSUME PartsAssumption ==
    /\ Opened!NumbersAssumption /\ Opened!SwitchesAssumption
    /\ Opened!UnusedAssumption /\ Opened!ContentsAssumption
    /\ Lookup!BaseAssumption

openVars == <<plugged, plugs, table, obj>>
lookupVars == <<layers, remaps, next, asked, at, current>>

Symmetry == Permutations(Objects) \cup Permutations({p1, p2}) \cup Permutations(Devices)

LifetimesInit ==
    /\ part \in {"com", "open", "lookup"}
    /\ Init /\ Opened!Init /\ Lookup!Init
    /\ part # "lookup" => layers = <<<<IA>>>>

LifetimesNext ==
    \/ part = "com" /\ Next /\ UNCHANGED <<part, openVars, lookupVars>>
    \/ part = "open" /\ Opened!Next /\ UNCHANGED <<part, vars, lookupVars>>
    \/ part = "lookup" /\ Lookup!Next /\ UNCHANGED <<part, vars, openVars>>

LifetimesSpec == LifetimesInit /\ [][LifetimesNext]_<<part, vars, openVars, lookupVars>>

-----------------------------------------------------------------------------
(* A device that stayed plugged is described whole (UsbDeviceOpen).        *)
DescribesOneDevice == part = "open" => Opened!DescribesOneDevice

(* A failed open and a destroyed device keep nothing (UsbDeviceOpen).      *)
NothingIsLeft == part = "open" => Opened!NothingIsLeft

(* Lookup finds what the compiler promises, overrides first (ComLookup).   *)
FindsTheOverride == part = "lookup" => Lookup!FindsTheOverride
=============================================================================
