--------------------------- MODULE MCHostServices ---------------------------
(***************************************************************************)
(* The host side around its devices, for TLC: the hot-plug services of     *)
(* Linux (NetlinkService) and Windows (WinUsbService) and the overlapped   *)
(* transfers of Windows (WinUsbTransfer).  A behaviour is of one part; the *)
(* others keep their first state.                                          *)
(***************************************************************************)
EXTENDS NetlinkService

CONSTANTS
    Clients, WindowFails, ThreadFails, MaxChanges,
    Transfers, Writes, Failing, Handles, Free, NoHandle, Again, MaxWaits

VARIABLES
    part,
    winControl, handle, winCallback, promise, worker, windowCallback, changes, sent, quit,
    table, io, at, hEvent, waits, found, outcome

Win == INSTANCE WinUsbService WITH
    Callbacks <- Clients, control <- winControl, callback <- winCallback
Overlapped == INSTANCE WinUsbTransfer

ASSUME PartsAssumption ==
    /\ Win!NullAssumption /\ Win!ChangesAssumption /\ Win!SwitchesAssumption
    /\ Overlapped!NamesAssumption /\ Overlapped!BoundsAssumption

winVars == <<winControl, handle, winCallback, promise, worker, windowCallback, changes, sent, quit>>
transferVars == <<table, io, at, hEvent, waits, found, outcome>>

HostInit ==
    /\ part \in {"netlink", "windows", "overlapped"}
    /\ Init /\ Win!Init /\ Overlapped!Init

HostNext ==
    \/ part = "netlink" /\ Next /\ UNCHANGED <<part, winVars, transferVars>>
    \/ part = "windows" /\ Win!Next /\ UNCHANGED <<part, vars, transferVars>>
    \/ part = "overlapped" /\ Overlapped!Next /\ UNCHANGED <<part, vars, winVars>>

(* Each part's fairness asks nothing of a part that keeps its first state. *)
HostSpec ==
    /\ HostInit /\ [][HostNext]_<<part, vars, winVars, transferVars>>
    /\ Fairness /\ Win!Fairness /\ Overlapped!Fairness

-----------------------------------------------------------------------------
(* Each listening period calls its own client (WinUsbService).             *)
CallsItsClient == Win!CallsItsClient

(* Both services call back only between start and stop.                    *)
ServicesImplementAbstract == ImplementsService /\ Win!ImplementsService

(* A wait() uses its own event and tells its own outcome, as long as       *)
(* nobody waits twice with its handle value (WinUsbTransfer).              *)
WaitsForItself == Overlapped!WaitsForItself

(* start and stop of both services and wait() of a transfer return, but    *)
(* for a start without a thread and a wait() for another's event.          *)
EveryCallEnds == CallsEnd /\ Win!CallsEnd /\ Overlapped!WaitEnds
=============================================================================
