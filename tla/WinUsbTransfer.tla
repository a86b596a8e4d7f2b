--------------------------- MODULE WinUsbTransfer ---------------------------
(***************************************************************************)
(* WinUsbFuture and UsbHostEndpoint of USB/Host/Windows: a transfer owns   *)
(* an event by its handle, a number that Windows gives to somebody else    *)
(* once it is closed.  The clients of the transfers are different threads. *)
(* The handle table, WinUSB, the device and what else Windows calls on a   *)
(* client's thread are external.                                           *)
(***************************************************************************)
EXTENDS FiniteSets, Naturals

CONSTANTS
    Transfers,      \* transfers, and the events they create
    Writes,         \* those of them to an OUT endpoint
    Failing,        \* those Windows may refuse an event or the submission, or fail
    Handles,        \* handle values
    Free,           \* a handle value that denotes nothing
    NoHandle,       \* hEvent of a transfer without an event
    Again,          \* those of them whose client calls wait() again
    MaxWaits        \* bounds how often it does

(* What is assumed of the constants.                                       *)
NamesAssumption == Free \notin Transfers /\ NoHandle \notin Handles /\ Writes \subseteq Transfers
BoundsAssumption == MaxWaits \in Nat

VARIABLES
    table,          \* the event each handle value denotes
    io,             \* what the hardware has made of each transfer
    at,             \* where its client is
    hEvent,         \* hEvent of its OVERLAPPED
    waits,          \* how often wait() was called
    found,          \* the event a wait() under way has found
    outcome         \* what the last wait() did

vars == <<table, io, at, hEvent, waits, found, outcome>>

Init ==
    /\ table = [h \in Handles |-> Free]
    /\ io = [t \in Transfers |-> "none"]
    /\ at = [t \in Transfers |-> "none"]
    /\ hEvent = [t \in Transfers |-> NoHandle]
    /\ waits = [t \in Transfers |-> 0]
    /\ found = [t \in Transfers |-> Free]
    /\ outcome = [t \in Transfers |-> "none"]

-----------------------------------------------------------------------------
Go(t, place) == at' = [at EXCEPT ![t] = place]

(* CreateEvent: any value that is free, or none.  Without an event         *)
(* readAsync throws; writeAsync does not look, and goes on.                *)
CreateEvent(t) ==
    /\ at[t] = "none"
    /\ \/ /\ \E h \in Handles :
                /\ table[h] = Free
                /\ table' = [table EXCEPT ![h] = t]
                /\ hEvent' = [hEvent EXCEPT ![t] = h]
          /\ Go(t, "created")
       \/ /\ t \in Failing
          /\ Go(t, IF t \in Writes THEN "created" ELSE "refused")
          /\ UNCHANGED <<table, hEvent>>
    /\ UNCHANGED <<io, waits, found, outcome>>

(* WinUsb_ReadPipe or WinUsb_WritePipe; readAsync and writeAsync throw on  *)
(* a refusal, and leave the event open.                                    *)
Submit(t) ==
    /\ at[t] = "created"
    /\ \/ io' = [io EXCEPT ![t] = "pending"] /\ Go(t, "future")
       \/ t \in Failing /\ Go(t, "refused") /\ UNCHANGED io
    /\ UNCHANGED <<table, hEvent, waits, found, outcome>>

Denotes(h) == IF h = NoHandle THEN Free ELSE table[h]

(* _overlapped, whose absence would refuse a second call, is never reset.  *)
(* Windows looks the value up once: the wait holds the event it finds.     *)
Wait(t) ==
    /\ at[t] \in {"future", "returned"} /\ (at[t] = "returned" => t \in Again)
    /\ waits[t] < MaxWaits
    /\ waits' = [waits EXCEPT ![t] = @ + 1]
    /\ found' = [found EXCEPT ![t] = Denotes(hEvent[t])]
    /\ Go(t, "waiting")
    /\ UNCHANGED <<table, io, hEvent, outcome>>

Signalled(u) == io[u] \in {"done", "failed"}

End(t, result) ==
    /\ at[t] = "waiting"
    /\ outcome' = [outcome EXCEPT ![t] = result]
    /\ found' = [found EXCEPT ![t] = Free]
    /\ Go(t, "closing")
    /\ UNCHANGED <<table, io, hEvent, waits>>

(* A value that denotes nothing is refused at once.  Otherwise the event   *)
(* ends the wait, and GetOverlappedResult reads the transfer's own status: *)
(* nothing yet, when that is still pending.                                *)
Wake(t) ==
    \/ found[t] = Free /\ End(t, "invalid")
    \/ /\ found[t] # Free /\ Signalled(found[t])
       /\ End(t, IF io[t] = "done" THEN "bytes" ELSE IF io[t] = "failed" THEN "failed" ELSE "nothing")

(* The wait is alertable: it ends as well when Windows calls something     *)
(* else on the client's thread.                                            *)
Alert(t) == found[t] # Free /\ End(t, "alerted")

CloseHandle(h) == table' = IF h = NoHandle THEN table ELSE [table EXCEPT ![h] = Free]

CloseEarlier(t) ==
    /\ at[t] = "waiting" \/ at[t] = "closing"
    /\ CloseHandle(hEvent[t])
    /\ IF at[t] = "closing" THEN Go(t, "returned") ELSE UNCHANGED at
    /\ UNCHANGED <<io, hEvent, waits, found, outcome>>

(* CloseHandle, whatever the value denotes by now; then return, or throw   *)
(* for every outcome but "bytes" and "nothing".                            *)
Close(t) ==
    /\ at[t] = "closing"
    /\ CloseHandle(hEvent[t])
    /\ Go(t, "returned")
    /\ UNCHANGED <<io, hEvent, waits, found, outcome>>

Complete(t) ==
    /\ io[t] = "pending"
    /\ \/ io' = [io EXCEPT ![t] = "done"]
       \/ t \in Failing /\ io' = [io EXCEPT ![t] = "failed"]
    /\ UNCHANGED <<table, at, hEvent, waits, found, outcome>>

-----------------------------------------------------------------------------
ClientStep(t) == CreateEvent(t) \/ Submit(t) \/ Wait(t) \/ Wake(t) \/ Alert(t) \/ Close(t)

Next == \E t \in Transfers : ClientStep(t) \/ Complete(t)

Spec == Init /\ [][Next]_vars

(* A client in wait() goes on, and the device answers.  Nothing is asked   *)
(* of what else runs on the client's thread.                               *)
Fairness == \A t \in Transfers : WF_vars(Wake(t) \/ Close(t)) /\ WF_vars(Complete(t))
FairSpec == Spec /\ Fairness

-----------------------------------------------------------------------------
(* Somebody has waited twice with the handle value of t, and closed it     *)
(* twice: for t itself, or for a transfer that had the value before or     *)
(* after t.                                                                *)
Disturbed(t) ==
    hEvent[t] # NoHandle /\ \E u \in Transfers : hEvent[u] = hEvent[t] /\ waits[u] > 1

(* A repeated wait() harms only the transfers that share its handle value. *)
(* For every other one the value denotes its own event until its wait()    *)
(* closes it: nobody else closes it, Windows gives it to nobody else, and  *)
(* the event does not outlive the wait().  Its wait() answers what became  *)
(* of this transfer, except that it throws when something else alerts it,  *)
(* and at once for a write whose event could not be created.               *)
WaitsForItself == \A t \in Transfers : ~Disturbed(t) =>
    /\ at[t] \in {"created", "future", "waiting", "closing"} =>
          hEvent[t] = NoHandle \/ table[hEvent[t]] = t
    /\ at[t] = "waiting" /\ hEvent[t] # NoHandle => found[t] = t
    /\ at[t] = "returned" =>
          /\ \/ outcome[t] = "bytes" /\ io[t] = "done"
             \/ outcome[t] = "failed" /\ io[t] = "failed"
             \/ outcome[t] = "alerted" /\ hEvent[t] # NoHandle
             \/ outcome[t] = "invalid" /\ hEvent[t] = NoHandle /\ t \in Writes
          /\ \A h \in Handles : table[h] # t

(* wait() ends, unless its handle value has come to denote the event of    *)
(* another transfer, which may never be submitted.                         *)
WaitEnds == \A t \in Transfers :
    at[t] = "waiting" /\ found[t] \in {t, Free} ~> at[t] = "returned"

-----------------------------------------------------------------------------
(* "Can not wait multiple times" (UsbHostEndpoint.h:27) says that a second *)
(* wait() is refused, and with that leaves all events alone.               *)
SecondWaitIsRefused == [][\A t \in Transfers :
    waits[t] > 1 /\ at'[t] # at[t] => UNCHANGED table]_vars
=============================================================================
