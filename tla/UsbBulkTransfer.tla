--------------------------- MODULE UsbBulkTransfer ---------------------------
(***************************************************************************)
(* LFramework::USB::UsbBulkTransfer of USB/Host/Linux/UsbBulkTransfer.h,   *)
(* the IUsbTransfer that UsbHostEndpoint::transferAsync returns.  Its      *)
(* constructor runs in the client's thread without _urbMutex while the     *)
(* reaper thread of the device (module UsbHostDevice) may already notify   *)
(* it; wait() runs in the client's thread with _urbMutex.                  *)
(***************************************************************************)
EXTENDS Usbfs, UsbUrbPlan

CONSTANTS
    Transfers,          \* the transfers of a run; each is constructed once
    EndpointOf,         \* the endpoint of each of them
    Sizes,              \* the buffer sizes explored
    SubmitFailures,     \* the blocks whose submission the kernel may refuse
    Drops               \* where a client may give up its transfer

ASSUME EndpointOfAssumption == EndpointOf \in [Transfers -> Endpoints]
ASSUME SizesAssumption == Sizes \subseteq Nat

VARIABLES
    object,             \* the object's fields, per transfer
    client              \* where the client's thread is, per transfer

Dir(t) == EndpointOf[t].dir
Urb(t, i) == [transfer |-> t, index |-> i]

(* The fields of the object; urb is the vector of blocks submitted so far, *)
(* notified counts how often the reaper has notified each.                 *)
NoObject ==
    [size |-> 0, urb |-> <<>>, finishedUrbCount |-> 0, finishedBytes |-> 0,
     error |-> FALSE, locked |-> FALSE]

NewUrb(size, dir, i) ==
    [length |-> UrbLength(size, i), flags |-> UrbFlags(size, dir, i),
     userContext |-> TRUE, status |-> "none", actual |-> 0, notified |-> 0]

TransferInit ==
    /\ object = [t \in Transfers |-> NoObject]
    /\ client = [t \in Transfers |-> [at |-> "none"]]

-----------------------------------------------------------------------------
(* The constructor: _urb.emplace_back, SUBMITURB, again for the next block.*)
Construct(t) ==
    /\ client[t].at = "none"
    /\ \E size \in Sizes : object' = [object EXCEPT ![t].size = size]
    /\ client' = [client EXCEPT ![t] = [at |-> "emplace"]]
    /\ UNCHANGED kernelVars

EmplaceUrb(t) ==
    /\ client[t].at = "emplace"
    /\ object' = [object EXCEPT ![t].urb =
                     Append(@, NewUrb(object[t].size, Dir(t), Len(@) + 1))]
    /\ client' = [client EXCEPT ![t] = [at |-> "submit"]]
    /\ UNCHANGED kernelVars

SubmitUrb(t) ==
    /\ client[t].at = "submit"
    /\ KernelSubmit(EndpointOf[t], Urb(t, Len(object[t].urb)))
    /\ client' = [client EXCEPT ![t] =
           [at |-> IF IsLast(object[t].size, Len(object[t].urb)) THEN "ready" ELSE "emplace"]]
    /\ UNCHANGED object

(* A refused submission discards from the first unfinished block on and    *)
(* throws: the object never comes to life and its memory is given back.    *)
RefuseUrb(t) ==
    /\ client[t].at = "submit"
    /\ Len(object[t].urb) \in SubmitFailures \/ ~plugged
    /\ client' = [client EXCEPT ![t] =
           [at |-> "discard", next |-> object[t].finishedUrbCount + 1]]
    /\ UNCHANGED <<object, kernelVars>>

(* One turn of discard()'s loop: DISCARDURB, then userContext = nullptr.   *)
DiscardUrb(t) ==
    /\ client[t].at = "discard"
    /\ client[t].next <= Len(object[t].urb)
    /\ KernelDiscard(Urb(t, client[t].next))
    /\ client' = [client EXCEPT ![t] = [at |-> "forget", next |-> client[t].next]]
    /\ UNCHANGED object

ForgetUrb(t) ==
    /\ client[t].at = "forget"
    /\ object' = [object EXCEPT ![t].urb[client[t].next].userContext = FALSE]
    /\ client' = [client EXCEPT ![t] = [at |-> "discard", next |-> client[t].next + 1]]
    /\ UNCHANGED kernelVars

ThrowFromConstructor(t) ==
    /\ client[t].at = "discard"
    /\ client[t].next > Len(object[t].urb)
    /\ client' = [client EXCEPT ![t] = [at |-> "destroyed"]]
    /\ UNCHANGED <<object, kernelVars>>

-----------------------------------------------------------------------------
(* wait(): the predicate of the loop and of the condition variable.        *)
AllFinished(t) == object[t].finishedUrbCount = Len(object[t].urb)

WaitIsOverOnWakeup(t) == object[t].error \/ AllFinished(t) \/ client[t].at = "woken"

WaitIsOver(t) == object[t].error \/ AllFinished(t)

Wait(t) ==
    /\ client[t].at \in {"ready", "woken"}
    /\ ~object[t].locked
    /\ client' = [client EXCEPT ![t] =
           IF ~WaitIsOver(t) THEN [at |-> "blocked"]
           ELSE IF object[t].error THEN [at |-> "threw"]
           ELSE [at |-> "returned", bytes |-> object[t].finishedBytes]]
    /\ UNCHANGED <<object, kernelVars>>

WakeSpuriously(t) ==
    /\ client[t].at = "blocked"
    /\ client' = [client EXCEPT ![t] = [at |-> "woken"]]
    /\ UNCHANGED <<object, kernelVars>>

(* The client gives up its shared_ptr.                                     *)
Destroy(t) ==
    /\ client[t].at \in Drops
    /\ client' = [client EXCEPT ![t] = [at |-> "destroyed"]]
    /\ UNCHANGED <<object, kernelVars>>

ClientStep(t) ==
    \/ EmplaceUrb(t) \/ SubmitUrb(t) \/ RefuseUrb(t)
    \/ DiscardUrb(t) \/ ForgetUrb(t) \/ ThrowFromConstructor(t)
    \/ Wait(t)

Constructing(t) == client[t].at \in {"emplace", "submit", "discard", "forget"}
Alive(t) == client[t].at \notin {"none", "destroyed"}

-----------------------------------------------------------------------------
(* notify(urb), in the reaper's thread.  It holds _urbMutex; a successful  *)
(* block is counted, and the last one wakes the client.                    *)
NobodyWoken(t) == client

Woken(t) == IF client[t].at = "blocked" THEN [client EXCEPT ![t] = [at |-> "woken"]] ELSE client

CountTwice(o, n) ==
    [o EXCEPT !.finishedUrbCount = @ + 2, !.finishedBytes = @ + n]

CountFinished(o, n) ==
    [o EXCEPT !.finishedUrbCount = @ + 1, !.finishedBytes = @ + n]

Notified(o, i) == [o EXCEPT !.urb[i].notified = @ + 1]

NotifySuccess(u) ==
    LET t == u.transfer
        counted == CountFinished(object[t], object[t].urb[u.index].actual)
    IN  /\ ~object[t].locked
        /\ object[t].urb[u.index].status = "ok"
        /\ object' = [object EXCEPT ![t] = Notified(counted, u.index)]
        /\ client' = IF counted.finishedUrbCount = Len(counted.urb) THEN Woken(t) ELSE client
        /\ UNCHANGED kernelVars

(* A failed one is not counted: notify sets _error and keeps the mutex     *)
(* while it discards the rest, block by block, then wakes the client.      *)
NotifyError(u) ==
    LET t == u.transfer
    IN  /\ ~object[t].locked
        /\ object[t].urb[u.index].status = "error"
        /\ object' = [object EXCEPT ![t] =
               [Notified(object[t], u.index) EXCEPT !.error = TRUE, !.locked = TRUE]]
        /\ UNCHANGED <<client, kernelVars>>

NotifyDiscard(t, i) ==
    /\ i <= Len(object[t].urb)
    /\ KernelDiscard(Urb(t, i))
    /\ object' = [object EXCEPT ![t].urb[i].userContext = FALSE]
    /\ UNCHANGED client

NotifyErrorDone(t, i) ==
    /\ i > Len(object[t].urb)
    /\ object' = [object EXCEPT ![t].locked = FALSE]
    /\ client' = Woken(t)
    /\ UNCHANGED kernelVars
=============================================================================
