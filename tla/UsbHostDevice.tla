---------------------------- MODULE UsbHostDevice ----------------------------
(***************************************************************************)
(* LFramework::USB::UsbDevice of USB/Host/Linux/UsbDevice.cpp: an open     *)
(* device, its clients' transfers, and the thread that reaps finished      *)
(* blocks and notifies the transfers they belong to.                       *)
(***************************************************************************)
EXTENDS UsbBulkTransfer

CONSTANTS
    UrbErrors,      \* whether the device or the bus may fail a block
    Unplugs,        \* whether the device may be unplugged
    ClosesInUse,    \* whether it may be destroyed with transfers in use
    NoUrb           \* the null pointer

ASSUME NoUrbAssumption == NoUrb \notin [transfer : Transfers, index : Nat \ {0}]

VARIABLES
    reaper,         \* where epollThreadHandler is
    context,        \* its variable of that name, kept from turn to turn
    errno,          \* the reaper thread's errno
    device,         \* how far ~UsbDevice has got
    running,        \* _epollThreadRunning
    wild            \* whether the reaper has used a destroyed transfer

reaperVars == <<reaper, context, errno, wild>>
deviceVars == <<device, running>>
vars == <<pending, completed, plugged, object, client,
          reaper, context, errno, device, running, wild>>

Init ==
    /\ KernelInit
    /\ TransferInit
    /\ reaper = [at |-> "poll"]
    /\ context = NoUrb
    /\ errno = "none"
    /\ device = "open"
    /\ running = TRUE
    /\ wild = FALSE

-----------------------------------------------------------------------------
(* What epoll_wait reports: nothing within 100 ms, a block to reap, an     *)
(* error condition of the device, or the failure to wait at all.           *)
ReadyToReap == device \in {"open", "cleared"} /\ completed # <<>>

PollError == device \in {"open", "cleared"} /\ ~plugged
BadPoll == device \in {"epollReset", "fdClosed", "stopped"}

(* errno is only ever set by a call that fails; the handler looks at it    *)
(* after calls that do not.                                                *)
ErrnoBreaks == errno \in {"EBADF", "EFAULT", "EINVAL"}
ErrnoContinues == errno = "EAGAIN"

PollForever ==
    /\ reaper.at = "poll"
    /\ IF PollError \/ ErrnoBreaks THEN reaper' = [at |-> "exited"]
       ELSE IF BadPoll \/ ~ReadyToReap THEN UNCHANGED reaper
       ELSE reaper' = [at |-> "reap"]
    /\ UNCHANGED <<kernelVars, object, client, context, errno, deviceVars, wild>>

Poll ==
    /\ reaper.at = "poll"
    /\ IF ~running \/ PollError \/ BadPoll \/ ErrnoBreaks THEN reaper' = [at |-> "exited"]
       ELSE IF ErrnoContinues \/ ~ReadyToReap THEN UNCHANGED reaper
       ELSE reaper' = [at |-> "reap"]
    /\ errno' = IF running /\ BadPoll THEN "EBADF" ELSE errno
    /\ UNCHANGED <<kernelVars, object, client, context, deviceVars, wild>>

(* REAPURB hands back the oldest finished block and writes its outcome     *)
(* into the client's memory.                                               *)
Reap ==
    /\ reaper.at = "reap"
    /\ device \in {"open", "cleared", "epollReset"}
    /\ completed # <<>>
    /\ LET a == Head(completed)
           t == a.urb.transfer
       IN  /\ completed' = Tail(completed)
           /\ context' = a.urb
           /\ IF Alive(t)
              THEN /\ object' = [object EXCEPT ![t].urb[a.urb.index] =
                                     [@ EXCEPT !.status = a.status, !.actual = a.actual]]
                   /\ UNCHANGED wild
              ELSE wild' = TRUE /\ UNCHANGED object
    /\ reaper' = [at |-> "dispatch"]
    /\ UNCHANGED <<pending, plugged, client, errno, deviceVars>>

(* A closed descriptor fails it with EBADF, which the handler takes no     *)
(* notice of: it goes on with the block of its previous turn.              *)
ReapFails ==
    /\ reaper.at = "reap"
    /\ device \in {"fdClosed", "stopped"}
    /\ errno' = "EBADF"
    /\ reaper' = [at |-> "dispatch"]
    /\ UNCHANGED <<kernelVars, object, client, context, deviceVars, wild>>

(* context->userContext: null after a discard, and only then; a destroyed  *)
(* transfer is used all the same.                                          *)
Dispatch ==
    /\ reaper.at = "dispatch"
    /\ IF context = NoUrb THEN reaper' = [at |-> "poll"] /\ UNCHANGED wild
       ELSE IF ~Alive(context.transfer) THEN reaper' = [at |-> "poll"] /\ wild' = TRUE
       ELSE /\ reaper' = [at |-> IF object[context.transfer].urb[context.index].userContext
                                 THEN "notify" ELSE "poll"]
            /\ UNCHANGED wild
    /\ UNCHANGED <<kernelVars, object, client, context, errno, deviceVars>>

Notify ==
    /\ reaper.at = "notify"
    /\ IF ~Alive(context.transfer)
       THEN /\ wild' = TRUE
            /\ reaper' = [at |-> "poll"]
            /\ UNCHANGED <<kernelVars, object, client>>
       ELSE /\ UNCHANGED wild
            /\ \/ NotifySuccess(context) /\ reaper' = [at |-> "poll"]
               \/ /\ NotifyError(context)
                  /\ reaper' = [at |-> "discard",
                                next |-> object[context.transfer].finishedUrbCount + 1]
    /\ UNCHANGED <<context, errno, deviceVars>>

(* discard() in notify: the block that failed is no longer in the kernel,  *)
(* so that its DISCARDURB at least leaves EINVAL in the thread's errno.    *)
Discard ==
    /\ reaper.at = "discard"
    /\ \/ /\ Alive(context.transfer)
          /\ NotifyDiscard(context.transfer, reaper.next)
          /\ errno' = IF Urb(context.transfer, reaper.next) \in InFlight THEN errno ELSE "EINVAL"
          /\ reaper' = [reaper EXCEPT !.next = @ + 1]
          /\ UNCHANGED wild
       \/ /\ Alive(context.transfer)
          /\ NotifyErrorDone(context.transfer, reaper.next)
          /\ reaper' = [at |-> "poll"]
          /\ UNCHANGED <<errno, wild>>
       \/ /\ ~Alive(context.transfer)
          /\ wild' = TRUE
          /\ reaper' = [at |-> "poll"]
          /\ UNCHANGED <<errno, kernelVars, object, client>>
    /\ UNCHANGED <<context, deviceVars>>

ReaperStep == Poll \/ Reap \/ ReapFails \/ Dispatch \/ Notify \/ Discard

-----------------------------------------------------------------------------
(* The device and the bus.                                                 *)
UrbOf(e) == Head(pending[e])
Requested(e) == object[UrbOf(e).transfer].urb[UrbOf(e).index]

(* Every byte goes out; an IN block may be short, which is an error if it  *)
(* is marked ShortNotOk.                                                   *)
DeviceAnswers(e) ==
    /\ pending[e] # <<>> /\ plugged
    /\ \E n \in 0..Requested(e).length :
          /\ n = Requested(e).length \/ (e.dir = "in" /\ "ShortNotOk" \notin Requested(e).flags)
          /\ KernelComplete(e, n)
    /\ UNCHANGED <<object, client, reaperVars, deviceVars>>

DeviceFails(e) ==
    /\ UrbErrors
    /\ plugged /\ KernelFail(e)
    /\ UNCHANGED <<object, client, reaperVars, deviceVars>>

(* The kernel cancels the continuations of a block that has failed.        *)
Failed(t) == \E i \in DOMAIN object[t].urb : object[t].urb[i].status = "error"
FailedInKernel(t) == \E i \in DOMAIN completed :
    completed[i].urb.transfer = t /\ completed[i].status = "error"

KernelCancels(u) ==
    /\ plugged
    /\ "BulkContinuation" \in object[u.transfer].urb[u.index].flags
    /\ FailedInKernel(u.transfer) \/ Failed(u.transfer)
    /\ KernelDiscard(u)
    /\ UNCHANGED <<object, client, reaperVars, deviceVars>>

(* The kernel refuses the next block of every transfer under construction, *)
(* which is one of those SubmitFailures lets it refuse.                    *)
NextUrb(t) == IF client[t].at = "emplace" THEN Len(object[t].urb) + 1 ELSE Len(object[t].urb)

Unplug ==
    /\ \A t \in Transfers :
          client[t].at \in {"emplace", "submit"} => NextUrb(t) \in SubmitFailures
    /\ Unplugs /\ plugged /\ device = "open"
    /\ plugged' = FALSE
    /\ KernelCancelAll
    /\ UNCHANGED <<object, client, reaperVars, deviceVars>>

-----------------------------------------------------------------------------
(* ~UsbDevice: the interfaces are released, the epoll descriptor and the   *)
(* device's are closed, and only then is the thread told to stop, and      *)
(* joined.                                                                 *)
Waiting(t) == client[t].at \in {"ready", "woken", "blocked"}

(* No client is in a call of an endpoint, which goes with its interface;   *)
(* one may be in wait(), which needs only the transfer.                    *)
ClearInterfaces ==
    /\ device = "open"
    /\ \A t \in Transfers : ~Constructing(t) /\ (Waiting(t) => ClosesInUse)
    /\ KernelCancelAll
    /\ device' = "cleared"
    /\ UNCHANGED <<plugged, object, client, reaperVars, running>>

ResetEpoll ==
    /\ device = "cleared"
    /\ device' = "epollReset"
    /\ UNCHANGED <<kernelVars, object, client, reaperVars, running>>

CloseDevice ==
    /\ device = "epollReset"
    /\ KernelClose
    /\ device' = "fdClosed"
    /\ UNCHANGED <<object, client, reaperVars, running>>

StopThread ==
    /\ device = "fdClosed"
    /\ running' = FALSE
    /\ device' = "stopped"
    /\ UNCHANGED <<kernelVars, object, client, reaperVars>>

JoinThread ==
    /\ device = "stopped"
    /\ reaper.at = "exited"
    /\ device' = "joined"
    /\ UNCHANGED <<kernelVars, object, client, reaperVars, running>>

TeardownStep == ResetEpoll \/ CloseDevice \/ StopThread \/ JoinThread

-----------------------------------------------------------------------------
TransferStep(t) ==
    /\ \/ Construct(t) /\ device = "open"
       \/ ClientStep(t) \/ WakeSpuriously(t) \/ Destroy(t)
    /\ UNCHANGED <<reaperVars, deviceVars>>

Next ==
    \/ \E t \in Transfers : TransferStep(t)
    \/ \E e \in Endpoints : DeviceAnswers(e) \/ DeviceFails(e)
    \/ \E u \in InFlight : KernelCancels(u)
    \/ Unplug
    \/ ReaperStep
    \/ ClearInterfaces \/ TeardownStep

Spec == Init /\ [][Next]_vars

(* The client's and the reaper's threads run, and the device answers what  *)
(* it is asked: a NAK that lasts for ever is not the library's doing.      *)
Fairness ==
    /\ \A t \in Transfers : WF_vars(ClientStep(t) /\ UNCHANGED <<reaperVars, deviceVars>>)
    /\ \A e \in Endpoints : WF_vars(DeviceAnswers(e))
    /\ WF_vars(ReaperStep)
    /\ WF_vars(TeardownStep)
FairSpec == Spec /\ Fairness

-----------------------------------------------------------------------------
InKernel(t) == {u \in InFlight \cup Finished : u.transfer = t}
Moved(t) == LET urb == object[t].urb
            IN  Total([i \in DOMAIN urb |-> urb[i].actual], Len(urb))

(* wait() returns the number of bytes the whole transfer has moved, when   *)
(* every block has succeeded and was notified once and none is left in the *)
(* kernel, and throws only if a block has really failed.  The count of     *)
(* finished blocks is read while the constructor still appends to the      *)
(* vector it is compared with.                                             *)
ReturnsWhatMoved == \A t \in Transfers :
    /\ client[t].at = "threw" => Failed(t)
    /\ client[t].at = "returned" =>
          /\ Len(object[t].urb) = UrbCount(object[t].size)
          /\ \A i \in DOMAIN object[t].urb :
                object[t].urb[i].status = "ok" /\ object[t].urb[i].notified = 1
          /\ client[t].bytes = Moved(t)
          /\ InKernel(t) = {}

(* discard() starts at _finishedUrbCount: that many blocks, the first      *)
(* ones, have finished, as long as none has failed.                        *)
FinishedIsAPrefix == \A t \in Transfers :
    ~object[t].error =>
        \A i \in DOMAIN object[t].urb :
            object[t].urb[i].notified = (IF i <= object[t].finishedUrbCount THEN 1 ELSE 0)

(* The reaper never touches a transfer that its client has given up.       *)
NoWildUse == ~wild

(* The blocks cover the buffer from its start, one after the other, and    *)
(* all of it once the constructor is through, as long as the block size    *)
(* survives its cast to uint32_t; what a client gets lies together in it,  *)
(* as only the last block may come back short.                             *)
LengthFits(t) == BlockSize(object[t].size) < LengthModulus

DataIsContiguous == \A t \in Transfers :
    LET urb == object[t].urb
        lengths == [i \in DOMAIN urb |-> urb[i].length]
    IN  /\ LengthFits(t) =>
              \A i \in DOMAIN urb : UrbOffset(object[t].size, i) = Total(lengths, i - 1)
        /\ LengthFits(t) /\ client[t].at \in {"ready", "blocked", "returned"} =>
              Total(lengths, Len(urb)) = object[t].size
        /\ client[t].at = "returned" =>
              \A i \in 1..(Len(urb) - 1) : urb[i].actual = urb[i].length

(* A client that waits gets its answer, or the reaper thread has ended: for*)
(* its flag, for a device unplugged or for a block that has failed.        *)
ReaperEnded ==
    /\ reaper.at = "exited"
    /\ device # "open" \/ ~plugged \/ \E t \in Transfers : Failed(t)
WaitEnds == \A t \in Transfers : Waiting(t) ~> (~Waiting(t) \/ ReaperEnded)

(* ~UsbDevice ends: the thread it joins has seen that it is to stop.       *)
TeardownEnds == device = "cleared" ~> device = "joined"
=============================================================================
