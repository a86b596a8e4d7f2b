--------------------------- MODULE NetlinkService ---------------------------
(***************************************************************************)
(* LFramework::USB::UsbService of USB/Host/Linux with its NetlinkReader:   *)
(* a thread that reads the kernel's hot-plug messages from a netlink       *)
(* socket and calls the client back, started and stopped by the client.    *)
(*                                                                         *)
(* startEventsListening and stopEventsListening run on the client's thread *)
(* (control), each NetlinkReader on its own.  _isRunning is a plain bool;  *)
(* the model lets the reader see its value at once.                        *)
(***************************************************************************)
EXTENDS Naturals, Sequences, SequencesExt

CONSTANTS
    Readers,        \* NetlinkReader objects, and their threads
    NoReader,       \* the null pointer
    Callbacks,      \* the functions a client passes
    NoCallback,     \* an empty std::function
    Restarts,       \* whether the client starts again without a stop
    Failures,       \* whether the socket or epoll may refuse to open
    MaxEvents,      \* how many messages the kernel sends
    SocketLimit     \* how many of them a socket holds; the next is lost

ASSUME NullAssumption == NoReader \notin Readers /\ NoCallback \notin Callbacks
ASSUME BoundsAssumption == MaxEvents \in Nat /\ SocketLimit \in Nat
ASSUME SwitchesAssumption == {Restarts, Failures} \subseteq BOOLEAN

VARIABLES
    control,        \* where the client is in a call of the service
    netlink,        \* _netlink
    callback,       \* _deviceChangeCallback
    reader,         \* the readers: where the thread is, _isRunning, _epoll
    socket,         \* the messages each one's socket holds
    overrun,        \* whether it has lost one and still has to say so
    events,         \* how many messages the kernel has sent
    heard,          \* what the callbacks were called for
    broken          \* an empty function was called, or one assigned while it ran

vars == <<control, netlink, callback, reader, socket, overrun, events, heard, broken>>

Idle == [at |-> "idle", reader |-> NoReader]
NoThread == [at |-> "none", running |-> FALSE, epoll |-> FALSE, event |-> 0]

Init ==
    /\ control = Idle
    /\ netlink = NoReader
    /\ callback = NoCallback
    /\ reader = [r \in Readers |-> NoThread]
    /\ socket = [r \in Readers |-> <<>>]
    /\ overrun = [r \in Readers |-> FALSE]
    /\ events = 0
    /\ heard = <<>>
    /\ broken = FALSE

-----------------------------------------------------------------------------
Calling(r) == reader[r].at = "calling"

(* Assigning a std::function that another thread is in destroys it there.  *)
SetCallback(c) ==
    /\ callback' = c
    /\ broken' = (broken \/ \E r \in Readers : Calling(r))

StartListening ==
    /\ control = Idle
    /\ Restarts \/ netlink = NoReader
    /\ \E c \in Callbacks : SetCallback(c)
    /\ control' = [Idle EXCEPT !.at = "opening"]
    /\ UNCHANGED <<netlink, reader, socket, overrun, events, heard>>

(* NetlinkClient: from bind on, the socket collects messages.              *)
OpenSocket ==
    /\ control.at = "opening"
    /\ \E r \in Readers :
          /\ reader[r].at = "none"
          /\ reader' = [reader EXCEPT ![r] = [NoThread EXCEPT !.at = "new"]]
          /\ control' = [at |-> "starting", reader |-> r]
    /\ UNCHANGED <<netlink, callback, socket, overrun, events, heard, broken>>

StartReader ==
    /\ control.at = "starting"
    /\ reader' = [reader EXCEPT ![control.reader] =
                     [at |-> "check", running |-> TRUE, epoll |-> TRUE, event |-> 0]]
    /\ control' = [control EXCEPT !.at = "assigning"]
    /\ UNCHANGED <<netlink, callback, socket, overrun, events, heard, broken>>

(* An exception of either; a reader that listens already goes on, without  *)
(* a callback.                                                             *)
FailStart ==
    /\ Failures
    /\ control.at \in {"opening", "starting"}
    /\ SetCallback(NoCallback)
    /\ reader' = [r \in Readers |-> IF r = control.reader THEN NoThread ELSE reader[r]]
    /\ socket' = [r \in Readers |-> IF r = control.reader THEN <<>> ELSE socket[r]]
    /\ control' = Idle
    /\ overrun' = [r \in Readers |-> r # control.reader /\ overrun[r]]
    /\ UNCHANGED <<netlink, events, heard>>

(* The reader that _netlink held is destroyed in the assignment.           *)
AssignReader ==
    /\ control.at = "assigning"
    /\ netlink' = control.reader
    /\ control' = IF netlink = NoReader THEN Idle
                  ELSE [at |-> "clearing", reader |-> netlink, next |-> "idle"]
    /\ UNCHANGED <<callback, reader, socket, overrun, events, heard, broken>>

StopForgetsFirst ==
    /\ control = Idle
    /\ netlink' = NoReader
    /\ control' = IF netlink = NoReader THEN [Idle EXCEPT !.at = "forgetting"]
                  ELSE [at |-> "clearing", reader |-> netlink, next |-> "forgetting"]
    /\ SetCallback(NoCallback)
    /\ UNCHANGED <<reader, socket, overrun, events, heard>>

(* Also ~UsbService, whose members go in the same order.                   *)
StopListening ==
    /\ control = Idle
    /\ netlink' = NoReader
    /\ control' = IF netlink = NoReader THEN [Idle EXCEPT !.at = "forgetting"]
                  ELSE [at |-> "clearing", reader |-> netlink, next |-> "forgetting"]
    /\ UNCHANGED <<callback, reader, socket, overrun, events, heard, broken>>

(* ~NetlinkReader.                                                         *)
ClearRunning ==
    /\ control.at = "clearing"
    /\ reader' = [reader EXCEPT ![control.reader].running = FALSE]
    /\ control' = [control EXCEPT !.at = "closing"]
    /\ UNCHANGED <<netlink, callback, socket, overrun, events, heard, broken>>

CloseEpoll ==
    /\ control.at = "closing"
    /\ reader' = [reader EXCEPT ![control.reader].epoll = FALSE]
    /\ control' = [control EXCEPT !.at = "joining"]
    /\ UNCHANGED <<netlink, callback, socket, overrun, events, heard, broken>>

JoinAtOnce ==
    /\ control.at = "joining"
    /\ control' = [Idle EXCEPT !.at = control.next]
    /\ UNCHANGED <<netlink, callback, reader, socket, overrun, events, heard, broken>>

JoinReader ==
    /\ control.at = "joining"
    /\ reader[control.reader].at = "exited"
    /\ reader' = [reader EXCEPT ![control.reader] = NoThread]
    /\ socket' = [socket EXCEPT ![control.reader] = <<>>]
    /\ overrun' = [overrun EXCEPT ![control.reader] = FALSE]
    /\ control' = [Idle EXCEPT !.at = control.next]
    /\ UNCHANGED <<netlink, callback, events, heard, broken>>

ForgetCallback ==
    /\ control.at = "forgetting"
    /\ SetCallback(NoCallback)
    /\ control' = Idle
    /\ UNCHANGED <<netlink, reader, socket, overrun, events, heard>>

-----------------------------------------------------------------------------
(* readNetlinkThreadHandler                                                *)
MoveTo(r, at) == reader' = [reader EXCEPT ![r].at = at]

Check(r) ==
    /\ reader[r].at = "check"
    /\ MoveTo(r, IF reader[r].running THEN "wait" ELSE "exited")
    /\ UNCHANGED <<control, netlink, callback, socket, overrun, events, heard, broken>>

(* Nothing within 100 ms, or a descriptor that is gone, is no message.     *)
Wait(r) ==
    /\ reader[r].at = "wait"
    /\ MoveTo(r, IF reader[r].epoll /\ socket[r] # <<>> THEN "read" ELSE "check")
    /\ UNCHANGED <<control, netlink, callback, socket, overrun, events, heard, broken>>

(* What recvmsg takes off the socket, of which only two things matter:     *)
(* whether it is the kernel's word of an added or removed USB device with  *)
(* all its fields, and which message it is.  The kernel writes a path of   *)
(* the old format with the bus before the device, so that substr finds it. *)
Message(r) == Head(socket[r])

(* After a loss recvmsg says ENOBUFS once, before it gives what it holds.  *)
ReadError(r) ==
    /\ overrun[r]
    /\ overrun' = [overrun EXCEPT ![r] = FALSE]
    /\ MoveTo(r, "check")
    /\ UNCHANGED socket

ReadMessage(r) ==
    /\ ~overrun[r]
    /\ reader' = [reader EXCEPT ![r].at = IF Message(r).usb THEN "call" ELSE "check",
                                ![r].event = Message(r).number]
    /\ socket' = [socket EXCEPT ![r] = Tail(@)]
    /\ UNCHANGED overrun

ReadEndsOnErrors(r) ==
    /\ reader[r].at = "read"
    /\ \/ ReadMessage(r)
       \/ overrun[r] /\ MoveTo(r, "exited") /\ UNCHANGED <<socket, overrun>>
    /\ UNCHANGED <<control, netlink, callback, events, heard, broken>>

ReadWithoutTaking(r) ==
    /\ reader[r].at = "read"
    /\ reader' = [reader EXCEPT ![r].at = IF Message(r).usb THEN "call" ELSE "check",
                                ![r].event = Message(r).number]
    /\ UNCHANGED <<control, netlink, callback, socket, overrun, events, heard, broken>>

(* An error, and any message but a USB device's, is skipped.               *)
Read(r) ==
    /\ reader[r].at = "read"
    /\ ReadError(r) \/ ReadMessage(r)
    /\ UNCHANGED <<control, netlink, callback, events, heard, broken>>

(* onUsbEvent: calling an empty std::function throws out of the thread.    *)
Call(r) ==
    /\ reader[r].at = "call"
    /\ IF callback = NoCallback
       THEN broken' = TRUE /\ UNCHANGED <<reader, heard>>
       ELSE /\ MoveTo(r, "calling")
            /\ heard' = Append(heard, [callback |-> callback, event |-> reader[r].event])
            /\ UNCHANGED broken
    /\ UNCHANGED <<control, netlink, callback, socket, overrun, events>>

Return(r) ==
    /\ Calling(r)
    /\ MoveTo(r, "check")
    /\ UNCHANGED <<control, netlink, callback, socket, overrun, events, heard, broken>>

-----------------------------------------------------------------------------
(* The kernel sends a message to every open socket that has room for it,   *)
(* and the others lose it.                                                 *)
Full(r) == Len(socket[r]) >= SocketLimit

HotPlug ==
    /\ events < MaxEvents
    /\ events' = events + 1
    /\ \E usb \in BOOLEAN :
          socket' = [r \in Readers |->
                        IF reader[r].at # "none" /\ ~Full(r)
                        THEN Append(socket[r], [number |-> events + 1, usb |-> usb])
                        ELSE socket[r]]
    /\ overrun' = [r \in Readers |-> overrun[r] \/ (reader[r].at # "none" /\ Full(r))]
    /\ UNCHANGED <<control, netlink, callback, reader, heard, broken>>

ControlStep ==
    \/ OpenSocket \/ StartReader \/ AssignReader
    \/ ClearRunning \/ CloseEpoll \/ JoinReader \/ ForgetCallback
ReaderStep(r) == Check(r) \/ Wait(r) \/ Read(r) \/ Call(r) \/ Return(r)

Next ==
    /\ ~broken
    /\ \/ StartListening \/ StopListening \/ FailStart
       \/ ControlStep
       \/ \E r \in Readers : ReaderStep(r)
       \/ HotPlug

Spec == Init /\ [][Next]_vars

(* Both threads run, and a callback returns.                               *)
Fairness ==
    /\ WF_vars(~broken /\ ControlStep)
    /\ \A r \in Readers : WF_vars(~broken /\ ReaderStep(r))
FairSpec == Spec /\ Fairness

-----------------------------------------------------------------------------
Heard == {heard[i].event : i \in DOMAIN heard}

(* A client that starts and stops in turn never has its callback emptied   *)
(* or replaced while a reader calls it.                                    *)
NothingBreaks == ~broken

(* Events are called back in the order the kernel sent them, once each.    *)
HeardInOrder == \A i, j \in DOMAIN heard : i < j => heard[i].event < heard[j].event

(* The service calls its client back only between start and stop.          *)
Phase ==
    CASE control.at = "idle" -> IF netlink = NoReader THEN "stopped" ELSE "listening"
      [] control.at \in {"opening", "starting", "assigning"} -> "starting"
      [] control.at = "forgetting" /\ ~(\E r \in Readers : reader[r].at # "none") -> "stopped"
      [] OTHER -> "stopping"
Service == INSTANCE AbstractUsbService
              WITH phase <- Phase, calling <- \E r \in Readers : Calling(r)
ImplementsService == Service!Spec

(* start and stop return.                                                  *)
CallsEnd == control # Idle ~> (control = Idle \/ broken)

(* What is in the socket of a reader reaches the client, unless the client *)
(* stops it first.                                                         *)
EventsArrive == \A r \in Readers : \A n \in 1..MaxEvents :
    (\E i \in DOMAIN socket[r] : socket[r][i] = [number |-> n, usb |-> TRUE])
        ~> (n \in Heard \/ ~reader[r].running \/ broken)
=============================================================================
