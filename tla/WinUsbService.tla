--------------------------- MODULE WinUsbService ---------------------------
(***************************************************************************)
(* LFramework::USB::UsbService of USB/Host/Windows: the client's thread    *)
(* (control) starts a thread with a hidden window, whose procedure calls   *)
(* the client back, and stops it with a quit message.  A promise tells the *)
(* client's thread whether the window could be made.  Threads and their    *)
(* messages are Windows'.                                                  *)
(***************************************************************************)
EXTENDS Naturals

CONSTANTS
    Callbacks,      \* the functions a client passes
    NoCallback,     \* an empty std::function
    WindowFails,    \* whether the window may not be made
    ThreadFails,    \* whether the thread may not be made
    MaxChanges      \* how many WM_DEVICECHANGE the system sends

(* What is assumed of the constants.                                       *)
NullAssumption == NoCallback \notin Callbacks
ChangesAssumption == MaxChanges \in Nat
SwitchesAssumption == {WindowFails, ThreadFails} \subseteq BOOLEAN

VARIABLES
    control,        \* where the client is in a call of the service
    handle,         \* whether _threadHandle is not null
    callback,       \* _deviceChangeCallback
    promise,        \* what _initPromise holds
    worker,         \* where the thread is
    windowCallback, \* _callback of its window
    changes,        \* WM_DEVICECHANGE sent to the window and not handled
    sent,           \* how many were sent
    quit            \* whether WM_QUIT is in the thread's queue

controlVars == <<control, handle, callback>>
workerVars == <<worker, windowCallback>>
messageVars == <<changes, sent, quit>>
vars == <<control, handle, callback, promise, worker, windowCallback, changes, sent, quit>>

Init ==
    /\ control = "idle"
    /\ handle = FALSE
    /\ callback = NoCallback
    /\ promise = "none"
    /\ worker = "none"
    /\ windowCallback = NoCallback
    /\ changes = 0 /\ sent = 0
    /\ quit = FALSE

-----------------------------------------------------------------------------
(* startEventsListening returns false at once when a thread is there.      *)
StartListening ==
    /\ control = "idle"
    /\ ~handle
    /\ promise' = "pending"
    /\ callback' \in Callbacks
    /\ control' = "creating"
    /\ UNCHANGED <<handle, workerVars, messageVars>>

(* CreateThread's result is not looked at.                                 *)
CreateThread ==
    /\ control = "creating"
    /\ \/ worker' = "starting" /\ handle' = TRUE
       \/ ThreadFails /\ worker' = "none" /\ handle' = FALSE
    /\ control' = "awaiting"
    /\ UNCHANGED <<callback, promise, windowCallback, messageVars>>

(* initFuture.get()                                                        *)
AwaitPromise ==
    /\ control = "awaiting"
    /\ \/ promise = "true" /\ control' = "idle"
       \/ promise = "false" /\ control' = "joining"
    /\ UNCHANGED <<handle, callback, promise, workerVars, messageVars>>

(* stopEventsListening returns at once when no thread is there.            *)
StopListening ==
    /\ control = "idle"
    /\ handle
    /\ control' = "posting"
    /\ UNCHANGED <<handle, callback, promise, workerVars, messageVars>>

(* PostThreadMessageA fails, and is tried again, for a thread that has no  *)
(* message queue or has ended.  A thread gets its queue with its window.   *)
HasQueue == worker \in {"made", "pumping", "calling"}

PostQuit ==
    /\ control = "posting"
    /\ HasQueue
    /\ quit' = TRUE
    /\ control' = "joining"
    /\ UNCHANGED <<handle, callback, promise, workerVars, changes, sent>>

(* WaitForSingleObject and what follows, in stop and in a start that has   *)
(* failed.                                                                 *)
JoinThread ==
    /\ control = "joining"
    /\ worker = "exited"
    /\ worker' = "none"
    /\ handle' = FALSE
    /\ callback' = NoCallback
    /\ control' = "idle"
    /\ UNCHANGED <<promise, windowCallback, messageVars>>

-----------------------------------------------------------------------------
(* eventsThreadProc: the window copies the client's function.              *)
MakeWindowUnchecked ==
    /\ worker = "starting"
    /\ \/ worker' = "made" /\ windowCallback' = callback
       \/ WindowFails /\ worker' = "made" /\ UNCHANGED windowCallback
    /\ UNCHANGED <<controlVars, promise, messageVars>>

MakeWindow ==
    /\ worker = "starting"
    /\ \/ worker' = "made" /\ windowCallback' = callback
       \/ WindowFails /\ worker' = "failed" /\ UNCHANGED windowCallback
    /\ UNCHANGED <<controlVars, promise, messageVars>>

KeepTruePromiseOnly ==
    /\ \/ worker = "made" /\ promise' = "true" /\ worker' = "pumping"
       \/ worker = "failed" /\ UNCHANGED promise /\ worker' = "exited"
    /\ UNCHANGED <<controlVars, windowCallback, messageVars>>

KeepPromise ==
    /\ \/ worker = "made" /\ promise' = "true" /\ worker' = "pumping"
       \/ worker = "failed" /\ promise' = "false" /\ worker' = "exited"
    /\ UNCHANGED <<controlVars, windowCallback, messageVars>>

(* processMessages: GetMessage runs the window procedure for a message     *)
(* that was sent, and returns 0 for WM_QUIT.                               *)
CallBack ==
    /\ worker = "pumping"
    /\ changes > 0
    /\ changes' = changes - 1
    /\ worker' = "calling"
    /\ UNCHANGED <<controlVars, promise, windowCallback, sent, quit>>

Return ==
    /\ worker = "calling"
    /\ worker' = "pumping"
    /\ UNCHANGED <<controlVars, promise, windowCallback, messageVars>>

(* The window and the messages to it go with the thread.                   *)
Quit ==
    /\ worker = "pumping"
    /\ quit
    /\ worker' = "exited"
    /\ windowCallback' = NoCallback
    /\ quit' = FALSE
    /\ changes' = 0
    /\ UNCHANGED <<controlVars, promise, sent>>

DeviceChange ==
    /\ HasQueue
    /\ sent < MaxChanges
    /\ sent' = sent + 1
    /\ changes' = changes + 1
    /\ UNCHANGED <<controlVars, promise, workerVars, quit>>

-----------------------------------------------------------------------------
ControlStep == CreateThread \/ AwaitPromise \/ PostQuit \/ JoinThread
WorkerStep == MakeWindow \/ KeepPromise \/ CallBack \/ Return \/ Quit

Next == StartListening \/ StopListening \/ ControlStep \/ WorkerStep \/ DeviceChange

Spec == Init /\ [][Next]_vars

(* Both threads run, and a callback returns.                               *)
Fairness == WF_vars(ControlStep) /\ WF_vars(WorkerStep)
FairSpec == Spec /\ Fairness

-----------------------------------------------------------------------------
(* Each listening period calls its own client's function, which the window *)
(* copied while start waited for it.                                       *)
CallsItsClient == worker = "calling" => windowCallback = callback /\ callback \in Callbacks

(* The service calls its client back only between start and stop.          *)
Phase ==
    CASE control = "idle" -> IF handle THEN "listening" ELSE "stopped"
      [] control \in {"creating", "awaiting"} \/ (control = "joining" /\ promise = "false") -> "starting"
      [] OTHER -> "stopping"
Service == INSTANCE AbstractUsbService WITH phase <- Phase, calling <- worker = "calling"
ImplementsService == Service!Spec

(* start and stop return, but for a start whose thread could not be made:  *)
(* the promise sees to it that the thread has a queue for stop's message.  *)
AwaitsNoThread == control = "awaiting" /\ worker = "none"
CallsEnd == control # "idle" ~> (control = "idle" \/ AwaitsNoThread)
=============================================================================
