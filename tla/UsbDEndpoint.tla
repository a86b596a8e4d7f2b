---------------------------- MODULE UsbDEndpoint ----------------------------
(***************************************************************************)
(* LFramework::USB::UsbDEndpoint of USB/Device: an endpoint of the STM32   *)
(* device stack, between the tasks that submit transfers to it and the     *)
(* interrupt that completes them.  Tasks interleave at every statement     *)
(* that touches the endpoint; an interrupt handler, with the callback it   *)
(* makes, runs to its end before any task goes on.                         *)
(*                                                                         *)
(* The hardware (hw) and the USB core that configures the device are not   *)
(* in the repository: they are modelled from the calls the code makes and  *)
(* the callbacks it gets.                                                  *)
(***************************************************************************)
EXTENDS Naturals, FiniteSets

CONSTANTS
    Tasks,          \* the tasks that submit transfers
    Polling,        \* UsbPollingTransfer objects
    Streaming,      \* transfers whose callback may submit them again
    NoTransfer,     \* the null pointer
    Serialised,     \* whether the tasks exclude each other from transferAsync
    Deconfigures,   \* whether the host may reset or deconfigure the device
    HalRefuses      \* whether the HAL may refuse to open or to start

Transfers == Polling \cup Streaming

ASSUME TransfersAssumption == NoTransfer \notin Transfers
ASSUME SwitchesAssumption == {Serialised, Deconfigures, HalRefuses} \subseteq BOOLEAN

VARIABLES
    activeTransfer, \* _activeTransfer
    isOpen,         \* _isOpen of the endpoint
    configured,     \* _isOpen of its interface
    hw,             \* the transfer whose buffer the hardware works on
    pc,             \* where each task is in transferAsync
    transfer,       \* the argument of its call
    state,          \* _state of the polling transfers
    owed            \* transfers that were accepted and not called back

endpointVars == <<activeTransfer, isOpen, configured>>
vars == <<activeTransfer, isOpen, configured, hw, pc, transfer, state, owed>>

Init ==
    /\ activeTransfer = NoTransfer
    /\ isOpen = FALSE
    /\ configured = FALSE
    /\ hw = NoTransfer
    /\ pc = [t \in Tasks |-> "idle"]
    /\ transfer = [t \in Tasks |-> NoTransfer]
    /\ state = [x \in Polling |-> "Pending"]
    /\ owed = {}

-----------------------------------------------------------------------------
(* transferAsync refuses while a transfer is active or the endpoint shut.  *)
AcceptsWhileActive == isOpen

Accepts == activeTransfer = NoTransfer /\ isOpen

(* A client submits a transfer that nobody has submitted and not got back, *)
(* a polling one after its reset().                                        *)
InUse == owed \cup {transfer[t] : t \in Tasks}

Check(t) ==
    /\ pc[t] = "idle"
    /\ Serialised => \A u \in Tasks : pc[u] = "idle"
    /\ \E x \in Transfers \ InUse :
          /\ state' = [p \in Polling |-> IF p = x THEN "Pending" ELSE state[p]]
          /\ IF Accepts
             THEN /\ pc' = [pc EXCEPT ![t] = "accepted"]
                  /\ transfer' = [transfer EXCEPT ![t] = x]
             ELSE UNCHANGED <<pc, transfer>>
    /\ UNCHANGED <<endpointVars, hw, owed>>

Activate(t) ==
    /\ pc[t] = "accepted"
    /\ activeTransfer' = transfer[t]
    /\ pc' = [pc EXCEPT ![t] = "active"]
    /\ UNCHANGED <<isOpen, configured, hw, transfer, state, owed>>

(* USBD_LL_Transmit or USBD_LL_PrepareReceive.  The interrupt may complete *)
(* the transfer before transferAsync has returned.                         *)
Leave(t) ==
    /\ pc' = [pc EXCEPT ![t] = "idle"]
    /\ transfer' = [transfer EXCEPT ![t] = NoTransfer]

StartForgotten(t) ==
    /\ pc[t] = "active"
    /\ Leave(t)
    /\ hw' = transfer[t]
    /\ owed' = owed \cup {transfer[t]}
    /\ activeTransfer' = NoTransfer
    /\ UNCHANGED <<isOpen, configured, state>>

Start(t) ==
    /\ pc[t] = "active"
    /\ Leave(t)
    /\ \/ /\ hw' = transfer[t]
          /\ owed' = owed \cup {transfer[t]}
          /\ UNCHANGED activeTransfer
       \/ /\ HalRefuses
          /\ activeTransfer' = NoTransfer
          /\ UNCHANGED <<hw, owed>>
    /\ UNCHANGED <<isOpen, configured, state>>

-----------------------------------------------------------------------------
(* The interrupt of a finished transfer: finalizeTransfer first clears     *)
(* _activeTransfer and then calls back.                                    *)
NotCleared(x) == x

Cleared(x) == NoTransfer

(* UsbPollingTransfer's callback notes the outcome for whoever polls it.   *)
CallBackPolling(x) ==
    /\ x \in Polling
    /\ state' = [state EXCEPT ![x] = "Success"]
    /\ activeTransfer' = Cleared(x)
    /\ hw' = NoTransfer
    /\ owed' = owed \ {x}

(* A streaming client's may call transferAsync in the interrupt.           *)
CallBackStreaming(x) ==
    /\ x \in Streaming
    /\ \/ /\ Cleared(x) = NoTransfer
          /\ activeTransfer' = x
          /\ hw' = x
          /\ UNCHANGED owed
       \/ /\ activeTransfer' = Cleared(x)
          /\ hw' = NoTransfer
          /\ owed' = owed \ {x}
    /\ UNCHANGED state

DataStage ==
    /\ isOpen
    /\ hw # NoTransfer
    /\ \/ CallBackPolling(activeTransfer)
       \/ CallBackStreaming(activeTransfer)
       \/ /\ activeTransfer = NoTransfer
          /\ hw' = NoTransfer
          /\ UNCHANGED <<activeTransfer, state, owed>>
    /\ UNCHANGED <<isOpen, configured, pc, transfer>>

(* USBD_LL_OpenEP: the HAL may refuse to flush or to open the endpoint.     *)
OpenEP == {TRUE} \cup {b \in BOOLEAN : HalRefuses}

(* The core configures the device, also in an interrupt: opening flushes   *)
(* the endpoint, closing takes its transfer from the hardware.  Neither    *)
(* touches _activeTransfer: the finalizeTransfer in close is commented out.*)
(* A bus reset closes, too, whether or not the device was configured.      *)
Configure ==
    /\ ~configured
    /\ configured' = TRUE
    /\ isOpen' \in OpenEP
    /\ hw' = NoTransfer
    /\ UNCHANGED <<activeTransfer, pc, transfer, state, owed>>

Deconfigure ==
    /\ Deconfigures
    /\ configured' = FALSE
    /\ isOpen' = FALSE
    /\ hw' = NoTransfer
    /\ UNCHANGED <<activeTransfer, pc, transfer, state, owed>>

-----------------------------------------------------------------------------
Submit(t) == Activate(t) \/ Start(t)

Next ==
    \/ \E t \in Tasks : Check(t) \/ Submit(t)
    \/ DataStage \/ Configure \/ Deconfigure

Spec == Init /\ [][Next]_vars

(* A task inside transferAsync goes on, and the host moves the data of a   *)
(* transfer the hardware works on.                                         *)
Fairness == WF_vars(DataStage) /\ \A t \in Tasks : WF_vars(Submit(t))
FairSpec == Spec /\ Fairness

-----------------------------------------------------------------------------
(* No path reports a transfer as failed: State::Fail is never seen.        *)
TypeOK ==
    /\ activeTransfer \in Transfers \cup {NoTransfer}
    /\ isOpen \in BOOLEAN /\ configured \in BOOLEAN
    /\ hw \in Transfers \cup {NoTransfer}
    /\ pc \in [Tasks -> {"idle", "accepted", "active"}]
    /\ transfer \in [Tasks -> Transfers \cup {NoTransfer}]
    /\ state \in [Polling -> {"Pending", "Success"}]
    /\ owed \subseteq Transfers

(* What the interrupt will call back is what the hardware works on: the    *)
(* client of one transfer never hears of another one's bytes.              *)
HardwareServesActive ==
    hw # NoTransfer => hw = activeTransfer /\ hw \in owed

(* A polled transfer that was accepted tells of success only once it has   *)
(* been moved, also when the object has served before.                     *)
PollsTheirOwn == \A x \in Polling :
    x \in owed \/ (\E t \in Tasks : transfer[t] = x) => state[x] = "Pending"

(* The endpoint is only ever taken by a transfer that is under way, and a  *)
(* transfer under way is the one that takes it.                            *)
TakenByOneUnderWay ==
    /\ owed \subseteq {activeTransfer}
    /\ activeTransfer # NoTransfer =>
          activeTransfer \in owed \/ \E t \in Tasks : transfer[t] = activeTransfer

(* An accepted transfer is called back, but for one that a reset takes     *)
(* from the hardware or overtakes before it gets there: that one keeps the *)
(* endpoint taken, as close does not finalize it.                          *)
CalledBack(x) == DataStage /\ activeTransfer = x
TakenByReset(x) == activeTransfer = x /\ (hw = NoTransfer \/ ~isOpen)
AcceptedIsCalledBack == \A x \in Transfers :
    <>[](x \in owed) => []<><<CalledBack(x)>>_vars \/ <>[]TakenByReset(x)
=============================================================================
