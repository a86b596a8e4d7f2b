------------------------- MODULE AbstractUsbService -------------------------
(***************************************************************************)
(* What IUsbService of USB/Host/IUsbService.h promises a client about      *)
(* events: it is called back from startEventsListening on and until        *)
(* stopEventsListening has returned, never after, and by one thread only.  *)
(* The Linux and the Windows service both implement it.                    *)
(***************************************************************************)
VARIABLES
    phase,          \* of the service
    calling         \* whether the client's callback runs

avars == <<phase, calling>>

Init == phase = "stopped" /\ calling = FALSE

Start == phase = "stopped" /\ phase' = "starting" /\ UNCHANGED calling
Started == phase = "starting" /\ phase' = "listening" /\ UNCHANGED calling
StartFailed == phase = "starting" /\ ~calling /\ phase' = "stopped" /\ UNCHANGED calling
Stop == phase = "listening" /\ phase' = "stopping" /\ UNCHANGED calling
Stopped == phase = "stopping" /\ ~calling /\ phase' = "stopped" /\ UNCHANGED calling

CallBack == phase # "stopped" /\ ~calling /\ calling' = TRUE /\ UNCHANGED phase
Return == calling /\ calling' = FALSE /\ UNCHANGED phase

Next == Start \/ Started \/ StartFailed \/ Stop \/ Stopped \/ CallBack \/ Return

Spec == Init /\ [][Next]_avars
=============================================================================
