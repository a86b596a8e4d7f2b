-------------------------------- MODULE Usbfs --------------------------------
(***************************************************************************)
(* The part of the Linux usbfs driver that USB/Host/Linux relies on.  It   *)
(* is not in the repository: it is modelled from the ioctls the code makes *)
(* and from how it treats their results.  A submitted block is in flight   *)
(* on its endpoint until the device answers or it is discarded; then it    *)
(* waits in the completion list of the file descriptor until it is reaped. *)
(***************************************************************************)
EXTENDS Sequences, FiniteSets, SequencesExt

CONSTANT Endpoints      \* endpoint addresses in use

ASSUME EndpointsAssumption == IsFiniteSet(Endpoints)

VARIABLES
    pending,            \* per endpoint, the blocks in flight, oldest first
    completed,          \* blocks to be reaped: [urb, status, actual]
    plugged             \* whether the device is still there

kernelVars == <<pending, completed, plugged>>

KernelInit ==
    /\ pending = [e \in Endpoints |-> <<>>]
    /\ completed = <<>>
    /\ plugged = TRUE

InFlight == UNION {ToSet(pending[e]) : e \in Endpoints}
Finished == {completed[i].urb : i \in DOMAIN completed}

Answer(u, s, n) == [urb |-> u, status |-> s, actual |-> n]

(* IOCTL_USBFS_SUBMITURB                                                   *)
KernelSubmit(e, u) ==
    /\ plugged
    /\ pending' = [pending EXCEPT ![e] = Append(@, u)]
    /\ UNCHANGED <<completed, plugged>>

(* IOCTL_USBFS_DISCARDURB: a block in flight is completed as failed; any   *)
(* other one is refused with EINVAL.                                       *)
KernelDiscard(u) ==
    /\ pending' = [e \in Endpoints |-> RemoveFirst(pending[e], u)]
    /\ completed' = IF u \in InFlight THEN Append(completed, Answer(u, "error", 0))
                    ELSE completed
    /\ UNCHANGED plugged

(* The device answers the oldest block of an endpoint, with n bytes.       *)
KernelComplete(e, n) ==
    /\ pending[e] # <<>>
    /\ completed' = Append(completed, Answer(Head(pending[e]), "ok", n))
    /\ pending' = [pending EXCEPT ![e] = Tail(@)]
    /\ UNCHANGED plugged

(* Or it fails.                                                            *)
KernelFail(e) ==
    /\ pending[e] # <<>>
    /\ completed' = Append(completed, Answer(Head(pending[e]), "error", 0))
    /\ pending' = [pending EXCEPT ![e] = Tail(@)]
    /\ UNCHANGED plugged

(* Everything in flight comes back as failed, in whatever order: the       *)
(* interface is released or the device is gone.                            *)
KernelCancelAll ==
    /\ \E order \in SetToSeqs(InFlight) :
          completed' = completed \o [i \in DOMAIN order |-> Answer(order[i], "error", 0)]
    /\ pending' = [e \in Endpoints |-> <<>>]

(* The file descriptor is closed: nothing is reaped any more.              *)
KernelClose ==
    /\ pending' = [e \in Endpoints |-> <<>>]
    /\ completed' = <<>>
    /\ UNCHANGED plugged
=============================================================================
