------------------------ MODULE UsbDEndpoint_proofs ------------------------
(***************************************************************************)
(* The safety of UsbDEndpoint for any number of tasks and transfers, when  *)
(* the tasks exclude each other from transferAsync: the exclusion that the *)
(* commented-out CriticalSectionLock of UsbDEndpoint.cpp would provide.    *)
(* Interrupts need no exclusion.                                           *)
(***************************************************************************)
EXTENDS UsbDEndpoint, TLAPS

(* One task at a time is inside transferAsync.                             *)
OneInside == \A t, u \in Tasks : pc[t] # "idle" /\ pc[u] # "idle" => t = u

(* What a task has tested still holds when it acts on it.                  *)
InsideHolds == \A t \in Tasks :
    /\ pc[t] = "idle" => transfer[t] = NoTransfer
    /\ pc[t] # "idle" => transfer[t] \in Transfers /\ transfer[t] \notin owed
    /\ pc[t] = "accepted" => activeTransfer = NoTransfer
    /\ pc[t] = "active" => activeTransfer = transfer[t]

IInv ==
    /\ TypeOK /\ OneInside /\ InsideHolds
    /\ HardwareServesActive /\ PollsTheirOwn /\ TakenByOneUnderWay

LEMMA InitHolds == Init => IInv
  BY TransfersAssumption
  DEF Init, IInv, TypeOK, OneInside, InsideHolds, HardwareServesActive, PollsTheirOwn,
      TakenByOneUnderWay, Transfers

-----------------------------------------------------------------------------
LEMMA CheckKeeps ==
    ASSUME IInv, Serialised, NEW t \in Tasks, Check(t)
    PROVE  IInv'
  <1>1. PICK x \in Transfers \ InUse :
           /\ state' = [p \in Polling |-> IF p = x THEN "Pending" ELSE state[p]]
           /\ IF Accepts
              THEN /\ pc' = [pc EXCEPT ![t] = "accepted"]
                   /\ transfer' = [transfer EXCEPT ![t] = x]
              ELSE UNCHANGED <<pc, transfer>>
    BY DEF Check
  <1>2. /\ \A u \in Tasks : pc[u] = "idle" /\ transfer[u] = NoTransfer
        /\ UNCHANGED <<activeTransfer, isOpen, configured, hw, owed>>
        /\ x \in Transfers /\ x \notin owed
    BY <1>1 DEF Check, IInv, InsideHolds, InUse, endpointVars
  <1>3. CASE Accepts
    <2>1. /\ pc' = [pc EXCEPT ![t] = "accepted"] /\ transfer' = [transfer EXCEPT ![t] = x]
          /\ activeTransfer = NoTransfer
      BY <1>1, <1>3 DEF Accepts
    <2>2. owed = {} /\ hw = NoTransfer
      BY <1>2, <2>1, TransfersAssumption DEF IInv, TypeOK, TakenByOneUnderWay, HardwareServesActive
    <2>3. TypeOK'
      BY <1>1, <1>2, <2>1 DEF IInv, TypeOK, Transfers
    <2>4. OneInside' /\ InsideHolds'
      BY <1>2, <2>1, <2>2 DEF IInv, TypeOK, OneInside, InsideHolds
    <2>5. HardwareServesActive' /\ TakenByOneUnderWay'
      BY <1>2, <2>1, <2>2 DEF HardwareServesActive, TakenByOneUnderWay
    <2>6. PollsTheirOwn'
      <3> SUFFICES ASSUME NEW p \in Polling, p \in owed' \/ \E u \in Tasks : transfer'[u] = p
                   PROVE  state'[p] = "Pending"
        BY DEF PollsTheirOwn
      <3>1. p # NoTransfer
        BY TransfersAssumption DEF Transfers
      <3>2. p = x
        BY <1>2, <2>1, <2>2, <3>1 DEF IInv, TypeOK
      <3> QED BY <1>1, <3>2
    <2> QED BY <2>3, <2>4, <2>5, <2>6 DEF IInv
  <1>4. CASE ~Accepts
    <2>1. UNCHANGED <<pc, transfer>>
      BY <1>1, <1>4
    <2>2. TypeOK'
      BY <1>1, <1>2, <2>1 DEF IInv, TypeOK
    <2>3. OneInside' /\ InsideHolds' /\ HardwareServesActive' /\ TakenByOneUnderWay'
      BY <1>2, <2>1 DEF IInv, OneInside, InsideHolds, HardwareServesActive, TakenByOneUnderWay
    <2>4. PollsTheirOwn'
      BY <1>1, <1>2, <2>1 DEF IInv, PollsTheirOwn
    <2> QED BY <2>2, <2>3, <2>4 DEF IInv
  <1> QED BY <1>3, <1>4

LEMMA ActivateKeeps ==
    ASSUME IInv, NEW t \in Tasks, Activate(t)
    PROVE  IInv'
  <1>1. /\ pc[t] = "accepted" /\ activeTransfer' = transfer[t]
        /\ pc' = [pc EXCEPT ![t] = "active"]
        /\ UNCHANGED <<isOpen, configured, hw, transfer, state, owed>>
    BY DEF Activate
  <1>2. /\ activeTransfer = NoTransfer /\ transfer[t] \in Transfers /\ transfer[t] \notin owed
        /\ \A u \in Tasks \ {t} : pc[u] = "idle"
    BY <1>1 DEF IInv, OneInside, InsideHolds
  <1>3. owed = {} /\ hw = NoTransfer
    BY <1>2, TransfersAssumption DEF IInv, TypeOK, TakenByOneUnderWay, HardwareServesActive
  <1>4. TypeOK'
    BY <1>1, <1>2 DEF IInv, TypeOK
  <1>5. OneInside' /\ InsideHolds'
    BY <1>1, <1>2, <1>3 DEF IInv, TypeOK, OneInside, InsideHolds
  <1>6. HardwareServesActive' /\ TakenByOneUnderWay'
    BY <1>1, <1>3 DEF HardwareServesActive, TakenByOneUnderWay
  <1>7. PollsTheirOwn'
    BY <1>1 DEF IInv, PollsTheirOwn
  <1> QED BY <1>4, <1>5, <1>6, <1>7 DEF IInv

LEMMA StartKeeps ==
    ASSUME IInv, NEW t \in Tasks, Start(t)
    PROVE  IInv'
  <1> DEFINE x == transfer[t]
  <1>1. /\ pc[t] = "active" /\ pc' = [pc EXCEPT ![t] = "idle"]
        /\ transfer' = [transfer EXCEPT ![t] = NoTransfer]
        /\ UNCHANGED <<isOpen, configured, state>>
        /\ \/ hw' = x /\ owed' = owed \cup {x} /\ UNCHANGED activeTransfer
           \/ activeTransfer' = NoTransfer /\ UNCHANGED <<hw, owed>>
    BY DEF Start, Leave
  <1>2. /\ activeTransfer = x /\ x \in Transfers /\ x \notin owed /\ x # NoTransfer
        /\ \A u \in Tasks \ {t} : pc[u] = "idle" /\ transfer[u] = NoTransfer
    BY <1>1, TransfersAssumption DEF IInv, OneInside, InsideHolds
  <1>3. owed = {} /\ hw = NoTransfer
    BY <1>2 DEF IInv, TypeOK, TakenByOneUnderWay, HardwareServesActive
  <1>4. /\ \A u \in Tasks : pc'[u] = "idle" /\ transfer'[u] = NoTransfer
        /\ owed' \subseteq {x} /\ state' = state
    BY <1>1, <1>2, <1>3 DEF IInv, TypeOK
  <1>5. TypeOK'
    BY <1>1, <1>2 DEF IInv, TypeOK
  <1>6. OneInside' /\ InsideHolds'
    BY <1>4 DEF OneInside, InsideHolds
  <1>7. HardwareServesActive' /\ TakenByOneUnderWay'
    BY <1>1, <1>2, <1>3 DEF HardwareServesActive, TakenByOneUnderWay
  <1>8. PollsTheirOwn'
    <2> SUFFICES ASSUME NEW p \in Polling, p \in owed' \/ \E u \in Tasks : transfer'[u] = p
                 PROVE  state'[p] = "Pending"
      BY DEF PollsTheirOwn
    <2>1. p = x
      BY <1>4, TransfersAssumption DEF Transfers
    <2> QED BY <1>4, <2>1 DEF IInv, PollsTheirOwn
  <1> QED BY <1>5, <1>6, <1>7, <1>8 DEF IInv

-----------------------------------------------------------------------------
(* An interrupt that finds a transfer finds no task that has passed the    *)
(* test of transferAsync and not yet started the hardware.                 *)
LEMMA DataStageKeeps ==
    ASSUME IInv, DataStage
    PROVE  IInv'
  <1>1. /\ hw = activeTransfer /\ hw \in owed /\ hw # NoTransfer /\ owed = {hw}
        /\ UNCHANGED <<isOpen, configured, pc, transfer>>
    BY DEF DataStage, IInv, HardwareServesActive, TakenByOneUnderWay
  <1>2. \A t \in Tasks : pc[t] = "idle" /\ transfer[t] = NoTransfer
    BY <1>1 DEF IInv, TypeOK, InsideHolds
  <1>3. CallBackPolling(hw) \/ CallBackStreaming(hw)
    BY <1>1 DEF DataStage
  <1>4. OneInside' /\ InsideHolds'
    BY <1>1, <1>2 DEF OneInside, InsideHolds
  <1>5. CASE CallBackPolling(hw)
    <2>1. /\ state' = [state EXCEPT ![hw] = "Success"] /\ hw \in Polling
          /\ activeTransfer' = NoTransfer /\ hw' = NoTransfer /\ owed' = {}
      BY <1>1, <1>5 DEF CallBackPolling, Cleared
    <2>2. TypeOK'
      BY <1>1, <2>1 DEF IInv, TypeOK
    <2>3. HardwareServesActive' /\ TakenByOneUnderWay'
      BY <2>1 DEF HardwareServesActive, TakenByOneUnderWay
    <2>4. PollsTheirOwn'
      BY <1>1, <1>2, <2>1, TransfersAssumption DEF PollsTheirOwn, Transfers
    <2> QED BY <1>4, <2>2, <2>3, <2>4 DEF IInv
  <1>6. CASE CallBackStreaming(hw)
    <2>1. /\ state' = state
          /\ \/ activeTransfer' = hw /\ hw' = hw /\ owed' = owed
             \/ activeTransfer' = NoTransfer /\ hw' = NoTransfer /\ owed' = {}
      BY <1>1, <1>6 DEF CallBackStreaming, Cleared
    <2>2. TypeOK'
      BY <1>1, <2>1 DEF IInv, TypeOK
    <2>3. HardwareServesActive' /\ TakenByOneUnderWay'
      BY <1>1, <2>1 DEF HardwareServesActive, TakenByOneUnderWay
    <2>4. PollsTheirOwn'
      BY <1>1, <2>1 DEF IInv, PollsTheirOwn
    <2> QED BY <1>4, <2>2, <2>3, <2>4 DEF IInv
  <1> QED BY <1>3, <1>5, <1>6

LEMMA ConfigurationKeeps ==
    ASSUME IInv, Configure \/ Deconfigure
    PROVE  IInv'
  <1>1. /\ configured' \in BOOLEAN /\ isOpen' \in BOOLEAN /\ hw' = NoTransfer
        /\ UNCHANGED <<activeTransfer, pc, transfer, state, owed>>
    BY DEF Configure, Deconfigure, OpenEP
  <1>2. TypeOK' /\ OneInside' /\ InsideHolds'
    BY <1>1 DEF IInv, TypeOK, OneInside, InsideHolds
  <1>3. HardwareServesActive' /\ TakenByOneUnderWay' /\ PollsTheirOwn'
    BY <1>1 DEF IInv, HardwareServesActive, TakenByOneUnderWay, PollsTheirOwn
  <1> QED BY <1>2, <1>3 DEF IInv

LEMMA StepKeeps ==
    ASSUME Serialised, IInv, [Next]_vars
    PROVE  IInv'
  <1>1. CASE UNCHANGED vars
    BY <1>1 DEF vars, IInv, TypeOK, OneInside, InsideHolds, HardwareServesActive,
                PollsTheirOwn, TakenByOneUnderWay
  <1>2. ASSUME NEW t \in Tasks, Check(t) \/ Submit(t) PROVE IInv'
    BY <1>2, CheckKeeps, ActivateKeeps, StartKeeps DEF Submit
  <1>3. CASE DataStage \/ Configure \/ Deconfigure
    BY <1>3, DataStageKeeps, ConfigurationKeeps
  <1> QED BY <1>1, <1>2, <1>3 DEF Next

LEMMA Invariance == ASSUME Serialised PROVE Spec => []IInv
  <1>1. IInv /\ [Next]_vars => IInv'
    BY StepKeeps
  <1> QED BY InitHolds, <1>1, PTL DEF Spec

-----------------------------------------------------------------------------
(* An endpoint never reports a transfer as failed, and its state keeps its *)
(* type.                                                                   *)
THEOREM Typing == ASSUME Serialised PROVE Spec => []TypeOK
  BY Invariance, PTL DEF IInv

(* The transfer that the interrupt calls back is the one the hardware has  *)
(* worked on, whatever the host does to the configuration.                 *)
THEOREM ServesActive == ASSUME Serialised PROVE Spec => []HardwareServesActive
  BY Invariance, PTL DEF IInv

(* Who polls a transfer never sees the success of an earlier use of it.    *)
THEOREM PollingIsSound == ASSUME Serialised PROVE Spec => []PollsTheirOwn
  BY Invariance, PTL DEF IInv

(* The endpoint is taken exactly by the transfer that is under way.        *)
THEOREM Taken == ASSUME Serialised PROVE Spec => []TakenByOneUnderWay
  BY Invariance, PTL DEF IInv
=============================================================================
