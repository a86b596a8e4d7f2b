---------------------- MODULE CountingSemaphore_proofs ----------------------
(***************************************************************************)
(* What the runs of CountingSemaphore show on small instances, proved for  *)
(* every number of threads, every maximum and every width of std::size_t.  *)
(***************************************************************************)
EXTENDS CountingSemaphore, FiniteSetTheorems, TLAPS

(* The mutex: a thread is between its lock and its unlock exactly when it  *)
(* owns _mutex.                                                            *)
Exclusive == \A t \in Threads : pc[t] \in {"test", "commit"} <=> owner = t

(* Only calls that wait are on the condition variable.                     *)
OnlyTakersBlock == \A t \in Threads :
    pc[t] = "blocked" => call[t] \in TakeCalls /\ call[t].op # "tryTake"

IInv == TypeOK /\ Exclusive /\ OnlyTakersBlock /\ TestStillHolds /\ NoLostWakeup

-----------------------------------------------------------------------------
(* A take and a give are told apart by their operation.                    *)
LEMMA TakeFacts ==
    ASSUME NEW c \in TakeCalls
    PROVE  c.op \in {"take", "tryTake", "takeFor"}
  BY DEF TakeCalls

(* The argument of a give is a number, below the width of size_t when the  *)
(* caller chose it.                                                        *)
LEMMA GiveFacts ==
    ASSUME NEW c \in GiveCalls
    PROVE  /\ c.op \in {"give", "giveMany"}
           /\ c \notin TakeCalls
           /\ c.arg \in Nat
           /\ c.op = "give" => c.arg = 1
           /\ c.op = "giveMany" => c.arg < Modulus
  <1>1. CASE c = [op |-> "give", arg |-> 1]
    BY <1>1, TakeFacts
  <1>2. CASE c \in [op : {"giveMany"}, arg : GiveCounts]
    <2>1. c.op = "giveMany" /\ c.arg \in GiveCounts
      BY <1>2
    <2>2. c.arg \in 0..(Modulus - 1)
      BY <2>1, ArgumentsAssumption
    <2> QED BY <2>1, <2>2, TakeFacts, WidthAssumption
  <1> QED BY <1>1, <1>2 DEF GiveCalls

(* Awake takers are counted by a natural number that does not decrease     *)
(* when more of them are awake.                                            *)
LEMMA AwakeMonotone ==
    ASSUME NEW A, NEW B, A \subseteq B, B \subseteq Threads
    PROVE  /\ Cardinality(A) \in Nat
           /\ Cardinality(B) \in Nat
           /\ Cardinality(A) <= Cardinality(B)
  <1>1. IsFiniteSet(B)
    BY ThreadsAssumption, FS_Subset
  <1>2. IsFiniteSet(A)
    BY <1>1, FS_Subset
  <1> QED BY <1>1, <1>2, FS_Subset, FS_CardinalityType

LEMMA AwakeAdd ==
    ASSUME NEW A, A \subseteq Threads, NEW t \in Threads, t \notin A
    PROVE  Cardinality(A \cup {t}) = Cardinality(A) + 1
  BY ThreadsAssumption, FS_Subset, FS_AddElement

LEMMA AwakeRemove ==
    ASSUME NEW A, A \subseteq Threads, NEW t \in A
    PROVE  Cardinality(A \ {t}) = Cardinality(A) - 1
  BY ThreadsAssumption, FS_Subset, FS_RemoveElement

(* What a successful test of a give says about the sum that is stored.     *)
LEMMA FitsBound ==
    ASSUME count \in 0..MaxCount, NEW c \in GiveCalls, Fits(c)
    PROVE  /\ Plus(count, c.arg) \in 0..MaxCount
           /\ c.arg <= 1 => Plus(count, c.arg) <= count + 1
  <1>1. count \in Nat /\ c.arg \in Nat /\ MaxCount \in Nat /\ Modulus \in Nat /\ MaxCount < Modulus
    BY GiveFacts, WidthAssumption, CountsAssumption
  <1>2. CASE c.op = "give"
    <2>1. c.arg = 1 /\ count < MaxCount
      BY <1>2, GiveFacts DEF Fits
    <2> QED BY <1>1, <2>1 DEF Plus
  <1>3. CASE c.op = "giveMany"
    <2>1. Plus(count, c.arg) <= MaxCount /\ c.arg < Modulus
      BY <1>3, GiveFacts DEF Fits
    <2> QED BY <1>1, <2>1 DEF Plus
  <1> QED BY <1>2, <1>3, GiveFacts

-----------------------------------------------------------------------------
LEMMA InitIInv == Init => IInv
  <1> SUFFICES ASSUME Init PROVE IInv
    OBVIOUS
  <1>1. NoCall \in Calls
    BY DEF NoCall, Calls, TakeCalls
  <1>2. TypeOK
    BY <1>1, CountsAssumption DEF Init, TypeOK
  <1>3. Exclusive /\ OnlyTakersBlock /\ TestStillHolds
    BY ThreadsAssumption DEF Init, Exclusive, OnlyTakersBlock, TestStillHolds
  <1>4. NoLostWakeup
    BY DEF Init, NoLostWakeup, Blocked
  <1> QED BY <1>2, <1>3, <1>4 DEF IInv

(* The invariant without its last part: one thread is in its exclusive     *)
(* section, and what it tested there still holds.                          *)
LEMMA StepMutex ==
    ASSUME IInv, [Next]_vars
    PROVE  TypeOK' /\ Exclusive' /\ OnlyTakersBlock' /\ TestStillHolds'
  <1> USE DEF IInv
  <1>0. CASE UNCHANGED vars
    BY <1>0 DEF vars, TypeOK, Exclusive, OnlyTakersBlock, TestStillHolds, Fits
  <1>1. ASSUME NEW t \in Threads, Invoke(t)
        PROVE  TypeOK' /\ Exclusive' /\ OnlyTakersBlock' /\ TestStillHolds'
    BY <1>1, ThreadsAssumption
       DEF Invoke, TypeOK, Exclusive, OnlyTakersBlock, TestStillHolds, Fits
  <1>2. ASSUME NEW t \in Threads, GiveNothing(t)
        PROVE  TypeOK' /\ Exclusive' /\ OnlyTakersBlock' /\ TestStillHolds'
    BY <1>2 DEF GiveNothing, TypeOK, Exclusive, OnlyTakersBlock, TestStillHolds, Fits
  <1>3. ASSUME NEW t \in Threads, Acquire(t)
        PROVE  TypeOK' /\ Exclusive' /\ OnlyTakersBlock' /\ TestStillHolds'
    BY <1>3, ThreadsAssumption
       DEF Acquire, TypeOK, Exclusive, OnlyTakersBlock, TestStillHolds, Fits
  <1>4. ASSUME NEW t \in Threads, TestTake(t)
        PROVE  TypeOK' /\ Exclusive' /\ OnlyTakersBlock' /\ TestStillHolds'
    <2>1. owner = t /\ count \in Nat
      BY <1>4, CountsAssumption, WidthAssumption DEF TestTake, Exclusive, TypeOK
    <2>2. CASE count > 0
      <3>1. /\ pc' = [pc EXCEPT ![t] = "commit"]
            /\ UNCHANGED <<count, owner, call, expired, result>>
        <4>1. count # 0
          BY <2>2
        <4> QED BY <1>4, <4>1 DEF TestTake
      <3>2. call[t] \in TakeCalls /\ call[t] \notin GiveCalls
        BY <1>4, GiveFacts DEF TestTake
      <3>3. TypeOK' /\ Exclusive' /\ OnlyTakersBlock'
        BY <2>1, <3>1 DEF TypeOK, Exclusive, OnlyTakersBlock
      <3>4. TestStillHolds'
        BY <2>2, <3>1, <3>2 DEF TypeOK, TestStillHolds, Fits
      <3> QED BY <3>3, <3>4
    <2>3. CASE count = 0
      <3>1. /\ owner' = NoThread /\ count' = count /\ call' = call
            /\ pc' = [pc EXCEPT ![t] = "blocked"] \/ pc' = [pc EXCEPT ![t] = "done"]
            /\ expired' \subseteq expired \cup {t}
            /\ result' = result \/ result' = [result EXCEPT ![t] = FALSE]
            /\ pc'[t] = "blocked" => call[t].op # "tryTake"
        BY <1>4, <2>3 DEF TestTake, Finish, TypeOK
      <3>2. TypeOK'
        BY <3>1 DEF TypeOK
      <3>3. Exclusive'
        BY <2>1, <3>1, ThreadsAssumption DEF Exclusive, TypeOK
      <3>4. OnlyTakersBlock'
        BY <1>4, <3>1 DEF TestTake, OnlyTakersBlock, TypeOK
      <3>5. TestStillHolds'
        BY <2>1, <3>1 DEF TestStillHolds, Exclusive, TypeOK
      <3> QED BY <3>2, <3>3, <3>4, <3>5
    <2> QED BY <2>1, <2>2, <2>3
  <1>5. ASSUME NEW t \in Threads, CommitTake(t)
        PROVE  TypeOK' /\ Exclusive' /\ OnlyTakersBlock' /\ TestStillHolds'
    <2>1. count > 0 /\ count' = count - 1 /\ owner = t
      BY <1>5, CountsAssumption, WidthAssumption
         DEF CommitTake, TypeOK, Exclusive, TestStillHolds
    <2>2. TypeOK'
      BY <1>5, <2>1, CountsAssumption, WidthAssumption DEF CommitTake, Finish, TypeOK
    <2>3. Exclusive' /\ OnlyTakersBlock'
      BY <1>5, <2>1, ThreadsAssumption
         DEF CommitTake, Finish, TypeOK, Exclusive, OnlyTakersBlock
    <2>4. \A u \in Threads : pc'[u] # "commit"
      BY <1>5, <2>1 DEF CommitTake, Finish, TypeOK, Exclusive
    <2> QED BY <2>2, <2>3, <2>4 DEF TestStillHolds
  <1>6. ASSUME NEW t \in Threads, TestGive(t)
        PROVE  TypeOK' /\ Exclusive' /\ OnlyTakersBlock' /\ TestStillHolds'
    <2>1. owner = t /\ count' = count /\ call' = call /\ call[t] \notin TakeCalls
      BY <1>6, GiveFacts DEF TestGive, Exclusive
    <2>2. CASE Fits(call[t])
      <3>1. pc' = [pc EXCEPT ![t] = "commit"] /\ UNCHANGED <<owner, expired, result>>
        BY <1>6, <2>2 DEF TestGive
      <3>2. TypeOK' /\ Exclusive' /\ OnlyTakersBlock'
        BY <2>1, <3>1 DEF TypeOK, Exclusive, OnlyTakersBlock
      <3>3. TestStillHolds'
        BY <2>1, <2>2, <3>1 DEF TypeOK, TestStillHolds, Fits
      <3> QED BY <3>2, <3>3
    <2>3. CASE ~Fits(call[t])
      <3>1. Finish(t, FALSE)
        BY <1>6, <2>3 DEF TestGive
      <3>2. TypeOK' /\ OnlyTakersBlock'
        BY <2>1, <3>1 DEF Finish, TypeOK, OnlyTakersBlock
      <3>3. Exclusive' /\ TestStillHolds'
        BY <2>1, <3>1, ThreadsAssumption DEF Finish, TypeOK, Exclusive, TestStillHolds
      <3> QED BY <3>2, <3>3
    <2> QED BY <2>2, <2>3
  <1>7. ASSUME NEW t \in Threads, CommitGive(t)
        PROVE  TypeOK' /\ Exclusive' /\ OnlyTakersBlock' /\ TestStillHolds'
    <2>1. owner = t /\ Fits(call[t]) /\ call[t] \in GiveCalls
      BY <1>7 DEF CommitGive, Exclusive, TestStillHolds
    <2>2. count' \in 0..MaxCount
      BY <1>7, <2>1, FitsBound DEF CommitGive, TypeOK
    <2>3. PICK woken \in Notified(call[t].arg) :
             pc' = [u \in Threads |-> IF u = t THEN "done"
                                      ELSE IF u \in woken THEN "lock" ELSE pc[u]]
      BY <1>7 DEF CommitGive
    <2>4. TypeOK'
      BY <1>7, <2>2, <2>3 DEF CommitGive, TypeOK
    <2>5. \A u \in Threads : pc'[u] \notin {"test", "commit"}
      BY <2>1, <2>3 DEF Exclusive
    <2>6. Exclusive'
      BY <1>7, <2>5, ThreadsAssumption DEF CommitGive, Exclusive
    <2>7. OnlyTakersBlock' /\ TestStillHolds'
      BY <1>7, <2>3, <2>5 DEF CommitGive, OnlyTakersBlock, TestStillHolds
    <2> QED BY <2>4, <2>6, <2>7
  <1>8. ASSUME NEW t \in Threads, Return(t)
        PROVE  TypeOK' /\ Exclusive' /\ OnlyTakersBlock' /\ TestStillHolds'
    BY <1>8 DEF Return, NoCall, TakeCalls, Calls, TypeOK, Exclusive, OnlyTakersBlock, TestStillHolds, Fits
  <1>9. ASSUME NEW t \in Threads, Expire(t)
        PROVE  TypeOK' /\ Exclusive' /\ OnlyTakersBlock' /\ TestStillHolds'
    BY <1>9 DEF Expire, TypeOK, Exclusive, OnlyTakersBlock, TestStillHolds, Fits
  <1>10. ASSUME NEW t \in Threads, WakeSpuriously(t)
         PROVE  TypeOK' /\ Exclusive' /\ OnlyTakersBlock' /\ TestStillHolds'
    BY <1>10 DEF WakeSpuriously, TypeOK, Exclusive, OnlyTakersBlock, TestStillHolds, Fits
  <1> QED BY <1>0, <1>1, <1>2, <1>3, <1>4, <1>5, <1>6, <1>7, <1>8, <1>9, <1>10
          DEF Next, Step

(* A step that wakes nobody up wrongly: it leaves the counter alone, puts  *)
(* no thread to sleep and no awake taker out of its call.                  *)
LEMMA QuietStep ==
    ASSUME IInv, count' = count, Blocked' \subseteq Blocked,
           AwakeTakers \subseteq AwakeTakers'
    PROVE  NoLostWakeup'
  <1>1. AwakeTakers' \subseteq Threads
    BY DEF AwakeTakers
  <1>2. /\ Cardinality(AwakeTakers) \in Nat /\ Cardinality(AwakeTakers') \in Nat
        /\ Cardinality(AwakeTakers) <= Cardinality(AwakeTakers')
    BY <1>1, AwakeMonotone
  <1>3. count \in Nat
    BY CountsAssumption DEF IInv, TypeOK
  <1> QED BY <1>2, <1>3 DEF IInv, NoLostWakeup

LEMMA StepWakeup ==
    ASSUME IInv, [Next]_vars
    PROVE  NoLostWakeup'
  <1> USE DEF IInv
  <1>0. CASE UNCHANGED vars
    BY <1>0, QuietStep DEF vars, Blocked, AwakeTakers
  <1>1. ASSUME NEW t \in Threads, Invoke(t) PROVE NoLostWakeup'
    BY <1>1, QuietStep DEF Invoke, TypeOK, Blocked, AwakeTakers
  <1>2. ASSUME NEW t \in Threads, GiveNothing(t) PROVE NoLostWakeup'
    <2>1. call[t] \notin TakeCalls
      BY <1>2 DEF GiveNothing, GivesNothing, TakeCalls
    <2> QED BY <1>2, <2>1, QuietStep DEF GiveNothing, TypeOK, Blocked, AwakeTakers
  <1>3. ASSUME NEW t \in Threads, Acquire(t) PROVE NoLostWakeup'
    BY <1>3, QuietStep DEF Acquire, TypeOK, Blocked, AwakeTakers
  <1>4. ASSUME NEW t \in Threads, TestTake(t) PROVE NoLostWakeup'
    <2>1. CASE count > 0
      <3>1. pc' = [pc EXCEPT ![t] = "commit"] /\ count' = count /\ call' = call
        <4>1. count # 0
          BY <2>1
        <4> QED BY <1>4, <4>1 DEF TestTake
      <3>2. Blocked' \subseteq Blocked /\ AwakeTakers \subseteq AwakeTakers'
        BY <1>4, <3>1 DEF TestTake, TypeOK, Blocked, AwakeTakers
      <3> QED BY <3>1, <3>2, QuietStep
    <2>2. CASE count = 0
      <3>1. count' = 0
        BY <1>4, <2>2 DEF TestTake
      <3>2. Cardinality(AwakeTakers') \in Nat
        BY AwakeMonotone DEF AwakeTakers
      <3> QED BY <3>1, <3>2 DEF NoLostWakeup
    <2> QED BY <2>1, <2>2, CountsAssumption, WidthAssumption DEF TypeOK
  <1>5. ASSUME NEW t \in Threads, CommitTake(t) PROVE NoLostWakeup'
    <2>1. count > 0 /\ count \in Nat /\ count' = count - 1
      BY <1>5, CountsAssumption, WidthAssumption DEF CommitTake, TypeOK, TestStillHolds
    <2>2. t \in AwakeTakers /\ AwakeTakers' = AwakeTakers \ {t} /\ Blocked' = Blocked
      BY <1>5 DEF CommitTake, Finish, TypeOK, Blocked, AwakeTakers
    <2>3. AwakeTakers \subseteq Threads
      BY DEF AwakeTakers
    <2>4. Cardinality(AwakeTakers') = Cardinality(AwakeTakers) - 1
      BY <2>2, <2>3, AwakeRemove
    <2>5. Cardinality(AwakeTakers) \in Nat
      BY <2>3, AwakeMonotone
    <2> QED BY <2>1, <2>2, <2>4, <2>5 DEF NoLostWakeup
  <1>6. ASSUME NEW t \in Threads, TestGive(t) PROVE NoLostWakeup'
    <2>1. /\ count' = count /\ call' = call /\ call[t] \notin TakeCalls
          /\ pc' = [pc EXCEPT ![t] = "commit"] \/ pc' = [pc EXCEPT ![t] = "done"]
      BY <1>6, GiveFacts DEF TestGive, Finish
    <2>2. Blocked' \subseteq Blocked /\ AwakeTakers \subseteq AwakeTakers'
      BY <2>1 DEF TypeOK, Blocked, AwakeTakers
    <2> QED BY <2>1, <2>2, QuietStep
  <1>7. ASSUME NEW t \in Threads, CommitGive(t) PROVE NoLostWakeup'
    <2>1. Fits(call[t]) /\ call[t] \in GiveCalls /\ call[t] \notin TakeCalls
      BY <1>7, GiveFacts DEF CommitGive, TestStillHolds
    <2>0. call[t].arg \in Nat
      BY <2>1, GiveFacts
    <2>2. PICK woken \in Notified(call[t].arg) :
             pc' = [u \in Threads |-> IF u = t THEN "done"
                                      ELSE IF u \in woken THEN "lock" ELSE pc[u]]
      BY <1>7 DEF CommitGive
    <2>3. CASE woken = Blocked
      BY <2>2, <2>3 DEF NoLostWakeup, Blocked
    <2>4. CASE woken # Blocked
      <3>1. call[t].arg <= 1 /\ Blocked # {}
        BY <2>0, <2>4, <2>2 DEF Notified, NotifyOne
      <3>2. PICK w \in Blocked : woken = {w}
        BY <2>0, <2>2, <2>4, <3>1 DEF Notified, NotifyOne
      <3>3. count \in Nat /\ count' \in Nat /\ count' <= count + 1
        BY <1>7, <2>1, <3>1, FitsBound, CountsAssumption DEF CommitGive, TypeOK
      <3>4. w \in Threads /\ w \notin AwakeTakers /\ w # t /\ call[w] \in TakeCalls
        BY <1>7 DEF CommitGive, Blocked, AwakeTakers, OnlyTakersBlock
      <3>5. AwakeTakers' = AwakeTakers \cup {w}
        BY <1>7, <2>1, <2>2, <3>2, <3>4 DEF CommitGive, AwakeTakers
      <3>6. AwakeTakers \subseteq Threads
        BY DEF AwakeTakers
      <3>7. Cardinality(AwakeTakers') = Cardinality(AwakeTakers) + 1
        BY <3>4, <3>5, <3>6, AwakeAdd
      <3>8. Cardinality(AwakeTakers) \in Nat
        BY <3>6, AwakeMonotone
      <3> QED BY <3>1, <3>3, <3>7, <3>8 DEF NoLostWakeup
    <2> QED BY <2>3, <2>4
  <1>8. ASSUME NEW t \in Threads, Return(t) PROVE NoLostWakeup'
    BY <1>8, QuietStep DEF Return, TypeOK, Blocked, AwakeTakers
  <1>9. ASSUME NEW t \in Threads, Expire(t) PROVE NoLostWakeup'
    BY <1>9, QuietStep DEF Expire, TypeOK, Blocked, AwakeTakers
  <1>10. ASSUME NEW t \in Threads, WakeSpuriously(t) PROVE NoLostWakeup'
    BY <1>10, QuietStep DEF WakeSpuriously, TypeOK, Blocked, AwakeTakers
  <1> QED BY <1>0, <1>1, <1>2, <1>3, <1>4, <1>5, <1>6, <1>7, <1>8, <1>9, <1>10
          DEF Next, Step

LEMMA Invariance == Spec => []IInv
  <1>1. IInv /\ [Next]_vars => IInv'
    BY StepMutex, StepWakeup DEF IInv
  <1> QED BY InitIInv, <1>1, PTL DEF Spec

(* The counter stays between zero and _maxCount, and every thread's state  *)
(* is one of those take() and give() have.                                 *)
THEOREM Typing == Spec => []TypeOK
  BY Invariance, PTL DEF IInv

(* What a thread tested under _mutex holds when it commits.                *)
THEOREM TestsHold == Spec => []TestStillHolds
  BY Invariance, PTL DEF IInv

(* No sleeping taker is left with a token that nobody awake will look at.  *)
THEOREM WakeupsKept == Spec => []NoLostWakeup
  BY Invariance, PTL DEF IInv

-----------------------------------------------------------------------------
(* give(count) adds before it compares: its sum must not pass size_t.      *)
NoOverflow == \A n \in GiveCounts : MaxCount + n < Modulus

AbstractPhase == [t \in Threads |-> Phase(t)]

Pends == {"lock", "test", "commit", "blocked"}

(* A step of t changes the abstract phase of t only.                       *)
LEMMA PhaseOfOthers ==
    ASSUME NEW t \in Threads,
           \A u \in Threads \ {t} :
              /\ call'[u] = call[u] /\ result'[u] = result[u]
              /\ pc'[u] = pc[u] \/ (pc[u] \in Pends /\ pc'[u] \in Pends)
    PROVE  AbstractPhase' = [AbstractPhase EXCEPT ![t] = Phase(t)']
  <1>1. ASSUME NEW u \in Threads \ {t} PROVE Phase(u)' = Phase(u)
    BY DEF Phase, Pends
  <1> QED BY <1>1 DEF AbstractPhase

(* Waking a thread and going to sleep do not show in the abstract phase.   *)
LEMMA PhaseUnchanged ==
    ASSUME call' = call, result' = result,
           \A u \in Threads : pc'[u] = pc[u] \/ (pc[u] \in Pends /\ pc'[u] \in Pends)
    PROVE  AbstractPhase' = AbstractPhase
  <1>1. ASSUME NEW u \in Threads PROVE Phase(u)' = Phase(u)
    BY DEF Phase, Pends
  <1> QED BY <1>1 DEF AbstractPhase

(* A give that fits adds its argument without overflow, and one that does  *)
(* not fit would pass _maxCount.                                           *)
LEMMA FitsExactly ==
    ASSUME NoOverflow, count \in 0..MaxCount, NEW c \in GiveCalls
    PROVE  /\ Fits(c) <=> count + c.arg <= MaxCount
           /\ Fits(c) => Plus(count, c.arg) = count + c.arg
  <1>1. count \in Nat /\ MaxCount \in Nat /\ Modulus \in Nat /\ MaxCount < Modulus /\ c.arg \in Nat
    BY GiveFacts, WidthAssumption, CountsAssumption
  <1>2. CASE c.op = "give"
    <2>1. c.arg = 1 /\ (Fits(c) <=> count < MaxCount)
      BY <1>2, GiveFacts DEF Fits
    <2> QED BY <1>1, <2>1 DEF Plus
  <1>3. CASE c.op = "giveMany"
    <2>1. c.arg \in GiveCounts
      BY <1>3 DEF GiveCalls
    <2>2. MaxCount + c.arg < Modulus
      BY <2>1 DEF NoOverflow
    <2>3. Plus(count, c.arg) = count + c.arg
      BY <1>1, <2>2 DEF Plus
    <2> QED BY <1>3, <2>3 DEF Fits
  <1> QED BY <1>2, <1>3, GiveFacts

(* give(0) is a give of nothing.                                           *)
LEMMA GiveNothingIsGive ==
    ASSUME NEW c \in Calls, c = [op |-> "giveMany", arg |-> 0]
    PROVE  c \in GiveCalls /\ c.arg = 0
  <1>1. c.op = "giveMany"
    OBVIOUS
  <1> QED BY <1>1, TakeFacts DEF Calls

LEMMA InitRefines == Init => Abstract!Init
  BY DEF Init, Abstract!Init, Phase, Abstract!Idle

LEMMA StepRefines ==
    ASSUME NoOverflow, IInv, [Next]_vars
    PROVE  [Abstract!Next]_(Abstract!avars)
  <1> DEFINE Stutter == count' = count /\ AbstractPhase' = AbstractPhase
  <1>a. /\ Abstract!TakeCalls = TakeCalls /\ Abstract!GiveCalls = GiveCalls
        /\ Abstract!Calls = Calls
    BY DEF Abstract!TakeCalls, Abstract!GiveCalls, Abstract!Calls, TakeCalls, GiveCalls, Calls
  <1>b. Stutter => UNCHANGED Abstract!avars
    BY DEF Abstract!avars, AbstractPhase
  <1>c. TypeOK /\ Exclusive /\ OnlyTakersBlock /\ TestStillHolds
    BY DEF IInv
  <1>d. /\ call \in [Threads -> Calls] /\ result \in [Threads -> BOOLEAN] /\ count \in Nat
        /\ pc \in [Threads -> {"idle", "lock", "test", "commit", "blocked", "done"}]
    BY <1>c, CountsAssumption DEF TypeOK
  <1>0. CASE UNCHANGED vars
    <2>1. Stutter
      BY <1>0, <1>c, PhaseUnchanged DEF vars
    <2> QED BY <2>1, <1>b
  <1>1. ASSUME NEW t \in Threads, Invoke(t) PROVE Abstract!Next
    <2>1. PICK c \in Calls : call' = [call EXCEPT ![t] = c]
      BY <1>1 DEF Invoke
    <2>2. Phase(t) = Abstract!Idle /\ Phase(t)' = Abstract!Pending(c)
      BY <1>1, <1>d, <2>1 DEF Invoke, Phase, Abstract!Idle, Abstract!Pending
    <2>3. AbstractPhase' = [AbstractPhase EXCEPT ![t] = Phase(t)']
      <3>1. \A u \in Threads \ {t} :
                call'[u] = call[u] /\ result'[u] = result[u] /\ pc'[u] = pc[u]
        BY <1>1, <1>d, <2>1 DEF Invoke
      <3> QED BY <3>1, PhaseOfOthers
    <2>4. Abstract!Invoke(t)
      BY <1>1, <1>a, <2>2, <2>3 DEF Invoke, Abstract!Invoke, AbstractPhase
    <2> QED BY <2>4 DEF Abstract!Next
  <1>2. ASSUME NEW t \in Threads, GiveNothing(t) PROVE Abstract!Next
    <2>1. call[t] \in GiveCalls /\ call[t].arg = 0
      BY <1>2, <1>d, GiveNothingIsGive DEF GiveNothing, GivesNothing
    <2>2. Phase(t) = Abstract!Pending(call[t]) /\ Phase(t)' = Abstract!Done(TRUE)
      BY <1>2, <1>d DEF GiveNothing, Phase, Abstract!Pending, Abstract!Done
    <2>3. AbstractPhase' = [AbstractPhase EXCEPT ![t] = Phase(t)']
      <3>1. \A u \in Threads \ {t} :
                call'[u] = call[u] /\ result'[u] = result[u] /\ pc'[u] = pc[u]
        BY <1>2, <1>d DEF GiveNothing
      <3> QED BY <3>1, PhaseOfOthers
    <2>4. count + call[t].arg <= MaxCount /\ count' = count + call[t].arg
      BY <1>2, <1>c, <2>1, CountsAssumption, WidthAssumption DEF GiveNothing, TypeOK
    <2>5. Abstract!Give(t)
      BY <1>a, <2>1, <2>2, <2>3, <2>4 DEF Abstract!Give, AbstractPhase
    <2> QED BY <2>5 DEF Abstract!Next
  <1>3. ASSUME NEW t \in Threads, Acquire(t) PROVE Stutter
    <2>1. \A u \in Threads : pc'[u] = pc[u] \/ (pc[u] \in Pends /\ pc'[u] \in Pends)
      BY <1>3, <1>d DEF Acquire, Pends
    <2> QED BY <1>3, <2>1, PhaseUnchanged DEF Acquire
  <1>4. ASSUME NEW t \in Threads, TestTake(t) PROVE Stutter \/ Abstract!Next
    <2>1. CASE count' = count /\ call' = call /\ result' = result
               /\ \E w \in Pends : pc' = [pc EXCEPT ![t] = w]
      <3>1. \A u \in Threads : pc'[u] = pc[u] \/ (pc[u] \in Pends /\ pc'[u] \in Pends)
        BY <1>4, <1>d, <2>1 DEF TestTake, Pends
      <3> QED BY <2>1, <3>1, PhaseUnchanged
    <2>2. CASE /\ count = 0 /\ count' = count /\ call' = call /\ Finish(t, FALSE)
               /\ call[t].op # "take"
      <3>1. Phase(t) = Abstract!Pending(call[t]) /\ Phase(t)' = Abstract!Done(FALSE)
        BY <1>4, <1>d, <2>2 DEF TestTake, Finish, Phase, Abstract!Pending, Abstract!Done
      <3>2. \A u \in Threads \ {t} :
                call'[u] = call[u] /\ result'[u] = result[u] /\ pc'[u] = pc[u]
        BY <1>d, <2>2 DEF Finish
      <3>3. AbstractPhase' = [AbstractPhase EXCEPT ![t] = Phase(t)']
        BY <3>2, PhaseOfOthers
      <3>4. Abstract!Refuse(t)
        BY <1>4, <1>a, <2>2, <3>1, <3>3 DEF TestTake, Abstract!Refuse, AbstractPhase
      <3> QED BY <3>4 DEF Abstract!Next
    <2>3. \/ count' = count /\ call' = call /\ result' = result
             /\ \E w \in Pends : pc' = [pc EXCEPT ![t] = w]
          \/ /\ count = 0 /\ count' = count /\ call' = call /\ Finish(t, FALSE)
             /\ call[t].op # "take"
      BY <1>4 DEF TestTake, Pends
    <2> QED BY <2>1, <2>2, <2>3
  <1>5. ASSUME NEW t \in Threads, CommitTake(t) PROVE Abstract!Next
    <2>1. count > 0 /\ count' = count - 1 /\ call[t] \in TakeCalls
      BY <1>5, <1>c, <1>d DEF CommitTake, TestStillHolds
    <2>2. Phase(t) = Abstract!Pending(call[t]) /\ Phase(t)' = Abstract!Done(TRUE)
      BY <1>5, <1>d DEF CommitTake, Finish, Phase, Abstract!Pending, Abstract!Done
    <2>3. \A u \in Threads \ {t} :
              call'[u] = call[u] /\ result'[u] = result[u] /\ pc'[u] = pc[u]
      BY <1>5, <1>d DEF CommitTake, Finish
    <2>4. AbstractPhase' = [AbstractPhase EXCEPT ![t] = Phase(t)']
      BY <2>3, PhaseOfOthers
    <2>5. Abstract!Take(t)
      BY <1>a, <2>1, <2>2, <2>4 DEF Abstract!Take, AbstractPhase
    <2> QED BY <2>5 DEF Abstract!Next
  <1>6. ASSUME NEW t \in Threads, TestGive(t) PROVE Stutter \/ Abstract!Next
    <2>1. CASE Fits(call[t])
      <3>1. count' = count /\ call' = call /\ result' = result /\ pc' = [pc EXCEPT ![t] = "commit"]
        BY <1>6, <2>1 DEF TestGive
      <3>2. \A u \in Threads : pc'[u] = pc[u] \/ (pc[u] \in Pends /\ pc'[u] \in Pends)
        BY <1>6, <1>d, <3>1 DEF TestGive, Pends
      <3> QED BY <3>1, <3>2, PhaseUnchanged
    <2>2. CASE ~Fits(call[t])
      <3>1. Finish(t, FALSE) /\ count' = count /\ call' = call /\ call[t] \in GiveCalls
        BY <1>6, <2>2 DEF TestGive
      <3>2. count + call[t].arg > MaxCount
        <4>1. ~(count + call[t].arg <= MaxCount)
          BY <1>c, <2>2, <3>1, FitsExactly DEF TypeOK
        <4> QED BY <1>d, <3>1, <4>1, GiveFacts, CountsAssumption, WidthAssumption
      <3>3. Phase(t) = Abstract!Pending(call[t]) /\ Phase(t)' = Abstract!Done(FALSE)
        BY <1>6, <1>d, <3>1 DEF TestGive, Finish, Phase, Abstract!Pending, Abstract!Done
      <3>4. \A u \in Threads \ {t} :
                call'[u] = call[u] /\ result'[u] = result[u] /\ pc'[u] = pc[u]
        BY <1>d, <3>1 DEF Finish
      <3>5. AbstractPhase' = [AbstractPhase EXCEPT ![t] = Phase(t)']
        BY <3>4, PhaseOfOthers
      <3>6. Abstract!Overfull(t)
        BY <1>a, <3>1, <3>2, <3>3, <3>5 DEF Abstract!Overfull, AbstractPhase
      <3> QED BY <3>6 DEF Abstract!Next
    <2> QED BY <2>1, <2>2
  <1>7. ASSUME NEW t \in Threads, CommitGive(t) PROVE Abstract!Next
    <2>1. Fits(call[t]) /\ call[t] \in GiveCalls /\ count \in 0..MaxCount
      BY <1>7, <1>c DEF CommitGive, TestStillHolds, TypeOK
    <2>2. count + call[t].arg <= MaxCount /\ count' = count + call[t].arg
      BY <1>7, <2>1, FitsExactly DEF CommitGive
    <2>3. PICK woken \in Notified(call[t].arg) :
             pc' = [u \in Threads |-> IF u = t THEN "done"
                                      ELSE IF u \in woken THEN "lock" ELSE pc[u]]
      BY <1>7 DEF CommitGive
    <2>4. woken \subseteq Blocked
      BY DEF Notified, NotifyOne
    <2>5. \A u \in Threads \ {t} :
              /\ call'[u] = call[u] /\ result'[u] = result[u]
              /\ pc'[u] = pc[u] \/ (pc[u] \in Pends /\ pc'[u] \in Pends)
      BY <1>7, <1>d, <2>3, <2>4 DEF CommitGive, Blocked, Pends
    <2>6. AbstractPhase' = [AbstractPhase EXCEPT ![t] = Phase(t)']
      BY <2>5, PhaseOfOthers
    <2>7. Phase(t) = Abstract!Pending(call[t]) /\ Phase(t)' = Abstract!Done(TRUE)
      BY <1>7, <1>d, <2>3 DEF CommitGive, Phase, Abstract!Pending, Abstract!Done
    <2>8. Abstract!Give(t)
      BY <1>a, <2>1, <2>2, <2>6, <2>7 DEF Abstract!Give, AbstractPhase
    <2> QED BY <2>8 DEF Abstract!Next
  <1>8. ASSUME NEW t \in Threads, Return(t) PROVE Abstract!Next
    <2>1. Phase(t).at = "done" /\ Phase(t)' = Abstract!Idle
      BY <1>8, <1>d DEF Return, Phase, Abstract!Idle
    <2>2. \A u \in Threads \ {t} :
              call'[u] = call[u] /\ result'[u] = result[u] /\ pc'[u] = pc[u]
      BY <1>8, <1>d DEF Return
    <2>3. AbstractPhase' = [AbstractPhase EXCEPT ![t] = Phase(t)']
      BY <2>2, PhaseOfOthers
    <2>4. Abstract!Return(t)
      BY <1>8, <2>1, <2>3 DEF Return, Abstract!Return, AbstractPhase
    <2> QED BY <2>4 DEF Abstract!Next
  <1>9. ASSUME NEW t \in Threads, Expire(t) \/ WakeSpuriously(t) PROVE Stutter
    <2>1. \A u \in Threads : pc'[u] = pc[u] \/ (pc[u] \in Pends /\ pc'[u] \in Pends)
      BY <1>9, <1>d DEF Expire, WakeSpuriously, Pends
    <2> QED BY <1>9, <2>1, PhaseUnchanged DEF Expire, WakeSpuriously
  <1> HIDE DEF Stutter
  <1> QED BY <1>0, <1>1, <1>2, <1>3, <1>4, <1>5, <1>6, <1>7, <1>8, <1>9, <1>b DEF Next, Step

(* When no give(count) can overflow std::size_t, the semaphore is a        *)
(* counting semaphore: each call has one atomic effect, and its result     *)
(* says which.                                                             *)
THEOREM Refinement == ASSUME NoOverflow PROVE Spec => ImplementsAbstract
  <1>1. IInv /\ [Next]_vars => [Abstract!Next]_(Abstract!avars)
    BY StepRefines
  <1> QED BY InitRefines, Invariance, <1>1, PTL DEF Spec, ImplementsAbstract, Abstract!Spec
=============================================================================
