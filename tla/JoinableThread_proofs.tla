----------------------- MODULE JoinableThread_proofs -----------------------
(***************************************************************************)
(* The ownership of JoinableThread for any number of threads: every Impl   *)
(* that was created and not joined has exactly one Thread, and is deleted  *)
(* only when its task has no more to do with it.                           *)
(***************************************************************************)
EXTENDS JoinableThread, FiniteSetTheorems, TLAPS

TypeOK ==
    /\ impl \in [Objects -> Impls \cup {Null}]
    /\ life \in [Impls -> {"none", "alive", "deleted"}]
    /\ task \in [Impls -> {"none", "body", "give", "ending", "ended"}]
    /\ semaphore \in [Impls -> {0, 1}]
    /\ suspended \subseteq Impls
    /\ client \in {Idle} \cup [at : {"joining", "deleting"}, thread : Objects]
    /\ wild = FALSE

(* OneOwner without its cardinalities.                                     *)
Owned == \A i \in Impls : life[i] = "alive" <=> \E x \in Objects : impl[x] = i
NotShared == \A x, y \in Objects : impl[x] = impl[y] /\ impl[x] # Null => x = y

(* Where a task may be in the life of its Impl, and when it has given.     *)
TaskInLife == \A i \in Impls :
    /\ life[i] = "none" => task[i] = "none"
    /\ task[i] \in {"body", "give"} => life[i] = "alive"
    /\ task[i] \in {"none", "body", "give"} => semaphore[i] = 0

(* Nobody takes a Thread from the client that joins it, and what it is     *)
(* about to delete was given up by its task.                               *)
ClientInJoin ==
    /\ client.at # "idle" => impl[client.thread] # Null
    /\ client.at = "deleting" => task[impl[client.thread]] \in {"ending", "ended"}

IInv == TypeOK /\ Owned /\ NotShared /\ TaskInLife /\ ClientInJoin /\ JoinedAfterBody

LEMMA InitHolds == Init => IInv
  BY NullAssumption
  DEF Init, IInv, TypeOK, Owned, NotShared, TaskInLife, ClientInJoin, JoinedAfterBody, Idle

-----------------------------------------------------------------------------
LEMMA CreateKeeps ==
    ASSUME IInv, NEW x \in Objects, Create(x)
    PROVE  IInv'
  <1>1. PICK i \in Impls :
           /\ life[i] = "none"
           /\ impl' = [impl EXCEPT ![x] = i]
           /\ life' = [life EXCEPT ![i] = "alive"]
           /\ task' = [task EXCEPT ![i] = "body"] \/ task' = task
    BY DEF Create
  <1>2. /\ impl[x] = Null /\ client = Idle
        /\ UNCHANGED <<semaphore, suspended, client, wild>>
    BY DEF Create, Joinable
  <1>3. i # Null /\ task[i] = "none" /\ semaphore[i] = 0 /\ \A y \in Objects : impl[y] # i
    BY <1>1, NullAssumption DEF IInv, TaskInLife, Owned
  <1>4. TypeOK'
    BY <1>1, <1>2 DEF IInv, TypeOK
  <1>5. Owned' /\ NotShared'
    BY <1>1, <1>2, <1>3, NullAssumption DEF IInv, TypeOK, Owned, NotShared
  <1>6. TaskInLife' /\ JoinedAfterBody'
    BY <1>1, <1>2, <1>3 DEF IInv, TypeOK, TaskInLife, JoinedAfterBody
  <1>7. ClientInJoin'
    BY <1>2 DEF ClientInJoin, Idle
  <1> QED BY <1>4, <1>5, <1>6, <1>7 DEF IInv

(* Moving and swapping exchange two entries of impl.                       *)
LEMMA ExchangeKeeps ==
    ASSUME IInv, NEW x \in Objects, NEW y \in Objects, x # y, Move(x, y) \/ Swap(x, y)
    PROVE  IInv'
  <1>1. /\ impl' = [impl EXCEPT ![x] = impl[y], ![y] = impl[x]]
        /\ client = Idle
        /\ UNCHANGED <<life, task, semaphore, suspended, client, wild>>
    BY DEF Move, Swap, Joinable
  <1>2. TypeOK'
    BY <1>1 DEF IInv, TypeOK
  <1>3. impl'[x] = impl[y] /\ impl'[y] = impl[x] /\ \A z \in Objects \ {x, y} : impl'[z] = impl[z]
    BY <1>1 DEF IInv, TypeOK
  <1>4. Owned'
    <2>1. \A i \in Impls : (\E z \in Objects : impl'[z] = i) <=> (\E z \in Objects : impl[z] = i)
      BY <1>3
    <2> QED BY <1>1, <2>1 DEF IInv, Owned
  <1>5. NotShared'
    BY <1>3 DEF IInv, NotShared
  <1>6. TaskInLife' /\ JoinedAfterBody' /\ ClientInJoin'
    BY <1>1 DEF IInv, TaskInLife, JoinedAfterBody, ClientInJoin, Idle
  <1> QED BY <1>2, <1>4, <1>5, <1>6 DEF IInv

LEMMA ControlKeeps ==
    ASSUME IInv, NEW x \in Objects, Suspend(x) \/ Resume(x) \/ Join(x)
    PROVE  IInv'
  <1>1. /\ impl[x] # Null /\ impl[x] \in Impls
        /\ suspended' \subseteq Impls
        /\ UNCHANGED <<impl, life, task, semaphore, wild>>
        /\ \/ client = Idle /\ client' = client
           \/ client' = [at |-> "joining", thread |-> x]
    BY DEF Suspend, Resume, Join, Controllable, Joinable, IInv, TypeOK
  <1>2. TypeOK'
    BY <1>1 DEF IInv, TypeOK
  <1>3. Owned' /\ NotShared' /\ TaskInLife' /\ JoinedAfterBody'
    BY <1>1 DEF IInv, Owned, NotShared, TaskInLife, JoinedAfterBody
  <1>4. ClientInJoin'
    BY <1>1 DEF ClientInJoin, Idle
  <1> QED BY <1>2, <1>3, <1>4 DEF IInv

-----------------------------------------------------------------------------
(* The join semaphore of the Impl is only there when its task has given    *)
(* it, so that the client never deletes what a task still needs.           *)
LEMMA TakeKeeps ==
    ASSUME IInv, TakeJoinSemaphore
    PROVE  IInv'
  <1> DEFINE i == impl[client.thread]
  <1>1. /\ client.at = "joining" /\ client.thread \in Objects
        /\ i \in Impls /\ semaphore[i] = 1
    BY DEF TakeJoinSemaphore, IInv, TypeOK, ClientInJoin, Idle
  <1>2. /\ semaphore' = [semaphore EXCEPT ![i] = 0]
        /\ client' = [at |-> "deleting", thread |-> client.thread]
        /\ UNCHANGED <<impl, life, task, suspended, wild>>
    BY <1>1 DEF TakeJoinSemaphore, IInv, TypeOK, Idle
  <1>3. task[i] \in {"ending", "ended"}
    BY <1>1 DEF IInv, TypeOK, TaskInLife
  <1>4. TypeOK'
    BY <1>1, <1>2 DEF IInv, TypeOK
  <1>5. Owned' /\ NotShared' /\ JoinedAfterBody'
    BY <1>2 DEF IInv, Owned, NotShared, JoinedAfterBody
  <1>6. TaskInLife'
    BY <1>1, <1>2 DEF IInv, TypeOK, TaskInLife
  <1>7. ClientInJoin'
    BY <1>1, <1>2, <1>3, NullAssumption DEF ClientInJoin
  <1> QED BY <1>4, <1>5, <1>6, <1>7 DEF IInv

LEMMA DeleteKeeps ==
    ASSUME IInv, DeleteImpl
    PROVE  IInv'
  <1> DEFINE x == client.thread
             i == impl[x]
  <1>1. x \in Objects /\ i \in Impls /\ i # Null /\ task[i] \in {"ending", "ended"}
    BY NullAssumption DEF DeleteImpl, IInv, TypeOK, ClientInJoin, Idle
  <1>2. /\ life' = [life EXCEPT ![i] = "deleted"]
        /\ impl' = [impl EXCEPT ![x] = Null]
        /\ client' = Idle
        /\ UNCHANGED <<task, semaphore, suspended, wild>>
    BY DEF DeleteImpl
  <1>3. \A z \in Objects \ {x} : impl[z] # i
    BY <1>1 DEF IInv, NotShared
  <1>4. TypeOK'
    BY <1>1, <1>2 DEF IInv, TypeOK
  <1>5. Owned' /\ NotShared'
    BY <1>1, <1>2, <1>3, NullAssumption DEF IInv, TypeOK, Owned, NotShared
  <1>6. TaskInLife' /\ JoinedAfterBody'
    BY <1>1, <1>2 DEF IInv, TypeOK, TaskInLife, JoinedAfterBody
  <1>7. ClientInJoin'
    BY <1>2 DEF ClientInJoin, Idle
  <1> QED BY <1>4, <1>5, <1>6, <1>7 DEF IInv

(* A task touches its Impl only in its body and when it gives, and both    *)
(* are steps of a living Impl.                                             *)
LEMMA TaskKeeps ==
    ASSUME IInv, NEW i \in Impls, RunBody(i) \/ Give(i) \/ End(i)
    PROVE  IInv'
  <1>1. UNCHANGED <<impl, life, suspended, client>>
    BY DEF RunBody, Give, End
  <1>2. wild' = FALSE
    BY DEF RunBody, Give, End, Touch, IInv, TypeOK, TaskInLife
  <1>3. /\ \/ /\ task[i] = "body" /\ task' = [task EXCEPT ![i] = "give"]
              /\ semaphore' = semaphore
           \/ /\ task[i] = "give" /\ task' = [task EXCEPT ![i] = "ending"]
              /\ semaphore' = [semaphore EXCEPT ![i] = 1]
           \/ /\ task[i] = "ending" /\ task' = [task EXCEPT ![i] = "ended"]
              /\ semaphore' = semaphore
    BY DEF RunBody, Give, End
  <1>4. TypeOK'
    BY <1>1, <1>2, <1>3 DEF IInv, TypeOK
  <1>5. Owned' /\ NotShared'
    BY <1>1 DEF IInv, Owned, NotShared
  <1>6. TaskInLife' /\ JoinedAfterBody'
    BY <1>1, <1>3 DEF IInv, TypeOK, TaskInLife, JoinedAfterBody
  <1>7. ClientInJoin'
    BY <1>1, <1>3 DEF IInv, TypeOK, ClientInJoin, Idle
  <1> QED BY <1>4, <1>5, <1>6, <1>7 DEF IInv

LEMMA StepKeeps == ASSUME IInv, [Next]_vars PROVE IInv'
  <1>1. CASE UNCHANGED vars
    BY <1>1 DEF vars, IInv, TypeOK, Owned, NotShared, TaskInLife, ClientInJoin, JoinedAfterBody
  <1>2. ASSUME NEW x \in Objects, Create(x) \/ Suspend(x) \/ Resume(x) \/ Join(x)
        PROVE  IInv'
    BY <1>2, CreateKeeps, ControlKeeps
  <1>3. ASSUME NEW x \in Objects, NEW y \in Objects, x # y, Move(x, y) \/ Swap(x, y)
        PROVE  IInv'
    BY <1>3, ExchangeKeeps
  <1>4. CASE ClientStep
    BY <1>4, TakeKeeps, DeleteKeeps DEF ClientStep
  <1>5. ASSUME NEW i \in Impls, TaskStep(i) PROVE IInv'
    BY <1>5, TaskKeeps DEF TaskStep
  <1> QED BY <1>1, <1>2, <1>3, <1>4, <1>5 DEF Next

LEMMA Invariance == Spec => []IInv
  <1>1. IInv /\ [Next]_vars => IInv'
    BY StepKeeps
  <1> QED BY InitHolds, <1>1, PTL DEF Spec

-----------------------------------------------------------------------------
(* What is not shared is counted once.                                     *)
LEMMA CountedOnce ==
    ASSUME TypeOK, Owned, NotShared
    PROVE  OneOwner
  <1> SUFFICES ASSUME NEW i \in Impls
               PROVE  Cardinality({x \in Objects : impl[x] = i}) = IF life[i] = "alive" THEN 1 ELSE 0
    BY DEF OneOwner
  <1>1. CASE life[i] = "alive"
    <2>1. PICK x \in Objects : impl[x] = i
      BY <1>1 DEF Owned
    <2>2. {z \in Objects : impl[z] = i} = {x}
      BY <2>1, NullAssumption DEF NotShared
    <2> QED BY <1>1, <2>2, FS_Singleton
  <1>2. CASE life[i] # "alive"
    <2>1. {z \in Objects : impl[z] = i} = {}
      BY <1>2 DEF Owned
    <2> QED BY <1>2, <2>1, FS_EmptySet
  <1> QED BY <1>1, <1>2

(* What the body does is done when join() returns.                         *)
THEOREM JoinWaitsForBody == Spec => []JoinedAfterBody
  BY Invariance, PTL DEF IInv

(* Every Impl that was not joined has one Thread, through any sequence of  *)
(* moves and swaps, and no task touches an Impl that was deleted.          *)
THEOREM Ownership == Spec => []NothingDangles
  <1>1. IInv => NothingDangles
    BY CountedOnce DEF IInv, NothingDangles, TypeOK
  <1> QED BY Invariance, <1>1, PTL
=============================================================================
