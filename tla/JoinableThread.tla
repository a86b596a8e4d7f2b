--------------------------- MODULE JoinableThread ---------------------------
(***************************************************************************)
(* LFramework::Threading::Thread of Threading/Thread.cpp on FreeRTOS: a    *)
(* Thread object owns an Impl, whose task gives a semaphore when the body  *)
(* has returned; join() takes it and deletes the Impl.  One client has the *)
(* Thread objects; tasks and their scheduling are FreeRTOS's.              *)
(***************************************************************************)
EXTENDS Naturals, FiniteSets

CONSTANTS
    Objects,        \* Thread objects
    Impls,          \* Thread::Impl objects, each with its task
    Null,
    CreateFails     \* whether xTaskCreate may find no memory

ASSUME NullAssumption == Null \notin Impls
ASSUME SwitchesAssumption == CreateFails \in BOOLEAN

VARIABLES
    impl,           \* _impl of each Thread
    life,           \* of each Impl: none, alive or deleted
    task,           \* where its task is
    semaphore,      \* _joinSemaphore, 0 or 1
    suspended,      \* the tasks that are suspended
    client,         \* where the client is, and with which Thread
    wild            \* whether a deleted Impl was touched

vars == <<impl, life, task, semaphore, suspended, client, wild>>

Idle == [at |-> "idle"]

Init ==
    /\ impl = [x \in Objects |-> Null]
    /\ life = [i \in Impls |-> "none"]
    /\ task = [i \in Impls |-> "none"]
    /\ semaphore = [i \in Impls |-> 0]
    /\ suspended = {}
    /\ client = Idle
    /\ wild = FALSE

-----------------------------------------------------------------------------
Joinable(x) == impl[x] # Null
Touch(i) == wild' = (wild \/ life[i] # "alive")

(* t = Thread(name, ...), for a t that is not joinable: the assertion in   *)
(* moveTask is the client's to keep.                                       *)
Create(x) ==
    /\ client = Idle
    /\ ~Joinable(x)
    /\ \E i \in Impls :
          /\ life[i] = "none"
          /\ impl' = [impl EXCEPT ![x] = i]
          /\ life' = [life EXCEPT ![i] = "alive"]
          /\ \/ task' = [task EXCEPT ![i] = "body"]
             \/ CreateFails /\ UNCHANGED task
    /\ UNCHANGED <<semaphore, suspended, client, wild>>

Move(x, y) ==
    /\ client = Idle
    /\ ~Joinable(x)
    /\ impl' = [impl EXCEPT ![x] = impl[y], ![y] = Null]
    /\ UNCHANGED <<life, task, semaphore, suspended, client, wild>>

Swap(x, y) ==
    /\ client = Idle
    /\ impl' = [impl EXCEPT ![x] = impl[y], ![y] = impl[x]]
    /\ UNCHANGED <<life, task, semaphore, suspended, client, wild>>

(* suspend() and resume() of a task that has not ended: with its handle    *)
(* FreeRTOS would touch a task that is gone.                               *)
Controllable(x) == Joinable(x) /\ task[impl[x]] \in {"body", "give"}

Suspend(x) ==
    /\ client = Idle
    /\ Controllable(x)
    /\ suspended' = suspended \cup {impl[x]}
    /\ UNCHANGED <<impl, life, task, semaphore, client, wild>>

Resume(x) ==
    /\ client = Idle
    /\ Controllable(x)
    /\ suspended' = suspended \ {impl[x]}
    /\ UNCHANGED <<impl, life, task, semaphore, client, wild>>

(* join(), for a task that is not suspended.                               *)
Join(x) ==
    /\ client = Idle
    /\ Joinable(x)
    /\ impl[x] \notin suspended
    /\ client' = [at |-> "joining", thread |-> x]
    /\ UNCHANGED <<impl, life, task, semaphore, suspended, wild>>

TakeJoinSemaphore ==
    /\ client.at = "joining"
    /\ semaphore[impl[client.thread]] > 0
    /\ semaphore' = [semaphore EXCEPT ![impl[client.thread]] = @ - 1]
    /\ client' = [client EXCEPT !.at = "deleting"]
    /\ UNCHANGED <<impl, life, task, suspended, wild>>

DeleteImpl ==
    /\ client.at = "deleting"
    /\ life' = [life EXCEPT ![impl[client.thread]] = "deleted"]
    /\ impl' = [impl EXCEPT ![client.thread] = Null]
    /\ client' = Idle
    /\ UNCHANGED <<task, semaphore, suspended, wild>>

-----------------------------------------------------------------------------
(* taskHandler: the body, the give, and the task deletes itself.           *)
RunBodyAndGive(i) ==
    /\ task[i] = "body"
    /\ \/ task' = [task EXCEPT ![i] = "give"] /\ UNCHANGED semaphore
       \/ UNCHANGED task /\ semaphore' = [semaphore EXCEPT ![i] = 1]
    /\ Touch(i)
    /\ UNCHANGED <<impl, life, suspended, client>>

RunBody(i) ==
    /\ task[i] = "body"
    /\ task' = [task EXCEPT ![i] = "give"]
    /\ Touch(i)
    /\ UNCHANGED <<impl, life, semaphore, suspended, client>>

GiveNothing(i) ==
    /\ task[i] = "give"
    /\ task' = [task EXCEPT ![i] = "ending"]
    /\ Touch(i)
    /\ UNCHANGED <<impl, life, semaphore, suspended, client>>

(* assert(_joinSemaphore.give()), in a build with assertions.              *)
Give(i) ==
    /\ task[i] = "give"
    /\ semaphore' = [semaphore EXCEPT ![i] = 1]
    /\ task' = [task EXCEPT ![i] = "ending"]
    /\ Touch(i)
    /\ UNCHANGED <<impl, life, suspended, client>>

EndThroughImpl(i) ==
    /\ task[i] = "ending"
    /\ task' = [task EXCEPT ![i] = "ended"]
    /\ Touch(i)
    /\ UNCHANGED <<impl, life, semaphore, suspended, client>>

(* vTaskDelete asks FreeRTOS for its own handle, not the Impl.             *)
End(i) ==
    /\ task[i] = "ending"
    /\ task' = [task EXCEPT ![i] = "ended"]
    /\ UNCHANGED <<impl, life, semaphore, suspended, client, wild>>

-----------------------------------------------------------------------------
ClientStep == TakeJoinSemaphore \/ DeleteImpl
TaskStep(i) == i \notin suspended /\ (RunBody(i) \/ Give(i) \/ End(i))

Next ==
    \/ \E x \in Objects : Create(x) \/ Suspend(x) \/ Resume(x) \/ Join(x)
    \/ \E x, y \in Objects : x # y /\ (Move(x, y) \/ Swap(x, y))
    \/ ClientStep
    \/ \E i \in Impls : TaskStep(i)

Spec == Init /\ [][Next]_vars

(* The client and the tasks run, and a body returns.                       *)
FairSpec == Spec /\ WF_vars(ClientStep) /\ \A i \in Impls : WF_vars(TaskStep(i))

-----------------------------------------------------------------------------
(* "TEST_TRUE(counter == 100500)" after t.join() (ThreadTest.cpp:22): what *)
(* the body does is done when join() returns.                              *)
JoinedAfterBody == \A i \in Impls :
    life[i] = "deleted" => task[i] \in {"ending", "ended"}

(* Every Impl that was not joined is owned by one Thread, so that each     *)
(* task can be joined once; and a task that has given the semaphore leaves *)
(* its Impl alone, which the client may have deleted.                      *)
OneOwner == \A i \in Impls :
    Cardinality({x \in Objects : impl[x] = i}) = IF life[i] = "alive" THEN 1 ELSE 0
NothingDangles == OneOwner /\ ~wild

(* join() returns, but for that of a task that could not be created.       *)
JoinsNoTask == client.at = "joining" /\ task[impl[client.thread]] = "none"
JoinEnds == client.at = "joining" ~> (client = Idle \/ JoinsNoTask)
=============================================================================
