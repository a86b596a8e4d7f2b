------------------------------- MODULE ComPtr -------------------------------
(***************************************************************************)
(* RefCountedObject, ComPtr and ComDelegate of COM/ComObject.h: objects    *)
(* that delete themselves when the last smart pointer lets go, among       *)
(* threads of which each has smart pointers of its own.                    *)
(*                                                                         *)
(* An operation on a smart pointer is a short program of steps, each of    *)
(* which touches shared memory once: code[t] is what thread t has still to *)
(* do, reg[t] the raw pointer it has in its hands.                         *)
(***************************************************************************)
EXTENDS Naturals, Sequences, FiniteSets

CONSTANTS
    Threads,
    Pointers,       \* the ComPtr variables
    OwnerOf,        \* the thread that has each of them
    Objects,
    Null,
    SelfAssigns     \* whether a client may assign a ComPtr to itself

ASSUME NullAssumption == Null \notin Objects \cup Pointers
ASSUME OwnerAssumption == OwnerOf \in [Pointers -> Threads]
ASSUME FiniteAssumption == IsFiniteSet(Threads) /\ IsFiniteSet(Pointers) /\ IsFiniteSet(Objects)
ASSUME SwitchesAssumption == SelfAssigns \in BOOLEAN

VARIABLES
    ptr,            \* _interface of each ComPtr
    life,           \* of each object: none, alive or deleted
    refCount,       \* _refCount
    implementer,    \* _implementer of an object that is a ComDelegate
    code, reg,
    goal,           \* the last operation of each thread: what should hold what
    wild            \* whether a deleted object was touched

vars == <<ptr, life, refCount, implementer, code, reg, goal, wild>>

NoGoal == [pointer |-> Null, source |-> Null, object |-> Null]

Init ==
    /\ ptr = [p \in Pointers |-> Null]
    /\ life = [o \in Objects |-> "none"]
    /\ refCount = [o \in Objects |-> 0]
    /\ implementer = [o \in Objects |-> Null]
    /\ code = [t \in Threads |-> <<>>]
    /\ reg = [t \in Threads |-> Null]
    /\ goal = [t \in Threads |-> NoGoal]
    /\ wild = FALSE

-----------------------------------------------------------------------------
Do(op, arg) == [op |-> op, arg |-> arg]

(* The operator returns a ComPtr, not a reference: a copy that goes away.  *)
AssignProgram(p, q) == << Do("reset", p), Do("load", q), Do("addRef", Null), Do("store", p),
                          Do("addRef", Null), Do("release", Null) >>
CopyProgram(p, q) == << Do("load", q), Do("addRef", Null), Do("store", p) >>
MoveProgram(p, q) == << Do("detach", q), Do("reset", p), Do("store", p) >>
ResetProgram(p) == << Do("reset", p) >>

(* The destructor of a delegate lets its implementer go.                   *)
DestroyProgram(o) ==
    IF implementer[o] = Null THEN <<>> ELSE << Do("release", implementer[o]) >>

(* What the constructor of a delegate does to the counts.                  *)
HeldByDelegate(i) == [o \in Objects |-> IF o = i THEN refCount[o] + 1 ELSE refCount[o]]

(* A client calls when it is through with its last call; it may read       *)
(* another thread's ComPtr, which that thread leaves alone meanwhile.      *)
Quiet(t) == code[t] = <<>>
Reads(t, q) == ~Quiet(t) /\ goal[t].source = q
Free(t, p) == OwnerOf[p] = t /\ \A u \in Threads : ~Reads(u, p)
MayRead(t, q) == OwnerOf[q] = t \/ Quiet(OwnerOf[q])

Begin(t, program, p, q) ==
    /\ Quiet(t)
    /\ code' = [code EXCEPT ![t] = program]
    /\ goal' = [goal EXCEPT ![t] =
                   [pointer |-> p, source |-> q, object |-> IF q = Null THEN Null ELSE ptr[q]]]
    /\ UNCHANGED <<ptr, life, refCount, implementer, reg, wild>>

(* operator=, the copy constructor, q.attach(p.detach()), reset            *)
Assign(t) == \E p, q \in Pointers :
    /\ Free(t, p) /\ MayRead(t, q)
    /\ p # q \/ SelfAssigns
    /\ Begin(t, AssignProgram(p, q), p, q)

Copy(t) == \E p, q \in Pointers :
    /\ Free(t, p) /\ ptr[p] = Null /\ MayRead(t, q)
    /\ Begin(t, CopyProgram(p, q), p, q)

Move(t) == \E p, q \in Pointers :
    /\ p # q /\ Free(t, p) /\ Free(t, q)
    /\ Begin(t, MoveProgram(p, q), p, q)

Reset(t) == \E p \in Pointers :
    /\ Free(t, p)
    /\ Begin(t, ResetProgram(p), p, Null)

(* ComPtr::create: the count of a new object is zero until queryInterface. *)
Create(t) == \E p \in Pointers, o \in Objects, i \in Objects \cup {Null} :
    /\ Quiet(t) /\ Free(t, p) /\ ptr[p] = Null
    /\ life[o] = "none"
    /\ i # Null => \E q \in Pointers : OwnerOf[q] = t /\ ptr[q] = i
    /\ life' = [life EXCEPT ![o] = "alive"]
    /\ refCount' = HeldByDelegate(i)
    /\ implementer' = [implementer EXCEPT ![o] = i]
    /\ reg' = [reg EXCEPT ![t] = o]
    /\ code' = [code EXCEPT ![t] = << Do("addRef", Null), Do("store", p) >>]
    /\ goal' = [goal EXCEPT ![t] = [pointer |-> p, source |-> Null, object |-> o]]
    /\ UNCHANGED <<ptr, wild>>

-----------------------------------------------------------------------------
Next1(t, op) == code[t] # <<>> /\ Head(code[t]).op = op
Arg(t) == Head(code[t]).arg
Then(t, more) == code' = [code EXCEPT ![t] = more \o Tail(@)]
Touch(o) == wild' = (wild \/ life[o] # "alive")

ResetStep(t) ==
    /\ Next1(t, "reset")
    /\ LET o == ptr[Arg(t)]
       IN  Then(t, IF o = Null THEN <<>> ELSE << Do("release", o) >>)
    /\ ptr' = [ptr EXCEPT ![Arg(t)] = Null]
    /\ UNCHANGED <<life, refCount, implementer, reg, goal, wild>>

Load(t) ==
    /\ Next1(t, "load")
    /\ reg' = [reg EXCEPT ![t] = ptr[Arg(t)]]
    /\ Then(t, <<>>)
    /\ UNCHANGED <<ptr, life, refCount, implementer, goal, wild>>

Detach(t) ==
    /\ Next1(t, "detach")
    /\ reg' = [reg EXCEPT ![t] = ptr[Arg(t)]]
    /\ ptr' = [ptr EXCEPT ![Arg(t)] = Null]
    /\ Then(t, <<>>)
    /\ UNCHANGED <<life, refCount, implementer, goal, wild>>

Store(t) ==
    /\ Next1(t, "store")
    /\ ptr' = [ptr EXCEPT ![Arg(t)] = reg[t]]
    /\ Then(t, <<>>)
    /\ UNCHANGED <<life, refCount, implementer, reg, goal, wild>>

AddRef(t) ==
    /\ Next1(t, "addRef")
    /\ LET o == reg[t]
       IN  IF o = Null THEN UNCHANGED <<refCount, wild>>
           ELSE refCount' = [refCount EXCEPT ![o] = @ + 1] /\ Touch(o)
    /\ Then(t, <<>>)
    /\ UNCHANGED <<ptr, life, implementer, reg, goal>>

(* fetch_sub tells the one that takes the last reference.                  *)
Release(t) ==
    /\ Next1(t, "release")
    /\ LET o == IF Arg(t) = Null THEN reg[t] ELSE Arg(t)
       IN  IF o = Null THEN Then(t, <<>>) /\ UNCHANGED <<refCount, wild>>
           ELSE /\ refCount' = [refCount EXCEPT ![o] = @ - 1]
                /\ Touch(o)
                /\ Then(t, << [op |-> "test", arg |-> o, was |-> refCount[o]] >>)
    /\ UNCHANGED <<ptr, life, implementer, reg, goal>>

TestAgain(t) ==
    /\ Next1(t, "test")
    /\ LET o == Arg(t)
       IN  IF refCount[o] # 0 THEN Then(t, <<>>) /\ UNCHANGED <<life, wild>>
           ELSE /\ life' = [life EXCEPT ![o] = "deleted"]
                /\ Touch(o)
                /\ Then(t, DestroyProgram(o))
    /\ UNCHANGED <<ptr, refCount, implementer, reg, goal>>

TestForgetsImplementer(t) ==
    /\ Next1(t, "test")
    /\ LET o == Arg(t)
       IN  IF Head(code[t]).was # 1 THEN UNCHANGED <<life, wild>>
           ELSE life' = [life EXCEPT ![o] = "deleted"] /\ Touch(o)
    /\ Then(t, <<>>)
    /\ UNCHANGED <<ptr, refCount, implementer, reg, goal>>

TestLast(t) ==
    /\ Next1(t, "test")
    /\ LET o == Arg(t)
       IN  IF Head(code[t]).was # 1 THEN Then(t, <<>>) /\ UNCHANGED <<life, wild>>
           ELSE /\ life' = [life EXCEPT ![o] = "deleted"]
                /\ Touch(o)
                /\ Then(t, DestroyProgram(o))
    /\ UNCHANGED <<ptr, refCount, implementer, reg, goal>>

-----------------------------------------------------------------------------
Call(t) == Assign(t) \/ Copy(t) \/ Move(t) \/ Reset(t) \/ Create(t)
Step(t) == ResetStep(t) \/ Load(t) \/ Detach(t) \/ Store(t) \/ AddRef(t) \/ Release(t) \/ TestLast(t)

Next == \E t \in Threads : Call(t) \/ Step(t)

Spec == Init /\ [][Next]_vars

-----------------------------------------------------------------------------
(* A smart pointer, or a living delegate, holds a living object, and no    *)
(* object is touched or deleted after its deletion.                        *)
NothingDangles ==
    /\ ~wild
    /\ \A p \in Pointers : ptr[p] # Null => life[ptr[p]] = "alive"
    /\ \A o \in Objects : life[o] = "alive" /\ implementer[o] # Null
                              => life[implementer[o]] = "alive"

(* When nobody is inside an operation an object lives exactly as long as   *)
(* somebody holds it, and its count says how many do; and the target of an *)
(* assignment, copy or move holds what its source held before.             *)
Holders(o) == {p \in Pointers : ptr[p] = o}
Delegates(o) == {d \in Objects : life[d] = "alive" /\ implementer[d] = o}
HoldsTheGoal == \A t \in Threads :
    Quiet(t) /\ goal[t] # NoGoal => ptr[goal[t].pointer] = goal[t].object
CountsHolders ==
    /\ HoldsTheGoal
    /\ (\A t \in Threads : Quiet(t)) =>
          \A o \in Objects :
              /\ refCount[o] = Cardinality(Holders(o)) + Cardinality(Delegates(o))
              /\ life[o] = "alive" <=> refCount[o] > 0
=============================================================================
