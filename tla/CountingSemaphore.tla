------------------------- MODULE CountingSemaphore -------------------------
(***************************************************************************)
(* LFramework::Threading::CountingSemaphore and BinarySemaphore of         *)
(* Threading/SemaphoreStd.h: a counter guarded by a std::mutex, with a     *)
(* std::condition_variable for the threads that wait for a token.          *)
(*                                                                         *)
(* A call is invoked, locks the mutex, tests the counter, and either       *)
(* commits its effect, fails, or releases the mutex and blocks on the      *)
(* condition variable.  The test and the effect are separate steps: that   *)
(* they belong together is the mutex's doing and not the model's.          *)
(***************************************************************************)
EXTENDS Naturals, FiniteSets

CONSTANTS
    Threads,        \* the callers
    NoThread,       \* the owner of a free mutex
    MaxCount,       \* _maxCount
    InitialCount,   \* _count at construction
    GiveCounts,     \* the arguments of give(count) explored
    Timeouts,       \* the arguments of take(milliseconds) explored
    Modulus         \* number of values of std::size_t (2^64 in the builds)

ASSUME ThreadsAssumption == IsFiniteSet(Threads) /\ NoThread \notin Threads
ASSUME WidthAssumption == Modulus \in Nat \ {0}
(* The constructor does not check its arguments against each other.        *)
ASSUME CountsAssumption ==
    /\ MaxCount \in 0..(Modulus - 1)
    /\ InitialCount \in 0..MaxCount
ASSUME ArgumentsAssumption ==
    /\ GiveCounts \subseteq 0..(Modulus - 1)
    /\ Timeouts \subseteq 0..(Modulus - 1)

VARIABLES
    count,      \* _count
    owner,      \* the thread that holds _mutex
    pc,         \* where each thread is in its call
    call,       \* the call it makes
    expired,    \* threads whose wait_for has run out of time
    result      \* what its last call returned

vars == <<count, owner, pc, call, expired, result>>

TakeCalls == {[op |-> "take", arg |-> 0], [op |-> "tryTake", arg |-> 0]}
                \cup [op : {"takeFor"}, arg : Timeouts]
GiveCalls == {[op |-> "give", arg |-> 1]} \cup [op : {"giveMany"}, arg : GiveCounts]
Calls == TakeCalls \cup GiveCalls

(* What a thread that is not in a call has in its place.                   *)
NoCall == [op |-> "take", arg |-> 0]

(* The threads blocked on _conditional, and the takers that are awake: on  *)
(* their way to test the counter or between the test and its effect.       *)
Blocked == {t \in Threads : pc[t] = "blocked"}
AwakeTakers == {t \in Threads : pc[t] \in {"lock", "test", "commit"} /\ call[t] \in TakeCalls}

Init ==
    /\ count = InitialCount
    /\ owner = NoThread
    /\ pc = [t \in Threads |-> "idle"]
    /\ call = [t \in Threads |-> NoCall]
    /\ expired = {}
    /\ result = [t \in Threads |-> TRUE]

-----------------------------------------------------------------------------
(* Every return path: the lock guard goes out of scope.                    *)
Finish(t, r) ==
    /\ owner' = NoThread
    /\ pc' = [pc EXCEPT ![t] = "done"]
    /\ result' = [result EXCEPT ![t] = r]
    /\ expired' = expired \ {t}

Invoke(t) ==
    /\ pc[t] = "idle"
    /\ \E c \in Calls : call' = [call EXCEPT ![t] = c]
    /\ pc' = [pc EXCEPT ![t] = "lock"]
    /\ UNCHANGED <<count, owner, expired, result>>

(* give(0) returns true without touching the mutex.                        *)
GivesNothing(t) == call[t] = [op |-> "giveMany", arg |-> 0]

GiveNothing(t) ==
    /\ pc[t] = "lock"
    /\ GivesNothing(t)
    /\ pc' = [pc EXCEPT ![t] = "done"]
    /\ result' = [result EXCEPT ![t] = TRUE]
    /\ UNCHANGED <<count, owner, call, expired>>

AcquireUnlocked(t) ==
    /\ pc[t] = "lock"
    /\ ~GivesNothing(t)
    /\ owner' = t
    /\ pc' = [pc EXCEPT ![t] = "test"]
    /\ UNCHANGED <<count, call, expired, result>>

Acquire(t) ==
    /\ pc[t] = "lock"
    /\ ~GivesNothing(t)
    /\ owner = NoThread
    /\ owner' = t
    /\ pc' = [pc EXCEPT ![t] = "test"]
    /\ UNCHANGED <<count, call, expired, result>>

(* The predicate of wait, wait_for and tryTake.                            *)
TestTake(t) ==
    /\ pc[t] = "test"
    /\ call[t] \in TakeCalls
    /\ \/ /\ count > 0
          /\ pc' = [pc EXCEPT ![t] = "commit"]
          /\ UNCHANGED <<count, owner, call, expired, result>>
       \/ /\ count = 0
          /\ call[t].op = "take" \/ (call[t].op = "takeFor" /\ t \notin expired)
          /\ owner' = NoThread
          /\ pc' = [pc EXCEPT ![t] = "blocked"]
          /\ UNCHANGED <<count, call, expired, result>>
       \/ /\ count = 0
          /\ call[t].op = "tryTake" \/ (call[t].op = "takeFor" /\ t \in expired)
          /\ Finish(t, FALSE)
          /\ UNCHANGED <<count, call>>

CommitTake(t) ==
    /\ pc[t] = "commit"
    /\ call[t] \in TakeCalls
    /\ count' = IF count = 0 THEN Modulus - 1 ELSE count - 1
    /\ Finish(t, TRUE)
    /\ UNCHANGED call

(* The sum of two std::size_t.                                             *)
Plus(a, b) == IF a + b < Modulus THEN a + b ELSE a + b - Modulus

(* give() compares before it adds; give(count) adds first.                 *)
FitsInclusive(c) == Plus(count, c.arg) <= MaxCount + 1

Fits(c) ==
    \/ c.op = "give" /\ count < MaxCount
    \/ c.op = "giveMany" /\ Plus(count, c.arg) <= MaxCount

TestGive(t) ==
    /\ pc[t] = "test"
    /\ call[t] \in GiveCalls
    /\ \/ /\ Fits(call[t])
          /\ pc' = [pc EXCEPT ![t] = "commit"]
          /\ UNCHANGED <<owner, expired, result>>
       \/ /\ ~Fits(call[t])
          /\ Finish(t, FALSE)
    /\ UNCHANGED <<count, call>>

(* The threads a notification may wake: any one of them, or all.           *)
NotifyOne == IF Blocked = {} THEN {{}} ELSE {{t} : t \in Blocked}

NotifiedOneOnly(n) == NotifyOne
NotifiedNobody(n) == {{}}

Notified(n) == IF n > 1 THEN {Blocked} ELSE NotifyOne

CommitGive(t) ==
    /\ pc[t] = "commit"
    /\ call[t] \in GiveCalls
    /\ count' = Plus(count, call[t].arg)
    /\ owner' = NoThread
    /\ \E woken \in Notified(call[t].arg) :
          pc' = [u \in Threads |-> IF u = t THEN "done"
                                   ELSE IF u \in woken THEN "lock" ELSE pc[u]]
    /\ result' = [result EXCEPT ![t] = TRUE]
    /\ UNCHANGED <<call, expired>>

(* The condition variable's own wake-ups.  Every wait_for may time out:    *)
(* also with InfiniteTimeout, which milliseconds' signed representation    *)
(* turns into -1, a deadline that has passed.                              *)
ExpireUntested(t) ==
    /\ pc[t] = "blocked"
    /\ call[t].op = "takeFor"
    /\ pc' = [pc EXCEPT ![t] = "done"]
    /\ result' = [result EXCEPT ![t] = FALSE]
    /\ UNCHANGED <<count, owner, call, expired>>

Expire(t) ==
    /\ pc[t] = "blocked"
    /\ call[t].op = "takeFor"
    /\ pc' = [pc EXCEPT ![t] = "lock"]
    /\ expired' = expired \cup {t}
    /\ UNCHANGED <<count, owner, call, result>>

WakeSpuriously(t) ==
    /\ pc[t] = "blocked"
    /\ pc' = [pc EXCEPT ![t] = "lock"]
    /\ UNCHANGED <<count, owner, call, expired, result>>

Return(t) ==
    /\ pc[t] = "done"
    /\ pc' = [pc EXCEPT ![t] = "idle"]
    /\ call' = [call EXCEPT ![t] = NoCall]
    /\ result' = [result EXCEPT ![t] = TRUE]
    /\ UNCHANGED <<count, owner, expired>>

Step(t) == \/ GiveNothing(t) \/ Acquire(t) \/ TestTake(t) \/ CommitTake(t)
           \/ TestGive(t) \/ CommitGive(t) \/ Return(t)
Next == \E t \in Threads : Invoke(t) \/ Step(t) \/ Expire(t) \/ WakeSpuriously(t)

Spec == Init /\ [][Next]_vars

(* A thread inside a call keeps running and gets a mutex that is free      *)
(* again and again; nobody has to call, to time out or to wake spuriously. *)
Fairness == \A t \in Threads : WF_vars(Step(t)) /\ SF_vars(Acquire(t))
FairSpec == Spec /\ Fairness

-----------------------------------------------------------------------------
(* The types, and with them that the counter stays between zero and        *)
(* _maxCount: no take() wraps it and no give() overfills it.               *)
TypeOK ==
    /\ count \in 0..MaxCount
    /\ owner \in Threads \cup {NoThread}
    /\ pc \in [Threads -> {"idle", "lock", "test", "commit", "blocked", "done"}]
    /\ call \in [Threads -> Calls]
    /\ expired \subseteq Threads
    /\ result \in [Threads -> BOOLEAN]

(* The section between a lock and its unlock is exclusive, and the test    *)
(* made there still holds when its effect is committed: the counter never  *)
(* wraps below zero and never passes _maxCount.                            *)
TestStillHolds == \A t \in Threads :
    pc[t] = "commit" =>
        /\ call[t] \in TakeCalls => count > 0
        /\ call[t] \in GiveCalls => Fits(call[t])

(* No wake-up is lost: while a thread sleeps in take(), every token there  *)
(* is has an awake taker that will look for it.  give() notifies one and   *)
(* give(count) all, also when a notified thread times out, is overtaken by *)
(* a tryTake() or wakes for nothing.                                       *)
NoLostWakeup == Blocked # {} => count <= Cardinality(AwakeTakers)

(* The tokens are accounted for: each call has one atomic effect between   *)
(* its invocation and its return, and the result says which.               *)
Phase(t) ==
    CASE pc[t] = "idle" -> [at |-> "idle"]
      [] pc[t] = "done" -> [at |-> "done", result |-> result[t]]
      [] OTHER -> [at |-> "pending", call |-> call[t]]

Abstract == INSTANCE AbstractSemaphore
                WITH tokens <- count, phase <- [t \in Threads |-> Phase(t)]
ImplementsAbstract == Abstract!Spec

(* A token and a sleeping taker do not stay side by side for ever.         *)
TokensReachWaiters == \A t \in Threads :
    (pc[t] = "blocked" /\ count > 0) ~> (pc[t] # "blocked" \/ count = 0)

-----------------------------------------------------------------------------
(* "static constexpr std::size_t InfiniteTimeout = -1" (SemaphoreStd.h:11) *)
(* says that take(InfiniteTimeout) waits until it has a token.             *)
InfiniteTimeout == Modulus - 1
InfiniteTimeoutWaits == [][\A t \in Threads :
    (call[t] = [op |-> "takeFor", arg |-> InfiniteTimeout] /\ pc[t] # "done" /\ pc'[t] = "done")
        => result'[t]]_vars
=============================================================================
