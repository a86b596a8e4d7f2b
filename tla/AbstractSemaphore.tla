------------------------- MODULE AbstractSemaphore -------------------------
(***************************************************************************)
(* What a counting semaphore promises its callers, with no mutex and no    *)
(* condition variable: between its invocation and its return every call    *)
(* has exactly one atomic effect on the number of tokens, and its result   *)
(* tells which effect that was.                                            *)
(***************************************************************************)
EXTENDS Naturals

CONSTANTS
    Threads,        \* the callers
    MaxCount,       \* the most tokens the semaphore holds
    InitialCount,   \* the tokens it is created with
    GiveCounts,     \* the arguments of give(count)
    Timeouts        \* the arguments of take(milliseconds)

VARIABLES
    tokens,         \* how many tokens the semaphore holds
    phase           \* what each caller is doing

avars == <<tokens, phase>>

TakeCalls == {[op |-> "take", arg |-> 0], [op |-> "tryTake", arg |-> 0]}
                \cup [op : {"takeFor"}, arg : Timeouts]
GiveCalls == {[op |-> "give", arg |-> 1]} \cup [op : {"giveMany"}, arg : GiveCounts]
Calls == TakeCalls \cup GiveCalls

Idle == [at |-> "idle"]
Pending(c) == [at |-> "pending", call |-> c]
Done(r) == [at |-> "done", result |-> r]

Init ==
    /\ tokens = InitialCount
    /\ phase = [t \in Threads |-> Idle]

Invoke(t) ==
    /\ phase[t] = Idle
    /\ \E c \in Calls : phase' = [phase EXCEPT ![t] = Pending(c)]
    /\ UNCHANGED tokens

(* A take succeeds by removing exactly one token.                          *)
Take(t) ==
    /\ \E c \in TakeCalls : phase[t] = Pending(c)
    /\ tokens > 0
    /\ tokens' = tokens - 1
    /\ phase' = [phase EXCEPT ![t] = Done(TRUE)]

(* Only a take that does not wait forever fails, and only when there is no *)
(* token at that instant.                                                  *)
Refuse(t) ==
    /\ \E c \in TakeCalls : c.op # "take" /\ phase[t] = Pending(c)
    /\ tokens = 0
    /\ phase' = [phase EXCEPT ![t] = Done(FALSE)]
    /\ UNCHANGED tokens

(* A give adds all its tokens or, when they do not fit, none of them.      *)
Give(t) ==
    \E c \in GiveCalls :
        /\ phase[t] = Pending(c)
        /\ tokens + c.arg <= MaxCount
        /\ tokens' = tokens + c.arg
        /\ phase' = [phase EXCEPT ![t] = Done(TRUE)]

Overfull(t) ==
    /\ \E c \in GiveCalls : phase[t] = Pending(c) /\ tokens + c.arg > MaxCount
    /\ phase' = [phase EXCEPT ![t] = Done(FALSE)]
    /\ UNCHANGED tokens

Return(t) ==
    /\ phase[t].at = "done"
    /\ phase' = [phase EXCEPT ![t] = Idle]
    /\ UNCHANGED tokens

Next == \E t \in Threads :
    Invoke(t) \/ Take(t) \/ Refuse(t) \/ Give(t) \/ Overfull(t) \/ Return(t)

Spec == Init /\ [][Next]_avars
=============================================================================
