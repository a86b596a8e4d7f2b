------------------------------ MODULE ByteFifo ------------------------------
(***************************************************************************)
(* ByteFifo of Containers/ByteFifo.h: a ring of Capacity bytes, of which   *)
(* _size starting at _begin are in use.  The class has no lock: a call is  *)
(* one step, and what two unsynchronised callers do to it is not modelled. *)
(***************************************************************************)
EXTENDS Naturals, Sequences

CONSTANTS
    Bytes,          \* the values of a byte
    Capacity,       \* _Capacity
    MaxRequest,     \* the longest write, read, peek or discard explored
    ReadModulus,    \* 256: read() takes its size as an uint8_t
    HangLimit       \* 100000: a _size that large ends in "for(;;);"

ASSUME CapacityAssumption == Capacity \in Nat \ {0}
ASSUME RequestAssumption ==
    MaxRequest \in Nat /\ ReadModulus \in Nat \ {0} /\ HangLimit \in Nat

VARIABLES
    buffer,         \* _buffer, from 0
    begin,          \* _begin
    size,           \* _size
    answer          \* the last call and its outcome

vars == <<buffer, begin, size, answer>>

Slots == 0..(Capacity - 1)
Requests == 0..MaxRequest

(* What read() sees of a request: its size modulo 256.                     *)
ReadRequests == {n % ReadModulus : n \in Requests}

(* The calls, with what they are given and what they answer.               *)
Wrote(data, ok) == [wrote |-> data, ok |-> ok]
Got(n, ok, data) == [read |-> n, ok |-> ok, data |-> data]
Peeked(n, ok, data) == [peeked |-> n, ok |-> ok, data |-> data]
Discarded(count, n) == [discarded |-> count, returned |-> n]
Cleared == [cleared |-> TRUE]
Hung == [hung |-> TRUE]

Init ==
    /\ buffer \in [Slots -> Bytes]
    /\ begin = 0
    /\ size = 0
    /\ answer = Cleared

(* memcpy of k bytes of data, from its first-th on, into the ring at at.   *)
CopyIn(ring, at, data, first, k) ==
    [i \in Slots |-> IF i >= at /\ i < at + k THEN data[first + (i - at)] ELSE ring[i]]

AvailableSize == Capacity - size
WriteOffset == (begin + size) % Capacity
ToEnd(at) == Capacity - at

(* The bytes past the end of the ring go to its start.                     *)
StoreWithoutWrap(data, n) == CopyIn(buffer, WriteOffset, data, 1, n)

Store(data, n) ==
    IF ToEnd(WriteOffset) >= n THEN CopyIn(buffer, WriteOffset, data, 1, n)
    ELSE CopyIn(CopyIn(buffer, WriteOffset, data, 1, ToEnd(WriteOffset)),
                0, data, ToEnd(WriteOffset) + 1, n - ToEnd(WriteOffset))

Write == \E n \in Requests : \E data \in [1..n -> Bytes] :
    \/ /\ AvailableSize >= n
       /\ buffer' = Store(data, n)
       /\ size' = size + n
       /\ answer' = IF size + n >= HangLimit THEN Hung ELSE Wrote(data, TRUE)
       /\ UNCHANGED begin
    \/ /\ AvailableSize < n
       /\ answer' = Wrote(data, FALSE)
       /\ UNCHANGED <<buffer, begin, size>>

(* memcpy out of the ring: up to its end, then from its start.             *)
Load(n) ==
    IF ToEnd(begin) >= n THEN [i \in 1..n |-> buffer[begin + (i - 1)]]
    ELSE [i \in 1..n |-> IF i <= ToEnd(begin) THEN buffer[begin + (i - 1)]
                         ELSE buffer[i - 1 - ToEnd(begin)]]

Advanced(n) ==
    IF ToEnd(begin) >= n THEN (begin + n) % Capacity ELSE n - ToEnd(begin)

Read == \E n \in ReadRequests :
    \/ /\ size >= n
       /\ answer' = Got(n, TRUE, Load(n))
       /\ begin' = Advanced(n)
       /\ size' = size - n
       /\ UNCHANGED buffer
    \/ /\ size < n
       /\ answer' = Got(n, FALSE, <<>>)
       /\ UNCHANGED <<buffer, begin, size>>

Peek == \E n \in Requests :
    /\ answer' = IF size >= n THEN Peeked(n, TRUE, Load(n)) ELSE Peeked(n, FALSE, <<>>)
    /\ UNCHANGED <<buffer, begin, size>>

Discard == \E count \in Requests :
    LET n == IF count > size THEN size ELSE count
    IN  /\ begin' = (begin + n) % Capacity
        /\ size' = size - n
        /\ answer' = Discarded(count, n)
        /\ UNCHANGED buffer

Clear ==
    /\ begin' = 0
    /\ size' = 0
    /\ answer' = Cleared
    /\ UNCHANGED buffer

(* A caller that hangs in write() makes no further call.                   *)
Next ==
    /\ answer # Hung
    /\ Write \/ Read \/ Peek \/ Discard \/ Clear

Spec == Init /\ [][Next]_vars

-----------------------------------------------------------------------------
(* Both indices stay in the ring: no memcpy leaves it.                     *)
TypeOK ==
    /\ buffer \in [Slots -> Bytes]
    /\ begin \in Slots
    /\ size \in 0..Capacity

(* The bytes in the ring, from _begin around.                              *)
Contents == [i \in 1..size |-> buffer[(begin + (i - 1)) % Capacity]]

(* Whatever the position of the ring, its calls are those of a queue, as   *)
(* long as its capacity is below the size at which write() hangs.          *)
Queue == INSTANCE AbstractFifo WITH queue <- Contents
ImplementsQueue == Queue!Spec
=============================================================================
